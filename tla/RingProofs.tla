----------------------------- MODULE RingProofs -----------------------------
(***************************************************************************)
(* Proofs about the rings a lane is built on: the receive bitmap           *)
(* (ReceiverWindow), for every ring size, word size, window and set of     *)
(* arriving sequence numbers; the ring between two threads (SpscRing),     *)
(* for any capacity and any width of the counters that is a multiple of    *)
(* it; and the rings of a stream that is put together (Reassembly), for    *)
(* every length of the stream and every size of the ring.                  *)
(***************************************************************************)
EXTENDS ReceiverWindow, SpscRing, Reassembly, RingLemmas

Ranges == RingSize \in Nat \ {0} /\ Window \in 1 .. RingSize

(* What the assumptions say of the two sizes. *)
LEMMA ConstantRanges == Ranges
    BY RingAssumption, WindowAssumption DEF Ranges

(* slot() of any sequence number is a ring position. *)
LEMMA SlotType ==
    ASSUME NEW s \in Nat
    PROVE  Slot(s) \in Slots
    BY ConstantRanges, DivMod DEF Slot, Slots, Ranges

(* Within one lap from lo on, a slot belongs to one sequence number. *)
LEMMA SlotOwner ==
    ASSUME NEW lo \in Nat, NEW s \in lo .. lo + RingSize - 1,
           NEW t \in lo .. lo + RingSize - 1, Slot(s) = Slot(t)
    PROVE  s = t
    BY ConstantRanges, SlotSame, Zenon DEF Slot, Ranges

(* Every slot has an owner in each lap. *)
LEMMA SlotHasOwner ==
    ASSUME NEW lo \in Nat, NEW i \in Slots
    PROVE  \E s \in lo .. lo + RingSize - 1 : Slot(s) = i
    BY ConstantRanges, SlotCovers, Zenon DEF Slot, Slots, Ranges

(* What a call of on_receive that accepts s does to the base and the ring:
   the base stops at most one window on, at a block that is still missing,
   and the remaining bits are the old ones and s, above the new base. *)
LEMMA AcceptRing ==
    ASSUME TypeOK, RingInWindow, NEW s \in base .. base + Window - 1,
           ~ ring[Slot(s)], Accept(s)
    PROVE  \E n \in base .. base + Window, r \in [Slots -> BOOLEAN] :
              /\ base' = n
              /\ ring' = r
              /\ \A t \in base .. n - 1 : t = s \/ ring[Slot(t)]
              /\ \A t \in n .. base + Window - 1 : r[Slot(t)] <=> (t = s \/ ring[Slot(t)])
              /\ n < base + Window => ~ r[Slot(n)]
              /\ \A i \in Slots : r[i] =>
                    \E t \in n + 1 .. base + Window - 1 :
                       Slot(t) = i /\ (t = s \/ ring[Slot(t)])
<1> DEFINE ring1 == [ring EXCEPT ![Slot(s)] = TRUE]
<1>1. base \in Nat /\ s \in Nat /\ Ranges
    BY ConstantRanges DEF TypeOK, Ranges
<1>2. ring1 \in [Slots -> BOOLEAN] /\ ring1[Slot(s)] = TRUE
    BY <1>1, SlotType DEF TypeOK
<1>3. PICK n \in base .. base + RingSize :
         /\ SlidesTo(ring1, n)
         /\ base' = n
         /\ ring' = ClearPassed(ring1, n, FALSE)
    BY Zenon DEF Accept
<1> DEFINE r == ClearPassed(ring1, n, FALSE)
<1>4. \A t \in base .. base + RingSize - 1 : ring1[Slot(t)] <=> (t = s \/ ring[Slot(t)])
    <2> TAKE t \in base .. base + RingSize - 1
    <2>1. t \in Nat /\ s \in base .. base + RingSize - 1 /\ Slot(t) \in Slots /\ Slot(s) \in Slots
        BY <1>1, SlotType DEF Ranges
    <2>2. CASE t = s
        BY <1>2, <2>2
    <2>3. CASE t # s
        <3>1. Slot(t) # Slot(s)
            BY <1>1, <2>1, <2>3, SlotOwner
        <3> QED
            BY <2>1, <2>3, <3>1 DEF TypeOK
    <2> QED
        BY <2>2, <2>3
<1> HIDE DEF ring1
<1>5. \A t \in base + Window .. base + RingSize - 1 : ~ ring[Slot(t)]
    <2> SUFFICES ASSUME NEW t \in base + Window .. base + RingSize - 1, ring[Slot(t)]
                 PROVE  FALSE
        OBVIOUS
    <2>1. Slot(t) \in Slots
        BY <1>1, SlotType DEF Ranges
    <2>2. PICK u \in base + 1 .. base + Window - 1 : Slot(u) = Slot(t)
        BY <2>1 DEF RingInWindow
    <2> QED
        BY <1>1, <2>2, SlotOwner DEF Ranges
<1>6. n <= base + Window
    <2> SUFFICES ASSUME n > base + Window PROVE FALSE
        BY <1>1 DEF Ranges
    <2> DEFINE t == base + Window
    <2>1. t \in base .. n - 1 /\ t \in base + Window .. base + RingSize - 1 /\ t # s
        BY <1>1, <1>3 DEF Ranges
    <2>2. ring1[Slot(t)]
        BY <1>3, <2>1 DEF SlidesTo
    <2> QED
        BY <1>1, <1>4, <1>5, <2>1, <2>2 DEF Ranges
<1>7. \A t \in base .. n - 1 : t = s \/ ring[Slot(t)]
    BY <1>1, <1>3, <1>4 DEF SlidesTo, Ranges
<1>8. \A t \in n .. base + RingSize - 1 : r[Slot(t)] <=> ring1[Slot(t)]
    <2> SUFFICES ASSUME NEW t \in n .. base + RingSize - 1
                 PROVE  r[Slot(t)] <=> ring1[Slot(t)]
        BY Zenon
    <2>1. t \in Nat /\ n \in Nat /\ Slot(t) \in Slots
        BY <1>1, <1>3, SlotType DEF Ranges
    <2>2. ~ \E p \in base .. n - 1 : Slot(p) = Slot(t)
        <3> SUFFICES ASSUME NEW p \in base .. n - 1, Slot(p) = Slot(t) PROVE FALSE
            OBVIOUS
        <3>1. p \in base .. base + RingSize - 1 /\ t \in base .. base + RingSize - 1 /\ p # t
            BY <1>1, <1>3, <2>1 DEF Ranges
        <3> QED
            BY <1>1, <3>1, SlotOwner
    <2> QED
        BY <2>1, <2>2 DEF ClearPassed
<1>9. \A t \in n .. base + RingSize - 1 : r[Slot(t)] <=> (t = s \/ ring[Slot(t)])
    <2> SUFFICES ASSUME NEW t \in n .. base + RingSize - 1
                 PROVE  r[Slot(t)] <=> (t = s \/ ring[Slot(t)])
        BY Zenon
    <2>1. t \in base .. base + RingSize - 1
        BY <1>1 DEF Ranges
    <2> QED
        BY <1>4, <1>8, <2>1, Zenon
<1>10. n < base + Window => ~ r[Slot(n)]
    <2> SUFFICES ASSUME n < base + Window PROVE ~ r[Slot(n)]
        BY Zenon
    <2>1. n < base + RingSize /\ n \in n .. base + RingSize - 1
        BY <1>1 DEF Ranges
    <2>2. ~ ring1[Slot(n)]
        BY <1>3, <2>1 DEF SlidesTo
    <2> QED
        BY <1>8, <2>1, <2>2, Zenon
<1>11. \A i \in Slots : r[i] =>
          \E t \in n + 1 .. base + Window - 1 : Slot(t) = i /\ (t = s \/ ring[Slot(t)])
    <2> SUFFICES ASSUME NEW i \in Slots, r[i]
                 PROVE  \E t \in n + 1 .. base + Window - 1 :
                           Slot(t) = i /\ (t = s \/ ring[Slot(t)])
        BY Zenon
    <2>1. PICK t \in base .. base + RingSize - 1 : Slot(t) = i
        BY <1>1, SlotHasOwner
    <2>2. t >= n
        BY <1>1, <1>3, <2>1 DEF ClearPassed
    <2>3. t = s \/ ring[Slot(t)]
        <3>1. t \in n .. base + RingSize - 1
            BY <1>1, <2>1, <2>2
        <3> QED
            BY <1>9, <2>1, <3>1, Zenon
    <2>4. t < base + Window
        BY <1>1, <1>5, <2>1, <2>3 DEF Ranges
    <2>5. t # n
        BY <1>10, <2>1, <2>4, Zenon
    <2>6. t \in n + 1 .. base + Window - 1
        BY <1>1, <2>2, <2>4, <2>5 DEF Ranges
    <2> QED
        BY <2>1, <2>3, <2>6
<1>12. r \in [Slots -> BOOLEAN]
    BY <1>2, <1>3, Zenon DEF ClearPassed
<1>13. base' = n /\ n \in base .. base + Window
    BY <1>1, <1>3, <1>6 DEF Ranges
<1>14. base' = n /\ ring' = r
    BY <1>3
<1> HIDE DEF r
<1>15. \A t \in n .. base + Window - 1 : r[Slot(t)] <=> (t = s \/ ring[Slot(t)])
    BY <1>1, <1>9 DEF Ranges
<1> QED
    BY <1>7, <1>10, <1>11, <1>12, <1>13, <1>14, <1>15

(* What accepting s does to the remaining fields. *)
LEMMA AcceptOthers ==
    ASSUME TypeOK, NEW s \in Nat, Accept(s)
    PROVE  /\ highest' = (IF ~ haveAny \/ s > highest THEN s ELSE highest)
           /\ haveAny' = TRUE
           /\ now' = now
           /\ firstMissing' \in [Slots -> 0 .. now]
           /\ lastNack' \in [Slots -> 0 .. now]
           /\ out' \in [kind : Kinds, base : Nat, seqs : SUBSET Nat]
<1> DEFINE first1 == IF ~ haveAny \/ s > highest THEN StampGaps(s) ELSE firstMissing
<1>1. first1 \in [Slots -> 0 .. now]
    BY DEF TypeOK, StampGaps
<1>2. PICK n \in base .. base + RingSize :
         /\ firstMissing' = ClearPassed(first1, n, 0)
         /\ lastNack' = ClearPassed(lastNack, n, 0)
    BY DEF Accept
<1> HIDE DEF first1
<1>3. firstMissing' \in [Slots -> 0 .. now] /\ lastNack' \in [Slots -> 0 .. now]
    BY <1>1, <1>2 DEF ClearPassed, TypeOK
<1>4. out' \in [kind : Kinds, base : Nat, seqs : SUBSET Nat]
    BY DEF Accept, Kinds
<1> QED
    BY <1>3, <1>4 DEF Accept

RingInv == TypeOK /\ RingInWindow

(* A fresh stream satisfies the ring invariant. *)
LEMMA WindowInit == Init => RingInv
<1> SUFFICES ASSUME Init PROVE RingInv
    OBVIOUS
<1>1. TypeOK
    <2>1. /\ ring \in [Slots -> BOOLEAN]
          /\ firstMissing \in [Slots -> 0 .. now]
          /\ lastNack \in [Slots -> 0 .. now]
        BY DEF Init
    <2>2. out \in [kind : Kinds, base : Nat, seqs : SUBSET Nat]
        BY DEF Init, Kinds
    <2>3. base \in Nat /\ highest \in Nat /\ now \in Nat \ {0}
        BY DEF Init
    <2>4. haveAny \in BOOLEAN
        BY Zenon DEF Init
    <2> QED
        BY <2>1, <2>2, <2>3, <2>4 DEF TypeOK
<1>2. RingInWindow
    <2>1. \A s \in base .. base + Window - 1 : ~ ring[Slot(s)]
        BY SlotType, ConstantRanges DEF Init, Ranges
    <2> QED
        BY <2>1, ConstantRanges, Zenon DEF Init, RingInWindow
<1> QED
    BY <1>1, <1>2 DEF RingInv

(* Every call preserves the ring invariant. *)
LEMMA RingStep == RingInv /\ [Next]_vars => RingInv'
<1> SUFFICES ASSUME RingInv, [Next]_vars PROVE RingInv'
    OBVIOUS
<1> USE DEF RingInv
<1>1. ASSUME NEW s \in SeqNos, s \in base .. base + Window - 1, ~ ring[Slot(s)], Accept(s)
      PROVE  RingInv'
    <2> DEFINE h == IF ~ haveAny \/ s > highest THEN s ELSE highest
    <2>1. PICK n \in base .. base + Window, r \in [Slots -> BOOLEAN] :
             /\ base' = n
             /\ ring' = r
             /\ \A t \in base .. n - 1 : t = s \/ ring[Slot(t)]
             /\ \A t \in n .. base + Window - 1 : r[Slot(t)] <=> (t = s \/ ring[Slot(t)])
             /\ n < base + Window => ~ r[Slot(n)]
             /\ \A i \in Slots : r[i] =>
                   \E t \in n + 1 .. base + Window - 1 :
                      Slot(t) = i /\ (t = s \/ ring[Slot(t)])
        BY <1>1, AcceptRing
    <2>2. /\ highest' = h
          /\ haveAny' = TRUE
          /\ now' = now
          /\ firstMissing' \in [Slots -> 0 .. now]
          /\ lastNack' \in [Slots -> 0 .. now]
          /\ out' \in [kind : Kinds, base : Nat, seqs : SUBSET Nat]
        BY <1>1, AcceptOthers, InputAssumption, Zenon
    <2>3. /\ base \in Nat /\ n \in Nat /\ s \in Nat /\ highest \in Nat
          /\ Window \in Nat /\ RingSize \in Nat /\ 1 <= Window /\ Window <= RingSize
          /\ base <= n /\ n <= base + Window /\ base <= s /\ s < base + Window
        BY <1>1, ConstantRanges DEF TypeOK, Ranges
    <2>4. /\ h \in Nat /\ s <= h /\ h < base + Window /\ (haveAny => highest <= h)
          /\ h = s \/ ring[Slot(h)]
        BY <1>1, <2>3 DEF RingInWindow
    <2> HIDE DEF h
    <2>5. TypeOK'
        BY <2>1, <2>2, <2>3, <2>4 DEF TypeOK
    <2>6. \A t \in base .. base + Window - 1 : (t = s \/ ring[Slot(t)]) => t <= h
        BY <2>3, <2>4 DEF RingInWindow
    <2>7. \A i \in Slots : r[i] => \E t \in n + 1 .. n + Window - 1 : Slot(t) = i
        <3> SUFFICES ASSUME NEW i \in Slots, r[i]
                     PROVE  \E t \in n + 1 .. n + Window - 1 : Slot(t) = i
            OBVIOUS
        <3>1. PICK t \in n + 1 .. base + Window - 1 : Slot(t) = i
            BY <2>1
        <3>2. t \in n + 1 .. n + Window - 1
            BY <2>3
        <3> QED
            BY <3>1, <3>2
    <2>8. \A t \in n .. n + Window - 1 : r[Slot(t)] => t <= h
        <3> SUFFICES ASSUME NEW t \in n .. n + Window - 1, r[Slot(t)]
                     PROVE  t <= h
            OBVIOUS
        <3>1. Slot(t) \in Slots
            BY <2>3, SlotType
        <3>2. PICK u \in n + 1 .. base + Window - 1 :
                  Slot(u) = Slot(t) /\ (u = s \/ ring[Slot(u)])
            BY <2>1, <3>1
        <3>3. /\ u \in n .. n + RingSize - 1 /\ t \in n .. n + RingSize - 1
              /\ u \in base .. base + Window - 1
            BY <2>3
        <3>4. u = t
            BY <2>3, <3>2, <3>3, SlotOwner
        <3> QED
            BY <2>6, <3>2, <3>3, <3>4
    <2>9. n = h + 1 \/ (h \in n + 1 .. n + Window - 1 /\ r[Slot(h)])
        <3>1. n <= h + 1
            <4>1. CASE n = base
                BY <2>3, <2>4, <4>1
            <4>2. CASE n # base
                <5>1. n - 1 \in base .. n - 1 /\ n - 1 \in base .. base + Window - 1
                    BY <2>3, <4>2
                <5>2. n - 1 <= h
                    BY <2>1, <2>6, <5>1
                <5> QED
                    BY <2>3, <2>4, <5>2
            <4> QED
                BY <4>1, <4>2
        <3>2. CASE n <= h
            <4>1. h \in n .. base + Window - 1 /\ n < base + Window
                BY <2>3, <2>4, <3>2
            <4>2. r[Slot(h)] /\ ~ r[Slot(n)]
                BY <2>1, <2>4, <4>1
            <4>3. h # n
                BY <4>2
            <4>4. h \in n + 1 .. n + Window - 1
                BY <2>3, <4>1, <4>3
            <4> QED
                BY <4>2, <4>4
        <3> QED
            BY <2>3, <2>4, <3>1, <3>2
    <2>10. RingInWindow'
        BY <2>1, <2>2, <2>7, <2>8, <2>9 DEF RingInWindow, Slot, Slots
    <2> QED
        BY <2>5, <2>10
<1>2. ASSUME NEW s \in SeqNos, NEW kind \in Kinds, Reject(s, kind)
      PROVE  RingInv'
    BY <1>2 DEF Reject, TypeOK, RingInWindow, Slot, Slots
<1>3. CASE BuildAck
    BY <1>3 DEF BuildAck, TypeOK, RingInWindow, Received, Slots, Slot, Kinds
<1>4. ASSUME NEW reorder \in ReorderDelays, NEW renack \in RenackIntervals,
             CollectNacks(reorder, renack)
      PROVE  RingInv'
    <2>1. lastNack' \in [Slots -> 0 .. now]
        BY <1>4 DEF CollectNacks, TypeOK
    <2>2. out' \in [kind : Kinds, base : Nat, seqs : SUBSET Nat]
        BY <1>4 DEF CollectNacks, TypeOK, Due, Slots, Kinds
    <2> QED
        BY <1>4, <2>1, <2>2 DEF CollectNacks, TypeOK, RingInWindow, Slots, Slot
<1>5. CASE Tick
    BY <1>5 DEF Tick, TypeOK, RingInWindow, Slots, Slot
<1>6. CASE UNCHANGED vars
    BY <1>6 DEF vars, TypeOK, RingInWindow, Slots, Slot
<1>7. ASSUME NEW s \in SeqNos, Receive(s)
      PROVE  RingInv'
    BY <1>1, <1>2, <1>7 DEF Receive, Kinds
<1> QED
    BY <1>3, <1>4, <1>5, <1>6, <1>7 DEF Next

(* The bits of ReceiverStream's ring never alias: each set bit is one block
   of the current window, for any number of laps.  This is the comment
   receiver.hpp makes about ring_. *)
THEOREM RingNeverAliases == Spec => [](TypeOK /\ RingInWindow)
<1>1. Spec => []RingInv
    BY WindowInit, RingStep, PTL DEF Spec
<1> QED
    BY <1>1, PTL DEF RingInv

-----------------------------------------------------------------------------

(* relative_word reads the right ring bit: bit b of word w is the bit of
   sequence number base + WordBits * w + b, across word boundaries and the
   end of the ring. *)
LEMMA RelativeBitCorrect ==
    ASSUME TypeOK, NEW w \in Nat, NEW b \in 0 .. WordBits - 1
    PROVE  RelativeBit(w, b) <=>
              WordBits * w + b < Window /\ ring[Slot(base + WordBits * w + b)]
<1> DEFINE x == base + WordBits * w
           start == Slot(x)
           q == start \div WordBits
           r == start % WordBits
<1>1. /\ WordBits \in Nat \ {0} /\ RingSize \in Nat \ {0} /\ base \in Nat /\ b \in Nat
      /\ b < WordBits
    BY RingAssumption DEF TypeOK
<1>2. WordBits * w \in Nat
    BY <1>1
<1>3. x \in Nat
    BY <1>1, <1>2
<1> HIDE DEF x
<1>4. start \in 0 .. RingSize - 1
    BY <1>3, SlotType DEF Slots
<1>5. start = x % RingSize
    BY DEF Slot
<1> HIDE DEF start
<1>6. q \in Nat /\ r \in 0 .. (WordBits - 1) /\ start = WordBits * q + r
    <2>1. start \in Nat /\ WordBits \in Nat \ {0}
        BY <1>1, <1>4
    <2> QED
        BY <2>1, DivMod, Zenon
<1>7. Words \in Nat /\ RingSize = WordBits * Words
    BY RingAssumption, DivMod DEF Words
<1> HIDE DEF q, r
<1>8. q < Words
    <2> SUFFICES ASSUME Words <= q PROVE FALSE
        BY <1>6, <1>7
    <2>1. CASE Words = q
        BY <1>1, <1>4, <1>6, <1>7, <2>1
    <2>2. CASE Words < q
        <3>1. WordBits * Words + WordBits <= WordBits * q
            BY <1>1, <1>6, <1>7, <2>2, MultipleGap
        <3> QED
            BY <1>1, <1>4, <1>6, <1>7, <3>1
    <2> QED
        BY <1>6, <1>7, <2>1, <2>2
<1> DEFINE wq == WordBits * q
           bit == IF r + b < WordBits
                  THEN q * WordBits + (r + b)
                  ELSE ((q + 1) % Words) * WordBits + (r + b - WordBits)
<1>9. wq \in Nat /\ wq + WordBits <= RingSize /\ start = wq + r /\ q * WordBits = wq
    <2>1. WordBits * q + WordBits <= WordBits * Words
        BY <1>1, <1>6, <1>7, <1>8, MultipleGap
    <2>2. wq \in Nat /\ q * WordBits = wq
        BY <1>1, <1>6
    <2> QED
        BY <1>6, <1>7, <2>1, <2>2
<1>10. Slot(x + b) = bit
    <2>1. CASE r + b < WordBits
        <3> HIDE DEF wq
        <3>1. (x % RingSize) + b < RingSize
            BY <1>1, <1>5, <1>6, <1>9, <2>1
        <3>2. (x + b) % RingSize = start + b
            BY <1>1, <1>3, <1>5, <3>1, ModPlus, Zenon
        <3> QED
            BY <1>1, <1>6, <1>9, <2>1, <3>2 DEF Slot
    <2>2. CASE ~ (r + b < WordBits) /\ q + 1 < Words
        <3>1. WordBits * (q + 1) + WordBits <= WordBits * Words /\ WordBits * (q + 1) = wq + WordBits
            BY <1>1, <1>6, <1>7, <2>2, MultipleGap
        <3>2. (q + 1) % Words = q + 1
            <4>1. q + 1 = Words * 0 + (q + 1) /\ q + 1 \in 0 .. (Words - 1) /\ Words \in Nat \ {0}
                BY <1>6, <1>7, <2>2
            <4> QED
                BY <4>1, ModUnique
        <3>3. (q + 1) * WordBits = wq + WordBits
            BY <1>1, <1>6
        <3> HIDE DEF wq
        <3>4. (x % RingSize) + b < RingSize
            BY <1>1, <1>5, <1>6, <1>7, <1>9, <2>2, <3>1
        <3>5. (x + b) % RingSize = start + b
            BY <1>1, <1>3, <1>5, <3>4, ModPlus, Zenon
        <3> QED
            BY <1>1, <1>6, <1>9, <2>2, <3>2, <3>3, <3>5 DEF Slot
    <2>3. CASE ~ (r + b < WordBits) /\ q + 1 = Words
        <3>1. (q + 1) % Words = 0
            <4>1. q + 1 = Words * 1 + 0 /\ q + 1 \in Nat /\ 0 \in 0 .. (Words - 1) /\ Words \in Nat \ {0}
                BY <1>6, <1>7, <2>3
            <4> QED
                BY <4>1, ModUnique
        <3>2. wq + WordBits = RingSize
            BY <1>1, <1>6, <1>7, <2>3
        <3> HIDE DEF wq
        <3>3. RingSize <= (x % RingSize) + b /\ (x % RingSize) + b < 2 * RingSize
            BY <1>1, <1>4, <1>5, <1>6, <1>9, <2>3, <3>2
        <3>4. (x + b) % RingSize = start + b - RingSize
            BY <1>1, <1>3, <1>5, <3>3, ModWrap, Zenon
        <3>5. start + b - RingSize = r + b - WordBits
            BY <1>1, <1>6, <1>9, <3>2
        <3> QED
            BY <1>1, <1>6, <2>3, <3>1, <3>4, <3>5 DEF Slot
    <2> QED
        BY <1>6, <1>7, <1>8, <2>1, <2>2, <2>3
<1>11. RelativeBit(w, b) <=> WordBits * w + b < Window /\ ring[bit]
    BY DEF RelativeBit, bit, q, r, start, x
<1> HIDE DEF bit
<1>12. ring[Slot(x + b)] <=> ring[bit]
    BY <1>10
<1> QED
    BY <1>11, <1>12 DEF x

(* The words of an ACK together are the window part of the ring. *)
LEMMA ReceivedCorrect ==
    ASSUME TypeOK, NEW p \in Slots
    PROVE  p \in Received <=> p < Window /\ ring[Slot(base + p)]
<1> DEFINE w == p \div WordBits
           b == p % WordBits
<1>1. p \in Nat /\ WordBits \in Nat \ {0} /\ base \in Nat
    BY RingAssumption DEF Slots, TypeOK
<1>2. w \in Nat /\ b \in 0 .. WordBits - 1 /\ p = WordBits * w + b
    BY <1>1, DivMod, Zenon
<1>3. p \in Received <=> RelativeBit(w, b)
    BY DEF Received
<1> HIDE DEF w, b
<1>4. RelativeBit(w, b) <=> WordBits * w + b < Window /\ ring[Slot(base + WordBits * w + b)]
    BY <1>2, RelativeBitCorrect
<1>5. WordBits * w \in Nat
    BY <1>1, <1>2
<1>6. base + WordBits * w + b = base + p
    BY <1>1, <1>2, <1>5
<1> QED
    BY <1>2, <1>3, <1>4, <1>6

(* The base is the first block not accepted. *)
LEMMA BaseMissing ==
    ASSUME RingInv
    PROVE  ~ ring[Slot(base)] /\ base \notin Accepted
<1>1. base \in Nat /\ Window \in Nat /\ RingSize \in Nat /\ 1 <= Window /\ Window <= RingSize
    BY ConstantRanges DEF RingInv, TypeOK, Ranges
<1>2. ~ ring[Slot(base)]
    <2> SUFFICES ASSUME ring[Slot(base)] PROVE FALSE
        OBVIOUS
    <2>1. PICK t \in base + 1 .. base + Window - 1 : Slot(t) = Slot(base)
        BY <1>1, SlotType DEF RingInv, RingInWindow
    <2>2. t \in base .. base + RingSize - 1 /\ base \in base .. base + RingSize - 1
        BY <1>1
    <2>3. t = base
        BY <1>1, <2>1, <2>2, SlotOwner
    <2> QED
        BY <1>1, <2>3
<1> QED
    BY <1>1, <1>2 DEF Accepted

(* Membership in the accepted set, for blocks at or above the base. *)
LEMMA AcceptedAbove ==
    ASSUME RingInv, NEW t \in Nat, t >= base
    PROVE  t \in Accepted <=> t < base + Window /\ ring[Slot(t)]
    BY ConstantRanges DEF Accepted, RingInv, TypeOK, Ranges

(* Accepting a block adds it to the accepted set, whose first gap is the new
   base. *)
LEMMA AcceptAddsOne ==
    ASSUME RingInv, NEW s \in Nat, s \in base .. base + Window - 1,
           ~ ring[Slot(s)], Accept(s)
    PROVE  \E n \in base .. base + Window :
              /\ base' = n
              /\ Accepted' = Accepted \cup {s}
              /\ \A t \in base .. n - 1 : t \in Accepted \cup {s}
              /\ n \notin Accepted \cup {s}
<1>1. PICK n \in base .. base + Window, r \in [Slots -> BOOLEAN] :
         /\ base' = n
         /\ ring' = r
         /\ \A t \in base .. n - 1 : t = s \/ ring[Slot(t)]
         /\ \A t \in n .. base + Window - 1 : r[Slot(t)] <=> (t = s \/ ring[Slot(t)])
         /\ n < base + Window => ~ r[Slot(n)]
         /\ \A i \in Slots : r[i] =>
               \E t \in n + 1 .. base + Window - 1 :
                  Slot(t) = i /\ (t = s \/ ring[Slot(t)])
    BY AcceptRing DEF RingInv
<1>2. /\ base \in Nat /\ n \in Nat /\ Window \in Nat /\ RingSize \in Nat
      /\ 1 <= Window /\ Window <= RingSize /\ base <= n /\ n <= base + Window
    BY ConstantRanges DEF RingInv, TypeOK, Ranges
<1> DEFINE A1 == (0 .. n - 1) \cup {t \in n .. n + Window - 1 : r[Slot(t)]}
<1>3. Accepted' = A1
    BY <1>1 DEF Accepted, Slot
<1>4. \A t \in base .. n - 1 : t \in Accepted \cup {s}
    <2> TAKE t \in base .. n - 1
    <2>1. t \in Nat /\ t >= base /\ t < base + Window
        BY <1>2
    <2> QED
        BY <1>1, <2>1, AcceptedAbove
<1>5. \A t \in Nat : t >= n => (t \in A1 <=> t \in Accepted \cup {s})
    <2> SUFFICES ASSUME NEW t \in Nat, t >= n
                 PROVE  t \in A1 <=> t \in Accepted \cup {s}
        OBVIOUS
    <2>1. t \in A1 <=> t \in n .. n + Window - 1 /\ r[Slot(t)]
        BY <1>2
    <2>2. t \in Accepted \cup {s} <=> t < base + Window /\ (t = s \/ ring[Slot(t)])
        BY <1>2, AcceptedAbove
    <2>3. CASE t < base + Window
        BY <1>1, <1>2, <2>1, <2>2, <2>3
    <2>4. CASE t >= base + Window
        <3> SUFFICES ASSUME t \in n .. n + Window - 1, r[Slot(t)] PROVE FALSE
            BY <1>2, <2>1, <2>2, <2>4
        <3>1. PICK u \in n + 1 .. base + Window - 1 : Slot(u) = Slot(t)
            BY <1>1, SlotType
        <3>2. u \in n .. n + RingSize - 1 /\ t \in n .. n + RingSize - 1
            BY <1>2
        <3>3. u = t
            BY <1>2, <3>1, <3>2, SlotOwner
        <3> QED
            BY <1>2, <2>4, <3>3
    <2> QED
        BY <1>2, <2>3, <2>4
<1>6. A1 = Accepted \cup {s}
    <2>1. \A t \in Nat : t < n => t \in A1
        BY <1>2
    <2>2. \A t \in Nat : t < n => t \in Accepted \cup {s}
        <3> SUFFICES ASSUME NEW t \in Nat, t < n PROVE t \in Accepted \cup {s}
            OBVIOUS
        <3>1. CASE t < base
            BY <1>2, <3>1 DEF Accepted
        <3>2. CASE t >= base
            BY <1>2, <1>4, <3>2
        <3> QED
            BY <1>2, <3>1, <3>2
    <2>3. A1 \subseteq Nat /\ Accepted \cup {s} \subseteq Nat
        BY <1>2 DEF Accepted
    <2> HIDE DEF A1
    <2>4. \A t \in Nat : t \in A1 <=> t \in Accepted \cup {s}
        BY <1>2, <1>5, <2>1, <2>2
    <2> QED
        BY <2>3, <2>4, Zenon
<1>7. n \notin A1
    <2>1. CASE n < base + Window
        BY <1>1, <1>2, <2>1
    <2>2. CASE n = base + Window
        <3> SUFFICES ASSUME r[Slot(n)] PROVE FALSE
            BY <1>2
        <3>1. \E u \in n + 1 .. base + Window - 1 : Slot(u) = Slot(n)
            BY <1>1, <1>2, SlotType
        <3> QED
            BY <1>2, <2>2, <3>1
    <2> QED
        BY <1>2, <2>1, <2>2
<1> HIDE DEF A1
<1>8. n \notin Accepted \cup {s}
    BY <1>6, <1>7
<1>9. base' = n /\ Accepted' = Accepted \cup {s}
    BY <1>1, <1>3, <1>6
<1> QED
    BY <1>4, <1>8, <1>9

(* A fresh stream is a fresh abstract window. *)
LEMMA InitRefines == Init => Abstract!Init
<1> SUFFICES ASSUME Init PROVE Abstract!Init
    OBVIOUS
<1>1. Accepted = {}
    <2>1. \A t \in base .. base + Window - 1 : ~ ring[Slot(t)]
        BY SlotType, ConstantRanges DEF Init, Ranges
    <2>2. 0 .. base - 1 = {}
        BY DEF Init
    <2>3. {t \in base .. base + Window - 1 : ring[Slot(t)]} = {}
        BY <2>1
    <2> QED
        BY <2>2, <2>3 DEF Accepted
<1> QED
    BY <1>1 DEF Init, Abstract!Init, Abstract!NoOutput

(* A rejected block is rejected for the reason the abstract window gives. *)
LEMMA RejectRefines ==
    ASSUME RingInv, NEW s \in SeqNos, NEW kind, Reject(s, kind), Abstract!Classify(s) = kind,
           kind # "Accepted"
    PROVE  Abstract!Receive(s)
<1>1. Accepted' = Accepted /\ base' = base
    BY DEF Reject, Accepted, Slot
<1>2. base \in base .. base + Window /\ \A p \in base .. base - 1 : p \in Accepted
    BY ConstantRanges DEF RingInv, TypeOK, Ranges
<1>3. base \notin Accepted
    BY BaseMissing
<1> QED
    BY <1>1, <1>2, <1>3 DEF Abstract!Receive, Reject

(* Every call of the ring implementation is a call of the abstract window. *)
LEMMA StepRefines == RingInv /\ [Next]_vars => [Abstract!Next]_(Abstract!vars)
<1> SUFFICES ASSUME RingInv, [Next]_vars PROVE Abstract!Next \/ UNCHANGED Abstract!vars
    OBVIOUS
<1>1. /\ base \in Nat /\ Window \in Nat /\ RingSize \in Nat /\ 1 <= Window
      /\ Window <= RingSize /\ SeqNos \subseteq Nat
    BY ConstantRanges, InputAssumption DEF RingInv, TypeOK, Ranges
<1>2. ASSUME NEW s \in SeqNos, Receive(s)
      PROVE  Abstract!Receive(s)
    <2>1. CASE s < base /\ Reject(s, "Duplicate")
        <3>1. s \in Accepted
            BY <1>1, <2>1 DEF Accepted
        <3> QED
            BY <2>1, <3>1, RejectRefines DEF Abstract!Classify
    <2>2. CASE s >= base + Window /\ Reject(s, "OutOfWindow")
        <3>1. s \notin Accepted
            BY <1>1, <2>2, AcceptedAbove
        <3> QED
            BY <2>2, <3>1, RejectRefines DEF Abstract!Classify
    <2>3. CASE s \in base .. base + Window - 1 /\ ring[Slot(s)] /\ Reject(s, "Duplicate")
        <3>1. s \in Accepted
            BY <1>1, <2>3 DEF Accepted
        <3> QED
            BY <2>3, <3>1, RejectRefines DEF Abstract!Classify
    <2>4. CASE s \in base .. base + Window - 1 /\ ~ ring[Slot(s)] /\ Accept(s)
        <3>1. s \in Nat /\ s \notin Accepted /\ ~ (s >= base + Window)
            BY <1>1, <2>4, AcceptedAbove
        <3>2. PICK n \in base .. base + Window :
                 /\ base' = n
                 /\ Accepted' = Accepted \cup {s}
                 /\ \A t \in base .. n - 1 : t \in Accepted \cup {s}
                 /\ n \notin Accepted \cup {s}
            BY <2>4, <3>1, AcceptAddsOne
        <3>3. Abstract!Classify(s) = "Accepted"
            BY <3>1 DEF Abstract!Classify
        <3>4. out' = [kind |-> "Accepted", base |-> 0, seqs |-> {}]
            BY <2>4 DEF Accept
        <3> QED
            BY <3>2, <3>3, <3>4 DEF Abstract!Receive
    <2> QED
        BY <1>2, <2>1, <2>2, <2>3, <2>4 DEF Receive
<1>3. CASE BuildAck
    <2>1. {base + p : p \in Received} = {t \in Accepted : t > base}
        <3>1. ASSUME NEW p \in Received PROVE base + p \in Accepted /\ base + p > base
            <4>1. p \in Slots /\ p \in Nat /\ base + p \in Nat
                BY <1>1 DEF Received, Slots
            <4>2. p < Window /\ ring[Slot(base + p)]
                BY <4>1, ReceivedCorrect DEF RingInv
            <4>3. p # 0
                BY <1>1, <4>2, BaseMissing
            <4> QED
                BY <1>1, <4>1, <4>2, <4>3, AcceptedAbove
        <3>2. ASSUME NEW t \in Accepted, t > base PROVE \E p \in Received : t = base + p
            <4>1. t \in Nat
                BY <1>1 DEF Accepted
            <4>2. t < base + Window /\ ring[Slot(t)]
                BY <1>1, <3>2, <4>1, AcceptedAbove
            <4>3. t - base \in Slots /\ t - base < Window /\ base + (t - base) = t
                BY <1>1, <3>2, <4>1, <4>2 DEF Slots
            <4>4. t - base \in Received
                BY <4>2, <4>3, ReceivedCorrect DEF RingInv
            <4> QED
                BY <4>3, <4>4
        <3> QED
            BY <3>1, <3>2
    <2>2. Accepted' = Accepted
        BY <1>3 DEF BuildAck, Accepted, Slot
    <2> QED
        <3>1. out' = [kind |-> "Ack", base |-> base, seqs |-> {t \in Accepted : t > base}]
            BY <1>3, <2>1 DEF BuildAck
        <3>2. base' = base
            BY <1>3 DEF BuildAck
        <3>3. Abstract!BuildAck
            BY <2>2, <3>1, <3>2 DEF Abstract!BuildAck
        <3> QED
            BY <3>3 DEF Abstract!Next
<1>4. ASSUME NEW reorder \in ReorderDelays, NEW renack \in RenackIntervals,
             CollectNacks(reorder, renack)
      PROVE  Abstract!CollectNacks
    <2> DEFINE due == Due(reorder, renack)
    <2>1. ASSUME NEW p \in due PROVE base + p \in Abstract!Gaps
        <3>1. /\ p \in Slots /\ p \in Nat /\ base + p \in Nat /\ p \notin Received
              /\ haveAny /\ highest >= base /\ base + p <= highest
            BY <1>1 DEF Due, Slots
        <3>2. /\ highest \in Nat
              /\ highest \in base + 1 .. base + Window - 1 /\ ring[Slot(highest)]
            BY <1>1, <3>1 DEF RingInv, RingInWindow, TypeOK
        <3>3. highest \in Accepted /\ p < Window
            BY <1>1, <3>1, <3>2, AcceptedAbove
        <3>4. ~ ring[Slot(base + p)]
            BY <3>1, <3>3, ReceivedCorrect DEF RingInv
        <3>5. base + p \notin Accepted
            BY <1>1, <3>1, <3>4, AcceptedAbove
        <3>6. highest > base + p
            BY <1>1, <3>1, <3>2, <3>3, <3>5
        <3>7. base + p \in base .. base + Window
            BY <1>1, <3>1, <3>3
        <3> QED
            BY <3>3, <3>5, <3>6, <3>7 DEF Abstract!Gaps
    <2>2. {base + p : p \in due} \subseteq Abstract!Gaps
        BY <2>1
    <2>3. Accepted' = Accepted
        BY <1>4 DEF CollectNacks, Accepted, Slot
    <2> QED
        BY <1>4, <2>2, <2>3 DEF CollectNacks, Abstract!CollectNacks
<1>5. CASE Tick
    BY <1>5 DEF Tick, Abstract!vars, Accepted, Slot
<1>6. CASE UNCHANGED vars
    BY <1>6 DEF vars, Abstract!vars, Accepted, Slot
<1> QED
    BY <1>2, <1>3, <1>4, <1>5, <1>6 DEF Next, Abstract!Next

(* ReceiverStream implements the abstract acknowledgement window, for every
   window up to the ring size, every word size that divides it, and any
   arrival order: blocks are accepted once, ACKs report exactly the accepted
   blocks, NACKs name only missing ones. *)
THEOREM RingImplementsWindow == Spec => ImplementsAckWindow
<1>1. Spec => []RingInv
    BY WindowInit, RingStep, PTL DEF Spec
<1> QED
    BY <1>1, InitRefines, StepRefines, PTL DEF Spec, ImplementsAckWindow, Abstract!Spec

-----------------------------------------------------------------------------

(* The timers of position p, of a block with sequence number p. *)
TimersOf(p, any, top, bits, first, last) ==
    LET i == Slot(p)
    IN  IF any /\ p <= top
        THEN (~ bits[i] => first[i] # 0) /\ (last[i] # 0 => first[i] # 0)
        ELSE first[i] = 0 /\ last[i] = 0

(* GapTimers, one window position at a time. *)
LEMMA GapTimersByPosition ==
    GapTimers <=> \A p \in base .. base + RingSize - 1 :
                     TimersOf(p, haveAny, highest, ring, firstMissing, lastNack)
    BY DEF GapTimers, TimersOf

(* Accepting a block times the gaps it exposes and cleans the positions it
   delivers. *)
LEMMA AcceptTimers ==
    ASSUME RingInv, GapTimers, NEW s \in Nat, s \in base .. base + Window - 1,
           ~ ring[Slot(s)], Accept(s)
    PROVE  GapTimers'
<1> DEFINE newest == ~ haveAny \/ s > highest
           h == IF newest THEN s ELSE highest
           ring1 == [ring EXCEPT ![Slot(s)] = TRUE]
           first1 == IF newest THEN StampGaps(s) ELSE firstMissing
           from == IF haveAny /\ highest + 1 > base THEN highest + 1 ELSE base
<1>1. PICK n \in base .. base + RingSize :
         /\ base' = n
         /\ ring' = ClearPassed(ring1, n, FALSE)
         /\ firstMissing' = ClearPassed(first1, n, 0)
         /\ lastNack' = ClearPassed(lastNack, n, 0)
    BY Zenon DEF Accept
<1> DEFINE r == ClearPassed(ring1, n, FALSE)
           f == ClearPassed(first1, n, 0)
           l == ClearPassed(lastNack, n, 0)
<1>2. haveAny' = TRUE /\ highest' = h /\ ring' = r /\ firstMissing' = f /\ lastNack' = l
    BY <1>1 DEF Accept
<1>3. /\ base \in Nat /\ n \in Nat /\ base <= n /\ n <= base + RingSize
      /\ Window \in Nat /\ RingSize \in Nat /\ 1 <= Window /\ Window <= RingSize
      /\ base <= s /\ s < base + Window /\ highest \in Nat
    BY ConstantRanges DEF RingInv, TypeOK, Ranges
<1>4. now # 0 /\ now \in Nat
    BY DEF RingInv, TypeOK
<1>5. h \in Nat /\ s <= h /\ h < base + Window
    BY <1>3 DEF RingInv, RingInWindow
<1>6. ASSUME NEW p \in n .. n + RingSize - 1
      PROVE  TimersOf(p, TRUE, h, r, f, l)
    <2> DEFINE i == Slot(p)
    <2>1. p \in Nat /\ i \in Slots
        BY <1>3, SlotType
    <2>2. CASE p >= base + RingSize
        <3>1. PICK t \in base .. base + RingSize - 1 : Slot(t) = i
            BY <1>3, <2>1, SlotHasOwner, Zenon
        <3>2. t + RingSize <= p
            <4>1. t \in Nat /\ t < p /\ RingSize \in Nat \ {0}
                BY <1>3, <2>1, <2>2
            <4>2. t % RingSize = p % RingSize
                BY <3>1 DEF Slot
            <4> QED
                BY <2>1, <4>1, <4>2, SlotInjective
        <3>3. t \in base .. n - 1
            BY <1>3, <2>1, <3>2
        <3>4. f[i] = 0 /\ l[i] = 0
            BY <2>1, <3>1, <3>3 DEF ClearPassed
        <3>5. ~ (p <= h)
            BY <1>3, <1>5, <2>1, <2>2
        <3> QED
            BY <3>4, <3>5, Zenon DEF TimersOf
    <2>3. CASE p < base + RingSize
        <3>1. p \in base .. base + RingSize - 1
            BY <1>3, <2>1, <2>3
        <3>2. ~ \E t \in base .. n - 1 : Slot(t) = i
            <4> SUFFICES ASSUME NEW t \in base .. n - 1, Slot(t) = i PROVE FALSE
                OBVIOUS
            <4>1. t \in base .. base + RingSize - 1 /\ t # p
                BY <1>3, <2>1
            <4> QED
                BY <1>3, <3>1, <4>1, SlotOwner
        <3>3. f[i] = first1[i] /\ l[i] = lastNack[i] /\ (r[i] <=> ring1[i])
            BY <2>1, <3>2 DEF ClearPassed
        <3>4. ring1[i] <=> (p = s \/ ring[i])
            <4>1. s \in base .. base + RingSize - 1 /\ Slot(s) \in Slots
                BY <1>3, SlotType
            <4>2. Slot(s) = i => s = p
                BY <1>3, <3>1, <4>1, SlotOwner
            <4> QED
                BY <2>1, <4>1, <4>2 DEF RingInv, TypeOK
        <3>5. TimersOf(p, haveAny, highest, ring, firstMissing, lastNack)
            BY <3>1, GapTimersByPosition
        <3>6. first1[i] = (IF newest /\ firstMissing[i] = 0 /\ p \in from .. s - 1
                           THEN now ELSE firstMissing[i])
            <4>1. ASSUME NEW gap \in from .. s - 1, Slot(gap) = i PROVE gap = p
                <5>1. gap \in base .. base + RingSize - 1
                    BY <1>3
                <5> QED
                    BY <1>3, <3>1, <4>1, <5>1, SlotOwner
            <4>2. (\E gap \in from .. s - 1 : Slot(gap) = i) <=> p \in from .. s - 1
                BY <4>1
            <4> QED
                BY <2>1, <4>2 DEF StampGaps
        <3> HIDE DEF r, f, l, first1, ring1, i
        <3>7. CASE p <= h
            <4>1. CASE haveAny /\ p <= highest
                <5>1. (~ ring[i] => firstMissing[i] # 0) /\ (lastNack[i] # 0 => firstMissing[i] # 0)
                    BY <3>5, <4>1 DEF TimersOf, i
                <5>2. firstMissing[i] # 0 => first1[i] # 0
                    BY <3>6
                <5> QED
                    BY <3>3, <3>4, <3>7, <5>1, <5>2 DEF TimersOf, i
            <4>2. CASE ~ (haveAny /\ p <= highest)
                <5>1. firstMissing[i] = 0 /\ lastNack[i] = 0
                    BY <3>5, <4>2 DEF TimersOf, i
                <5>2. newest /\ h = s
                    BY <1>3, <2>1, <3>7, <4>2
                <5>3. CASE p = s
                    BY <3>3, <3>4, <3>7, <5>1, <5>3 DEF TimersOf, i
                <5>4. CASE p # s
                    <6>1. p \in from .. s - 1
                        BY <1>3, <2>1, <3>1, <3>7, <4>2, <5>2, <5>4
                    <6>2. first1[i] # 0
                        BY <1>4, <3>6, <5>1, <5>2, <6>1
                    <6> QED
                        BY <3>3, <3>7, <6>2 DEF TimersOf, i
                <5> QED
                    BY <5>3, <5>4, Zenon
            <4> QED
                BY <4>1, <4>2, Zenon
        <3>8. CASE ~ (p <= h)
            <4>1. ~ (haveAny /\ p <= highest)
                BY <1>3, <2>1, <3>8
            <4>2. firstMissing[i] = 0 /\ lastNack[i] = 0
                BY <3>5, <4>1 DEF TimersOf, i
            <4>3. p \notin from .. s - 1
                BY <1>3, <1>5, <2>1, <3>8
            <4> QED
                BY <3>3, <3>6, <3>8, <4>2, <4>3 DEF TimersOf, i
        <3> QED
            BY <3>7, <3>8, Zenon
    <2>4. p >= base + RingSize \/ p < base + RingSize
        BY <1>3, <2>1
    <2> QED
        BY <2>2, <2>3, <2>4, Zenon
<1> HIDE DEF r, f, l, h
<1> QED
    BY <1>1, <1>2, <1>6, Zenon DEF GapTimers, TimersOf, Slot

(* collect_nacks stamps only gaps that are already timed. *)
LEMMA NackTimers ==
    ASSUME RingInv, GapTimers, NEW reorder, NEW renack, CollectNacks(reorder, renack)
    PROVE  GapTimers'
<1> DEFINE due == Due(reorder, renack)
           l == [i \in Slots |-> IF \E p \in due : Slot(base + p) = i THEN now ELSE lastNack[i]]
<1>1. base \in Nat /\ RingSize \in Nat
    BY ConstantRanges DEF RingInv, TypeOK, Ranges
<1>2. ASSUME NEW q \in base .. base + RingSize - 1
      PROVE  TimersOf(q, haveAny, highest, ring, firstMissing, l)
    <2>1. q \in Nat /\ Slot(q) \in Slots
        BY <1>1, SlotType
    <2>2. TimersOf(q, haveAny, highest, ring, firstMissing, lastNack)
        BY GapTimersByPosition
    <2>3. CASE \E p \in due : Slot(base + p) = Slot(q)
        <3>1. PICK p \in due : Slot(base + p) = Slot(q)
            BY <2>3
        <3>2. /\ p \in Slots /\ haveAny /\ base + p <= highest
              /\ firstMissing[Slot(base + p)] # 0
            BY DEF Due
        <3>3. base + p \in base .. base + RingSize - 1
            BY <1>1, <3>2 DEF Slots
        <3>4. base + p = q
            BY <1>1, <3>1, <3>3, SlotOwner
        <3> HIDE DEF due
        <3> QED
            BY <3>2, <3>4 DEF TimersOf
    <2>4. CASE ~ \E p \in due : Slot(base + p) = Slot(q)
        <3>1. l[Slot(q)] = lastNack[Slot(q)]
            BY <2>1, <2>4
        <3> HIDE DEF l, due
        <3> QED
            BY <2>2, <3>1 DEF TimersOf
    <2> QED
        BY <2>3, <2>4
<1>3. /\ base' = base /\ ring' = ring /\ highest' = highest /\ haveAny' = haveAny
      /\ firstMissing' = firstMissing /\ lastNack' = l
    BY DEF CollectNacks
<1> HIDE DEF l, due
<1> QED
    BY <1>2, <1>3 DEF GapTimers, TimersOf, Slot

(* A new stream has no gaps and no timers. *)
LEMMA TimersInit == Init => GapTimers
<1> SUFFICES ASSUME Init, NEW p \in base .. base + RingSize - 1
             PROVE  firstMissing[Slot(p)] = 0 /\ lastNack[Slot(p)] = 0 /\ ~ haveAny
    BY DEF GapTimers
<1>1. p \in Nat
    BY ConstantRanges DEF Init, Ranges
<1> QED
    BY <1>1, SlotType DEF Init

(* Every call of the class keeps the timers of the gaps right. *)
LEMMA TimersStep == RingInv /\ GapTimers /\ [Next]_vars => GapTimers'
<1> SUFFICES ASSUME RingInv, GapTimers, [Next]_vars PROVE GapTimers'
    OBVIOUS
<1>1. ASSUME UNCHANGED <<base, ring, highest, haveAny, firstMissing, lastNack>>
      PROVE  GapTimers'
    BY <1>1 DEF GapTimers, Slot
<1>2. ASSUME NEW s \in SeqNos, Receive(s)
      PROVE  GapTimers'
    <2>1. ASSUME NEW kind, Reject(s, kind) PROVE GapTimers'
        BY <1>1, <2>1 DEF Reject
    <2>2. CASE s \in base .. base + Window - 1 /\ ~ ring[Slot(s)] /\ Accept(s)
        BY <2>2, AcceptTimers, InputAssumption
    <2> QED
        BY <1>2, <2>1, <2>2 DEF Receive
<1>3. CASE BuildAck
    BY <1>1, <1>3 DEF BuildAck
<1>4. CASE Tick
    BY <1>1, <1>4 DEF Tick
<1>5. CASE UNCHANGED vars
    BY <1>1, <1>5 DEF vars
<1> QED
    BY <1>2, <1>3, <1>4, <1>5, NackTimers DEF Next

(* Every block missing below the highest one seen has a running gap timer,
   and ring positions are handed to the next lap with clean timers. *)
THEOREM GapsAreTimed == Spec => []GapTimers
<1>1. Spec => []RingInv
    BY WindowInit, RingStep, PTL DEF Spec
<1> QED
    BY <1>1, TimersInit, TimersStep, PTL DEF Spec

-----------------------------------------------------------------------------
(* SpscRing.

   The argument: seen from head_, the counters lie in the order head_,
   tail_cache_, tail_, and head_cache_ lies behind head_ but within one
   capacity of tail_, all distances being taken modulo the counters' width.
   A stale copy therefore only errs towards caution: the producer's room
   ends, at the latest, where the consumer's slots begin one lap later. *)

(* The inductive invariant. *)
CountersInOrder ==
    /\ RingTypeOK
    /\ Minus(tail, headCache) = Minus(tail, head) + Minus(head, headCache)
    /\ Minus(tail, headCache) <= Cap
    /\ Minus(tail, head) = Minus(tail, tailCache) + Minus(tailCache, head)
    /\ room <= Cap - Minus(tail, headCache)
    /\ avail <= Minus(tailCache, head)

Counter == 0 .. CounterMod - 1

(* Distances and sums of counters, without the modulus. *)
LEMMA MinusValue ==
    ASSUME NEW a \in Counter, NEW b \in Counter
    PROVE  Minus(a, b) = IF a >= b THEN a - b ELSE a - b + CounterMod
<1>1. CounterMod \in Nat \ {0}
    BY SpscAssumption
<1>2. CASE a >= b
    <2>1. a - b \in Nat /\ a - b \in 0 .. (CounterMod - 1) /\ a - b = CounterMod * 0 + (a - b)
        BY <1>1, <1>2 DEF Counter
    <2> QED
        BY <1>1, <1>2, <2>1, ModUnique DEF Minus
<1>3. CASE ~ (a >= b)
    <2>1. a - b \in Int /\ a - b + CounterMod \in 0 .. (CounterMod - 1)
        BY <1>1, <1>3 DEF Counter
    <2>2. (a - b) % CounterMod = a - b + CounterMod
        BY <1>1, <2>1
    <2> QED
        BY <1>3, <2>2 DEF Minus
<1> QED
    BY <1>2, <1>3

(* The same for a sum. *)
LEMMA PlusValue ==
    ASSUME NEW a \in Counter, NEW n \in 0 .. Cap
    PROVE  Plus(a, n) = IF a + n < CounterMod THEN a + n ELSE a + n - CounterMod
<1>1. CounterMod \in Nat \ {0} /\ Cap \in Nat /\ Cap < CounterMod
    BY SpscAssumption
<1>2. a + n \in Nat /\ a + n < 2 * CounterMod
    BY <1>1 DEF Counter
<1>3. CASE a + n < CounterMod
    <2>1. a + n \in 0 .. (CounterMod - 1) /\ a + n = CounterMod * 0 + (a + n)
        BY <1>1, <1>2, <1>3
    <2> QED
        BY <1>1, <1>2, <1>3, <2>1, ModUnique DEF Plus
<1>4. CASE ~ (a + n < CounterMod)
    <2>1. /\ a + n - CounterMod \in 0 .. (CounterMod - 1)
          /\ a + n = CounterMod * 1 + (a + n - CounterMod)
        BY <1>1, <1>2, <1>4 DEF Counter
    <2> QED
        BY <1>1, <1>2, <1>4, <2>1, ModUnique DEF Plus
<1> QED
    BY <1>3, <1>4

(* A lap of the counters is a whole number of laps of the slots. *)
LEMMA LapKeepsSlot ==
    ASSUME NEW s \in Nat, s >= CounterMod
    PROVE  (s - CounterMod) % Cap = s % Cap
<1> DEFINE q == CounterMod \div Cap
           p == s \div Cap
<1>1. Cap \in Nat \ {0} /\ CounterMod \in Nat /\ CounterMod % Cap = 0
    BY SpscAssumption
<1>2. q \in Nat /\ CounterMod = Cap * q
    BY <1>1, DivMod
<1>3. p \in Nat /\ s % Cap \in 0 .. (Cap - 1) /\ s = Cap * p + (s % Cap)
    BY <1>1, DivMod, Zenon
<1> HIDE DEF q, p
<1>4. s - CounterMod \in Nat
    BY <1>1
<1>5. s - CounterMod = Cap * (p - q) + (s % Cap)
    <2>1. Cap * (p - q) = Cap * p - Cap * q
        BY <1>1, <1>2, <1>3
    <2> QED
        BY <1>1, <1>2, <1>3, <2>1
<1>6. p - q \in Int
    BY <1>2, <1>3
<1>7. \A a \in Int, c \in 0 .. (Cap - 1) :
        s - CounterMod = Cap * a + c => (s - CounterMod) % Cap = c
    BY <1>1, <1>4, ModUnique
<1> QED
    BY <1>3, <1>5, <1>6, <1>7

-----------------------------------------------------------------------------
(* The distances the invariant speaks of are natural numbers. *)
LEMMA DistanceType ==
    ASSUME NEW a \in Counter, NEW b \in Counter
    PROVE  Minus(a, b) \in Counter
BY MinusValue, SpscAssumption DEF Counter

(* A counter moved on by n is n further from one behind it... *)
LEMMA Advance ==
    ASSUME NEW a \in Counter, NEW b \in Counter, NEW n \in 0 .. Cap,
           Minus(a, b) + n < CounterMod
    PROVE  Plus(a, n) \in Counter /\ Minus(Plus(a, n), b) = Minus(a, b) + n
<1> DEFINE c == Plus(a, n)
<1>0. CounterMod \in Nat /\ Cap \in Nat /\ Cap < CounterMod
    BY SpscAssumption
<1>1. c = IF a + n < CounterMod THEN a + n ELSE a + n - CounterMod
    BY PlusValue
<1>2. c \in Counter
    BY <1>0, <1>1 DEF Counter
<1>3. Minus(a, b) = IF a >= b THEN a - b ELSE a - b + CounterMod
    BY MinusValue
<1> HIDE DEF c
<1>4. Minus(c, b) = IF c >= b THEN c - b ELSE c - b + CounterMod
    BY <1>2, MinusValue
<1>5. Minus(c, b) = Minus(a, b) + n
    BY <1>0, <1>1, <1>2, <1>3, <1>4 DEF Counter
<1> QED
    BY <1>2, <1>5 DEF c

(* ... and n closer to one at least n ahead. *)
LEMMA Approach ==
    ASSUME NEW a \in Counter, NEW b \in Counter, NEW n \in 0 .. Cap, n <= Minus(b, a)
    PROVE  Plus(a, n) \in Counter /\ Minus(b, Plus(a, n)) = Minus(b, a) - n
<1> DEFINE c == Plus(a, n)
<1>0. CounterMod \in Nat /\ Cap \in Nat /\ Cap < CounterMod
    BY SpscAssumption
<1>1. c = IF a + n < CounterMod THEN a + n ELSE a + n - CounterMod
    BY PlusValue
<1>2. c \in Counter
    BY <1>0, <1>1 DEF Counter
<1>3. Minus(b, a) = IF b >= a THEN b - a ELSE b - a + CounterMod
    BY MinusValue
<1> HIDE DEF c
<1>4. Minus(b, c) = IF b >= c THEN b - c ELSE b - c + CounterMod
    BY <1>2, MinusValue
<1>5. Minus(b, c) = Minus(b, a) - n
    BY <1>0, <1>1, <1>2, <1>3, <1>4 DEF Counter
<1> QED
    BY <1>2, <1>5 DEF c

(* All counters start together. *)
LEMMA OrderInitially == RingInit => CountersInOrder
<1> SUFFICES ASSUME RingInit PROVE CountersInOrder
    OBVIOUS
<1>1. 0 \in Counter /\ Minus(0, 0) = 0
    BY MinusValue, SpscAssumption DEF Counter
<1> QED
    BY <1>1, SpscAssumption DEF RingInit, CountersInOrder, RingTypeOK

(* No access to the ring disturbs the order of the counters. *)
LEMMA OrderInductive ==
    ASSUME CountersInOrder, [RingNext]_ringVars
    PROVE  CountersInOrder'
<1>0. /\ Cap \in Nat \ {0} /\ CounterMod \in Nat /\ Cap < CounterMod
      /\ head \in Counter /\ tail \in Counter /\ headCache \in Counter /\ tailCache \in Counter
    BY SpscAssumption DEF CountersInOrder, RingTypeOK, Counter
<1>d. /\ Minus(tail, head) \in Nat /\ Minus(tail, headCache) \in Nat
      /\ Minus(head, headCache) \in Nat /\ Minus(tail, tailCache) \in Nat
      /\ Minus(tailCache, head) \in Nat
    <2>1. Counter \subseteq Nat
        BY <1>0 DEF Counter
    <2> QED
        BY <1>0, <2>1, DistanceType, Zenon
<1>z. Minus(head, head) = 0 /\ Minus(tail, tail) = 0
    BY <1>0, MinusValue DEF Counter
<1>1. CASE Writable
    <2>1. CASE Minus(tail, headCache) = Cap
        <3>1. headCache' = head /\ room' = Cap - Minus(tail, head) /\ filled' = 0
            BY <1>1, <2>1 DEF Writable
        <3>2. UNCHANGED <<tail, slots, head, tailCache, avail, taken>>
            BY <1>1 DEF Writable, consumerSide
        <3>3. Minus(tail, head) <= Cap
            BY <1>0, <1>d, <1>z DEF CountersInOrder, Counter
        <3>4. room' \in 0 .. Cap /\ filled' \in 0 .. room' /\ headCache' \in Counter
            BY <1>0, <1>d, <3>1, <3>3
        <3>5. RingTypeOK'
            BY <1>0, <3>2, <3>4 DEF CountersInOrder, RingTypeOK, Counter
        <3> QED
            BY <1>0, <1>d, <1>z, <3>1, <3>2, <3>3, <3>5 DEF CountersInOrder, Counter
    <2>2. CASE Minus(tail, headCache) # Cap
        <3>1. headCache' = headCache /\ room' = Cap - Minus(tail, headCache) /\ filled' = 0
            BY <1>1, <2>2 DEF Writable
        <3>2. UNCHANGED <<tail, slots, head, tailCache, avail, taken>>
            BY <1>1 DEF Writable, consumerSide
        <3>3. room' \in 0 .. Cap /\ filled' \in 0 .. room'
            BY <1>0, <1>d, <3>1 DEF CountersInOrder
        <3>4. RingTypeOK'
            BY <3>1, <3>2, <3>3 DEF CountersInOrder, RingTypeOK
        <3> QED
            BY <1>0, <1>d, <1>z, <3>1, <3>2, <3>4 DEF CountersInOrder, Counter
    <2> QED
        BY <2>1, <2>2
<1>2. ASSUME NEW v \in Values, FillSlot(v) PROVE CountersInOrder'
    <2>1. UNCHANGED <<tail, head, headCache, tailCache, room, avail, taken>> /\ filled' = filled + 1
        BY <1>2 DEF FillSlot, consumerSide
    <2>2. slots' \in [0 .. Cap - 1 -> Values]
        BY <1>2, Zenon DEF FillSlot, CountersInOrder, RingTypeOK
    <2>3. filled' \in 0 .. room
        BY <1>0, <1>2 DEF FillSlot, CountersInOrder, RingTypeOK
    <2>4. RingTypeOK'
        BY <2>1, <2>2, <2>3 DEF CountersInOrder, RingTypeOK
    <2> QED
        BY <2>1, <2>4 DEF CountersInOrder
<1>3. CASE Commit
    <2>1. filled \in 0 .. Cap /\ filled <= Cap - Minus(tail, headCache)
        <3>1. /\ room \in 0 .. Cap /\ filled \in 0 .. room
              /\ room <= Cap - Minus(tail, headCache)
            BY DEF CountersInOrder, RingTypeOK
        <3> QED
            BY <1>0, <1>d, <3>1
    <2>2. tail' = Plus(tail, filled)
        BY <1>3 DEF Commit
    <2>3. /\ tail' \in Counter
          /\ Minus(tail', head) = Minus(tail, head) + filled
          /\ Minus(tail', headCache) = Minus(tail, headCache) + filled
          /\ Minus(tail', tailCache) = Minus(tail, tailCache) + filled
        <3>1. /\ Minus(tail, head) + filled < CounterMod
              /\ Minus(tail, headCache) + filled < CounterMod
              /\ Minus(tail, tailCache) + filled < CounterMod
            BY <1>0, <1>d, <2>1 DEF CountersInOrder
        <3> QED
            BY <1>0, <2>1, <2>2, <3>1, Advance
    <2>4. /\ UNCHANGED <<slots, head, headCache, tailCache, avail, taken>>
          /\ room' = 0 /\ filled' = 0
        BY <1>3 DEF Commit, consumerSide
    <2>5. RingTypeOK'
        BY <1>0, <2>3, <2>4 DEF CountersInOrder, RingTypeOK, Counter
    <2> QED
        BY <1>0, <1>d, <2>1, <2>3, <2>4, <2>5 DEF CountersInOrder
<1>4. CASE Readable
    <2>1. UNCHANGED <<tail, slots, head, headCache, room, filled, taken>> /\ taken = <<>>
        BY <1>4 DEF Readable, producerSide
    <2>2. /\ tailCache' \in {tail, tailCache}
          /\ avail' = Minus(tailCache', head)
        BY <1>4 DEF Readable
    <2>3. avail' \in 0 .. Cap
        BY <1>0, <1>d, <2>2 DEF CountersInOrder
    <2>4. RingTypeOK'
        BY <1>0, <2>1, <2>2, <2>3 DEF CountersInOrder, RingTypeOK, Counter
    <2> QED
        BY <1>0, <1>d, <1>z, <2>1, <2>2, <2>3, <2>4 DEF CountersInOrder
<1>5. CASE ReadSlot
    <2>1. UNCHANGED <<tail, slots, head, headCache, tailCache, room, filled, avail>>
        BY <1>5 DEF ReadSlot, producerSide
    <2>2. /\ Len(taken) \in Nat /\ Len(taken) < avail
          /\ taken' = Append(taken, slots[Index(Plus(head, Len(taken)))])
        BY <1>5 DEF ReadSlot, CountersInOrder, RingTypeOK
    <2>3. slots[Index(Plus(head, Len(taken)))] \in Values
        <3>1. Len(taken) \in 0 .. Cap
            BY <1>0, <2>2 DEF CountersInOrder, RingTypeOK
        <3>2. Plus(head, Len(taken)) \in Nat
            BY <1>0, <3>1, PlusValue DEF Counter
        <3>3. Index(Plus(head, Len(taken))) \in 0 .. Cap - 1
            BY <1>0, <3>2, DivMod, Zenon DEF Index
        <3> QED
            BY <3>3 DEF CountersInOrder, RingTypeOK
    <2>4. taken' \in Seq(Values) /\ Len(taken') = Len(taken) + 1
        BY <2>2, <2>3 DEF CountersInOrder, RingTypeOK
    <2>5. RingTypeOK'
        BY <2>1, <2>2, <2>4 DEF CountersInOrder, RingTypeOK
    <2> QED
        BY <2>1, <2>5 DEF CountersInOrder
<1>6. CASE Consume
    <2>1. Len(taken) \in 0 .. Cap /\ Len(taken) <= Minus(tailCache, head)
        <3>1. /\ avail \in 0 .. Cap /\ Len(taken) \in Nat /\ Len(taken) <= avail
              /\ avail <= Minus(tailCache, head)
            BY DEF CountersInOrder, RingTypeOK
        <3> QED
            BY <1>0, <1>d, <3>1
    <2>2. head' = Plus(head, Len(taken))
        BY <1>6 DEF Consume
    <2>3. /\ head' \in Counter
          /\ Minus(tail, head') = Minus(tail, head) - Len(taken)
          /\ Minus(head', headCache) = Minus(head, headCache) + Len(taken)
          /\ Minus(tailCache, head') = Minus(tailCache, head) - Len(taken)
        <3>1. /\ Len(taken) <= Minus(tail, head)
              /\ Minus(head, headCache) + Len(taken) < CounterMod
            BY <1>0, <1>d, <2>1 DEF CountersInOrder
        <3> QED
            BY <1>0, <2>1, <2>2, <3>1, Advance, Approach
    <2>4. /\ UNCHANGED <<slots, tail, headCache, tailCache, room, filled>>
          /\ avail' = 0 /\ taken' = <<>>
        BY <1>6 DEF Consume, producerSide
    <2>5. RingTypeOK'
        BY <1>0, <2>3, <2>4 DEF CountersInOrder, RingTypeOK, Counter
    <2> QED
        BY <1>0, <1>d, <2>1, <2>3, <2>4, <2>5 DEF CountersInOrder
<1>7. CASE UNCHANGED ringVars
    BY <1>7 DEF ringVars, producerSide, consumerSide, CountersInOrder, RingTypeOK, Minus
<1> QED
    BY <1>1, <1>2, <1>3, <1>4, <1>5, <1>6, <1>7 DEF RingNext

-----------------------------------------------------------------------------
(* Slots of counters at different distances, below one lap, from a third. *)
LEMMA SlotsApart ==
    ASSUME NEW a \in Counter, NEW x \in Nat, NEW y \in Nat, x < y, y < Cap
    PROVE  Index(Plus(a, x)) # Index(Plus(a, y))
<1>0. Cap \in Nat \ {0} /\ CounterMod \in Nat /\ Cap < CounterMod /\ a \in Nat
    BY SpscAssumption DEF Counter
<1>1. \A n \in 0 .. Cap : Index(Plus(a, n)) = (a + n) % Cap
    <2> SUFFICES ASSUME NEW n \in 0 .. Cap PROVE Index(Plus(a, n)) = (a + n) % Cap
        OBVIOUS
    <2>1. a + n \in Nat
        BY <1>0
    <2>2. CASE a + n < CounterMod
        BY <2>2, PlusValue DEF Index
    <2>3. CASE ~ (a + n < CounterMod)
        <3>1. PICK s \in Nat : s = a + n
            BY <2>1
        <3>2. Plus(a, n) = s - CounterMod /\ s >= CounterMod
            BY <1>0, <2>3, <3>1, PlusValue
        <3>3. (s - CounterMod) % Cap = s % Cap
            BY <3>2, LapKeepsSlot
        <3> QED
            BY <3>1, <3>2, <3>3 DEF Index
    <2> QED
        BY <2>2, <2>3
<1>2. (a + x) % Cap # (a + y) % Cap
    <2>1. a + x \in a .. a + Cap - 1 /\ a + y \in a .. a + Cap - 1 /\ a + x # a + y
        BY <1>0
    <2>2. \A s, t \in a .. a + Cap - 1 : s % Cap = t % Cap => s = t
        BY <1>0, SlotSame, Zenon
    <2> QED
        BY <2>1, <2>2
<1>3. x \in 0 .. Cap /\ y \in 0 .. Cap
    BY <1>0
<1> QED
    BY <1>1, <1>2, <1>3

(* tail_ is head_ moved on by what the ring holds. *)
LEMMA TailFromHead ==
    ASSUME NEW a \in Counter, NEW b \in Counter, NEW i \in Nat, Minus(a, b) + i <= Cap
    PROVE  Plus(a, i) = Plus(b, Minus(a, b) + i)
<1>0. CounterMod \in Nat /\ Cap \in Nat /\ Cap < CounterMod
    BY SpscAssumption
<1>1. Minus(a, b) = (IF a >= b THEN a - b ELSE a - b + CounterMod) /\ Minus(a, b) \in Nat
    BY <1>0, MinusValue DEF Counter
<1>2. i \in 0 .. Cap /\ Minus(a, b) + i \in 0 .. Cap
    BY <1>0, <1>1
<1>3. Plus(a, i) = IF a + i < CounterMod THEN a + i ELSE a + i - CounterMod
    BY <1>2, PlusValue
<1> DEFINE n == Minus(a, b) + i
<1> HIDE DEF n
<1>4. Plus(b, n) = IF b + n < CounterMod THEN b + n ELSE b + n - CounterMod
    BY <1>2, PlusValue DEF n
<1> QED
    BY <1>0, <1>1, <1>2, <1>3, <1>4 DEF Counter, n

(* The producer's free slots and the consumer's filled ones are apart. *)
LEMMA OrderKeepsSlotsApart == CountersInOrder => NoSlotShared
<1> SUFFICES ASSUME CountersInOrder, NEW i \in 0 .. room - 1, NEW j \in 0 .. avail - 1
             PROVE  Index(Plus(tail, i)) # Index(Plus(head, j))
    BY DEF NoSlotShared
<1> DEFINE d == Minus(tail, head)
<1>0. /\ Cap \in Nat \ {0} /\ head \in Counter /\ tail \in Counter
      /\ headCache \in Counter /\ tailCache \in Counter
      /\ room \in Nat /\ avail \in Nat
    BY SpscAssumption DEF CountersInOrder, RingTypeOK, Counter
<1>1. /\ d \in Nat /\ Minus(head, headCache) \in Nat
      /\ Minus(tail, tailCache) \in Nat /\ Minus(tailCache, head) \in Nat
    <2>1. Counter \subseteq Nat
        BY SpscAssumption DEF Counter
    <2> QED
        BY <1>0, <2>1, DistanceType, Zenon
<1>2. room <= Cap - d /\ avail <= d
    BY <1>0, <1>1 DEF CountersInOrder
<1> HIDE DEF d
<1>3. i \in Nat /\ j \in Nat /\ j < d + i /\ d + i < Cap /\ d + i \in Nat
    BY <1>0, <1>1, <1>2
<1>4. Plus(tail, i) = Plus(head, d + i)
    BY <1>0, <1>3, TailFromHead DEF d
<1> QED
    BY <1>0, <1>3, <1>4, SlotsApart

(* No slot is written while it may be read, or read before it is written,
   however stale the cached counters are (writable() and readable()). *)
THEOREM RingNoSlotShared == RingSpec => []NoSlotShared
BY OrderInitially, OrderInductive, OrderKeepsSlotsApart, PTL DEF RingSpec

-----------------------------------------------------------------------------
(* SpscRing implements Fifo.  Besides the order of the counters this needs to
   know that what the consumer has copied out is still what the ring holds
   from head_ on, which the producer cannot have touched. *)

(* The value i places after head_. *)
FromHead(i) == slots[Index(Plus(head, i))]

(* The inductive invariant. *)
CopyIsCurrent ==
    /\ CountersInOrder
    /\ \A i \in 1 .. Len(taken) : taken[i] = FromHead(i - 1)

(* A sequence is what it has at each position. *)
LEMMA SameSequence ==
    ASSUME NEW S, NEW a \in Seq(S), NEW b \in Seq(S), Len(a) = Len(b),
           \A i \in 1 .. Len(a) : a[i] = b[i]
    PROVE  a = b
    OBVIOUS

(* The first k elements of a sequence, and the others. *)
LEMMA Parted ==
    ASSUME NEW S, NEW a \in Seq(S), NEW k \in 0 .. Len(a)
    PROVE  /\ SubSeq(a, 1, k) \in Seq(S) /\ Len(SubSeq(a, 1, k)) = k
           /\ \A i \in 1 .. k : SubSeq(a, 1, k)[i] = a[i]
           /\ SubSeq(a, k + 1, Len(a)) \in Seq(S)
           /\ Len(SubSeq(a, k + 1, Len(a))) = Len(a) - k
           /\ \A i \in 1 .. Len(a) - k : SubSeq(a, k + 1, Len(a))[i] = a[k + i]
    OBVIOUS

(* What the two threads hold of the ring, in numbers. *)
LEMMA RingNumbers ==
    ASSUME CountersInOrder
    PROVE  /\ Cap \in Nat \ {0} /\ CounterMod \in Nat /\ Cap < CounterMod
           /\ head \in Counter /\ tail \in Counter
           /\ Minus(tail, head) \in 0 .. Cap
           /\ filled \in Nat /\ Minus(tail, head) + filled <= Cap
           /\ filled < room => Minus(tail, head) + filled < Cap
           /\ Len(taken) \in Nat /\ Len(taken) <= avail /\ avail \in Nat
           /\ avail <= Minus(tail, head)
<1>0. /\ Cap \in Nat \ {0} /\ CounterMod \in Nat /\ Cap < CounterMod
      /\ head \in Counter /\ tail \in Counter /\ headCache \in Counter /\ tailCache \in Counter
      /\ room \in Nat /\ avail \in Nat /\ filled \in 0 .. room
      /\ Len(taken) \in Nat /\ Len(taken) <= avail
    BY SpscAssumption DEF CountersInOrder, RingTypeOK, Counter
<1>1. /\ Minus(tail, head) \in Nat /\ Minus(head, headCache) \in Nat
      /\ Minus(tail, tailCache) \in Nat /\ Minus(tailCache, head) \in Nat
    <2>1. Counter \subseteq Nat
        BY SpscAssumption DEF Counter
    <2> QED
        BY <1>0, <2>1, DistanceType, Zenon
<1> QED
    BY <1>0, <1>1 DEF CountersInOrder

(* The slots counted from head_ are slots, and hold values. *)
LEMMA FromHeadType ==
    ASSUME CountersInOrder, NEW i \in 0 .. Cap
    PROVE  Index(Plus(head, i)) \in 0 .. Cap - 1 /\ FromHead(i) \in Values
<1>0. /\ Cap \in Nat \ {0} /\ CounterMod \in Nat /\ head \in Counter /\ head \in Nat
      /\ i \in Nat
    BY RingNumbers DEF Counter
<1>1. Plus(head, i) \in Nat /\ Cap \in Nat \ {0}
    <2>1. Plus(head, i) = IF head + i < CounterMod THEN head + i ELSE head + i - CounterMod
        BY <1>0, PlusValue
    <2> QED
        BY <1>0, <2>1
<1>2. Index(Plus(head, i)) \in 0 .. Cap - 1
    BY <1>1, DivMod, Zenon DEF Index
<1> QED
    BY <1>2 DEF FromHead, CountersInOrder, RingTypeOK

(* The queue the ring stands for. *)
QueueFromHead ==
    /\ Published \in Seq(Values) /\ Len(Published) = Minus(tail, head)
    /\ \A i \in 1 .. Minus(tail, head) : Published[i] = FromHead(i - 1)

(* It is a sequence of values. *)
LEMMA PublishedFacts == CountersInOrder => QueueFromHead
<1> SUFFICES ASSUME CountersInOrder PROVE QueueFromHead
    OBVIOUS
<1> DEFINE d == Minus(tail, head)
<1>1. d \in Nat /\ d <= Cap
    BY RingNumbers
<1>2. Published = [i \in 1 .. d |-> FromHead(i - 1)]
    BY DEF Published, FromHead
<1> HIDE DEF d
<1>3. ASSUME NEW i \in 1 .. d PROVE FromHead(i - 1) \in Values
    <2>1. i - 1 \in 0 .. Cap
        BY <1>1, RingNumbers
    <2> QED
        BY <2>1, FromHeadType
<1>4. Published \in [1 .. d -> Values]
    BY <1>2, <1>3
<1>5. Published \in Seq(Values) /\ Len(Published) = d
    BY <1>1, <1>4
<1>6. \A i \in 1 .. d : Published[i] = FromHead(i - 1)
    BY <1>2
<1> QED
    BY <1>5, <1>6 DEF d, QueueFromHead

(* A slot the producer fills is none that the queue stands on. *)
LEMMA FillKeepsQueue ==
    ASSUME CopyIsCurrent, NEW v \in Values, FillSlot(v)
    PROVE  CopyIsCurrent' /\ Published' = Published /\ given' = given
<1> DEFINE d == Minus(tail, head)
<1>1. CountersInOrder /\ CountersInOrder'
    BY OrderInductive DEF CopyIsCurrent, RingNext
<1>2. /\ filled < room /\ slots' = [slots EXCEPT ![Index(Plus(tail, filled))] = v]
      /\ head' = head /\ tail' = tail /\ taken' = taken /\ given' = given
    BY DEF FillSlot, consumerSide
<1>3. d \in Nat /\ filled \in Nat /\ d + filled < Cap /\ Cap \in Nat /\ Len(taken) <= d
    BY <1>1, <1>2, RingNumbers
<1>4. Plus(tail, filled) = Plus(head, d + filled)
    BY <1>1, <1>3, RingNumbers, TailFromHead
<1> HIDE DEF d
<1>5. ASSUME NEW i \in 0 .. d - 1 PROVE FromHead(i)' = FromHead(i)
    <2>1. i \in Nat /\ i < d + filled /\ i \in 0 .. Cap /\ d + filled \in Nat
        BY <1>3
    <2>2. Index(Plus(head, i)) # Index(Plus(tail, filled))
        BY <1>1, <1>3, <1>4, <2>1, RingNumbers, SlotsApart
    <2>3. Index(Plus(head, i)) \in 0 .. Cap - 1 /\ DOMAIN slots = 0 .. Cap - 1
        BY <1>1, <2>1, FromHeadType DEF CountersInOrder, RingTypeOK
    <2>4. slots'[Index(Plus(head, i))] = slots[Index(Plus(head, i))]
        BY <1>2, <2>2, <2>3
    <2> QED
        BY <1>2, <2>4 DEF FromHead, Index, Plus
<1>6. ASSUME NEW i \in 1 .. d PROVE FromHead(i - 1)' = FromHead(i - 1)
    <2>1. i - 1 \in 0 .. d - 1
        BY <1>3
    <2> QED
        BY <1>5, <2>1
<1>7. Published' = Published
    <2>1. Minus(tail', head') = d
        BY <1>2 DEF d
    <2>2. Published = [i \in 1 .. d |-> FromHead(i - 1)]
        BY DEF Published, FromHead, d
    <2>3. Published' = [i \in 1 .. d |-> FromHead(i - 1)']
        BY <2>1 DEF Published, FromHead, Plus, Index, Minus
    <2> QED
        BY <1>6, <2>2, <2>3
<1>8. \A i \in 1 .. Len(taken) : taken[i] = FromHead(i - 1)'
    <2>1. \A i \in 1 .. Len(taken) : i \in 1 .. d
        BY <1>1, <1>3, RingNumbers
    <2> QED
        BY <1>6, <2>1 DEF CopyIsCurrent
<1> QED
    BY <1>1, <1>2, <1>7, <1>8 DEF CopyIsCurrent

(* Asking, and copying a slot out, change nothing of the queue. *)
LEMMA AskKeepsQueue ==
    ASSUME CopyIsCurrent, Writable \/ Readable \/ ReadSlot \/ UNCHANGED ringVars
    PROVE  CopyIsCurrent' /\ Published' = Published /\ given' = given
<1>1. CountersInOrder /\ CountersInOrder'
    BY OrderInductive DEF CopyIsCurrent, RingNext
<1>2. head' = head /\ tail' = tail /\ slots' = slots /\ given' = given
    BY DEF Writable, Readable, ReadSlot, ringVars, producerSide, consumerSide
<1>3. Published' = Published /\ \A i \in Nat : FromHead(i)' = FromHead(i)
    BY <1>2 DEF Published, FromHead, Minus, Plus, Index
<1>4. CASE taken' = taken
    BY <1>1, <1>2, <1>3, <1>4 DEF CopyIsCurrent, FromHead, Plus, Index
<1>5. CASE ReadSlot
    <2>1. /\ taken \in Seq(Values) /\ taken' = Append(taken, FromHead(Len(taken)))
          /\ taken' \in Seq(Values)
        BY <1>1, <1>5 DEF ReadSlot, FromHead, CountersInOrder, RingTypeOK
    <2>2. Len(taken') = Len(taken) + 1 /\ Len(taken) \in Nat
        BY <2>1
    <2>3. ASSUME NEW i \in 1 .. Len(taken') PROVE taken'[i] = FromHead(i - 1)'
        <3>1. CASE i = Len(taken) + 1
            <4>1. taken'[i] = FromHead(Len(taken)) /\ i - 1 = Len(taken)
                BY <2>1, <2>2, <3>1
            <4> QED
                BY <1>3, <2>2, <4>1
        <3>2. CASE i \in 1 .. Len(taken)
            <4>1. taken'[i] = taken[i] /\ i - 1 \in Nat
                BY <2>1, <2>2, <3>2
            <4> QED
                BY <1>3, <3>2, <4>1 DEF CopyIsCurrent
        <3> QED
            BY <2>2, <3>1, <3>2
    <2> QED
        BY <1>1, <1>2, <1>3, <2>3 DEF CopyIsCurrent
<1>6. taken' = taken \/ ReadSlot
    BY DEF Writable, Readable, ringVars, consumerSide
<1> QED
    BY <1>2, <1>3, <1>4, <1>5, <1>6

(* commit() puts what was filled at the end of the queue. *)
LEMMA CommitPuts ==
    ASSUME CopyIsCurrent, Commit
    PROVE  CopyIsCurrent' /\ Queue!Put
<1> DEFINE d == Minus(tail, head)
           batch == [i \in 1 .. filled |-> FromHead(d + i - 1)]
<1>1. CountersInOrder /\ CountersInOrder'
    BY OrderInductive DEF CopyIsCurrent, RingNext
<1>2. /\ filled > 0 /\ tail' = Plus(tail, filled) /\ head' = head /\ slots' = slots
      /\ taken' = taken /\ given' = given
    BY DEF Commit, consumerSide
<1>3. /\ d \in Nat /\ filled \in Nat /\ d + filled <= Cap /\ Cap \in Nat /\ Cap < CounterMod
      /\ CounterMod \in Nat /\ head \in Counter /\ tail \in Counter
    BY <1>1, RingNumbers
<1>4. Minus(tail', head') = d + filled
    <2>1. filled \in 0 .. Cap /\ d + filled < CounterMod
        BY <1>3
    <2> QED
        BY <1>2, <1>3, <2>1, Advance
<1>5. \A i \in Nat : FromHead(i)' = FromHead(i)
    BY <1>2 DEF FromHead, Plus, Index
<1>6. CopyIsCurrent'
    <2>1. \A i \in 1 .. Len(taken) : i - 1 \in Nat
        BY <1>1, RingNumbers
    <2> QED
        BY <1>1, <1>2, <1>5, <2>1 DEF CopyIsCurrent, FromHead, Plus, Index
<1>7. /\ Published \in Seq(Values) /\ Len(Published) = d
      /\ \A i \in 1 .. d : Published[i] = FromHead(i - 1)
    BY <1>1, PublishedFacts DEF QueueFromHead
<1>8. /\ Published' \in Seq(Values) /\ Len(Published') = d + filled
      /\ \A i \in 1 .. d + filled : Published'[i] = FromHead(i - 1)'
    <2>1. CountersInOrder' => QueueFromHead'
        BY PublishedFacts, PTL
    <2> QED
        BY <1>1, <1>4, <2>1 DEF QueueFromHead
<1> HIDE DEF d
<1>9. batch \in [1 .. filled -> Values] /\ batch \in Seq(Values) /\ Len(batch) = filled
    <2>1. \A i \in 1 .. filled : d + i - 1 \in 0 .. Cap
        BY <1>3
    <2>2. batch \in [1 .. filled -> Values]
        BY <1>1, <2>1, FromHeadType
    <2> HIDE DEF batch
    <2> QED
        BY <1>3, <2>2
<1>10. \A i \in 1 .. filled : batch[i] = FromHead(d + i - 1)
    OBVIOUS
<1> HIDE DEF batch
<1>11. Published' = Published \o batch
    <2>1. /\ Published \o batch \in Seq(Values) /\ Len(Published \o batch) = d + filled
        BY <1>7, <1>9
    <2>2. ASSUME NEW i \in 1 .. d + filled PROVE Published'[i] = (Published \o batch)[i]
        <3>1. Published'[i] = FromHead(i - 1)
            BY <1>3, <1>5, <1>8
        <3>2. CASE i <= d
            <4>1. (Published \o batch)[i] = Published[i] /\ i \in 1 .. d
                BY <1>3, <1>7, <1>9, <3>2
            <4> QED
                BY <1>7, <3>1, <4>1
        <3>3. CASE i > d
            <4>1. (Published \o batch)[i] = batch[i - d] /\ i - d \in 1 .. filled
                BY <1>3, <1>7, <1>9, <3>3
            <4>2. d + (i - d) - 1 = i - 1
                BY <1>3
            <4> QED
                BY <1>10, <3>1, <4>1, <4>2
        <3>4. i <= d \/ i > d
            BY <1>3
        <3> QED
            BY <3>2, <3>3, <3>4, Zenon
    <2> QED
        BY <1>8, <2>1, <2>2, SameSequence, Zenon
<1>12. filled \in 1 .. Cap - Len(Published)
    BY <1>2, <1>3, <1>7
<1> QED
    BY <1>2, <1>6, <1>9, <1>11, <1>12, Zenon DEF Queue!Put

(* consume() takes from its front what was copied out. *)
LEMMA ConsumeTakes ==
    ASSUME CopyIsCurrent, Consume
    PROVE  CopyIsCurrent' /\ Queue!Take
<1> DEFINE d == Minus(tail, head)
           n == Len(taken)
<1>1. CountersInOrder /\ CountersInOrder'
    BY OrderInductive DEF CopyIsCurrent, RingNext
<1>2. /\ taken # <<>> /\ head' = Plus(head, n) /\ tail' = tail /\ slots' = slots
      /\ taken' = <<>> /\ given' = taken
    BY DEF Consume, producerSide
<1>3. /\ d \in Nat /\ n \in Nat /\ n <= d /\ d <= Cap /\ Cap \in Nat /\ Cap < CounterMod
      /\ CounterMod \in Nat /\ head \in Counter /\ tail \in Counter /\ taken \in Seq(Values)
    BY <1>1, RingNumbers DEF CountersInOrder, RingTypeOK
<1>4. n > 0
    BY <1>2, <1>3
<1>5. CopyIsCurrent'
    BY <1>1, <1>2 DEF CopyIsCurrent
<1>6. n \in 0 .. Cap /\ n \in 0 .. d
    BY <1>3
<1>7. Minus(tail', head') = d - n
    BY <1>2, <1>3, <1>6, Approach
<1>8. Plus(head, n) \in Counter /\ Minus(Plus(head, n), head) = n
    <2>1. Minus(head, head) = 0
        BY <1>3, MinusValue DEF Counter
    <2>2. Minus(head, head) + n < CounterMod
        BY <1>3, <2>1
    <2>3. Plus(head, n) \in Counter /\ Minus(Plus(head, n), head) = Minus(head, head) + n
        BY <1>3, <1>6, <2>2, Advance
    <2> QED
        BY <1>3, <2>1, <2>3
<1>9. /\ Published \in Seq(Values) /\ Len(Published) = d
      /\ \A i \in 1 .. d : Published[i] = FromHead(i - 1)
    BY <1>1, PublishedFacts DEF QueueFromHead
<1>10. /\ Published' \in Seq(Values) /\ Len(Published') = d - n
       /\ \A i \in 1 .. d - n : Published'[i] = FromHead(i - 1)'
    <2>1. CountersInOrder' => QueueFromHead'
        BY PublishedFacts, PTL
    <2> QED
        BY <1>1, <1>7, <2>1 DEF QueueFromHead
<1>11. \A i \in 1 .. n : taken[i] = FromHead(i - 1)
    BY DEF CopyIsCurrent
<1>12. ASSUME NEW i \in 0 .. d - n PROVE FromHead(i)' = FromHead(n + i)
    <2>1. i \in Nat /\ n + i <= Cap
        BY <1>3
    <2>2. Plus(Plus(head, n), i) = Plus(head, n + i)
        <3> DEFINE a == Plus(head, n)
        <3>1. a \in Counter /\ Minus(a, head) = n
            BY <1>8
        <3> HIDE DEF a, n
        <3>2. Minus(a, head) + i <= Cap
            BY <2>1, <3>1
        <3>3. Plus(a, i) = Plus(head, Minus(a, head) + i)
            BY <1>3, <2>1, <3>1, <3>2, TailFromHead, Zenon
        <3> QED
            BY <3>1, <3>3 DEF a
    <2> QED
        BY <1>2, <2>2 DEF FromHead, Index, Plus
<1> HIDE DEF d, n
<1>13. taken = SubSeq(Published, 1, n)
    <2>0. n \in 0 .. Len(Published)
        BY <1>3, <1>9
    <2>1. /\ SubSeq(Published, 1, n) \in Seq(Values) /\ Len(SubSeq(Published, 1, n)) = n
          /\ \A i \in 1 .. n : SubSeq(Published, 1, n)[i] = Published[i]
        BY <1>9, <2>0, Parted
    <2>2. Len(taken) = n
        BY DEF n
    <2>3. \A i \in 1 .. n : i \in 1 .. d
        BY <1>3
    <2>4. \A i \in 1 .. n : taken[i] = SubSeq(Published, 1, n)[i]
        BY <1>9, <1>11, <2>1, <2>3, Zenon
    <2> QED
        BY <1>3, <2>1, <2>2, <2>4, SameSequence, Zenon
<1>14. Published' = SubSeq(Published, n + 1, d)
    <2>0. n \in 0 .. Len(Published)
        BY <1>3, <1>9
    <2>1. /\ SubSeq(Published, n + 1, d) \in Seq(Values)
          /\ Len(SubSeq(Published, n + 1, d)) = d - n
          /\ \A i \in 1 .. d - n : SubSeq(Published, n + 1, d)[i] = Published[n + i]
        BY <1>9, <2>0, Parted, Zenon
    <2>2. ASSUME NEW i \in 1 .. d - n PROVE Published'[i] = Published[n + i]
        <3>1. PICK k \in 1 .. d : k = n + i
            BY <1>3
        <3>2. i - 1 \in 0 .. d - n /\ n + (i - 1) = k - 1
            BY <1>3, <3>1
        <3>3. Published'[i] = FromHead(n + (i - 1))
            BY <1>10, <1>12, <3>2
        <3>4. Published[k] = FromHead(k - 1)
            BY <1>9
        <3> QED
            BY <3>1, <3>2, <3>3, <3>4, Zenon
    <2> QED
        BY <1>10, <2>1, <2>2, SameSequence, Zenon
<1>15. n \in 1 .. Len(Published)
    BY <1>3, <1>4, <1>9
<1> QED
    BY <1>2, <1>5, <1>9, <1>13, <1>14, <1>15, Zenon DEF Queue!Take

(* The ring is the bounded queue its two threads take it for: every commit()
   puts a batch that fits, every consume() takes the oldest values, in order,
   and nothing else changes the queue (spsc_ring.hpp). *)
THEOREM RingImplementsFifo == RingSpec => ImplementsFifo
<1>1. RingInit => CopyIsCurrent /\ Queue!Init
    <2> SUFFICES ASSUME RingInit PROVE CopyIsCurrent /\ Queue!Init
        OBVIOUS
    <2>1. CountersInOrder /\ taken = <<>> /\ given = <<>> /\ head = 0 /\ tail = 0
        BY OrderInitially DEF RingInit
    <2>2. Minus(tail, head) = 0
        BY <2>1, RingNumbers, MinusValue DEF Counter
    <2>3. Published = <<>>
        BY <2>1, <2>2, PublishedFacts DEF QueueFromHead
    <2> QED
        BY <2>1, <2>3 DEF CopyIsCurrent, Queue!Init
<1>2. CopyIsCurrent /\ [RingNext]_ringVars => CopyIsCurrent' /\ [Queue!Next]_(Queue!vars)
    <2> SUFFICES ASSUME CopyIsCurrent, [RingNext]_ringVars
                 PROVE  CopyIsCurrent' /\ [Queue!Next]_(Queue!vars)
        OBVIOUS
    <2>1. CASE Writable \/ Readable \/ ReadSlot \/ UNCHANGED ringVars
        BY <2>1, AskKeepsQueue DEF Queue!vars
    <2>2. ASSUME NEW v \in Values, FillSlot(v)
          PROVE  CopyIsCurrent' /\ UNCHANGED Queue!vars
        BY <2>2, FillKeepsQueue DEF Queue!vars
    <2>3. CASE Commit
        BY <2>3, CommitPuts DEF Queue!Next
    <2>4. CASE Consume
        BY <2>4, ConsumeTakes DEF Queue!Next
    <2> QED
        BY <2>1, <2>2, <2>3, <2>4 DEF RingNext
<1> QED
    BY <1>1, <1>2, PTL DEF RingSpec, ImplementsFifo, Queue!Spec

-----------------------------------------------------------------------------
(* Reassembly, for every length of a stream, every ring and any arrivals.

   The argument: a ring position belongs to one block of the window, so a bit
   of an unordered stream tells whether that block has been written; and a
   slot of an ordered stream names a block that is written and still ahead. *)

ReasmTypes ==
    /\ ordered \in BOOLEAN /\ low \in Nat /\ expected \in Nat
    /\ seen \subseteq RingIndex
    /\ early \in [RingIndex -> SUBSET Nat]
    /\ handed \in Seq(Nat) /\ delivered = Len(handed)
    /\ sink \subseteq 0 .. StreamBlocks - 1

BitsExact ==
    ~ ordered =>
        /\ Range(handed) = sink /\ IsInjective(handed)
        /\ 0 .. low - 1 \subseteq sink /\ sink \subseteq 0 .. low + ReorderWindow - 1
        /\ \A s \in low .. low + ReorderWindow - 1 : RingSlot(s) \in seen <=> s \in sink

SlotsExact ==
    ordered =>
        /\ Len(handed) = expected /\ \A i \in 1 .. expected : handed[i] = i - 1
        /\ 0 .. expected - 1 \subseteq sink /\ expected \notin sink
        /\ sink \subseteq 0 .. expected + ReorderWindow - 1
        /\ \A s \in Nat : early[RingSlot(s)] = {s} <=> s \in sink /\ s > expected

ReasmInv == ReasmTypes /\ BitsExact /\ SlotsExact

(* The position of a block, and when two blocks share one. *)
LEMMA SlotFacts ==
    /\ ReorderWindow \in Nat \ {0} /\ StreamBlocks \in Nat
    /\ \A s \in Nat : RingSlot(s) \in RingIndex
    /\ \A s, t \in Nat : RingSlot(s) = RingSlot(t) /\ s < t => s + ReorderWindow <= t
    /\ \A s \in Nat : RingSlot(s + ReorderWindow) = RingSlot(s)
<1>1. ReorderWindow \in Nat \ {0} /\ StreamBlocks \in Nat
    BY ReasmAssumption
<1>2. \A s \in Nat : RingSlot(s) \in RingIndex
    BY <1>1, DivMod, Zenon DEF RingSlot, RingIndex
<1>3. \A s, t \in Nat : RingSlot(s) = RingSlot(t) /\ s < t => s + ReorderWindow <= t
    BY <1>1, SlotInjective, Zenon DEF RingSlot
<1>4. ASSUME NEW s \in Nat
      PROVE  (s + ReorderWindow) % ReorderWindow = s % ReorderWindow
    <2> DEFINE r == s % ReorderWindow
    <2>1. r \in 0 .. ReorderWindow - 1
        BY <1>1, DivMod
    <2>2. ReorderWindow <= r + ReorderWindow /\ r + ReorderWindow < 2 * ReorderWindow
        BY <1>1, <2>1
    <2>3. (s + ReorderWindow) % ReorderWindow = r + ReorderWindow - ReorderWindow
        BY <1>1, <2>2, ModWrap, Zenon
    <2> HIDE DEF r
    <2>4. r + ReorderWindow - ReorderWindow = r
        BY <1>1, <2>1
    <2> QED
        BY <2>3, <2>4 DEF r
<1> QED
    BY <1>1, <1>2, <1>3, <1>4 DEF RingSlot

(* The end of a run, as the code's loop finds it. *)
LEMMA EndFacts ==
    ASSUME NEW lo \in Nat, NEW T
    PROVE  /\ EndOfRun(lo, T) \in lo .. lo + ReorderWindow
           /\ lo .. EndOfRun(lo, T) - 1 \subseteq T
           /\ EndOfRun(lo, T) = lo + ReorderWindow \/ EndOfRun(lo, T) \notin T
<1> DEFINE S == {e \in lo .. lo + ReorderWindow : e = lo + ReorderWindow \/ e \notin T}
<1>1. ReorderWindow \in Nat
    BY SlotFacts
<1>2. S \in SUBSET Nat /\ lo + ReorderWindow \in S
    BY <1>1
<1>3. PICK end \in S : \A e \in S : end <= e
    BY <1>2, LeastNat, Zenon
<1>4. ASSUME NEW s \in lo .. end - 1
      PROVE  s \in T
    <2>1. s \in lo .. lo + ReorderWindow /\ ~ (end <= s)
        BY <1>1, <1>3
    <2>2. s \notin S
        BY <1>3, <2>1
    <2> QED
        BY <2>1, <2>2
<1>5. /\ end \in lo .. lo + ReorderWindow
      /\ lo .. end - 1 \subseteq T
      /\ end = lo + ReorderWindow \/ end \notin T
    BY <1>3, <1>4
<1> QED
    BY <1>5, Zenon DEF EndOfRun, Lap

(* A new block of an unordered stream. *)
LEMMA UnorderedKeeps ==
    ASSUME ReasmInv, NEW seq \in 0 .. StreamBlocks - 1, OnUnordered(seq)
    PROVE  ReasmInv'
<1> DEFINE marked == seen \union {RingSlot(seq)}
           there == {s \in Lap(low) : RingSlot(s) \in marked}
           end == EndOfRun(low, there)
           top == low + ReorderWindow
<1>1. /\ ~ ordered /\ NewUnordered(seq)
      /\ low' = end /\ seen' = marked \ Cleared(low, end)
      /\ sink' = sink \cup {seq}
      /\ handed' = handed \o <<seq>> /\ delivered' = delivered + Len(<<seq>>)
      /\ ordered' = ordered /\ expected' = expected /\ early' = early
    BY DEF OnUnordered, Record
<1>2. ReasmTypes /\ BitsExact
    BY DEF ReasmInv
<1>2a. ~ ordered
    BY <1>1
<1>3. low \in Nat /\ ReorderWindow \in Nat \ {0} /\ seq \in Nat
    BY <1>2, SlotFacts DEF ReasmTypes
<1>2b. \A s \in low .. top - 1 : RingSlot(s) \in seen <=> s \in sink
    BY <1>2, <1>2a, <1>3 DEF BitsExact
<1>4. end \in low .. top /\ low .. end - 1 \subseteq there
    BY <1>3, EndFacts, Zenon
<1>5. seq \in low .. top - 1 /\ RingSlot(seq) \notin seen /\ seq \notin sink
    BY <1>1, <1>2, <1>3 DEF NewUnordered, BitsExact
<1>6. \A s \in low .. top - 1 : RingSlot(s) \in marked <=> s \in sink'
    <2> SUFFICES ASSUME NEW s \in low .. top - 1
                 PROVE  RingSlot(s) \in marked <=> s \in sink'
        OBVIOUS
    <2>1. s \in Nat /\ s < seq + ReorderWindow /\ seq < s + ReorderWindow
        BY <1>3, <1>5
    <2>2. RingSlot(s) = RingSlot(seq) => s = seq
        BY <1>3, <2>1, SlotFacts
    <2>3. RingSlot(s) \in seen <=> s \in sink
        BY <1>2b
    <2>4. sink' = sink \cup {seq}
        BY <1>1
    <2> QED
        BY <2>2, <2>3, <2>4
<1> HIDE DEF end
<1>7. end \in Nat /\ end <= top /\ low <= end /\ \A s \in low .. end - 1 : s \in low .. top - 1 
    BY <1>3, <1>4
<1>8. low .. end - 1 \subseteq sink'
    BY <1>4, <1>6, <1>7
<1>9. ASSUME NEW s \in end .. end + ReorderWindow - 1
      PROVE  RingSlot(s) \in seen' <=> s \in sink'
    <2>1. CASE s < top
        <3>1. s \in low .. top - 1 /\ s \in Nat
            BY <1>3, <1>7, <2>1
        <3>2. ASSUME NEW t \in low .. end - 1, RingSlot(s) = RingSlot(t)
              PROVE  FALSE
            <4>1. t \in Nat /\ t < s /\ s < t + ReorderWindow
                BY <1>3, <1>7, <2>1
            <4> QED
                BY <1>3, <3>1, <3>2, <4>1, SlotFacts
        <3>3. RingSlot(s) \notin Cleared(low, end)
            BY <3>2 DEF Cleared
        <3> QED
            BY <1>1, <1>6, <3>1, <3>3
    <2>2. CASE ~ (s < top)
        <3>1. s - ReorderWindow \in low .. end - 1 /\ s - ReorderWindow \in Nat /\ s = (s - ReorderWindow) + ReorderWindow
            BY <1>3, <1>7, <2>2
        <3>2. RingSlot(s) = RingSlot(s - ReorderWindow)
            BY <3>1, SlotFacts
        <3>3. RingSlot(s) \in Cleared(low, end)
            BY <3>1, <3>2 DEF Cleared
        <3>4. s \notin sink'
            BY <1>1, <1>2, <1>3, <1>5, <2>2 DEF BitsExact
        <3> QED
            BY <1>1, <3>3, <3>4
    <2> QED
        BY <2>1, <2>2
<1>10. /\ handed \in Seq(Nat) /\ handed' \in Seq(Nat) /\ Len(handed') = Len(handed) + 1
       /\ Len(handed) \in Nat
       /\ \A i \in 1 .. Len(handed) : handed'[i] = handed[i]
       /\ handed'[Len(handed) + 1] = seq
    BY <1>1, <1>2, <1>3 DEF ReasmTypes
<1>11. ReasmTypes'
    <2>1. seen' \subseteq RingIndex
        BY <1>1, <1>2, <1>3, SlotFacts DEF ReasmTypes
    <2>2. delivered' = Len(handed')
        BY <1>1, <1>2, <1>10 DEF ReasmTypes
    <2> QED
        BY <1>1, <1>2, <1>7, <1>10, <2>1, <2>2 DEF ReasmTypes
<1>12. BitsExact'
    <2>1. Range(handed') = Range(handed) \cup {seq}
        BY <1>10 DEF Range
    <2>2. IsInjective(handed')
        BY <1>2, <1>5, <1>10, <1>1 DEF BitsExact, IsInjective, Range
    <2>3. 0 .. end - 1 \subseteq sink'
        BY <1>1, <1>2, <1>3, <1>7, <1>8 DEF BitsExact
    <2>4. sink' \subseteq 0 .. end + ReorderWindow - 1
        BY <1>1, <1>2, <1>3, <1>5, <1>7 DEF BitsExact
    <2> QED
        BY <1>1, <1>2, <1>9, <2>1, <2>2, <2>3, <2>4 DEF BitsExact
<1> QED
    BY <1>1, <1>11, <1>12 DEF ReasmInv, SlotsExact

(* A block ahead of the next one of an ordered stream. *)
LEMMA EarlyKeeps ==
    ASSUME ReasmInv, NEW seq \in 0 .. StreamBlocks - 1, OnEarly(seq)
    PROVE  ReasmInv'
<1>1. /\ ordered /\ NewEarly(seq)
      /\ sink' = sink \cup {seq}
      /\ early' = [early EXCEPT ![RingSlot(seq)] = {seq}]
      /\ ordered' = ordered /\ low' = low /\ seen' = seen /\ expected' = expected
      /\ handed' = handed /\ delivered' = delivered
    BY DEF OnEarly
<1>2. ReasmTypes /\ SlotsExact
    BY DEF ReasmInv
<1>3. expected \in Nat /\ ReorderWindow \in Nat \ {0} /\ seq \in Nat /\ RingSlot(seq) \in RingIndex
    BY <1>2, SlotFacts DEF ReasmTypes
<1>4. seq \in expected + 1 .. expected + ReorderWindow - 1
    BY <1>1, <1>3 DEF NewEarly
<1>5. early'[RingSlot(seq)] = {seq} /\ \A i \in RingIndex : i # RingSlot(seq) => early'[i] = early[i]
    BY <1>1, <1>2, <1>3 DEF ReasmTypes
<1>6. ASSUME NEW s \in Nat
      PROVE  early'[RingSlot(s)] = {s} <=> s \in sink' /\ s > expected
    <2>1. RingSlot(s) \in RingIndex
        BY SlotFacts
    <2>2. early[RingSlot(s)] = {s} <=> s \in sink /\ s > expected
        BY <1>1, <1>2 DEF SlotsExact
    <2>3. CASE s = seq
        BY <1>1, <1>3, <1>4, <1>5, <2>3
    <2>4. CASE RingSlot(s) # RingSlot(seq)
        BY <1>1, <1>5, <2>1, <2>2, <2>4
    <2>5. CASE s # seq /\ RingSlot(s) = RingSlot(seq)
        <3>1. s + ReorderWindow <= seq \/ seq + ReorderWindow <= s
            BY <1>3, <2>5, SlotFacts
        <3>2. ~ (s \in sink /\ s > expected)
            BY <1>1, <1>2, <1>3, <1>4, <3>1 DEF SlotsExact
        <3>3. early'[RingSlot(s)] # {s}
            BY <1>5, <2>5
        <3> QED
            BY <1>1, <2>5, <3>2, <3>3
    <2> QED
        BY <2>3, <2>4, <2>5
<1>7. ReasmTypes'
    BY <1>1, <1>2, <1>3 DEF ReasmTypes
<1>8. SlotsExact'
    <2>1. expected \notin sink' /\ sink' \subseteq 0 .. expected + ReorderWindow - 1
        <3>1. expected \notin sink /\ sink \subseteq 0 .. expected + ReorderWindow - 1
            BY <1>1, <1>2, Zenon DEF SlotsExact
        <3>2. sink' = sink \cup {seq}
            BY <1>1, Zenon
        <3>3. seq # expected /\ seq \in 0 .. expected + ReorderWindow - 1
            BY <1>3, <1>4
        <3> QED
            BY <3>1, <3>2, <3>3, Zenon
    <2> QED
        BY <1>1, <1>2, <1>6, <2>1 DEF SlotsExact
<1> QED
    BY <1>1, <1>7, <1>8 DEF ReasmInv, BitsExact

(* The next block of an ordered stream, with the run behind it. *)
LEMMA ExpectedKeeps ==
    ASSUME ReasmInv, NEW seq \in 0 .. StreamBlocks - 1, OnExpected(seq)
    PROVE  ReasmInv'
<1> DEFINE there == {s \in Lap(seq + 1) : early[RingSlot(s)] = {s}}
           end == EndOfRun(seq + 1, there)
           run == [i \in 1 .. end - seq |-> seq + i - 1]
<1>1. /\ ordered /\ seq = expected
      /\ sink' = sink \cup {seq} /\ expected' = end
      /\ early' = [i \in RingIndex |->
                       IF i \in Cleared(seq + 1, end) THEN {} ELSE early[i]]
      /\ handed' = handed \o run /\ delivered' = delivered + Len(run)
      /\ ordered' = ordered /\ low' = low /\ seen' = seen
    BY DEF OnExpected, Record
<1>S. sink' = sink \cup {seq}
    BY <1>1
<1>H. handed' = handed \o run
    BY <1>1
<1>2. ReasmTypes /\ SlotsExact
    BY DEF ReasmInv
<1>3. ReorderWindow \in Nat \ {0} /\ seq \in Nat /\ seq + 1 \in Nat
    BY <1>2, SlotFacts DEF ReasmTypes
<1>4. /\ end \in seq + 1 .. seq + 1 + ReorderWindow /\ seq + 1 .. end - 1 \subseteq there
      /\ end = seq + 1 + ReorderWindow \/ end \notin there
    BY <1>3, EndFacts, Zenon
<1> HIDE DEF end
<1>5. \A s \in Nat : early[RingSlot(s)] = {s} <=> s \in sink /\ s > seq
    BY <1>1, <1>2 DEF SlotsExact
<1>6. sink \subseteq 0 .. seq + ReorderWindow - 1 /\ 0 .. seq - 1 \subseteq sink
    BY <1>1, <1>2 DEF SlotsExact
<1>7. \A s \in seq + 1 .. end - 1 : s \in Nat /\ s \in sink /\ early[RingSlot(s)] = {s}
    BY <1>3, <1>4, <1>5
<1>8. end \in Nat /\ seq < end /\ end <= seq + ReorderWindow
    BY <1>3, <1>4, <1>6, <1>7
<1>9. end \notin sink
    <2>1. end \in Lap(seq + 1) /\ end \notin there
        BY <1>3, <1>4, <1>8 DEF Lap
    <2> QED
        BY <1>5, <1>8, <2>1, <1>3
<1>10. ASSUME NEW s \in Nat
       PROVE  early'[RingSlot(s)] = {s} <=> s \in sink' /\ s > end
    <2>1. RingSlot(s) \in RingIndex
        BY SlotFacts
    <2>2. CASE RingSlot(s) \in Cleared(seq + 1, end)
        <3>1. PICK t \in seq + 1 .. end - 1 : RingSlot(s) = RingSlot(t)
            BY <2>2 DEF Cleared
        <3>2. t \in Nat /\ early[RingSlot(s)] = {t}
            BY <1>7, <3>1
        <3>3. early'[RingSlot(s)] # {s}
            BY <1>1, <2>1, <2>2
        <3>4. s \in sink /\ s > seq => s = t
            BY <1>5, <3>2
        <3> QED
            BY <1>S, <1>3, <1>8, <3>1, <3>3, <3>4
    <2>3. CASE RingSlot(s) \notin Cleared(seq + 1, end)
        <3>1. early'[RingSlot(s)] = early[RingSlot(s)]
            BY <1>1, <2>1, <2>3
        <3>2. s \notin seq + 1 .. end - 1
            BY <2>3 DEF Cleared
        <3> QED
            BY <1>S, <1>3, <1>5, <1>8, <1>9, <3>1, <3>2
    <2> QED
        BY <2>2, <2>3
<1>11. /\ handed \in Seq(Nat) /\ Len(handed) = seq /\ \A i \in 1 .. seq : handed[i] = i - 1
       /\ run \in Seq(Nat) /\ Len(run) = end - seq /\ \A i \in 1 .. end - seq : run[i] = seq + i - 1
    <2>1. run \in [1 .. end - seq -> Nat] /\ end - seq \in Nat
        BY <1>3, <1>8
    <2>2. run \in Seq(Nat) /\ Len(run) = end - seq
        BY <2>1
    <2> QED
        BY <1>1, <1>2, <2>2, Zenon DEF ReasmTypes, SlotsExact
<1> HIDE DEF run
<1>12. /\ handed' \in Seq(Nat) /\ Len(handed') = end
       /\ \A i \in 1 .. end : handed'[i] = i - 1
    <2>1. handed' \in Seq(Nat) /\ Len(handed') = end
        <3>1. \A s, t \in Seq(Nat) : s \o t \in Seq(Nat) /\ Len(s \o t) = Len(s) + Len(t)
            OBVIOUS
        <3>2. handed' \in Seq(Nat) /\ Len(handed') = Len(handed) + Len(run)
            BY <1>H, <1>11, <3>1, Zenon
        <3> QED
            BY <1>3, <1>8, <1>11, <3>2
    <2>2. ASSUME NEW i \in 1 .. end
          PROVE  handed'[i] = i - 1
        <3>1. CASE i <= seq
            BY <1>H, <1>3, <1>8, <1>11, <3>1
        <3>2. CASE ~ (i <= seq)
            <4>1. i - seq \in 1 .. end - seq
                BY <1>3, <1>8, <3>2
            <4>2. handed'[i] = run[i - seq]
                BY <1>H, <1>3, <1>8, <1>11, <3>2
            <4> QED
                BY <1>3, <1>8, <1>11, <4>1, <4>2
        <3> QED
            BY <3>1, <3>2
    <2> QED
        BY <2>1, <2>2
<1>13. ReasmTypes'
    <2>1. early' \in [RingIndex -> SUBSET Nat]
        BY <1>1, <1>2 DEF ReasmTypes
    <2>2. delivered' = Len(handed')
        BY <1>1, <1>2, <1>3, <1>8, <1>11, <1>12 DEF ReasmTypes
    <2> QED
        BY <1>1, <1>2, <1>8, <1>12, <2>1, <2>2 DEF ReasmTypes
<1>14. SlotsExact'
    <2>1. 0 .. end - 1 \subseteq sink' /\ end \notin sink'
        BY <1>1, <1>3, <1>6, <1>7, <1>8, <1>9
    <2>2. sink' \subseteq 0 .. end + ReorderWindow - 1
        BY <1>1, <1>3, <1>6, <1>8
    <2> QED
        BY <1>1, <1>10, <1>12, <2>1, <2>2, Zenon DEF SlotsExact
<1> QED
    BY <1>1, <1>13, <1>14, Zenon DEF ReasmInv, BitsExact

(* The invariant holds of a fresh stream and is kept by every step. *)
LEMMA ReasmInvariant == ReasmSpec => []ReasmInv
<1>1. ReasmInit => ReasmInv
    <2> SUFFICES ASSUME ReasmInit
                 PROVE  ReasmInv
        OBVIOUS
    <2>1. ReorderWindow \in Nat \ {0} /\ StreamBlocks \in Nat /\ \A s \in Nat : RingSlot(s) \in RingIndex
        BY SlotFacts
    <2>2. ReasmTypes
        BY DEF ReasmInit, ReasmTypes
    <2>3. BitsExact
        BY <2>1 DEF ReasmInit, BitsExact, Range, IsInjective
    <2>4. \A s \in Nat : early[RingSlot(s)] # {s}
        BY <2>1 DEF ReasmInit
    <2>5. SlotsExact
        BY <2>1, <2>4 DEF ReasmInit, SlotsExact
    <2> QED
        BY <2>2, <2>3, <2>5 DEF ReasmInv
<1>2. ReasmInv /\ [ReasmNext]_reasmVars => ReasmInv'
    <2>1. CASE UNCHANGED reasmVars
        BY <2>1 DEF reasmVars, ReasmInv, ReasmTypes, BitsExact, SlotsExact
    <2>2. CASE ReasmNext
        BY <2>2, UnorderedKeeps, EarlyKeeps, ExpectedKeeps, Zenon DEF ReasmNext
    <2> QED
        BY <2>1, <2>2
<1> QED
    BY <1>1, <1>2, PTL DEF ReasmSpec

(* Whatever the order and the number of arrivals, a stream of any length
   behind a ring of any size hands up no block twice, hands up an ordered
   stream in order, has written what it handed up, is complete only when
   every block is written, and still accepts every missing block of its
   window (ReassemblyStream::on_block, is_complete). *)
THEOREM ReassemblyIsExact == ReasmSpec => []ReassemblyExact
<1>1. ReasmInv => ReassemblyExact
    <2> SUFFICES ASSUME ReasmInv
                 PROVE  ReassemblyExact
        OBVIOUS
    <2>1. ReasmTypes /\ ReorderWindow \in Nat \ {0} /\ StreamBlocks \in Nat
        BY SlotFacts DEF ReasmInv
    <2>2. CASE ordered
        <3>1. /\ Len(handed) = expected /\ \A i \in 1 .. expected : handed[i] = i - 1
              /\ 0 .. expected - 1 \subseteq sink /\ expected \in Nat
              /\ handed \in Seq(Nat) /\ delivered = expected
              /\ sink \subseteq 0 .. StreamBlocks - 1
              /\ \A s \in Nat : early[RingSlot(s)] = {s} <=> s \in sink /\ s > expected
            BY <2>1, <2>2 DEF ReasmInv, ReasmTypes, SlotsExact
        <3>2. IsInjective(handed)
            BY <3>1 DEF IsInjective
        <3>3. Range(handed) \subseteq sink
            BY <3>1 DEF Range
        <3>4. IsComplete => sink = 0 .. StreamBlocks - 1
            BY <2>1, <3>1, Zenon DEF IsComplete
        <3>5. ASSUME NEW seq \in (0 .. StreamBlocks - 1) \ sink
              PROVE  /\ seq >= expected
                     /\ seq \in expected + 1 .. expected + ReorderWindow - 1 => NewEarly(seq)
            BY <2>1, <3>1, <3>5 DEF NewEarly
        <3> QED
            BY <2>2, <3>1, <3>2, <3>3, <3>4, <3>5 DEF ReassemblyExact
    <2>3. CASE ~ ordered
        <3>1. /\ Range(handed) = sink /\ IsInjective(handed) /\ low \in Nat
              /\ 0 .. low - 1 \subseteq sink
              /\ handed \in Seq(Nat) /\ delivered = Len(handed)
              /\ sink \subseteq 0 .. StreamBlocks - 1
            BY <2>1, <2>3 DEF ReasmInv, ReasmTypes, BitsExact
        <3>2. \A s \in low .. low + ReorderWindow - 1 : RingSlot(s) \in seen <=> s \in sink
            BY <2>1, <2>3, <3>1 DEF ReasmInv, BitsExact
        <3>3. ASSUME IsComplete
              PROVE  sink = 0 .. StreamBlocks - 1
            <4>1. Len(handed) = StreamBlocks
                BY <3>1, <3>3 DEF IsComplete
            <4>2. \A i \in 1 .. StreamBlocks : handed[i] \in 0 .. StreamBlocks - 1
                BY <3>1, <4>1 DEF Range
            <4>3. handed \in [1 .. StreamBlocks -> 0 .. StreamBlocks - 1]
                BY <2>1, <3>1, <4>1, <4>2
            <4>4. \A i, j \in 1 .. StreamBlocks : handed[i] = handed[j] => i = j
                BY <3>1, <4>3, Zenon DEF IsInjective
            <4>5. \A v \in 0 .. StreamBlocks - 1 : \E i \in 1 .. StreamBlocks : handed[i] = v
                BY <2>1, <4>3, <4>4, PigeonHole, Zenon
            <4> QED
                BY <3>1, <4>3, <4>5, Zenon DEF Range
        <3>4. ASSUME NEW seq \in (0 .. StreamBlocks - 1) \ sink
              PROVE  seq >= low /\ (seq < low + ReorderWindow => NewUnordered(seq))
            BY <2>1, <3>1, <3>2, <3>4 DEF NewUnordered
        <3> QED
            BY <2>3, <3>1, <3>3, <3>4 DEF ReassemblyExact
    <2> QED
        BY <2>2, <2>3
<1> QED
    BY <1>1, ReasmInvariant, PTL
=============================================================================
