------------------------------ MODULE SpscRing ------------------------------
(***************************************************************************)
(* The single-producer single-consumer ring (proto/spsc_ring.hpp).  Every  *)
(* load, store and slot access is a step of its own, so that each thread   *)
(* works with its cached copy of the other's counter, which goes stale.    *)
(* The counters wrap (size_t); acquire and release make the order of one   *)
(* thread's accesses the order in which the other sees them.               *)
(***************************************************************************)
EXTENDS Integers, Sequences

CONSTANTS
    Values,
    Cap,        \* cap_, a power of two
    CounterMod  \* 2^w for counters of w bits, a multiple of Cap

ASSUME SpscAssumption ==
    /\ Cap \in Nat \ {0}
    /\ CounterMod \in Nat \ {0}
    /\ CounterMod % Cap = 0
    /\ CounterMod > Cap

VARIABLES
    head, tail,  \* head_, tail_: shared
    headCache,   \* head_cache_: the producer's copy of head_
    tailCache,   \* tail_cache_: the consumer's copy of tail_
    slots,       \* slots_
    room,        \* what writable() returned to the producer
    filled,      \* slots it has filled since
    avail,       \* what readable() returned to the consumer
    taken,       \* what it has read since
    given        \* the batch it most recently gave back

producerSide == <<tail, headCache, room, filled>>
consumerSide == <<head, tailCache, avail, taken, given>>
ringVars == <<producerSide, consumerSide, slots>>

(* Unsigned arithmetic on counters, and the slot of a counter value. *)
Plus(a, n) == (a + n) % CounterMod
Minus(a, b) == (a - b) % CounterMod
Index(a) == a % Cap

RingInit ==
    /\ head = 0 /\ tail = 0 /\ headCache = 0 /\ tailCache = 0
    /\ slots \in [0 .. Cap - 1 -> Values]
    /\ room = 0 /\ filled = 0
    /\ avail = 0 /\ taken = <<>> /\ given = <<>>

-----------------------------------------------------------------------------
(* Wrong variant: the cache is never refreshed. *)
WritableStale ==
    /\ filled = 0
    /\ room' = Cap - Minus(tail, headCache)
    /\ UNCHANGED <<tail, headCache, filled, slots, consumerSide>>

(* writable(): the other counter is loaded only if the ring looks full. *)
Writable ==
    /\ filled = 0
    /\ headCache' = IF Minus(tail, headCache) = Cap THEN head ELSE headCache
    /\ room' = Cap - Minus(tail, headCache')
    /\ UNCHANGED <<tail, filled, slots, consumerSide>>

FillSlot(v) ==
    /\ filled < room
    /\ slots' = [slots EXCEPT ![Index(Plus(tail, filled))] = v]
    /\ filled' = filled + 1
    /\ UNCHANGED <<tail, headCache, room, consumerSide>>

Commit ==
    /\ filled > 0
    /\ tail' = Plus(tail, filled)
    /\ room' = 0 /\ filled' = 0
    /\ UNCHANGED <<headCache, slots, consumerSide>>

(* Wrong variant: one slot too many. *)
ReadableOneMore ==
    /\ taken = <<>>
    /\ tailCache' = IF head = tailCache THEN tail ELSE tailCache
    /\ avail' = Minus(tailCache', head) + 1
    /\ UNCHANGED <<head, taken, given, slots, producerSide>>

(* readable(): the other counter is loaded only if the ring looks empty. *)
Readable ==
    /\ taken = <<>>
    /\ tailCache' = IF head = tailCache THEN tail ELSE tailCache
    /\ avail' = Minus(tailCache', head)
    /\ UNCHANGED <<head, taken, given, slots, producerSide>>

ReadSlot ==
    /\ Len(taken) < avail
    /\ taken' = Append(taken, slots[Index(Plus(head, Len(taken)))])
    /\ UNCHANGED <<head, tailCache, avail, given, slots, producerSide>>

(* Wrong variant: everything readable is given back, read or not. *)
ConsumeAll ==
    /\ taken # <<>>
    /\ head' = Plus(head, avail)
    /\ given' = taken
    /\ avail' = 0 /\ taken' = <<>>
    /\ UNCHANGED <<tailCache, slots, producerSide>>

Consume ==
    /\ taken # <<>>
    /\ head' = Plus(head, Len(taken))
    /\ given' = taken
    /\ avail' = 0 /\ taken' = <<>>
    /\ UNCHANGED <<tailCache, slots, producerSide>>

RingNext ==
    \/ Writable
    \/ \E v \in Values : FillSlot(v)
    \/ Commit
    \/ Readable
    \/ ReadSlot
    \/ Consume

(* Each thread asks again until it is served: the receiving thread while a
   lane runs, a writer thread in its polling loop; and a consumer reads what
   it was told of and gives it back. *)
RingFairness ==
    /\ WF_ringVars(Writable)
    /\ WF_ringVars(Readable)
    /\ WF_ringVars(ReadSlot)
    /\ WF_ringVars(Consume)

RingSpec == RingInit /\ [][RingNext]_ringVars /\ RingFairness

-----------------------------------------------------------------------------
RingTypeOK ==
    /\ {head, tail, headCache, tailCache} \subseteq 0 .. CounterMod - 1
    /\ slots \in [0 .. Cap - 1 -> Values]
    /\ room \in 0 .. Cap /\ filled \in 0 .. room
    /\ avail \in 0 .. Cap /\ taken \in Seq(Values) /\ Len(taken) <= avail

(* The slots the producer may fill and those the consumer may read never
   overlap, however stale the cached counters are: no slot is written while
   it is read, or read before it is written (spsc_ring.hpp:7-14). *)
NoSlotShared ==
    \A i \in 0 .. room - 1, j \in 0 .. avail - 1 :
        Index(Plus(tail, i)) # Index(Plus(head, j))

(* A stale cache never holds a thread up for good: a producer told that the
   ring is full is given room again, and a consumer is told of what has been
   committed, although each reloads the other's counter only when its copy
   says full or empty (writable(), readable()). *)
RingFlows == (room = 0 ~> room > 0) /\ (tail # head ~> avail > 0)

Published == [i \in 1 .. Minus(tail, head) |-> slots[Index(Plus(head, i - 1))]]

Queue == INSTANCE Fifo WITH q <- Published, out <- given, Capacity <- Cap

(* The ring is a bounded FIFO queue, over any number of laps and wraps of its
   counters: every batch taken is what was put, in order, once. *)
ImplementsFifo == Queue!Spec
=============================================================================
