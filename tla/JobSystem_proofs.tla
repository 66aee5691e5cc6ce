-------------------------- MODULE JobSystem_proofs --------------------------
(***************************************************************************)
(* The job system of JobSystem.tla, for every set of workers, every        *)
(* capacity, every width of the integers and every program of calls.       *)
(***************************************************************************)
EXTENDS JobSystem, FiniteSetTheorems, TLAPS

-----------------------------------------------------------------------------
(* The ring buffer of RingBuffer.tla, for every capacity. *)

\* (head + 1) % capacity is head + 1, except that the last slot wraps to slot 0.
LEMMA NextSlotValue ==
    ASSUME NEW s \in Slots
    PROVE  NextSlot(s) = IF s = Capacity - 1 THEN 0 ELSE s + 1
<1> USE CapacityAssumption DEF Slots, NextSlot
<1>1. CASE s = Capacity - 1
    <2>1. (s + 1) % Capacity = Capacity % Capacity
        BY <1>1
    <2>2. Capacity % Capacity = 0
        BY Z3
    <2>. QED BY <1>1, <2>1, <2>2
<1>2. CASE s # Capacity - 1
    <2>1. s + 1 \in 0 .. Capacity - 1
        BY <1>2
    <2>2. (s + 1) % Capacity = s + 1
        BY <2>1, Z3
    <2>. QED BY <1>2, <2>2
<1>. QED BY <1>1, <1>2

\* push_back into a buffer that is not full: the buffer stays well formed, holds
\* one item more, keeps what it held and holds the new item.
LEMMA PushBackGrows ==
    ASSUME NEW Item, NEW r \in RingBuffers(Item), NEW item \in Item, ~IsFull(r)
    PROVE  /\ PushBack(r, item) \in RingBuffers(Item)
           /\ Size(PushBack(r, item)) = Size(r) + 1
           /\ Held(PushBack(r, item)) = Held(r) \cup {item}
           /\ LiveSlots(PushBack(r, item)) = LiveSlots(r) \cup {r.head}
           /\ r.head \notin LiveSlots(r) /\ PushBack(r, item).data[r.head] = item
           /\ \A s \in LiveSlots(r) : PushBack(r, item).data[s] = r.data[s]
<1> DEFINE p == PushBack(r, item)
<1> USE CapacityAssumption
<1>1. r.head \in Slots /\ r.tail \in Slots /\ r.data \in [Slots -> Item]
    BY DEF RingBuffers
<1>2. NextSlot(r.head) = IF r.head = Capacity - 1 THEN 0 ELSE r.head + 1
    BY <1>1, NextSlotValue
<1>3. NextSlot(r.head) \in Slots /\ NextSlot(r.head) # r.tail
    BY <1>1, <1>2 DEF Slots, IsFull
<1>4. /\ p.data = [r.data EXCEPT ![r.head] = item]
      /\ p.head = NextSlot(r.head) /\ p.tail = r.tail
    BY DEF PushBack
<1>5. p \in RingBuffers(Item)
    BY <1>1, <1>3 DEF PushBack, RingBuffers
<1>6. Size(p) = Size(r) + 1
    BY <1>1, <1>2, <1>3, <1>4 DEF Size, Slots
<1>7. LiveSlots(p) = LiveSlots(r) \cup {r.head}
    BY <1>1, <1>2, <1>3, <1>4 DEF LiveSlots, Slots
<1>8. LiveSlots(r) \subseteq Slots /\ r.head \notin LiveSlots(r)
    BY <1>1 DEF LiveSlots, Slots
<1>9. \A s \in LiveSlots(r) : p.data[s] = r.data[s]
    BY <1>1, <1>4, <1>8
<1>10. p.data[r.head] = item
    BY <1>1, <1>4
<1>11. Held(p) = Held(r) \cup {item}
    BY <1>7, <1>9, <1>10 DEF Held
<1>. QED BY <1>5, <1>6, <1>7, <1>8, <1>9, <1>10, <1>11

\* pop_front from a buffer that is not empty: the buffer stays well formed, holds
\* one item less, and what it held is the item handed out and what it still holds.
LEMMA PopFrontShrinks ==
    ASSUME NEW Item, NEW r \in RingBuffers(Item), ~IsEmpty(r)
    PROVE  /\ PopFront(r) \in RingBuffers(Item)
           /\ Size(PopFront(r)) = Size(r) - 1
           /\ Held(r) = {Front(r)} \cup Held(PopFront(r))
           /\ LiveSlots(r) = LiveSlots(PopFront(r)) \cup {r.tail}
           /\ r.tail \notin LiveSlots(PopFront(r)) /\ PopFront(r).data = r.data
<1> DEFINE p == PopFront(r)
<1> USE CapacityAssumption
<1>1. r.head \in Slots /\ r.tail \in Slots /\ r.head # r.tail
    BY DEF RingBuffers, IsEmpty
<1>2. NextSlot(r.tail) = IF r.tail = Capacity - 1 THEN 0 ELSE r.tail + 1
    BY <1>1, NextSlotValue
<1>3. p.data = r.data /\ p.head = r.head /\ p.tail = NextSlot(r.tail)
    BY DEF PopFront
<1>4. p \in RingBuffers(Item)
    BY <1>1, <1>2 DEF PopFront, RingBuffers, Slots
<1>5. Size(p) = Size(r) - 1
    BY <1>1, <1>2, <1>3 DEF Size, Slots
<1>6. LiveSlots(r) = LiveSlots(p) \cup {r.tail} /\ r.tail \notin LiveSlots(p)
    BY <1>1, <1>2, <1>3 DEF LiveSlots, Slots
<1>7. Held(r) = {Front(r)} \cup Held(p)
    BY <1>3, <1>6 DEF Held, Front
<1>. QED BY <1>3, <1>4, <1>5, <1>6, <1>7

\* A well formed buffer holds between 0 and Capacity - 1 items, and none exactly
\* when head and tail are equal; the item at the tail of another one is held.
LEMMA SizeFacts ==
    ASSUME NEW Item, NEW r \in RingBuffers(Item)
    PROVE  /\ Size(r) \in 0 .. Capacity - 1
           /\ Size(r) = 0 <=> IsEmpty(r)
           /\ IsEmpty(r) => Held(r) = {}
           /\ ~IsEmpty(r) => Front(r) \in Item
<1> USE CapacityAssumption
<1>1. r.head \in Slots /\ r.tail \in Slots /\ r.data \in [Slots -> Item]
    BY DEF RingBuffers
<1>2. Size(r) \in 0 .. Capacity - 1 /\ (Size(r) = 0 <=> IsEmpty(r))
    BY <1>1 DEF Size, Slots, IsEmpty
<1>3. IsEmpty(r) => LiveSlots(r) = {}
    BY <1>1 DEF LiveSlots, IsEmpty, Slots
<1>. QED BY <1>1, <1>2, <1>3 DEF Held, Front
\* Where Queue finds its k-th item: k - 1 slots after the tail, around the end.
LEMMA QueueSlot ==
    ASSUME NEW Item, NEW r \in RingBuffers(Item), NEW k \in 1 .. Size(r)
    PROVE  LET s == r.tail + k - 1
           IN  /\ s % Capacity = IF s < Capacity THEN s ELSE s - Capacity
               /\ s % Capacity \in LiveSlots(r)
<1> DEFINE s == r.tail + k - 1
<1> USE CapacityAssumption
<1>1. r.head \in Slots /\ r.tail \in Slots
    BY DEF RingBuffers
<1>2. s \in 0 .. Capacity + Capacity - 1
    BY <1>1 DEF Size, Slots
<1>3. CASE s < Capacity
    <2>1. s % Capacity = s
        BY <1>2, <1>3, Z3
    <2>2. s \in LiveSlots(r)
        BY <1>1, <1>3 DEF Size, Slots, LiveSlots
    <2>. QED BY <1>3, <2>1, <2>2
<1>4. CASE s >= Capacity
    <2>1. s - Capacity \in 0 .. Capacity - 1 /\ s = Capacity + (s - Capacity)
        BY <1>2, <1>4
    <2>2. \A i \in 0 .. Capacity - 1 : (Capacity + i) % Capacity = i
        BY Z3
    <2>3. s % Capacity = s - Capacity
        BY <2>1, <2>2
    <2>4. s - Capacity \in LiveSlots(r)
        BY <1>1, <1>4 DEF Size, Slots, LiveSlots
    <2>. QED BY <1>2, <1>4, <2>3, <2>4
<1>. QED BY <1>2, <1>3, <1>4

\* The queue of a buffer: its length, its items and its first item.
LEMMA QueueFacts ==
    ASSUME NEW Item, NEW r \in RingBuffers(Item)
    PROVE  /\ Len(Queue(r)) = Size(r) /\ Size(r) \in Nat
           /\ \A k \in 1 .. Size(r) : Queue(r)[k] \in Held(r)
           /\ ~IsEmpty(r) => Size(r) > 0 /\ Queue(r)[1] = Front(r)
<1>1. Size(r) \in Nat /\ (Size(r) = 0 <=> IsEmpty(r))
    BY SizeFacts, CapacityAssumption
<1>2. Len(Queue(r)) = Size(r)
    BY <1>1 DEF Queue
<1>3. \A k \in 1 .. Size(r) : Queue(r)[k] \in Held(r)
    BY QueueSlot DEF Queue, Held
<1>4. ASSUME ~IsEmpty(r) PROVE Queue(r)[1] = Front(r)
    <2>1. 1 \in 1 .. Size(r) /\ r.tail \in Slots
        BY <1>1, <1>4 DEF RingBuffers
    <2>2. r.tail + 1 - 1 = r.tail /\ r.tail < Capacity
        BY <2>1, CapacityAssumption DEF Slots
    <2>. QED BY <2>1, <2>2, QueueSlot DEF Queue, Front
<1>. QED BY <1>1, <1>2, <1>3, <1>4

\* push_back adds its item at the end of the queue.
LEMMA PushBackAppends ==
    ASSUME NEW Item, NEW r \in RingBuffers(Item), NEW item \in Item, ~IsFull(r)
    PROVE  /\ \A k \in 1 .. Size(r) : Queue(PushBack(r, item))[k] = Queue(r)[k]
           /\ Queue(PushBack(r, item))[Size(r) + 1] = item
<1> DEFINE p == PushBack(r, item)
<1> USE CapacityAssumption
<1>1. /\ p \in RingBuffers(Item) /\ Size(p) = Size(r) + 1 /\ Size(r) \in Nat
      /\ r.head \in Slots /\ r.tail \in Slots /\ p.tail = r.tail
    <2>1. p \in RingBuffers(Item) /\ Size(p) = Size(r) + 1
        BY PushBackGrows
    <2>2. Size(r) \in Nat
        BY QueueFacts
    <2>. QED BY <2>1, <2>2 DEF RingBuffers, PushBack
<1>2. ASSUME NEW k \in 1 .. Size(r) PROVE Queue(p)[k] = Queue(r)[k]
    <2>1. (r.tail + k - 1) % Capacity \in LiveSlots(r)
        BY QueueSlot
    <2>2. p.data[(r.tail + k - 1) % Capacity] = r.data[(r.tail + k - 1) % Capacity]
        BY <2>1, PushBackGrows
    <2>3. k \in 1 .. Size(p)
        BY <1>1
    <2>. QED BY <1>1, <2>2, <2>3 DEF Queue
<1>3. Queue(p)[Size(r) + 1] = item
    <2>1. Size(r) + 1 \in 1 .. Size(p)
        BY <1>1
    <2>2. (p.tail + (Size(r) + 1) - 1) % Capacity = r.head
        <3>1. LET s == p.tail + (Size(r) + 1) - 1
              IN  s % Capacity = IF s < Capacity THEN s ELSE s - Capacity
            BY <1>1, <2>1, QueueSlot
        <3>. QED BY <1>1, <3>1 DEF Size, Slots
    <2>3. p.data[r.head] = item
        BY PushBackGrows
    <2>. QED BY <2>1, <2>2, <2>3 DEF Queue
<1>. QED BY <1>2, <1>3

\* pop_front moves every other item one place up.
LEMMA PopFrontShifts ==
    ASSUME NEW Item, NEW r \in RingBuffers(Item), ~IsEmpty(r)
    PROVE  \A k \in 1 .. Size(r) - 1 : Queue(PopFront(r))[k] = Queue(r)[k + 1]
<1> DEFINE p == PopFront(r)
<1> USE CapacityAssumption
<1>1. /\ p \in RingBuffers(Item) /\ Size(p) = Size(r) - 1 /\ Size(r) \in Nat
      /\ p.data = r.data /\ r.tail \in Slots /\ p.tail = NextSlot(r.tail)
    BY PopFrontShrinks, QueueFacts DEF RingBuffers, PopFront
<1>2. ASSUME NEW k \in 1 .. Size(r) - 1 PROVE Queue(p)[k] = Queue(r)[k + 1]
    <2>1. k \in 1 .. Size(p) /\ k + 1 \in 1 .. Size(r)
        BY <1>1
    <2>2. p.tail = IF r.tail = Capacity - 1 THEN 0 ELSE r.tail + 1
        BY <1>1, NextSlotValue
    <2>3. LET s == p.tail + k - 1
          IN  s % Capacity = IF s < Capacity THEN s ELSE s - Capacity
        BY <1>1, <2>1, QueueSlot
    <2>4. LET s == r.tail + (k + 1) - 1
          IN  s % Capacity = IF s < Capacity THEN s ELSE s - Capacity
        BY <1>1, <2>1, QueueSlot
    <2>5. (p.tail + k - 1) % Capacity \in Slots /\ (r.tail + (k + 1) - 1) % Capacity \in Slots
        <3>1. LiveSlots(r) \subseteq Slots /\ LiveSlots(p) \subseteq Slots
            BY <1>1 DEF LiveSlots, Slots, RingBuffers
        <3>. QED BY <1>1, <2>1, <3>1, QueueSlot
    <2>6. (p.tail + k - 1) % Capacity = (r.tail + (k + 1) - 1) % Capacity
        BY <1>1, <2>1, <2>2, <2>3, <2>4, <2>5 DEF Slots
    <2>. QED BY <1>1, <2>1, <2>6 DEF Queue
<1>. QED BY <1>2

-----------------------------------------------------------------------------
(* What Dispatch's uint32_t arithmetic computes, for every job count, group
   size and width of the integers. *)

\* Division with remainder.
LEMMA Division ==
    ASSUME NEW n \in Nat, NEW d \in Nat, d > 0
    PROVE  /\ n \div d \in Nat
           /\ (n \div d) * d <= n
           /\ n < (n \div d) * d + d
<1>1. n = d * (n \div d) + (n % d) /\ n % d \in 0 .. d - 1 /\ n \div d \in Int
    BY Z3
<1>2. n \div d >= 0
    BY Z3
<1>. QED BY <1>1, <1>2, Z3

\* A number below the modulus is its own remainder, as no uint32_t wraps.
LEMMA NoWrap ==
    ASSUME NEW n \in Nat, n < Word
    PROVE  n % Word = n
BY WordAssumption, Z3

\* Products with a common factor keep their order.
LEMMA MultMonotone ==
    ASSUME NEW a \in Nat, NEW b \in Nat, NEW d \in Nat, a <= b
    PROVE  a * d <= b * d
BY Z3

\* When the rounding sum wraps, it wraps to less than groupSize and the division
\* gives no group at all.
LEMMA WrappedSumGivesNoGroup ==
    ASSUME NEW jobCount \in UInt \ {0}, NEW groupSize \in UInt \ {0},
           ~Fits(jobCount, groupSize)
    PROVE  GroupCount(jobCount, groupSize) = 0
<1> DEFINE sum == jobCount + groupSize - 1
<1> USE WordAssumption DEF UInt, Fits
<1>1. sum \in Nat /\ sum >= Word /\ sum < 2 * Word /\ sum - Word < groupSize
    OBVIOUS
<1>2. sum % Word = sum - Word
    <2>1. sum - Word \in Nat /\ sum - Word < Word
        BY <1>1
    <2>. QED BY <1>1, <2>1, Z3
<1>3. sum - Word \in Nat /\ groupSize \in Nat \ {0}
    BY <1>1
<1>4. (sum - Word) \div groupSize = 0
    BY <1>1, <1>3, Z3
<1>. QED BY <1>2, <1>4 DEF GroupCount

\* The groups that exist: each starts below jobCount, and no offset wraps.
LEMMA GroupBounds ==
    ASSUME NEW jobCount \in UInt \ {0}, NEW groupSize \in UInt \ {0},
           Fits(jobCount, groupSize),
           NEW g \in 0 .. GroupCount(jobCount, groupSize) - 1
    PROVE  /\ GroupOffset(groupSize, g) = g * groupSize
           /\ g * groupSize \in Nat
           /\ g * groupSize < jobCount
           /\ GroupEnd(jobCount, groupSize, g) =
                  IF g * groupSize + groupSize < jobCount
                  THEN g * groupSize + groupSize ELSE jobCount
<1> DEFINE sum == jobCount + groupSize - 1
           count == sum \div groupSize
<1> USE WordAssumption DEF UInt
<1>1. sum \in Nat /\ sum < Word /\ groupSize \in Nat /\ groupSize > 0 /\ jobCount \in Nat
    BY DEF Fits
<1>2. sum % Word = sum
    BY <1>1, NoWrap
<1>3. GroupCount(jobCount, groupSize) = count
    BY <1>2 DEF GroupCount
<1>4. count \in Nat /\ count * groupSize <= sum
    BY <1>1, Division
<1>5. g \in Nat /\ g + 1 \in Nat /\ g + 1 <= count
    BY <1>3, <1>4
<1>6. (g + 1) * groupSize <= count * groupSize
    BY <1>1, <1>4, <1>5, MultMonotone
<1>7. g * groupSize \in Nat /\ (g + 1) * groupSize = g * groupSize + groupSize
    BY <1>1, <1>5, Z3
<1>8. count * groupSize \in Nat
    BY <1>1, <1>4, Z3
<1>9. g * groupSize + groupSize <= sum
    BY <1>1, <1>4, <1>6, <1>7, <1>8
<1>10. g * groupSize < jobCount
    BY <1>1, <1>7, <1>9
<1>11. g * groupSize < Word /\ g * groupSize + groupSize < Word
    BY <1>1, <1>7, <1>9
<1>12. GroupOffset(groupSize, g) = g * groupSize
    BY <1>7, <1>11, NoWrap DEF GroupOffset
<1>13. (g * groupSize + groupSize) % Word = g * groupSize + groupSize
    BY <1>1, <1>7, <1>11, NoWrap
<1>. QED BY <1>7, <1>10, <1>12, <1>13 DEF GroupEnd

\* Dispatch is all or nothing: the groups' indices are together exactly the
\* accepted ones, and no two groups share one.
THEOREM GroupsPartitionJobs ==
    ASSUME NEW jobCount \in UInt \ {0}, NEW groupSize \in UInt \ {0}
    PROVE  LET groups == 0 .. GroupCount(jobCount, groupSize) - 1
           IN  /\ UNION {GroupIndices(jobCount, groupSize, g) : g \in groups}
                      = Accepted(jobCount, groupSize)
               /\ \A g, h \in groups :
                      g # h => GroupIndices(jobCount, groupSize, g)
                                   \cap GroupIndices(jobCount, groupSize, h) = {}
<1> DEFINE groups == 0 .. GroupCount(jobCount, groupSize) - 1
           sum == jobCount + groupSize - 1
           count == sum \div groupSize
<1> USE WordAssumption DEF UInt
<1>1. CASE ~Fits(jobCount, groupSize)
    <2>1. groups = {}
        BY <1>1, WrappedSumGivesNoGroup
    <2>. QED BY <1>1, <2>1 DEF Accepted
<1>2. CASE Fits(jobCount, groupSize)
    <2>1. sum \in Nat /\ sum < Word /\ groupSize \in Nat /\ groupSize > 0 /\ jobCount \in Nat
        BY <1>2 DEF Fits
    <2>2. GroupCount(jobCount, groupSize) = count
        BY <2>1, NoWrap DEF GroupCount
    <2>3. count \in Nat /\ sum < count * groupSize + groupSize
        BY <2>1, Division
    <2>4. ASSUME NEW g \in groups
          PROVE  GroupIndices(jobCount, groupSize, g) \subseteq 0 .. jobCount - 1
        <3>1. GroupEnd(jobCount, groupSize, g) <= jobCount
            BY <1>2, <2>1, <2>4, GroupBounds
        <3>2. GroupOffset(groupSize, g) \in Nat /\ GroupEnd(jobCount, groupSize, g) \in Nat
            BY <1>2, <2>1, <2>4, GroupBounds
        <3>. QED BY <2>1, <3>1, <3>2 DEF GroupIndices
    <2>5. ASSUME NEW i \in 0 .. jobCount - 1
          PROVE  \E g \in groups : i \in GroupIndices(jobCount, groupSize, g)
        <3> DEFINE g == i \div groupSize
        <3>1. i \in Nat /\ g \in Nat /\ g * groupSize <= i /\ i < g * groupSize + groupSize
            BY <2>1, Division
        <3>2. g < count
            <4>1. SUFFICES ASSUME count <= g PROVE FALSE
                BY <2>3, <3>1
            <4>2. count * groupSize <= g * groupSize
                BY <2>1, <2>3, <3>1, <4>1, MultMonotone
            <4>3. count * groupSize \in Nat /\ g * groupSize \in Nat
                BY <2>1, <2>3, <3>1, Z3
            <4>. QED BY <2>1, <2>3, <3>1, <4>2, <4>3
        <3>3. g \in groups
            BY <2>2, <2>3, <3>1, <3>2
        <3>4. /\ GroupOffset(groupSize, g) = g * groupSize
              /\ g * groupSize \in Nat
              /\ GroupEnd(jobCount, groupSize, g) =
                     IF g * groupSize + groupSize < jobCount
                     THEN g * groupSize + groupSize ELSE jobCount
            BY <1>2, <3>3, GroupBounds
        <3>5. i \in UInt
            BY <2>1
        <3>6. i \in GroupIndices(jobCount, groupSize, g)
            <4> HIDE DEF g
            <4>. QED BY <2>1, <3>1, <3>4, <3>5 DEF GroupIndices
        <3>. QED BY <3>3, <3>6
    <2>6. ASSUME NEW g \in groups, NEW h \in groups, g < h
          PROVE  GroupIndices(jobCount, groupSize, g)
                     \cap GroupIndices(jobCount, groupSize, h) = {}
        <3>1. /\ g * groupSize \in Nat /\ h * groupSize \in Nat
              /\ GroupEnd(jobCount, groupSize, g) <= g * groupSize + groupSize
              /\ GroupOffset(groupSize, h) = h * groupSize
              /\ GroupEnd(jobCount, groupSize, g) \in Nat
            BY <1>2, <2>1, <2>6, GroupBounds
        <3>2. g + 1 \in Nat /\ h \in Nat /\ g + 1 <= h /\ g \in Nat
            BY <2>2, <2>3, <2>6
        <3>3. (g + 1) * groupSize <= h * groupSize
            BY <2>1, <3>2, MultMonotone
        <3>4. (g + 1) * groupSize = g * groupSize + groupSize
            BY <2>1, <3>2, Z3
        <3>5. GroupEnd(jobCount, groupSize, g) <= GroupOffset(groupSize, h)
            BY <2>1, <3>1, <3>3, <3>4
        <3>. QED BY <3>1, <3>5 DEF GroupIndices
    <2>7. groups \subseteq Nat
        BY <2>2, <2>3
    <2>. QED BY <1>2, <2>4, <2>5, <2>6, <2>7 DEF Accepted
<1>. QED BY <1>1, <1>2

-----------------------------------------------------------------------------
(* The job system. *)

Base == TypeOK /\ LoopInv /\ JobsInv

\* The number of groups of a dispatch is a uint32_t.
LEMMA GroupCountType ==
    ASSUME NEW jobCount \in UInt, NEW groupSize \in UInt \ {0}
    PROVE  GroupCount(jobCount, groupSize) \in UInt
<1> DEFINE n == (jobCount + groupSize - 1) % Word
<1> USE WordAssumption DEF UInt
<1>1. n \in Nat /\ n < Word
    <2>1. jobCount + groupSize - 1 \in Nat
        OBVIOUS
    <2>. QED BY <2>1, Z3
<1>2. n \div groupSize \in Nat /\ (n \div groupSize) * groupSize <= n
    BY <1>1, Division
<1>3. n \div groupSize <= (n \div groupSize) * groupSize
    BY <1>2, Z3
<1>4. (n \div groupSize) * groupSize \in Nat
    BY <1>2, Z3
<1>. QED BY <1>1, <1>2, <1>3, <1>4 DEF GroupCount

\* So is the number of groups of an issued call.
LEMMA GroupsType ==
    ASSUME TypeOK, NEW c \in DOMAIN calls
    PROVE  Groups(c) \in UInt
<1>1. calls[c] \in Call
    BY DEF TypeOK
<1>2. calls[c].jobCount \in UInt /\ calls[c].groupSize \in UInt \ {0}
    BY <1>1 DEF Call
<1>. QED BY <1>2, GroupCountType DEF Groups

\* The first index of a job of an issued call, and the end of its loop.
LEMMA JobRangeType ==
    ASSUME TypeOK, NEW j \in Issued
    PROVE  JobOffset(j) \in Nat /\ JobEnd(j) \in Nat
<1>1. j.call \in DOMAIN calls /\ calls[j.call] \in Call /\ j.group \in UInt
    BY DEF Issued, Job, TypeOK
<1>2. calls[j.call].jobCount \in Nat /\ calls[j.call].groupSize \in Nat /\ j.group \in Nat
    BY <1>1, WordAssumption DEF Call, UInt
<1>3. j.group * calls[j.call].groupSize \in Nat
    BY <1>2, Z3
<1>4. \A n \in Nat : n % Word \in Nat
    BY WordAssumption, Z3
<1>. QED BY <1>2, <1>3, <1>4 DEF JobOffset, JobEnd, GroupOffset, GroupEnd

\* Steps that move a thread between waiting places and touch no job.
Quiet == /\ UNCHANGED <<jobPool, currentLabel, finishedLabel, groupIndex, job, index, calls, ran>>
         /\ Running' = Running
         /\ main' \in {"caller", "push", "pushPoll", "notify", "wait", "waitPoll"}
         /\ wpc' \in [Workers -> {"pop", "run", "lock", "asleep"}]
         /\ \/ main' = main
            \/ main' \in {"push", "pushPoll"} /\ main \in {"push", "pushPoll"}
            \/ main' \notin {"push", "pushPoll", "notify"} /\ ~Pushing
            \/ /\ main = "notify"
               /\ main' = IF groupIndex < Groups(Len(calls)) THEN "push" ELSE "caller"

\* notify_one moves no worker into or out of a job.
LEMMA NotifyKeepsRunning ==
    ASSUME TypeOK, NotifyOne
    PROVE  /\ wpc' \in [Workers -> {"pop", "run", "lock", "asleep"}]
           /\ Running' = Running
           /\ UNCHANGED <<job, index, ran>>
BY DEF TypeOK, NotifyOne, Running, workerVars

\* Every step is one of the steps that change what the invariant counts, or quiet.
LEMMA StepCases ==
    ASSUME TypeOK, [Next]_vars
    PROVE  \/ \E jobCount \in UInt \ {0}, groupSize \in UInt \ {0}, n \in UInt :
                 Issue(jobCount, groupSize, n) /\ n = GroupCount(jobCount, groupSize)
           \/ PushSucceeds
           \/ \E w \in Workers : PopSucceeds(w) \/ RunIndex(w) \/ FinishJob(w)
           \/ Quiet
<1>1. CASE Execute
    <2>1. 1 \in UInt \ {0} /\ GroupCount(1, 1) = 1
        <3>1. 1 % Word = 1
            BY WordAssumption, NoWrap
        <3>2. 1 \div 1 = 1
            BY Z3
        <3>. QED BY <3>1, <3>2, WordAssumption DEF UInt, GroupCount
    <2>. QED BY <1>1, <2>1 DEF Execute
<1>2. ASSUME NEW s \in Shapes, Dispatch(s[1], s[2])
      PROVE  \E jobCount \in UInt \ {0}, groupSize \in UInt \ {0}, n \in UInt :
                 Issue(jobCount, groupSize, n) /\ n = GroupCount(jobCount, groupSize)
    <2>1. s[1] \in UInt \ {0} /\ s[2] \in UInt \ {0}
        BY <1>2, JobSystemAssumption DEF Dispatch
    <2>2. GroupCount(s[1], s[2]) \in UInt
        BY <2>1, GroupCountType
    <2>. QED BY <1>2, <2>1, <2>2 DEF Dispatch
<1>3. CASE PushFails
    BY <1>3 DEF PushFails, Quiet, Running, TypeOK, poolVars, labelVars, workerVars
<1>4. CASE NotifyPushed
    <2>1. /\ wpc' \in [Workers -> {"pop", "run", "lock", "asleep"}]
          /\ Running' = Running /\ UNCHANGED <<job, index, ran>>
        BY <1>4, NotifyKeepsRunning DEF NotifyPushed
    <2>. QED BY <1>4, <2>1 DEF NotifyPushed, Quiet, poolVars, labelVars
<1>5. CASE PollPush \/ PollWait
    <2>1. /\ wpc' \in [Workers -> {"pop", "run", "lock", "asleep"}]
          /\ Running' = Running /\ UNCHANGED <<job, index, ran>>
        BY <1>5, NotifyKeepsRunning DEF PollPush, PollWait
    <2>. QED BY <1>5, <2>1 DEF PollPush, PollWait, Quiet, Pushing, poolVars, labelVars
<1>6. CASE CallWait \/ WaitTest
    BY <1>6 DEF CallWait, WaitTest, Quiet, Running, TypeOK, Pushing, poolVars, labelVars, workerVars
<1>7. ASSUME NEW w \in Workers, PopFails(w) \/ Sleep(w) \/ SpuriousWake(w)
      PROVE  Quiet
    <2>1. /\ wpc' \in [Workers -> {"pop", "run", "lock", "asleep"}]
          /\ Running' = Running
        BY <1>7 DEF PopFails, Sleep, SpuriousWake, Running, TypeOK
    <2>2. /\ UNCHANGED <<jobPool, currentLabel, finishedLabel, groupIndex, job, index, calls, ran>>
          /\ main' = main
        BY <1>7 DEF PopFails, Sleep, SpuriousWake, mainVars, poolVars, labelVars
    <2>3. main # "notify" => main' \in {"caller", "push", "pushPoll", "wait", "waitPoll"}
        BY <2>2 DEF TypeOK
    <2>. QED BY <2>1, <2>2, <2>3 DEF Quiet
<1>8. CASE UNCHANGED vars
    BY <1>8 DEF vars, Quiet, Running, TypeOK
<1>. QED
    BY <1>1, <1>2, <1>3, <1>4, <1>5, <1>6, <1>7, <1>8 DEF Next, MainStep, WorkerStep

-----------------------------------------------------------------------------
(* The types, the bounds of the push loop, and the jobs in circulation. *)

LEMMA BaseInit == Init => Base
<1> SUFFICES ASSUME Init PROVE Base
    OBVIOUS
<1> USE CapacityAssumption, JobSystemAssumption DEF Init
<1>1. EmptyRing(NoJob) \in RingBuffers(Job \cup {NoJob})
    BY DEF EmptyRing, RingBuffers, Slots
<1>2. Held(EmptyRing(NoJob)) = {}
    BY DEF EmptyRing, Held, LiveSlots
<1>. QED BY <1>1, <1>2 DEF Base, TypeOK, LoopInv, JobsInv, Running

\* A call that is issued adds its jobs to those the push loop owes, and leaves
\* the calls before it alone.
LEMMA IssueEffect ==
    ASSUME Base,
           NEW jobCount \in UInt \ {0}, NEW groupSize \in UInt \ {0},
           NEW n \in UInt, n = GroupCount(jobCount, groupSize),
           Issue(jobCount, groupSize, n)
    PROVE  /\ calls' \in Seq(Call) /\ Len(calls') = Len(calls) + 1 /\ Len(calls') <= MaxCalls
           /\ \A c \in DOMAIN calls : calls'[c] = calls[c] /\ Groups(c)' = Groups(c)
           /\ Groups(Len(calls))' = n
           /\ calls'[Len(calls')] = [jobCount |-> jobCount, groupSize |-> groupSize]
           /\ Pushed' = Issued /\ Pushed = Issued
           /\ Running' = Running
<1>1. /\ calls' \in Seq(Call) /\ Len(calls') = Len(calls) + 1 /\ Len(calls') <= MaxCalls
      /\ calls'[Len(calls')] = [jobCount |-> jobCount, groupSize |-> groupSize]
      /\ \A c \in DOMAIN calls : calls'[c] = calls[c]
    BY JobSystemAssumption DEF Issue, Base, TypeOK, Call
<1>2. /\ \A c \in DOMAIN calls : Groups(c)' = Groups(c)
      /\ Groups(Len(calls))' = n
    BY <1>1 DEF Groups
<1>3. Pushed = Issued
    BY DEF Pushed, Pushing, Issue
<1>4. \A j \in Job : j.call <= Len(calls) => j.call \in DOMAIN calls
    BY DEF Job, Base, TypeOK
<1>5. Pushed' = Issued
    <2>1. \A j \in Job : j.call \in Nat /\ j.group \in Nat
        BY WordAssumption DEF Job, UInt
    <2>2. Len(calls) \in Nat
        BY DEF Base, TypeOK
    <2>3. n # 0 => main' = "push" /\ groupIndex' = 0
        BY DEF Issue
    <2>4. Issued \subseteq Pushed'
        BY <1>1, <1>2, <1>4, <2>1, <2>2 DEF Issued, Pushed
    <2>5. ASSUME NEW j \in Pushed' PROVE j \in Issued
        <3>1. j.call # Len(calls')
            BY <1>1, <1>2, <2>1, <2>3, <2>5 DEF Pushed, Issued, Pushing
        <3>. QED BY <1>1, <1>2, <1>4, <2>1, <2>2, <2>5, <3>1 DEF Pushed, Issued
    <2>. QED BY <2>4, <2>5
<1>6. Running' = Running
    BY DEF Issue, Running, workerVars
<1>. QED BY <1>1, <1>2, <1>3, <1>5, <1>6

\* A push moves one job from those owed by the loop to the pushed ones.
LEMMA PushEffect ==
    ASSUME Base, PushSucceeds
    PROVE  LET new == [call |-> Len(calls), group |-> groupIndex]
           IN  /\ new \in Issued /\ new \notin Pushed
               /\ jobPool' = PushBack(jobPool, new)
               /\ Issued' = Issued /\ Pushed' = Pushed \cup {new}
               /\ LoopInv' /\ Unpushed' = Unpushed - 1 /\ Unpushed \in Nat
               /\ Running' = Running
<1> DEFINE new == [call |-> Len(calls), group |-> groupIndex]
<1>1. /\ main = "push" /\ main' = "notify" /\ calls' = calls
      /\ groupIndex' = groupIndex + 1 /\ jobPool' = PushBack(jobPool, new)
    BY DEF PushSucceeds
<1>2. Len(calls) \in 1 .. MaxCalls /\ groupIndex \in Nat /\ groupIndex < Groups(Len(calls))
    BY <1>1, JobSystemAssumption DEF Base, TypeOK, LoopInv
<1>3. Groups(Len(calls)) \in UInt
    BY <1>2, GroupsType DEF Base, TypeOK
<1>4. new \in Issued /\ new \notin Pushed
    BY <1>1, <1>2, <1>3, WordAssumption DEF Issued, Job, Pushed, Pushing, UInt
<1>5. Issued' = Issued
    BY <1>1 DEF Issued, Groups
<1>6. Pushed' = Pushed \cup {new}
    <2>1. ASSUME NEW j \in Issued, j.call = Len(calls), j.group < groupIndex + 1
          PROVE  j = new \/ j.group < groupIndex
        <3>1. j \in Job /\ j.group \in Nat
            BY WordAssumption DEF Issued, Job, UInt
        <3>2. j.group = groupIndex => j = new
            BY <2>1, <3>1 DEF Job
        <3>. QED BY <1>2, <2>1, <3>1, <3>2
    <2>2. \A j \in Issued : j.group < groupIndex => j.group < groupIndex + 1
        BY <1>2, WordAssumption DEF Issued, Job, UInt
    <2>. QED BY <1>1, <1>2, <1>4, <1>5, <2>1, <2>2 DEF Pushed, Pushing
<1>7. LoopInv'
    BY <1>1, <1>2, <1>3, WordAssumption DEF LoopInv, Groups, UInt
<1>8. Unpushed' = Unpushed - 1 /\ Unpushed \in Nat
    BY <1>1, <1>2, <1>3, WordAssumption DEF Unpushed, Pushing, Groups, UInt
<1>9. Running' = Running
    BY DEF PushSucceeds, Running, workerVars
<1>. QED BY <1>1, <1>4, <1>5, <1>6, <1>7, <1>8, <1>9

\* A quiet step changes no count and no set of jobs.
LEMMA QuietEffect ==
    ASSUME Base, Quiet
    PROVE  /\ Issued' = Issued /\ Pushed' = Pushed /\ Running' = Running
           /\ LoopInv' /\ Unpushed' = Unpushed
<1>1. calls' = calls /\ groupIndex' = groupIndex /\ Running' = Running
    BY DEF Quiet
<1>2. Issued' = Issued /\ Groups(Len(calls))' = Groups(Len(calls))
    BY <1>1 DEF Issued, Groups
<1>3. Len(calls) > 0 => Groups(Len(calls)) \in Nat
    BY GroupsType, WordAssumption DEF Base, TypeOK, UInt
<1>4. CASE /\ main = "notify"
           /\ main' = IF groupIndex < Groups(Len(calls)) THEN "push" ELSE "caller"
    <2>1. Len(calls) > 0 /\ groupIndex <= Groups(Len(calls)) /\ groupIndex \in Nat
        BY <1>4 DEF Base, LoopInv, TypeOK
    <2>2. LoopInv' /\ Unpushed' = Unpushed
        BY <1>1, <1>2, <1>3, <1>4, <2>1 DEF LoopInv, Unpushed, Pushing
    <2>3. \A j \in Issued : j.call = Len(calls) => j.group < Groups(Len(calls))
        BY DEF Issued
    <2>4. \A j \in Issued : j.group \in Nat
        BY WordAssumption DEF Issued, Job, UInt
    <2>5. groupIndex < Groups(Len(calls)) \/ groupIndex = Groups(Len(calls))
        BY <1>3, <2>1
    <2>6. Pushed' = Pushed
        BY <1>1, <1>2, <1>4, <2>3, <2>5 DEF Pushed, Pushing
    <2>. QED BY <1>1, <1>2, <2>2, <2>6
<1>5. CASE main' = main
    BY <1>1, <1>2, <1>5 DEF Base, LoopInv, Unpushed, Pushed, Pushing
<1>6. CASE main' \in {"push", "pushPoll"} /\ main \in {"push", "pushPoll"}
    BY <1>1, <1>2, <1>6 DEF Base, LoopInv, Unpushed, Pushed, Pushing
<1>7. CASE main' \notin {"push", "pushPoll", "notify"} /\ ~Pushing
    BY <1>1, <1>2, <1>7 DEF Base, LoopInv, Unpushed, Pushed, Pushing
<1>. QED BY <1>4, <1>5, <1>6, <1>7 DEF Quiet

\* A worker takes the oldest queued job.
LEMMA PopEffect ==
    ASSUME Base, NEW w \in Workers, PopSucceeds(w)
    PROVE  /\ jobPool' = PopFront(jobPool) /\ ~IsEmpty(jobPool)
           /\ Front(jobPool) \in Pushed /\ Held(jobPool) = {Front(jobPool)} \cup Held(jobPool')
           /\ job' = [job EXCEPT ![w] = Front(jobPool)]
           /\ w \notin Running /\ Running' = Running \cup {w}
           /\ Issued' = Issued /\ Pushed' = Pushed /\ LoopInv' /\ Unpushed' = Unpushed
           /\ index' = [index EXCEPT ![w] = JobOffset(Front(jobPool))]
           /\ JobOffset(Front(jobPool)) \in Nat
<1>1. /\ jobPool' = PopFront(jobPool) /\ ~IsEmpty(jobPool)
      /\ job' = [job EXCEPT ![w] = Front(jobPool)]
      /\ index' = [index EXCEPT ![w] = JobOffset(Front(jobPool))]
    BY DEF PopSucceeds
<1>2. Held(jobPool) = {Front(jobPool)} \cup Held(jobPool')
    BY <1>1, PopFrontShrinks DEF Base, TypeOK
<1>3. Front(jobPool) \in Pushed
    BY <1>2 DEF Base, JobsInv
<1>4. w \notin Running /\ Running' = Running \cup {w}
    BY DEF PopSucceeds, Running, Base, TypeOK
<1>5. UNCHANGED <<main, groupIndex, calls>>
    BY DEF PopSucceeds, mainVars
<1>6. Issued' = Issued /\ Pushed' = Pushed /\ LoopInv' /\ Unpushed' = Unpushed
    BY <1>5 DEF Issued, Groups, Pushed, Pushing, LoopInv, Unpushed, Base
<1>7. JobOffset(Front(jobPool)) \in Nat
    BY <1>3, JobRangeType DEF Base, Pushed
<1>. QED BY <1>1, <1>2, <1>3, <1>4, <1>6, <1>7

\* What a worker does inside a job leaves the queue and the loop alone.
LEMMA RunEffect ==
    ASSUME Base, NEW w \in Workers, RunIndex(w) \/ FinishJob(w)
    PROVE  /\ jobPool' = jobPool /\ job' = job /\ w \in Running /\ job[w] \in Pushed
           /\ Issued' = Issued /\ Pushed' = Pushed /\ LoopInv' /\ Unpushed' = Unpushed
           /\ RunIndex(w) => Running' = Running
           /\ FinishJob(w) => Running' = Running \ {w}
<1>1. UNCHANGED <<main, groupIndex, calls, jobPool, job>>
    BY DEF RunIndex, FinishJob, mainVars, poolVars
<1>2. w \in Running /\ job[w] \in Pushed
    BY DEF RunIndex, FinishJob, Running, Base, JobsInv
<1>3. Issued' = Issued /\ Pushed' = Pushed /\ LoopInv' /\ Unpushed' = Unpushed
    BY <1>1 DEF Issued, Groups, Pushed, Pushing, LoopInv, Unpushed, Base
<1>4. RunIndex(w) => Running' = Running
    BY DEF RunIndex, Running
<1>5. FinishJob(w) => Running' = Running \ {w}
    BY DEF FinishJob, Running, Base, TypeOK
<1>. QED BY <1>1, <1>2, <1>3, <1>4, <1>5

\* Every step keeps the types, the loop bounds and the jobs well formed.
LEMMA BaseStep == Base /\ [Next]_vars => Base'
<1> SUFFICES ASSUME Base, [Next]_vars PROVE Base'
    OBVIOUS
<1> USE JobSystemAssumption
<1>1. ASSUME NEW jobCount \in UInt \ {0}, NEW groupSize \in UInt \ {0}, NEW n \in UInt,
             Issue(jobCount, groupSize, n), n = GroupCount(jobCount, groupSize)
      PROVE  Base'
    <2>1. /\ calls' \in Seq(Call) /\ Len(calls') = Len(calls) + 1 /\ Len(calls') <= MaxCalls
          /\ Groups(Len(calls))' = n
          /\ Pushed' = Issued /\ Pushed = Issued /\ Running' = Running
        BY <1>1, IssueEffect
    <2>2. UNCHANGED <<jobPool, finishedLabel, wpc, job, index, ran>>
        BY <1>1 DEF Issue, workerVars
    <2>3. /\ currentLabel' = currentLabel + n /\ groupIndex' = 0
          /\ main' = IF n = 0 THEN "caller" ELSE "push"
        BY <1>1 DEF Issue
    <2>4. n \in Nat
        BY WordAssumption DEF UInt
    <2>5. TypeOK'
        BY <2>1, <2>2, <2>3, <2>4 DEF Base, TypeOK
    <2>6. LoopInv'
        BY <2>1, <2>3, <2>4 DEF LoopInv, Base, TypeOK
    <2>7. JobsInv'
        BY <2>1, <2>2 DEF JobsInv, Base
    <2>. QED BY <2>5, <2>6, <2>7 DEF Base
<1>2. CASE PushSucceeds
    <2> DEFINE new == [call |-> Len(calls), group |-> groupIndex]
    <2>1. /\ new \in Issued /\ jobPool' = PushBack(jobPool, new)
          /\ Pushed' = Pushed \cup {new} /\ LoopInv' /\ Running' = Running
        BY <1>2, PushEffect
    <2>2. ~IsFull(jobPool) /\ new \in Job \cup {NoJob}
        BY <1>2, <2>1 DEF PushSucceeds, Issued
    <2>3. /\ jobPool' \in RingBuffers(Job \cup {NoJob})
          /\ Held(jobPool') = Held(jobPool) \cup {new}
        BY <2>1, <2>2, PushBackGrows DEF Base, TypeOK
    <2>4. /\ UNCHANGED <<currentLabel, finishedLabel, calls, wpc, job, index, ran>>
          /\ groupIndex' = groupIndex + 1 /\ main' = "notify"
        BY <1>2 DEF PushSucceeds, labelVars, workerVars
    <2>5. TypeOK'
        BY <2>3, <2>4 DEF Base, TypeOK
    <2>6. JobsInv'
        BY <2>1, <2>3, <2>4 DEF JobsInv, Base
    <2>. QED BY <2>1, <2>5, <2>6 DEF Base
<1>3. ASSUME NEW w \in Workers, PopSucceeds(w)
      PROVE  Base'
    <2>1. /\ jobPool' = PopFront(jobPool) /\ ~IsEmpty(jobPool)
          /\ Front(jobPool) \in Pushed
          /\ Held(jobPool) = {Front(jobPool)} \cup Held(jobPool')
          /\ job' = [job EXCEPT ![w] = Front(jobPool)]
          /\ Running' = Running \cup {w}
          /\ Pushed' = Pushed /\ LoopInv'
          /\ index' = [index EXCEPT ![w] = JobOffset(Front(jobPool))]
          /\ JobOffset(Front(jobPool)) \in Nat
        BY <1>3, PopEffect
    <2>2. jobPool' \in RingBuffers(Job \cup {NoJob})
        BY <2>1, PopFrontShrinks DEF Base, TypeOK
    <2>3. Front(jobPool) \in Job
        BY <2>1 DEF Pushed, Issued
    <2>4. /\ UNCHANGED <<currentLabel, finishedLabel, main, groupIndex, calls, ran>>
          /\ wpc' = [wpc EXCEPT ![w] = "run"]
        BY <1>3 DEF PopSucceeds, labelVars, mainVars
    <2>5. TypeOK'
        BY <2>1, <2>2, <2>3, <2>4 DEF Base, TypeOK
    <2>6. JobsInv'
        BY <2>1 DEF JobsInv, Base, TypeOK, Running
    <2>. QED BY <2>1, <2>5, <2>6 DEF Base
<1>4. ASSUME NEW w \in Workers, RunIndex(w)
      PROVE  Base'
    <2>1. /\ job[w] \in Pushed /\ Pushed' = Pushed /\ LoopInv' /\ Running' = Running
          /\ jobPool' = jobPool /\ job' = job
        BY <1>4, RunEffect
    <2>2. job[w].call \in 1 .. MaxCalls
        BY <2>1 DEF Pushed, Issued, Job
    <2>3. TypeOK'
        <3>1. UNCHANGED <<jobPool, currentLabel, finishedLabel, main, groupIndex, calls, wpc, job>>
            BY <1>4 DEF RunIndex, labelVars, mainVars, poolVars
        <3>2. /\ ran' = ran \cup {<<job[w].call, index[w]>>}
              /\ index' = [index EXCEPT ![w] = @ + 1]
            BY <1>4 DEF RunIndex
        <3>3. index[w] \in Nat
            BY DEF Base, TypeOK
        <3>. QED BY <2>2, <3>1, <3>2, <3>3 DEF Base, TypeOK
    <2>4. JobsInv'
        BY <2>1 DEF JobsInv, Base
    <2>. QED BY <2>1, <2>3, <2>4 DEF Base
<1>5. ASSUME NEW w \in Workers, FinishJob(w)
      PROVE  Base'
    <2>1. /\ Pushed' = Pushed /\ LoopInv' /\ Running' = Running \ {w}
          /\ jobPool' = jobPool /\ job' = job
        BY <1>5, RunEffect
    <2>2. TypeOK'
        BY <1>5 DEF FinishJob, Base, TypeOK, mainVars, poolVars
    <2>3. JobsInv'
        BY <2>1 DEF JobsInv, Base
    <2>. QED BY <2>1, <2>2, <2>3 DEF Base
<1>6. CASE Quiet
    <2>1. Pushed' = Pushed /\ Running' = Running /\ LoopInv'
        BY <1>6, QuietEffect
    <2>2. TypeOK'
        BY <1>6 DEF Quiet, Base, TypeOK
    <2>3. JobsInv'
        BY <1>6, <2>1 DEF Quiet, JobsInv, Base
    <2>. QED BY <2>1, <2>2, <2>3 DEF Base
<1>. QED BY <1>1, <1>2, <1>3, <1>4, <1>5, <1>6, StepCases DEF Base

\* Every variable keeps its type; the ring indices stay inside the array, the push
\* loop inside the groups of its call, and every job in circulation belongs to a call.
THEOREM TypeCorrect == Spec => [](TypeOK /\ LoopInv /\ JobsInv)
<1>1. Spec => []Base
    BY BaseInit, BaseStep, PTL DEF Spec
<1>2. Base => TypeOK /\ LoopInv /\ JobsInv
    BY DEF Base
<1>. QED BY <1>1, <1>2, PTL

-----------------------------------------------------------------------------
(* The labels count the jobs. *)

LEMMA RunningFinite == IsFiniteSet(Running) /\ Cardinality(Running) \in Nat
<1>1. IsFiniteSet(Running)
    BY FS_Subset, JobSystemAssumption DEF Running
<1>. QED BY <1>1, FS_CardinalityType

LEMMA AccountingInit == Init => Accounting
<1> SUFFICES ASSUME Init PROVE Accounting
    OBVIOUS
<1>1. Running = {} /\ Cardinality(Running) = 0
    BY FS_EmptySet DEF Init, Running
<1>2. Size(jobPool) = 0
    BY DEF Init, EmptyRing, Size
<1>3. Unpushed = 0 /\ currentLabel = 0 /\ finishedLabel = 0
    BY DEF Init, Unpushed, Pushing
<1>. QED BY <1>1, <1>2, <1>3 DEF Accounting

LEMMA AccountingStep == Base /\ Accounting /\ [Next]_vars => Accounting'
<1> SUFFICES ASSUME Base, Accounting, [Next]_vars PROVE Accounting'
    OBVIOUS
<1>1. /\ jobPool \in RingBuffers(Job \cup {NoJob})
      /\ Size(jobPool) \in Nat /\ Cardinality(Running) \in Nat /\ IsFiniteSet(Running)
      /\ currentLabel \in Nat /\ finishedLabel \in Nat
    BY SizeFacts, RunningFinite DEF Base, TypeOK
<1>2. ASSUME NEW jobCount \in UInt \ {0}, NEW groupSize \in UInt \ {0}, NEW n \in UInt,
             Issue(jobCount, groupSize, n), n = GroupCount(jobCount, groupSize)
      PROVE  Accounting'
    <2>1. Groups(Len(calls))' = n /\ Running' = Running
        BY <1>2, IssueEffect
    <2>2. Unpushed = 0 /\ Unpushed' = n
        <3>1. n \in Nat
            BY WordAssumption DEF UInt
        <3>. QED BY <1>2, <2>1, <3>1 DEF Issue, Unpushed, Pushing
    <2>3. /\ currentLabel' = currentLabel + n /\ finishedLabel' = finishedLabel
          /\ jobPool' = jobPool
        BY <1>2 DEF Issue
    <2>4. n \in Nat
        BY WordAssumption DEF UInt
    <2>. QED BY <1>1, <2>1, <2>2, <2>3, <2>4 DEF Accounting
<1>3. CASE PushSucceeds
    <2> DEFINE new == [call |-> Len(calls), group |-> groupIndex]
    <2>1. /\ new \in Issued /\ jobPool' = PushBack(jobPool, new)
          /\ Unpushed' = Unpushed - 1 /\ Unpushed \in Nat /\ Running' = Running
        BY <1>3, PushEffect
    <2>2. ~IsFull(jobPool) /\ new \in Job \cup {NoJob}
        BY <1>3, <2>1 DEF PushSucceeds, Issued
    <2>3. Size(jobPool') = Size(jobPool) + 1
        BY <1>1, <2>1, <2>2, PushBackGrows
    <2>4. UNCHANGED <<currentLabel, finishedLabel>>
        BY <1>3 DEF PushSucceeds, labelVars
    <2>. QED BY <1>1, <2>1, <2>3, <2>4 DEF Accounting
<1>4. ASSUME NEW w \in Workers, PopSucceeds(w)
      PROVE  Accounting'
    <2>1. /\ jobPool' = PopFront(jobPool) /\ ~IsEmpty(jobPool)
          /\ w \notin Running /\ Running' = Running \cup {w} /\ Unpushed' = Unpushed
        BY <1>4, PopEffect
    <2>2. Size(jobPool') = Size(jobPool) - 1
        BY <1>1, <2>1, PopFrontShrinks
    <2>3. Cardinality(Running') = Cardinality(Running) + 1
        BY <1>1, <2>1, FS_AddElement
    <2>4. UNCHANGED <<currentLabel, finishedLabel>>
        BY <1>4 DEF PopSucceeds, labelVars
    <2>5. Unpushed \in Int
        BY <1>1, GroupsType, WordAssumption DEF Unpushed, Base, TypeOK, LoopInv, Pushing, UInt
    <2>. QED BY <1>1, <2>1, <2>2, <2>3, <2>4, <2>5 DEF Accounting
<1>5. ASSUME NEW w \in Workers, RunIndex(w)
      PROVE  Accounting'
    <2>1. jobPool' = jobPool /\ Running' = Running /\ Unpushed' = Unpushed
        BY <1>5, RunEffect
    <2>. QED BY <1>5, <2>1 DEF RunIndex, labelVars, Accounting
<1>6. ASSUME NEW w \in Workers, FinishJob(w)
      PROVE  Accounting'
    <2>1. /\ jobPool' = jobPool /\ w \in Running /\ Running' = Running \ {w}
          /\ Unpushed' = Unpushed
        BY <1>6, RunEffect
    <2>2. Cardinality(Running') = Cardinality(Running) - 1
        BY <1>1, <2>1, FS_RemoveElement
    <2>3. currentLabel' = currentLabel /\ finishedLabel' = finishedLabel + 1
        BY <1>6 DEF FinishJob
    <2>4. Unpushed \in Int
        BY <1>1, GroupsType, WordAssumption DEF Unpushed, Base, TypeOK, LoopInv, Pushing, UInt
    <2>. QED BY <1>1, <2>1, <2>2, <2>3, <2>4 DEF Accounting
<1>7. CASE Quiet
    <2>1. Running' = Running /\ Unpushed' = Unpushed
        BY <1>7, QuietEffect
    <2>. QED BY <1>7, <2>1 DEF Quiet, Accounting
<1>. QED BY <1>2, <1>3, <1>4, <1>5, <1>6, <1>7, StepCases DEF Base

-----------------------------------------------------------------------------
(* No accepted index is forgotten. *)

LEMMA CoverageInit == Init => Coverage
BY DEF Init, Coverage

\* Every accepted index of an issued call belongs to one of its jobs.
LEMMA IssuedJobsCover ==
    ASSUME TypeOK, NEW c \in DOMAIN calls,
           NEW i \in Accepted(calls[c].jobCount, calls[c].groupSize)
    PROVE  \E j \in Issued : j.call = c /\ i \in Indices(j)
<1>1. /\ calls[c].jobCount \in UInt \ {0} /\ calls[c].groupSize \in UInt \ {0}
      /\ c \in 1 .. MaxCalls /\ c <= Len(calls)
    <2>1. calls[c] \in Call /\ c \in 1 .. MaxCalls /\ c <= Len(calls)
        BY JobSystemAssumption DEF TypeOK
    <2>. QED BY <2>1 DEF Call
<1>2. PICK g \in 0 .. Groups(c) - 1 :
          i \in GroupIndices(calls[c].jobCount, calls[c].groupSize, g)
    BY <1>1, GroupsPartitionJobs DEF Groups
<1>3. Groups(c) \in UInt
    BY GroupsType
<1> DEFINE j == [call |-> c, group |-> g]
<1>4. j \in Issued
    BY <1>1, <1>2, <1>3, WordAssumption DEF Issued, Job, UInt
<1>. QED BY <1>2, <1>4 DEF Indices

LEMMA CoverageStep == Base /\ Coverage /\ [Next]_vars => Coverage'
<1> SUFFICES ASSUME Base, Coverage, [Next]_vars PROVE Coverage'
    OBVIOUS
<1>1. /\ jobPool \in RingBuffers(Job \cup {NoJob})
      /\ job \in [Workers -> Job \cup {NoJob}] /\ index \in [Workers -> Nat]
    BY DEF Base, TypeOK
\* Where the calls stay, it is enough that what is owed stays owed or is run.
<1>2. ASSUME calls' = calls, ran \subseteq ran',
             \A c \in DOMAIN calls : \A i \in Accepted(calls[c].jobCount, calls[c].groupSize) :
                 Owed(c, i) => <<c, i>> \in ran' \/ Owed(c, i)'
      PROVE  Coverage'
    BY <1>2 DEF Coverage
<1>3. ASSUME NEW jobCount \in UInt \ {0}, NEW groupSize \in UInt \ {0}, NEW n \in UInt,
             Issue(jobCount, groupSize, n), n = GroupCount(jobCount, groupSize)
      PROVE  Coverage'
    <2>1. /\ calls' \in Seq(Call) /\ Len(calls') = Len(calls) + 1 /\ Len(calls') <= MaxCalls
          /\ \A c \in DOMAIN calls : calls'[c] = calls[c]
          /\ Groups(Len(calls))' = n
          /\ calls'[Len(calls')] = [jobCount |-> jobCount, groupSize |-> groupSize]
          /\ Pushed' = Issued /\ Pushed = Issued /\ Running' = Running
        BY <1>3, IssueEffect
    <2>2. UNCHANGED <<jobPool, job, index, ran>>
        BY <1>3 DEF Issue, workerVars
    <2>3. \A j \in Issued : j.call \in DOMAIN calls /\ j \in Issued'
        <3>1. \A j \in Issued : j.call \in DOMAIN calls
            BY DEF Issued, Job, Base, TypeOK
        <3>2. Issued \subseteq Issued'
            BY <2>1 DEF Pushed
        <3>. QED BY <3>1, <3>2
    <2>4. \A j \in Issued : Indices(j)' = Indices(j)
        BY <2>1, <2>3 DEF Indices
    <2>5. ASSUME NEW c \in DOMAIN calls,
                 NEW i \in Accepted(calls[c].jobCount, calls[c].groupSize)
          PROVE  <<c, i>> \in ran' \/ Owed(c, i)'
        <3>1. CASE <<c, i>> \in ran
            BY <2>2, <3>1
        <3>2. CASE Owed(c, i)
            <4>1. PICK j \in Issued :
                      /\ j.call = c /\ i \in Indices(j)
                      /\ \/ j \in Held(jobPool)
                         \/ \E w \in Running : job[w] = j /\ index[w] <= i
                BY <2>1, <3>2 DEF Owed
            <4>2. j \in Issued' /\ i \in Indices(j)'
                BY <2>3, <2>4, <4>1
            <4>. QED BY <2>1, <2>2, <4>1, <4>2 DEF Owed
        <3>. QED BY <3>1, <3>2 DEF Coverage
    <2>6. ASSUME NEW c, c = Len(calls'), NEW i \in Accepted(jobCount, groupSize)
          PROVE  Owed(c, i)'
        <3>1. PICK g \in 0 .. n - 1 : i \in GroupIndices(jobCount, groupSize, g)
            BY <1>3, GroupsPartitionJobs
        <3> DEFINE j == [call |-> c, group |-> g]
        <3>2. c \in 1 .. MaxCalls /\ Len(calls) \in Nat /\ g \in UInt /\ g < n
            BY <2>1, <2>6, <3>1, WordAssumption, JobSystemAssumption DEF Base, TypeOK, UInt
        <3>3. j \in Issued' /\ j \notin Issued
            BY <2>1, <2>6, <3>2 DEF Issued, Job
        <3>4. i \in Indices(j)'
            BY <2>1, <2>6, <3>1 DEF Indices
        <3>. QED BY <2>1, <3>3, <3>4 DEF Owed
    <2>7. DOMAIN calls' = DOMAIN calls \cup {Len(calls')}
        BY <2>1 DEF Base, TypeOK
    <2>8. ASSUME NEW c \in DOMAIN calls',
                 NEW i \in Accepted(calls'[c].jobCount, calls'[c].groupSize)
          PROVE  <<c, i>> \in ran' \/ Owed(c, i)'
        <3>1. CASE c \in DOMAIN calls
            BY <2>1, <2>5, <3>1
        <3>2. CASE c = Len(calls')
            BY <2>1, <2>6, <3>2
        <3>. QED BY <2>7, <3>1, <3>2
    <2>. QED BY <2>8 DEF Coverage
<1>4. CASE PushSucceeds
    <2> DEFINE new == [call |-> Len(calls), group |-> groupIndex]
    <2>1. /\ new \in Issued /\ jobPool' = PushBack(jobPool, new)
          /\ Issued' = Issued /\ Pushed' = Pushed \cup {new} /\ Running' = Running
        BY <1>4, PushEffect
    <2>2. ~IsFull(jobPool) /\ new \in Job \cup {NoJob}
        BY <1>4, <2>1 DEF PushSucceeds, Issued
    <2>3. Held(jobPool') = Held(jobPool) \cup {new}
        BY <1>1, <2>1, <2>2, PushBackGrows
    <2>4. UNCHANGED <<calls, job, index, ran>>
        BY <1>4 DEF PushSucceeds, workerVars
    <2>5. ASSUME NEW c, NEW i, Owed(c, i) PROVE Owed(c, i)'
        BY <2>1, <2>3, <2>4, <2>5 DEF Owed, Indices
    <2>. QED BY <1>2, <2>4, <2>5
<1>5. ASSUME NEW w \in Workers, PopSucceeds(w)
      PROVE  Coverage'
    <2> DEFINE front == Front(jobPool)
    <2>1. /\ Held(jobPool) = {front} \cup Held(jobPool')
          /\ job' = [job EXCEPT ![w] = front] /\ index' = [index EXCEPT ![w] = JobOffset(front)]
          /\ w \notin Running /\ Running' = Running \cup {w}
          /\ Issued' = Issued /\ Pushed' = Pushed
        BY <1>5, PopEffect
    <2>2. UNCHANGED <<calls, ran>>
        BY <1>5 DEF PopSucceeds, mainVars
    <2>3. \A v \in Running : job'[v] = job[v] /\ index'[v] = index[v]
        BY <1>1, <2>1 DEF Running
    <2>4. job'[w] = front /\ index'[w] = JobOffset(front)
        BY <1>1, <2>1
    <2>5. ASSUME NEW c, NEW i, Owed(c, i) PROVE Owed(c, i)'
        <3>1. PICK j \in Issued :
                  /\ j.call = c /\ i \in Indices(j)
                  /\ \/ j \notin Pushed
                     \/ j \in Held(jobPool)
                     \/ \E v \in Running : job[v] = j /\ index[v] <= i
            BY <2>5 DEF Owed
        <3>2. i \in Indices(j)'
            BY <2>2, <3>1 DEF Indices
        <3>3. j = front => index'[w] <= i
            BY <2>4, <3>1 DEF JobOffset, Indices, GroupIndices
        <3>. QED BY <2>1, <2>3, <2>4, <3>1, <3>2, <3>3 DEF Owed
    <2>. QED BY <1>2, <2>2, <2>5
<1>6. ASSUME NEW w \in Workers, RunIndex(w)
      PROVE  Coverage'
    <2>1. /\ jobPool' = jobPool /\ job' = job /\ w \in Running /\ job[w] \in Pushed
          /\ Issued' = Issued /\ Pushed' = Pushed /\ Running' = Running
        BY <1>6, RunEffect
    <2>2. /\ calls' = calls /\ ran' = ran \cup {<<job[w].call, index[w]>>}
          /\ index' = [index EXCEPT ![w] = @ + 1]
        BY <1>6 DEF RunIndex, mainVars
    <2>3. ASSUME NEW c, NEW i, Owed(c, i) PROVE <<c, i>> \in ran' \/ Owed(c, i)'
        <3>1. PICK j \in Issued :
                  /\ j.call = c /\ i \in Indices(j)
                  /\ \/ j \notin Pushed
                     \/ j \in Held(jobPool)
                     \/ \E v \in Running : job[v] = j /\ index[v] <= i
            BY <2>3 DEF Owed
        <3>2. i \in Indices(j)' /\ i \in Nat
            BY <2>2, <3>1, WordAssumption DEF Indices, GroupIndices, UInt
        <3>3. CASE \E v \in Running : job[v] = j /\ index[v] <= i
            <4>1. PICK v \in Running : job[v] = j /\ index[v] <= i
                BY <3>3
            <4>2. CASE v = w /\ index[w] = i
                BY <2>2, <3>1, <4>1, <4>2
            <4>3. CASE v # w \/ index[w] # i
                <5>1. index'[v] <= i
                    BY <1>1, <2>2, <3>2, <4>1, <4>3 DEF Running
                <5>. QED BY <2>1, <3>1, <3>2, <4>1, <5>1 DEF Owed
            <4>. QED BY <4>2, <4>3
        <3>. QED BY <2>1, <3>1, <3>2, <3>3 DEF Owed
    <2>. QED BY <1>2, <2>2, <2>3
<1>7. ASSUME NEW w \in Workers, FinishJob(w)
      PROVE  Coverage'
    <2>1. /\ jobPool' = jobPool /\ job' = job /\ w \in Running /\ job[w] \in Pushed
          /\ Issued' = Issued /\ Pushed' = Pushed /\ Running' = Running \ {w}
        BY <1>7, RunEffect
    <2>2. UNCHANGED <<calls, ran, index>> /\ index[w] >= JobEnd(job[w])
        BY <1>7 DEF FinishJob, mainVars
    <2>3. index[w] \in Nat /\ JobEnd(job[w]) \in Nat
        BY <1>1, <2>1, JobRangeType DEF Base, Pushed
    <2>4. \A i \in Indices(job[w]) : ~(index[w] <= i)
        BY <2>2, <2>3, WordAssumption DEF Indices, GroupIndices, JobEnd, UInt
    <2>5. ASSUME NEW c, NEW i, Owed(c, i) PROVE Owed(c, i)'
        BY <2>1, <2>2, <2>4, <2>5 DEF Owed, Indices
    <2>. QED BY <1>2, <2>2, <2>5
<1>8. CASE Quiet
    <2>1. Issued' = Issued /\ Pushed' = Pushed /\ Running' = Running
        BY <1>8, QuietEffect
    <2>2. UNCHANGED <<jobPool, job, index, calls, ran>>
        BY <1>8 DEF Quiet
    <2>3. ASSUME NEW c, NEW i, Owed(c, i) PROVE Owed(c, i)'
        BY <2>1, <2>2, <2>3 DEF Owed, Indices
    <2>. QED BY <1>2, <2>2, <2>3
<1>. QED BY <1>3, <1>4, <1>5, <1>6, <1>7, <1>8, StepCases DEF Base

-----------------------------------------------------------------------------
(* No job is in two places, and no index is run twice. *)

\* A group index belongs to one job of its call.
LEMMA JobsOfACallDisjoint ==
    ASSUME TypeOK, NEW j \in Issued, NEW k \in Issued, j.call = k.call,
           NEW i \in Indices(j), i \in Indices(k)
    PROVE  j = k
<1> DEFINE c == j.call
<1>1. c \in DOMAIN calls /\ calls[c] \in Call
    BY DEF Issued, Job, TypeOK
<1>2. calls[c].jobCount \in UInt \ {0} /\ calls[c].groupSize \in UInt \ {0}
    BY <1>1 DEF Call
<1>3. j.group \in 0 .. Groups(c) - 1 /\ k.group \in 0 .. Groups(c) - 1
    <2>1. Groups(c) \in UInt
        BY <1>1, GroupsType
    <2>. QED BY <2>1, WordAssumption DEF Issued, Job, UInt
<1>4. j.group = k.group
    BY <1>2, <1>3, GroupsPartitionJobs DEF Groups, Indices
<1>. QED BY <1>4 DEF Issued, Job

\* The indices of an issued job are accepted ones.
LEMMA JobIndicesAccepted ==
    ASSUME TypeOK, NEW j \in Issued, NEW i \in Indices(j)
    PROVE  <<j.call, i>> \in AllAccepted
<1> DEFINE c == j.call
<1>1. c \in DOMAIN calls /\ calls[c] \in Call
    BY DEF Issued, Job, TypeOK
<1>2. calls[c].jobCount \in UInt \ {0} /\ calls[c].groupSize \in UInt \ {0}
    BY <1>1 DEF Call
<1>3. j.group \in 0 .. Groups(c) - 1
    <2>1. Groups(c) \in UInt
        BY <1>1, GroupsType
    <2>. QED BY <2>1, WordAssumption DEF Issued, Job, UInt
<1>4. i \in Accepted(calls[c].jobCount, calls[c].groupSize)
    BY <1>2, <1>3, GroupsPartitionJobs DEF Groups, Indices
<1>. QED BY <1>1, <1>4 DEF AllAccepted, AcceptedBy

\* The index a worker is about to run is one of its job's.
LEMMA RunningIndex ==
    ASSUME Base, RanOnce, NEW w \in Workers, RunIndex(w)
    PROVE  index[w] \in Indices(job[w]) /\ job[w] \in Issued /\ job[w] \in Pushed
<1>1. w \in Running /\ job[w] \in Pushed /\ job[w] \in Issued
    BY RunEffect DEF Pushed
<1>2. JobOffset(job[w]) <= index[w] /\ index[w] < JobEnd(job[w])
    BY <1>1 DEF RanOnce, RunIndex
<1>3. index[w] \in Nat /\ JobEnd(job[w]) \in Nat
    BY <1>1, JobRangeType DEF Base, TypeOK
<1>4. calls[job[w].call] \in Call
    BY <1>1 DEF Issued, Job, Base, TypeOK
<1>5. calls[job[w].call].jobCount \in UInt
    BY <1>4 DEF Call
<1>6. JobEnd(job[w]) <= calls[job[w].call].jobCount
    BY <1>3, <1>5, WordAssumption DEF JobEnd, GroupEnd, UInt
<1>7. index[w] \in UInt
    BY <1>2, <1>3, <1>5, <1>6, WordAssumption DEF UInt
<1>. QED BY <1>1, <1>2, <1>7 DEF Indices, GroupIndices, JobOffset, JobEnd

LEMMA DistinctInit == Init => JobsDistinct
<1> SUFFICES ASSUME Init PROVE JobsDistinct
    OBVIOUS
<1>1. LiveSlots(jobPool) = {} /\ Running = {}
    BY DEF Init, EmptyRing, LiveSlots, Running
<1>. QED BY <1>1 DEF JobsDistinct

LEMMA DistinctStep == Base /\ JobsDistinct /\ [Next]_vars => JobsDistinct'
<1> SUFFICES ASSUME Base, JobsDistinct, [Next]_vars PROVE JobsDistinct'
    OBVIOUS
<1>1. jobPool \in RingBuffers(Job \cup {NoJob}) /\ job \in [Workers -> Job \cup {NoJob}]
    BY DEF Base, TypeOK
<1>2. ASSUME UNCHANGED <<jobPool, job>>, Running' \subseteq Running
      PROVE  JobsDistinct'
    BY <1>2 DEF JobsDistinct
<1>3. ASSUME NEW jobCount \in UInt \ {0}, NEW groupSize \in UInt \ {0}, NEW n \in UInt,
             Issue(jobCount, groupSize, n), n = GroupCount(jobCount, groupSize)
      PROVE  JobsDistinct'
    BY <1>2, <1>3 DEF Issue, workerVars, Running
<1>4. CASE PushSucceeds
    <2> DEFINE new == [call |-> Len(calls), group |-> groupIndex]
    <2>1. /\ new \in Issued /\ new \notin Pushed /\ jobPool' = PushBack(jobPool, new)
          /\ Running' = Running
        BY <1>4, PushEffect
    <2>2. ~IsFull(jobPool) /\ new \in Job \cup {NoJob} /\ job' = job
        BY <1>4, <2>1 DEF PushSucceeds, Issued, workerVars
    <2>3. /\ Held(jobPool') = Held(jobPool) \cup {new}
          /\ LiveSlots(jobPool') = LiveSlots(jobPool) \cup {jobPool.head}
          /\ jobPool'.data[jobPool.head] = new
          /\ \A s \in LiveSlots(jobPool) : jobPool'.data[s] = jobPool.data[s]
        BY <1>1, <2>1, <2>2, PushBackGrows
    <2>4. \A s \in LiveSlots(jobPool) : jobPool.data[s] # new
        BY <2>1 DEF Base, JobsInv, Held
    <2>5. \A w \in Running : job[w] # new
        BY <2>1 DEF Base, JobsInv
    <2>. QED BY <2>1, <2>2, <2>3, <2>4, <2>5 DEF JobsDistinct
<1>5. ASSUME NEW w \in Workers, PopSucceeds(w)
      PROVE  JobsDistinct'
    <2> DEFINE front == Front(jobPool)
    <2>1. /\ jobPool' = PopFront(jobPool) /\ ~IsEmpty(jobPool)
          /\ Held(jobPool) = {front} \cup Held(jobPool')
          /\ job' = [job EXCEPT ![w] = front]
          /\ w \notin Running /\ Running' = Running \cup {w}
        BY <1>5, PopEffect
    <2>2. /\ LiveSlots(jobPool) = LiveSlots(jobPool') \cup {jobPool.tail}
          /\ jobPool.tail \notin LiveSlots(jobPool') /\ jobPool'.data = jobPool.data
        BY <1>1, <2>1, PopFrontShrinks
    <2>3. front \notin Held(jobPool')
        BY <2>2 DEF JobsDistinct, Held, Front
    <2>4. job'[w] = front /\ \A v \in Running : job'[v] = job[v] /\ job[v] # front
        BY <1>1, <2>1 DEF Running, JobsDistinct
    <2>5. \A s, t \in LiveSlots(jobPool') : s # t => jobPool'.data[s] # jobPool'.data[t]
        BY <2>2 DEF JobsDistinct
    <2>6. \A v \in Running' : job'[v] \notin Held(jobPool')
        BY <2>1, <2>3, <2>4 DEF JobsDistinct
    <2>7. \A u, v \in Running' : u # v => job'[u] # job'[v]
        BY <2>1, <2>4 DEF JobsDistinct
    <2>. QED BY <2>5, <2>6, <2>7 DEF JobsDistinct
<1>6. ASSUME NEW w \in Workers, RunIndex(w) \/ FinishJob(w)
      PROVE  JobsDistinct'
    <2>1. UNCHANGED <<jobPool, job>> /\ Running' \subseteq Running
        BY <1>6, RunEffect
    <2>. QED BY <1>2, <2>1
<1>7. CASE Quiet
    BY <1>2, <1>7 DEF Quiet
<1>. QED BY <1>3, <1>4, <1>5, <1>6, <1>7, StepCases DEF Base

LEMMA RanOnceInit == Init => RanOnce
BY DEF Init, RanOnce, Running

\* Where the calls stay, so do the accepted indices and the jobs' ranges.
LEMMA RangesStay ==
    ASSUME calls' = calls
    PROVE  /\ AllAccepted' = AllAccepted
           /\ \A j : Indices(j)' = Indices(j) /\ JobOffset(j)' = JobOffset(j)
BY DEF AllAccepted, AcceptedBy, Indices, JobOffset

\* A new call accepts indices of its own and keeps those of the calls before it.
LEMMA IssueAccepts ==
    ASSUME Base,
           NEW jobCount \in UInt \ {0}, NEW groupSize \in UInt \ {0},
           NEW n \in UInt, n = GroupCount(jobCount, groupSize),
           Issue(jobCount, groupSize, n)
    PROVE  /\ AllAccepted \subseteq AllAccepted'
           /\ \A x \in AllAccepted' : x \in AllAccepted \/ x[1] = Len(calls) + 1
           /\ \A x \in AllAccepted : x[1] \in DOMAIN calls
           /\ \A j \in Issued : /\ j.call \in DOMAIN calls
                               /\ Indices(j)' = Indices(j) /\ JobOffset(j)' = JobOffset(j)
<1>1. /\ calls' \in Seq(Call) /\ Len(calls') = Len(calls) + 1
      /\ \A c \in DOMAIN calls : calls'[c] = calls[c]
    BY IssueEffect
<1>2. DOMAIN calls' = DOMAIN calls \cup {Len(calls) + 1}
    BY <1>1 DEF Base, TypeOK
<1>3. \A c \in DOMAIN calls : AcceptedBy(c)' = AcceptedBy(c)
    BY <1>1 DEF AcceptedBy
<1>4. \A c : \A x \in AcceptedBy(c) : x[1] = c
    BY DEF AcceptedBy
<1>5. \A c : \A x \in AcceptedBy(c)' : x[1] = c
    BY DEF AcceptedBy
<1>6. AllAccepted \subseteq AllAccepted'
    BY <1>2, <1>3 DEF AllAccepted
<1>7. \A x \in AllAccepted' : x \in AllAccepted \/ x[1] = Len(calls) + 1
    BY <1>2, <1>3, <1>5 DEF AllAccepted
<1>8. \A x \in AllAccepted : x[1] \in DOMAIN calls
    BY <1>4 DEF AllAccepted
<1>9. \A j \in Issued : j.call \in DOMAIN calls
    BY DEF Issued, Job, Base, TypeOK
<1>10. \A j \in Issued : Indices(j)' = Indices(j) /\ JobOffset(j)' = JobOffset(j)
    BY <1>1, <1>9 DEF Indices, JobOffset
<1>. QED BY <1>6, <1>7, <1>8, <1>9, <1>10

LEMMA RanOnceStep == Base /\ JobsDistinct /\ RanOnce /\ [Next]_vars => RanOnce'
<1> SUFFICES ASSUME Base, JobsDistinct, RanOnce, [Next]_vars PROVE RanOnce'
    OBVIOUS
<1>1. /\ jobPool \in RingBuffers(Job \cup {NoJob})
      /\ job \in [Workers -> Job \cup {NoJob}] /\ index \in [Workers -> Nat]
    BY DEF Base, TypeOK
<1>2. ASSUME NEW jobCount \in UInt \ {0}, NEW groupSize \in UInt \ {0}, NEW n \in UInt,
             Issue(jobCount, groupSize, n), n = GroupCount(jobCount, groupSize)
      PROVE  RanOnce'
    <2>1. /\ Len(calls') = Len(calls) + 1 /\ Pushed' = Issued /\ Pushed = Issued
          /\ Running' = Running
        BY <1>2, IssueEffect
    <2>2. /\ AllAccepted \subseteq AllAccepted'
          /\ \A x \in AllAccepted : x[1] \in DOMAIN calls
          /\ \A j \in Issued : /\ j.call \in DOMAIN calls
                              /\ Indices(j)' = Indices(j) /\ JobOffset(j)' = JobOffset(j)
        BY <1>2, IssueAccepts
    <2>3. UNCHANGED <<jobPool, job, index, ran>>
        BY <1>2 DEF Issue, workerVars
    <2>4. \A w \in Running : job[w] \in Issued
        BY DEF Base, JobsInv, Pushed
    <2>5. ASSUME NEW j \in Issued', j \notin Issued, NEW i
          PROVE  <<j.call, i>> \notin ran
        <3>1. j.call \notin DOMAIN calls
            <4>1. SUFFICES ASSUME j.call \in DOMAIN calls PROVE FALSE
                OBVIOUS
            <4>2. j.call <= Len(calls) /\ j.call # Len(calls')
                BY <2>1, <4>1 DEF Base, TypeOK
            <4>3. j \in Pushed'
                BY <2>5, <4>2 DEF Pushed
            <4>. QED BY <2>1, <2>5, <4>3
        <3>2. <<j.call, i>> \in ran => <<j.call, i>> \in AllAccepted
            BY DEF RanOnce
        <3>3. <<j.call, i>>[1] = j.call
            OBVIOUS
        <3>. QED BY <2>2, <3>1, <3>2, <3>3
    <2>6. ran' \subseteq AllAccepted'
        BY <2>2, <2>3 DEF RanOnce
    <2>7. \A w \in Running' : JobOffset(job[w])' <= index'[w]
        BY <2>1, <2>2, <2>3, <2>4 DEF RanOnce
    <2>8. ASSUME NEW j \in Issued', NEW i \in Indices(j)', <<j.call, i>> \in ran'
          PROVE  /\ j \in Pushed' \ Held(jobPool')
                 /\ \A w \in Running' : job'[w] = j => i < index'[w]
        <3>1. j \in Issued
            BY <2>3, <2>5, <2>8
        <3>2. i \in Indices(j)
            BY <2>2, <2>8, <3>1
        <3>. QED BY <2>1, <2>3, <2>8, <3>1, <3>2 DEF RanOnce
    <2>. QED BY <2>6, <2>7, <2>8, <2>3 DEF RanOnce
<1>3. CASE PushSucceeds
    <2> DEFINE new == [call |-> Len(calls), group |-> groupIndex]
    <2>1. /\ new \in Issued /\ new \notin Pushed /\ jobPool' = PushBack(jobPool, new)
          /\ Issued' = Issued /\ Pushed' = Pushed \cup {new} /\ Running' = Running
        BY <1>3, PushEffect
    <2>2. ~IsFull(jobPool) /\ new \in Job \cup {NoJob}
        BY <1>3, <2>1 DEF PushSucceeds, Issued
    <2>3. Held(jobPool') = Held(jobPool) \cup {new}
        BY <1>1, <2>1, <2>2, PushBackGrows
    <2>4. UNCHANGED <<calls, job, index, ran>>
        BY <1>3 DEF PushSucceeds, workerVars
    <2>5. AllAccepted' = AllAccepted /\ \A j : Indices(j)' = Indices(j) /\ JobOffset(j)' = JobOffset(j)
        BY <2>4, RangesStay
    <2>. QED BY <2>1, <2>3, <2>4, <2>5 DEF RanOnce
<1>4. ASSUME NEW w \in Workers, PopSucceeds(w)
      PROVE  RanOnce'
    <2> DEFINE front == Front(jobPool)
    <2>1. /\ Held(jobPool) = {front} \cup Held(jobPool') /\ front \in Pushed
          /\ job' = [job EXCEPT ![w] = front] /\ index' = [index EXCEPT ![w] = JobOffset(front)]
          /\ w \notin Running /\ Running' = Running \cup {w}
          /\ Issued' = Issued /\ Pushed' = Pushed /\ JobOffset(front) \in Nat
        BY <1>4, PopEffect
    <2>2. UNCHANGED <<calls, ran>>
        BY <1>4 DEF PopSucceeds, mainVars
    <2>3. AllAccepted' = AllAccepted /\ \A j : Indices(j)' = Indices(j) /\ JobOffset(j)' = JobOffset(j)
        BY <2>2, RangesStay
    <2>4. /\ job'[w] = front /\ index'[w] = JobOffset(front)
          /\ \A v \in Running : job'[v] = job[v] /\ index'[v] = index[v]
        BY <1>1, <2>1 DEF Running
    <2>5. \A v \in Running' : JobOffset(job[v])' <= index'[v]
        BY <2>1, <2>2, <2>4 DEF RanOnce, JobOffset
    <2>6. ASSUME NEW j \in Issued', NEW i \in Indices(j)', <<j.call, i>> \in ran'
          PROVE  /\ j \in Pushed' \ Held(jobPool')
                 /\ \A v \in Running' : job'[v] = j => i < index'[v]
        <3>1. j \in Issued /\ i \in Indices(j) /\ <<j.call, i>> \in ran
            BY <2>1, <2>2, <2>3, <2>6
        <3>2. j \in Pushed \ Held(jobPool) /\ \A v \in Running : job[v] = j => i < index[v]
            BY <3>1 DEF RanOnce
        <3>. QED BY <2>1, <2>4, <3>2
    <2>. QED BY <2>2, <2>3, <2>5, <2>6 DEF RanOnce
<1>5. ASSUME NEW w \in Workers, RunIndex(w)
      PROVE  RanOnce'
    <2>1. /\ jobPool' = jobPool /\ job' = job /\ w \in Running
          /\ Issued' = Issued /\ Pushed' = Pushed /\ Running' = Running
        BY <1>5, RunEffect
    <2>2. index[w] \in Indices(job[w]) /\ job[w] \in Issued /\ job[w] \in Pushed
        BY <1>5, RunningIndex
    <2>3. /\ calls' = calls /\ ran' = ran \cup {<<job[w].call, index[w]>>}
          /\ index' = [index EXCEPT ![w] = @ + 1]
        BY <1>5 DEF RunIndex, mainVars
    <2>4. AllAccepted' = AllAccepted /\ \A j : Indices(j)' = Indices(j) /\ JobOffset(j)' = JobOffset(j)
        BY <2>3, RangesStay
    <2>5. ran' \subseteq AllAccepted'
        BY <2>2, <2>3, <2>4, JobIndicesAccepted DEF RanOnce, Base
    <2>6. /\ index'[w] = index[w] + 1 /\ index[w] \in Nat
          /\ \A v \in Running : v # w => index'[v] = index[v]
        BY <1>1, <2>3 DEF Running
    <2>7. \A v \in Running' : JobOffset(job[v])' <= index'[v]
        <3>1. \A v \in Running : JobOffset(job[v]) <= index[v] /\ JobOffset(job[v]) \in Nat
            BY JobRangeType DEF RanOnce, Base, JobsInv, Pushed
        <3>2. \A v \in Running : JobOffset(job[v])' = JobOffset(job[v])
            BY <2>1, <2>3 DEF JobOffset
        <3>. QED BY <2>1, <2>6, <3>1, <3>2
    <2>8. ASSUME NEW j \in Issued', NEW i \in Indices(j)', <<j.call, i>> \in ran'
          PROVE  /\ j \in Pushed' \ Held(jobPool')
                 /\ \A v \in Running' : job'[v] = j => i < index'[v]
        <3>1. j \in Issued /\ i \in Indices(j) /\ i \in Nat
            BY <2>1, <2>4, <2>8, WordAssumption DEF Indices, GroupIndices, UInt
        <3>2. CASE <<j.call, i>> \in ran
            <4>1. j \in Pushed \ Held(jobPool) /\ \A v \in Running : job[v] = j => i < index[v]
                BY <3>1, <3>2 DEF RanOnce
            <4>. QED BY <2>1, <2>6, <3>1, <4>1
        <3>3. CASE <<j.call, i>> = <<job[w].call, index[w]>>
            <4>1. j.call = job[w].call /\ i = index[w]
                BY <3>3
            <4>2. j = job[w]
                BY <2>2, <3>1, <4>1, JobsOfACallDisjoint DEF Base
            <4>3. job[w] \notin Held(jobPool) /\ \A v \in Running : job[v] = j => v = w
                BY <2>1, <4>2 DEF JobsDistinct
            <4>. QED BY <2>1, <2>2, <2>6, <4>1, <4>2, <4>3
        <3>. QED BY <2>3, <2>8, <3>2, <3>3
    <2>. QED BY <2>4, <2>5, <2>7, <2>8, <2>1 DEF RanOnce
<1>6. ASSUME NEW w \in Workers, FinishJob(w)
      PROVE  RanOnce'
    <2>1. /\ jobPool' = jobPool /\ job' = job
          /\ Issued' = Issued /\ Pushed' = Pushed /\ Running' = Running \ {w}
        BY <1>6, RunEffect
    <2>2. UNCHANGED <<calls, ran, index>>
        BY <1>6 DEF FinishJob, mainVars
    <2>3. AllAccepted' = AllAccepted /\ \A j : Indices(j)' = Indices(j) /\ JobOffset(j)' = JobOffset(j)
        BY <2>2, RangesStay
    <2>. QED BY <2>1, <2>2, <2>3 DEF RanOnce
<1>7. CASE Quiet
    <2>1. Issued' = Issued /\ Pushed' = Pushed /\ Running' = Running
        BY <1>7, QuietEffect
    <2>2. UNCHANGED <<jobPool, job, index, calls, ran>>
        BY <1>7 DEF Quiet
    <2>3. AllAccepted' = AllAccepted /\ \A j : Indices(j)' = Indices(j) /\ JobOffset(j)' = JobOffset(j)
        BY <2>2, RangesStay
    <2>. QED BY <2>1, <2>2, <2>3 DEF RanOnce
<1>. QED BY <1>2, <1>3, <1>4, <1>5, <1>6, <1>7, StepCases DEF Base

-----------------------------------------------------------------------------

\* The labels account for every job, no accepted index is forgotten, and no job in
\* circulation will run an index again.
THEOREM Invariance == Spec => []IInv
<1>1. Init => IInv
    BY BaseInit, AccountingInit, CoverageInit, DistinctInit, RanOnceInit DEF Base, IInv
<1>2. IInv /\ [Next]_vars => IInv'
    <2>1. IInv <=> Base /\ Accounting /\ Coverage /\ JobsDistinct /\ RanOnce
        BY DEF Base, IInv
    <2>2. IInv' <=> Base' /\ Accounting' /\ Coverage' /\ JobsDistinct' /\ RanOnce'
        BY DEF Base, IInv
    <2>. QED BY <2>1, <2>2, BaseStep, AccountingStep, CoverageStep, DistinctStep, RanOnceStep
<1>. QED BY <1>1, <1>2, PTL DEF Spec

\* The inductive invariant implies the barrier.
LEMMA IdleFromInvariant == IInv => IdleMeansDone
<1> SUFFICES ASSUME IInv, ~IsBusy PROVE IdleMeansDone
    BY DEF IdleMeansDone
<1>1. /\ jobPool \in RingBuffers(Job \cup {NoJob})
      /\ currentLabel \in Nat /\ finishedLabel \in Nat /\ groupIndex \in Nat
    BY DEF IInv, TypeOK
<1>2. /\ Size(jobPool) \in Nat /\ Cardinality(Running) \in Nat /\ IsFiniteSet(Running)
      /\ (Size(jobPool) = 0 <=> IsEmpty(jobPool)) /\ (IsEmpty(jobPool) => Held(jobPool) = {})
    BY <1>1, SizeFacts, RunningFinite
<1>3. Unpushed \in Nat
    BY GroupsType, WordAssumption DEF Unpushed, Pushing, IInv, TypeOK, LoopInv, UInt
<1>4. Unpushed = 0 /\ Size(jobPool) = 0 /\ Cardinality(Running) = 0
    BY <1>1, <1>2, <1>3 DEF IsBusy, IInv, Accounting
<1>5. Held(jobPool) = {} /\ Running = {}
    BY <1>2, <1>4, FS_EmptySet
<1>6. Issued \subseteq Pushed
    <2>1. Pushing => Groups(Len(calls)) = groupIndex
        BY <1>1, <1>4, GroupsType, WordAssumption
            DEF Unpushed, Pushing, IInv, TypeOK, LoopInv, UInt
    <2>. QED BY <2>1 DEF Pushed, Issued
<1>7. \A c, i : ~Owed(c, i)
    BY <1>5, <1>6 DEF Owed
<1>8. AllAccepted \subseteq ran
    BY <1>7 DEF AllAccepted, AcceptedBy, IInv, Coverage
<1>. QED BY <1>2, <1>4, <1>5, <1>8 DEF Running, IdleMeansDone

\* When IsBusy is false nothing is queued or running and every accepted index was
\* run: the Wait barrier, for every number of workers, capacity and program of calls.
THEOREM WaitIsABarrier == Spec => []IdleMeansDone
BY IdleFromInvariant, Invariance, PTL

-----------------------------------------------------------------------------
(* The job system implements the fork-join specification. *)

todo == AllAccepted \ ran
mode == IF main \in {"wait", "waitPoll"} THEN "waiting" ELSE "free"

\* Every accepted index is an item of the fork-join specification.
LEMMA AcceptedItems == TypeOK => AllAccepted \subseteq (1 .. MaxCalls) \X UInt
<1> SUFFICES ASSUME TypeOK, NEW c \in DOMAIN calls,
                    NEW i \in Accepted(calls[c].jobCount, calls[c].groupSize)
             PROVE  c \in 1 .. MaxCalls /\ i \in UInt
    BY DEF AllAccepted, AcceptedBy
<1>1. calls[c] \in Call /\ c \in 1 .. MaxCalls
    BY JobSystemAssumption DEF TypeOK
<1>2. calls[c].jobCount \in UInt
    BY <1>1 DEF Call
<1>. QED BY <1>1, <1>2, WordAssumption DEF Accepted, UInt

LEMMA ForkJoinStep ==
    ASSUME IInv, IInv', [Next]_vars
    PROVE  [FJ!Next]_(FJ!vars)
<1>1. Base /\ RanOnce /\ JobsDistinct
    BY DEF IInv, Base
<1>2. todo' \subseteq (1 .. MaxCalls) \X UInt
    <2>1. (AllAccepted \subseteq (1 .. MaxCalls) \X UInt)'
        <3>1. TypeOK'
            BY DEF IInv
        <3>. QED BY <3>1, AcceptedItems, PTL
    <2>. QED BY <2>1 DEF todo
<1>3. ASSUME NEW jobCount \in UInt \ {0}, NEW groupSize \in UInt \ {0}, NEW n \in UInt,
             Issue(jobCount, groupSize, n), n = GroupCount(jobCount, groupSize)
      PROVE  FJ!Submit
    <2>1. /\ AllAccepted \subseteq AllAccepted'
          /\ \A x \in AllAccepted' : x \in AllAccepted \/ x[1] = Len(calls) + 1
          /\ \A x \in AllAccepted : x[1] \in DOMAIN calls
        BY <1>1, <1>3, IssueAccepts
    <2>2. ran' = ran /\ mode = "free" /\ mode' = "free"
        BY <1>3 DEF Issue, workerVars, mode
    <2>3. ran \subseteq AllAccepted
        BY <1>1 DEF RanOnce
    <2>4. Len(calls) + 1 \notin DOMAIN calls
        BY DEF IInv, TypeOK
    <2>5. todo \subseteq todo' /\ (todo' \ todo) \cap ran = {}
        BY <2>1, <2>2, <2>3, <2>4 DEF todo
    <2>. QED BY <1>2, <2>2, <2>5 DEF FJ!Submit, todo, mode
<1>4. CASE PushSucceeds
    BY <1>4 DEF PushSucceeds, workerVars, FJ!vars, AllAccepted, AcceptedBy
<1>5. ASSUME NEW w \in Workers, PopSucceeds(w) \/ FinishJob(w)
      PROVE  UNCHANGED FJ!vars
    BY <1>5 DEF PopSucceeds, FinishJob, mainVars, FJ!vars, AllAccepted, AcceptedBy
<1>6. ASSUME NEW w \in Workers, RunIndex(w)
      PROVE  \E x \in (1 .. MaxCalls) \X UInt : FJ!Perform(x)
    <2> DEFINE x == <<job[w].call, index[w]>>
    <2>1. index[w] \in Indices(job[w]) /\ job[w] \in Issued
        BY <1>1, <1>6, RunningIndex
    <2>2. x \in AllAccepted
        BY <2>1, JobIndicesAccepted DEF IInv
    <2>3. x \notin ran
        <3>1. w \in Running /\ index[w] \in Nat
            BY <1>6 DEF RunIndex, Running, IInv, TypeOK
        <3>. QED BY <1>1, <2>1, <3>1 DEF RanOnce
    <2>4. ran' = ran \cup {x} /\ UNCHANGED <<main, calls>>
        BY <1>6 DEF RunIndex, mainVars
    <2>5. AllAccepted' = AllAccepted
        BY <2>4, RangesStay
    <2>6. x \in (1 .. MaxCalls) \X UInt
        BY <2>2, AcceptedItems DEF IInv
    <2>. QED BY <2>2, <2>3, <2>4, <2>5, <2>6 DEF FJ!Perform
<1>7. ASSUME UNCHANGED <<calls, ran>>, mode' = mode
      PROVE  UNCHANGED FJ!vars
    BY <1>7, RangesStay DEF FJ!vars, mode
<1>8. CASE CallWait
    BY <1>8, RangesStay DEF CallWait, workerVars, FJ!Next, FJ!BeginWait, mode
<1>9. CASE WaitTest
    <2>1. UNCHANGED <<calls, ran>> /\ main = "wait"
        BY <1>9 DEF WaitTest, workerVars
    <2>2. AllAccepted' = AllAccepted
        BY <2>1, RangesStay
    <2>3. CASE IsBusy
        BY <1>9, <2>1, <2>3, <1>7 DEF WaitTest, mode
    <2>4. CASE ~IsBusy
        <3>1. AllAccepted \ ran = {}
            BY <2>4, IdleFromInvariant DEF IdleMeansDone
        <3>2. main' = "caller"
            BY <1>9, <2>4 DEF WaitTest
        <3>. QED BY <2>1, <2>2, <3>1, <3>2 DEF FJ!EndWait, FJ!Next
    <2>. QED BY <2>3, <2>4
<1>10. CASE PushFails \/ NotifyPushed \/ PollPush \/ PollWait
    <2>1. UNCHANGED <<calls, ran>>
        BY <1>10 DEF PushFails, NotifyPushed, PollPush, PollWait, NotifyOne, workerVars
    <2>2. mode' = mode
        BY <1>10 DEF PushFails, NotifyPushed, PollPush, PollWait, mode
    <2>. QED BY <1>7, <2>1, <2>2
<1>11. ASSUME NEW w \in Workers, PopFails(w) \/ Sleep(w) \/ SpuriousWake(w)
       PROVE  UNCHANGED FJ!vars
    BY <1>7, <1>11 DEF PopFails, Sleep, SpuriousWake, mainVars, mode
<1>12. CASE UNCHANGED vars
    BY <1>7, <1>12 DEF vars, mode
<1>13. ASSUME NEW s \in Shapes, Dispatch(s[1], s[2])
       PROVE  FJ!Submit
    <2>1. s[1] \in UInt \ {0} /\ s[2] \in UInt \ {0}
        BY <1>13, JobSystemAssumption DEF Dispatch
    <2>2. GroupCount(s[1], s[2]) \in UInt
        BY <2>1, GroupCountType
    <2>. QED BY <1>3, <1>13, <2>1, <2>2 DEF Dispatch
<1>14. CASE Execute
    <2>1. 1 \in UInt \ {0} /\ GroupCount(1, 1) = 1
        <3>1. 1 % Word = 1
            BY WordAssumption, NoWrap
        <3>2. 1 \div 1 = 1
            BY Z3
        <3>. QED BY <3>1, <3>2, WordAssumption DEF UInt, GroupCount
    <2>. QED BY <1>3, <1>14, <2>1 DEF Execute, FJ!Next
<1>. QED
    BY <1>4, <1>5, <1>6, <1>8, <1>9, <1>10, <1>11, <1>12, <1>13, <1>14
        DEF Next, MainStep, WorkerStep, FJ!Next

\* Every accepted index is run exactly once, nothing else is run, and Wait returns
\* only when nothing is left to run.
THEOREM JobSystemIsForkJoin == Spec => ImplementsForkJoin
<1>1. Init => FJ!Init
    BY DEF Init, FJ!Init, AllAccepted
<1>2. IInv /\ IInv' /\ [Next]_vars => [FJ!Next]_(FJ!vars)
    BY ForkJoinStep
<1>. QED BY <1>1, <1>2, Invariance, PTL DEF Spec, FJ!Spec, ImplementsForkJoin

-----------------------------------------------------------------------------
(* The queue is in the order of issue: a push appends a job that comes after  *)
(* every pushed one, and a pop takes the front.                               *)

\* Before orders the jobs of a program of calls.
LEMMA BeforeTransitive ==
    \A a, b, c \in Job : Before(a, b) /\ Before(b, c) => Before(a, c)
BY WordAssumption, JobSystemAssumption DEF Before, Job, UInt

\* The next push of the loop comes after every pushed job.
LEMMA NextPushIsLast ==
    ASSUME Base, PushSucceeds, NEW j \in Pushed
    PROVE  Before(j, [call |-> Len(calls), group |-> groupIndex])
<1>1. j.call <= Len(calls) /\ (j.call = Len(calls) => j.group < groupIndex)
    BY DEF PushSucceeds, Pushed, Issued, Pushing
<1>2. j.call \in Nat /\ Len(calls) \in Nat
    BY JobSystemAssumption DEF Pushed, Issued, Job, Base, TypeOK
<1>. QED BY <1>1, <1>2 DEF Before

\* No step disturbs the order.
LEMMA OrderStep == Base /\ OldestFirst /\ [Next]_vars => OldestFirst'
<1> SUFFICES ASSUME Base, OldestFirst, [Next]_vars PROVE OldestFirst'
    OBVIOUS
<1> DEFINE q == Queue(jobPool)  n == Size(jobPool)
<1>1. /\ jobPool \in RingBuffers(Job \cup {NoJob}) /\ jobPool' \in RingBuffers(Job \cup {NoJob})
      /\ Held(jobPool) \subseteq Pushed /\ \A w \in Running : job[w] \in Pushed
      /\ Pushed \subseteq Job
    BY BaseStep DEF Base, TypeOK, JobsInv, Pushed, Issued
<1>2. n \in Nat /\ Len(q) = n /\ \A k \in 1 .. n : q[k] \in Pushed
    BY <1>1, QueueFacts
<1>3. /\ \A k \in 2 .. n : Before(q[k - 1], q[k])
      /\ n > 0 => \A w \in Running : Before(job[w], q[1])
    BY <1>2 DEF OldestFirst, Running
<1>4. SUFFICES ASSUME NEW r, NEW m, r = Queue(jobPool'), m = Size(jobPool')
               PROVE  /\ \A k \in 2 .. m : Before(r[k - 1], r[k])
                      /\ m > 0 => \A w \in Running' : Before(job'[w], r[1])
    <2>1. Len(Queue(jobPool')) = Size(jobPool') /\ Size(jobPool') \in Nat
        BY <1>1, QueueFacts
    <2>. QED BY <2>1 DEF OldestFirst, Running
<1>5. ASSUME UNCHANGED <<jobPool, job>>, Running' \subseteq Running
      PROVE  /\ \A k \in 2 .. m : Before(r[k - 1], r[k])
             /\ m > 0 => \A w \in Running' : Before(job'[w], r[1])
    BY <1>3, <1>4, <1>5
<1>6. CASE PushSucceeds
    <2> DEFINE new == [call |-> Len(calls), group |-> groupIndex]
    <2>1. /\ new \in Job /\ jobPool' = PushBack(jobPool, new) /\ ~IsFull(jobPool)
          /\ Running' = Running /\ job' = job
        BY <1>6, PushEffect DEF PushSucceeds, Issued, workerVars
    <2>2. m = n + 1
        BY <1>1, <1>4, <2>1, PushBackGrows
    <2>3. r[n + 1] = new /\ \A k \in 1 .. n : r[k] = q[k]
        BY <1>1, <1>4, <2>1, PushBackAppends
    <2>4. \A j \in Pushed : Before(j, new)
        BY <1>6, NextPushIsLast
    <2>5. ASSUME NEW k \in 2 .. m PROVE Before(r[k - 1], r[k])
        <3>1. CASE k \in 2 .. n
            <4>1. k - 1 \in 1 .. n /\ k \in 1 .. n
                BY <1>2, <3>1
            <4>. QED BY <1>3, <2>3, <3>1, <4>1
        <3>2. CASE k = n + 1
            <4>1. k - 1 = n /\ n \in 1 .. n
                BY <1>2, <2>2, <2>5, <3>2
            <4>. QED BY <1>2, <2>3, <2>4, <3>2, <4>1
        <3>. QED BY <1>2, <2>2, <2>5, <3>1, <3>2
    <2>6. ASSUME NEW w \in Running' PROVE Before(job'[w], r[1])
        <3>1. CASE n = 0
            BY <1>1, <2>1, <2>3, <2>4, <2>6, <3>1
        <3>2. CASE n > 0
            <4>1. 1 \in 1 .. n
                BY <1>2, <3>2
            <4>. QED BY <1>3, <2>1, <2>3, <2>6, <3>2, <4>1
        <3>. QED BY <1>2, <3>1, <3>2
    <2>. QED BY <2>5, <2>6
<1>7. ASSUME NEW v \in Workers, PopSucceeds(v)
      PROVE  /\ \A k \in 2 .. m : Before(r[k - 1], r[k])
             /\ m > 0 => \A w \in Running' : Before(job'[w], r[1])
    <2>1. /\ jobPool' = PopFront(jobPool) /\ ~IsEmpty(jobPool)
          /\ job' = [job EXCEPT ![v] = Front(jobPool)] /\ Running' = Running \cup {v}
        BY <1>7, PopEffect
    <2>2. n > 0 /\ q[1] = Front(jobPool) /\ m = n - 1
        BY <1>1, <1>4, <2>1, QueueFacts, PopFrontShrinks
    <2>3. \A k \in 1 .. n - 1 : r[k] = q[k + 1]
        BY <1>1, <1>4, <2>1, PopFrontShifts
    <2>4. ASSUME NEW k \in 2 .. m PROVE Before(r[k - 1], r[k])
        <3>1. k - 1 \in 1 .. n - 1 /\ k \in 1 .. n - 1 /\ k + 1 \in 2 .. n /\ k - 1 + 1 = k
            BY <1>2, <2>2
        <3>2. r[k - 1] = q[k] /\ r[k] = q[k + 1]
            BY <2>3, <3>1
        <3>. QED BY <1>3, <3>1, <3>2
    <2>5. ASSUME m > 0, NEW w \in Running' PROVE Before(job'[w], r[1])
        <3>1. 1 \in 1 .. n - 1 /\ 2 \in 2 .. n /\ 1 \in 1 .. n /\ 2 \in 1 .. n
            BY <1>2, <2>2, <2>5
        <3>2. r[1] = q[2] /\ Before(q[1], q[2]) /\ q[1] \in Job /\ q[2] \in Job
            <4>1. 1 + 1 = 2 /\ 2 - 1 = 1
                OBVIOUS
            <4>2. r[1] = q[2]
                BY <2>3, <3>1, <4>1
            <4>3. Before(q[1], q[2])
                BY <1>3, <3>1, <4>1
            <4>. QED BY <1>1, <1>2, <3>1, <4>2, <4>3
        <3>3. CASE w = v
            BY <2>1, <2>2, <3>2, <3>3 DEF Base, TypeOK
        <3>4. CASE w # v
            <4>1. w \in Running /\ job'[w] = job[w] /\ job[w] \in Job
                BY <1>1, <2>1, <2>5, <3>4 DEF Base, TypeOK, Running
            <4>2. Before(job[w], q[1])
                BY <1>3, <2>2, <4>1
            <4>. QED BY <3>2, <4>1, <4>2, BeforeTransitive
        <3>. QED BY <3>3, <3>4
    <2>. QED BY <2>4, <2>5
<1>8. ASSUME NEW w \in Workers, RunIndex(w) \/ FinishJob(w)
      PROVE  UNCHANGED <<jobPool, job>> /\ Running' \subseteq Running
    BY <1>8, RunEffect
<1>9. ASSUME NEW jobCount \in UInt \ {0}, NEW groupSize \in UInt \ {0}, NEW c \in UInt,
             Issue(jobCount, groupSize, c), c = GroupCount(jobCount, groupSize)
      PROVE  UNCHANGED <<jobPool, job>> /\ Running' \subseteq Running
    BY <1>9, IssueEffect DEF Issue, workerVars
<1>10. CASE Quiet
    BY <1>5, <1>10 DEF Quiet
<1>. QED BY <1>5, <1>6, <1>7, <1>8, <1>9, <1>10, StepCases DEF Base

\* Jobs start in the order they were issued: the queue is sorted, and what a worker
\* runs was issued before everything still queued (push_back, pop_front).
THEOREM JobsStartInOrder == Spec => []OldestFirst
<1>1. Init => Base /\ OldestFirst
    <2> SUFFICES ASSUME Init PROVE Base /\ OldestFirst
        OBVIOUS
    <2>1. Base
        BY BaseInit
    <2>2. Size(jobPool) = 0 /\ Len(Queue(jobPool)) = Size(jobPool)
        BY <2>1, QueueFacts DEF Init, EmptyRing, Size, Base, TypeOK
    <2>3. \A w \in Workers : wpc[w] # "run"
        BY DEF Init
    <2>. QED BY <2>1, <2>2, <2>3 DEF OldestFirst
<1>2. Base /\ OldestFirst /\ [Next]_vars => Base' /\ OldestFirst'
    BY BaseStep, OrderStep
<1>. QED BY <1>1, <1>2, PTL DEF Spec
=============================================================================
