----------------------------- MODULE RingBuffer -----------------------------
(***************************************************************************)
(* ThreadSafeRingBuffer of Core/JobSystem.cpp: a fixed array with a head   *)
(* (next slot to write) and a tail (next slot to read).  One slot always   *)
(* stays free, so that head = tail means empty: the buffer holds at most   *)
(* Capacity - 1 items.  push_back and pop_front run under one mutex from   *)
(* their first line to their last, so each is one atomic step of its       *)
(* caller and the buffer is a value with operators, not a process.         *)
(***************************************************************************)
EXTENDS Integers

CONSTANT Capacity    \* the template argument, 256 for jobPool

ASSUME CapacityAssumption == Capacity \in Nat /\ Capacity >= 2

Slots == 0 .. Capacity - 1

RingBuffers(Item) == [data : [Slots -> Item], head : Slots, tail : Slots]

EmptyRing(filler) == [data |-> [s \in Slots |-> filler], head |-> 0, tail |-> 0]

\* Faulty variant: the head leaves the array.
NextSlotUnwrapped(s) == s + 1

NextSlot(s) == (s + 1) % Capacity

\* Faulty variant: push_back never sees a full buffer.
NeverFull(r) == FALSE

IsFull(r)  == NextSlot(r.head) = r.tail
IsEmpty(r) == r.tail = r.head

\* push_back when it returns true; it returns false, and changes nothing, iff IsFull.
PushBack(r, item) ==
    [data |-> [r.data EXCEPT ![r.head] = item], head |-> NextSlot(r.head), tail |-> r.tail]

\* Faulty variant: a stack instead of a queue.
FrontNewest(r) == r.data[(r.head + Capacity - 1) % Capacity]
\* pop_front when it returns true: the item it hands out, and the buffer it
\* leaves.  The slot keeps its copy of the item; nothing reads it again.
Front(r)    == r.data[r.tail]
PopFront(r) == [data |-> r.data, head |-> r.head, tail |-> NextSlot(r.tail)]

-----------------------------------------------------------------------------
(* What the buffer holds, for properties and proofs. *)

Size(r) == IF r.tail <= r.head THEN r.head - r.tail ELSE r.head + Capacity - r.tail

LiveSlots(r) == IF r.tail <= r.head
                THEN r.tail .. r.head - 1
                ELSE (r.tail .. Capacity - 1) \cup (0 .. r.head - 1)

Held(r) == {r.data[s] : s \in LiveSlots(r)}

\* The items from the oldest to the newest.
Queue(r) == [k \in 1 .. Size(r) |-> r.data[(r.tail + k - 1) % Capacity]]
=============================================================================
