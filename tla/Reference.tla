----------------------------- MODULE Reference ------------------------------
(***************************************************************************)
(* Core/Reference.h, Reference.cpp, ReferenceCounter.h: Ref<T>, the        *)
(* counted pointer of the engine.  Handles are used by several threads; as *)
(* for any C++ object, one handle is written by one thread at a time and   *)
(* not while others read it.  The counter is shared: a step is one atomic  *)
(* operation on it, or what one call does between two of them.             *)
(*                                                                         *)
(* An object and the RefCount made for it by CreateRef or reset come and   *)
(* go together.  WeakReference, which nothing uses, is left out.           *)
(***************************************************************************)
EXTENDS Naturals, FiniteSets

CONSTANTS Handle,      \* variables of type Ref<T>
          Object,      \* addresses of objects; a freed one is used again
          Null

ASSUME ReferenceAssumption ==
    /\ IsFiniteSet(Handle)
    /\ Null \notin Handle \cup Object

VARIABLES m_Ptr,       \* what a handle points to
          m_Counter,   \* the counter it points to, named after its object
          m_Refcount,  \* the value of a counter
          live,        \* objects that exist
          pc,          \* where the call that writes a handle is
          source       \* the handle that call reads, or Null

vars == <<m_Ptr, m_Counter, m_Refcount, live, pc, source>>

Init == /\ m_Ptr = [h \in Handle |-> Null]
        /\ m_Counter = [h \in Handle |-> Null]
        /\ m_Refcount = [o \in Object |-> 0]
        /\ live = {}
        /\ pc = [h \in Handle |-> "idle"]
        /\ source = [h \in Handle |-> Null]

Unread(h) == \A g \in Handle : source[g] # h
Goto(h, step) == pc' = [pc EXCEPT ![h] = step]

\* h = s, the copy and the move alike; nothing happens when both point to one
\* object already.
Assign(h, s) == /\ pc[h] = "idle" /\ Unread(h)
                /\ pc[s] = "idle" /\ m_Ptr[s] # m_Ptr[h]
                /\ Goto(h, "unref")
                /\ source' = [source EXCEPT ![h] = s]
                /\ UNCHANGED <<m_Ptr, m_Counter, m_Refcount, live>>

\* reset, and the destructor.
Reset(h) == /\ pc[h] = "idle" /\ Unread(h)
            /\ Goto(h, "unref")
            /\ UNCHANGED <<m_Ptr, m_Counter, m_Refcount, live, source>>

\* Faulty: tests the value before the decrement.
WasZero(n) == n = 0

\* atomic_decrement returned zero.
ReachesZero(n) == n - 1 = 0

\* m_Counter->unreference(): true for the one that takes the count to zero.
Unref(h) ==
    /\ pc[h] = "unref"
    /\ IF m_Counter[h] = Null
       THEN Goto(h, "take") /\ UNCHANGED m_Refcount
       ELSE /\ m_Refcount' = [m_Refcount EXCEPT ![m_Counter[h]] = @ - 1]
            /\ Goto(h, IF ReachesZero(m_Refcount[m_Counter[h]]) THEN "delete" ELSE "take")
    /\ UNCHANGED <<m_Ptr, m_Counter, live, source>>

Delete(h) == /\ pc[h] = "delete"
             /\ live' = live \ {m_Ptr[h]}
             /\ Goto(h, "take")
             /\ UNCHANGED <<m_Ptr, m_Counter, m_Refcount, source>>

Point(h, o) == /\ m_Ptr' = [m_Ptr EXCEPT ![h] = o]
               /\ m_Counter' = [m_Counter EXCEPT ![h] = o]

\* After unref: the pointer and the counter of the source; m_Counter->reference()
\* is the next step.
TakeSource(h) == /\ pc[h] = "take" /\ source[h] # Null
                 /\ Point(h, m_Ptr[source[h]])
                 /\ Goto(h, IF m_Ptr[source[h]] = Null THEN "done" ELSE "ref")
                 /\ UNCHANGED <<m_Refcount, live, source>>

\* Faulty: a copy of a handle that is shared already is not counted.
RefFirst(h) == /\ pc[h] = "ref"
               /\ m_Refcount' = [m_Refcount EXCEPT ![m_Counter[h]] = IF @ < 2 THEN @ + 1 ELSE @]
               /\ Goto(h, "done")
               /\ UNCHANGED <<m_Ptr, m_Counter, live, source>>

\* ReferenceCounter::ref adds nothing to a count of zero.
Ref(h) == /\ pc[h] = "ref"
          /\ m_Refcount' = [m_Refcount EXCEPT ![m_Counter[h]] = IF @ = 0 THEN 0 ELSE @ + 1]
          /\ Goto(h, "done")
          /\ UNCHANGED <<m_Ptr, m_Counter, live, source>>

Return(h) == /\ pc[h] = "done"
             /\ Goto(h, "idle")
             /\ source' = [source EXCEPT ![h] = Null]
             /\ UNCHANGED <<m_Ptr, m_Counter, m_Refcount, live>>

TakeNull(h) == /\ pc[h] = "take" /\ source[h] = Null
               /\ Point(h, Null)
               /\ Goto(h, "idle")
               /\ UNCHANGED <<m_Refcount, live, source>>

\* reset(p), Reference(p): a new RefCount, one by its constructor, which InitRef
\* takes to two and back.
TakeNew(h, o) == /\ pc[h] = "take" /\ source[h] = Null /\ o \notin live
                 /\ Point(h, o)
                 /\ live' = live \cup {o}
                 /\ m_Refcount' = [m_Refcount EXCEPT ![o] = 1]
                 /\ Goto(h, "idle")
                 /\ UNCHANGED source

Step(h) == \/ Unref(h) \/ Delete(h) \/ TakeSource(h) \/ Ref(h) \/ Return(h) \/ TakeNull(h)
           \/ \E o \in Object : TakeNew(h, o)

Next == \E h \in Handle : Step(h) \/ Reset(h) \/ \E s \in Handle : Assign(h, s)

Spec == Init /\ [][Next]_vars
FairSpec == Spec /\ \A h \in Handle : WF_vars(Step(h))

-----------------------------------------------------------------------------
(* Properties. *)

Holders(o) == {h \in Handle : m_Counter[h] = o /\ pc[h] \in {"idle", "unref", "done"}}

TypeOK == /\ m_Ptr \in [Handle -> Object \cup {Null}]
          /\ m_Counter \in [Handle -> Object \cup {Null}]
          /\ m_Refcount \in [Object -> Nat]
          /\ live \subseteq Object
          /\ pc \in [Handle -> {"idle", "unref", "delete", "take", "ref", "done"}]
          /\ source \in [Handle -> Handle \cup {Null}]

\* While its source is read, nothing writes it.
SourcesRest ==
    \A h \in Handle :
        /\ pc[h] = "idle" => source[h] = Null
        /\ source[h] # Null => source[h] # h /\ pc[source[h]] = "idle"
        /\ pc[h] = "ref" => source[h] # Null /\ m_Counter[h] = m_Counter[source[h]]
        /\ pc[h] \in {"ref", "delete"} => m_Counter[h] # Null

PtrHasItsCounter == m_Ptr = m_Counter

\* The count of an object is the number of handles that hold it, whatever
\* other threads are doing to theirs (ReferenceCounter.h 72-89).
CountIsHolders == \A o \in Object : m_Refcount[o] = Cardinality(Holders(o))

\* One call at most frees an object, once nobody holds it.
DeletesAlone ==
    \A h \in Handle : pc[h] = "delete" =>
        /\ m_Ptr[h] \in live /\ Holders(m_Ptr[h]) = {}
        /\ \A g \in Handle : pc[g] = "delete" /\ m_Ptr[g] = m_Ptr[h] => g = h

\* What exists is held, or its last holder is about to free it: no leak.
LiveIsHeld ==
    \A o \in live : Holders(o) # {} \/ \E h \in Handle : pc[h] = "delete" /\ m_Ptr[h] = o

\* No handle that can be used points to an object that was freed, although its
\* address may be in use again (Reference.h 254-298).
HeldIsLive == \A o \in Object : Holders(o) # {} => o \in live

IInv == /\ TypeOK /\ SourcesRest /\ PtrHasItsCounter
        /\ CountIsHolders /\ DeletesAlone /\ LiveIsHeld /\ HeldIsLive

\* An object that no handle holds is freed (Reference.h 281-297).
DroppedIsFreed == \A o \in Object : (o \in live /\ Holders(o) = {}) ~> (o \notin live)
=============================================================================
