-------------------------- MODULE Reference_proofs --------------------------
(* Proofs about Reference: the count of an object is the number of handles *)
(* that hold it, for every number of handles and objects.                  *)
EXTENDS Reference, FiniteSetTheorems, TLAPS

\* The handles that hold an object are finitely many (Reference.h 254-298).
LEMMA HoldersFinite ==
    ASSUME NEW o PROVE IsFiniteSet(Holders(o)) /\ Cardinality(Holders(o)) \in Nat
<1>1. Holders(o) \subseteq Handle BY DEF Holders
<1>2. IsFiniteSet(Holders(o)) BY <1>1, ReferenceAssumption, FS_Subset
<1> QED BY <1>2, FS_CardinalityType

\* A count of zero means that nobody holds the object (ReferenceCounter.h 78).
LEMMA ZeroMeansFree ==
    ASSUME NEW o, Cardinality(Holders(o)) = 0 PROVE Holders(o) = {}
BY HoldersFinite, FS_EmptySet

\* The initial state satisfies the invariant (Reference.h 41-58).
LEMMA InitInv == Init => IInv
<1> SUFFICES ASSUME Init PROVE IInv OBVIOUS
<1> USE DEF Init
<1>1. TypeOK BY DEF TypeOK
<1>2. \A o \in Object : Holders(o) = {} BY ReferenceAssumption DEF Holders
<1>3. CountIsHolders BY <1>2, FS_EmptySet DEF CountIsHolders
<1>4. SourcesRest /\ PtrHasItsCounter /\ DeletesAlone BY DEF SourcesRest, PtrHasItsCounter, DeletesAlone
<1>5. LiveIsHeld /\ HeldIsLive BY <1>2 DEF LiveIsHeld, HeldIsLive
<1> QED BY <1>1, <1>3, <1>4, <1>5 DEF IInv

\* A step that changes no holder keeps the counts (Reference.h 254-260).
LEMMA SameHolders ==
    ASSUME IInv, TypeOK', SourcesRest', PtrHasItsCounter',
           \A o \in Object : Holders(o)' = Holders(o),
           UNCHANGED <<m_Refcount, live>>,
           \A h \in Handle : pc'[h] = "delete" <=> pc[h] = "delete",
           \A h \in Handle : pc[h] = "delete" => m_Ptr'[h] = m_Ptr[h]
    PROVE  IInv'
<1> USE DEF IInv
<1>1. CountIsHolders' BY DEF CountIsHolders
<1>2. DeletesAlone' BY DEF DeletesAlone, TypeOK
<1>3. LiveIsHeld' BY DEF LiveIsHeld, TypeOK
<1>4. HeldIsLive' BY DEF HeldIsLive
<1> QED BY <1>1, <1>2, <1>3, <1>4

\* The beginning of an assignment or a reset (Reference.h 134-136, 254-259).
LEMMA BeginInv ==
    ASSUME IInv, NEW h \in Handle,
           Reset(h) \/ \E s \in Handle : Assign(h, s)
    PROVE  IInv'
<1> USE DEF IInv, Goto, Unread
<1>1. TypeOK' BY DEF TypeOK, Reset, Assign
<1>2. SourcesRest' BY DEF TypeOK, SourcesRest, Reset, Assign
<1>3. PtrHasItsCounter' BY DEF PtrHasItsCounter, Reset, Assign
<1>4. \A o \in Object : Holders(o)' = Holders(o) BY DEF Holders, TypeOK, Reset, Assign
<1>5. \A g \in Handle : pc'[g] = "delete" <=> pc[g] = "delete" BY DEF TypeOK, Reset, Assign
<1>6. UNCHANGED <<m_Refcount, live, m_Ptr>> BY DEF Reset, Assign
<1> QED BY <1>1, <1>2, <1>3, <1>4, <1>5, <1>6, SameHolders

\* Steps of a handle that nobody counts, and the return (Reference.h 261-270).
LEMMA QuietInv ==
    ASSUME IInv, NEW h \in Handle,
           TakeSource(h) \/ TakeNull(h) \/ Return(h) \/ (Unref(h) /\ m_Counter[h] = Null)
    PROVE  IInv'
<1> USE ReferenceAssumption DEF IInv, Goto, Point
<1>1. TypeOK' BY DEF TypeOK, SourcesRest, TakeSource, TakeNull, Return, Unref
<1>2. SourcesRest'
  <2>1. CASE TakeSource(h) BY <2>1 DEF TypeOK, SourcesRest, PtrHasItsCounter, TakeSource
  <2>2. CASE TakeNull(h) BY <2>2 DEF TypeOK, SourcesRest, TakeNull
  <2>3. CASE Return(h) BY <2>3 DEF TypeOK, SourcesRest, Return
  <2>4. CASE Unref(h) /\ m_Counter[h] = Null BY <2>4 DEF TypeOK, SourcesRest, Unref
  <2> QED BY <2>1, <2>2, <2>3, <2>4
<1>3. PtrHasItsCounter' BY DEF TypeOK, PtrHasItsCounter, TakeSource, TakeNull, Return, Unref
<1>4. \A o \in Object : Holders(o)' = Holders(o)
      BY DEF Holders, TypeOK, PtrHasItsCounter, TakeSource, TakeNull, Return, Unref
<1>5. \A g \in Handle : pc'[g] = "delete" <=> pc[g] = "delete"
      BY DEF TypeOK, TakeSource, TakeNull, Return, Unref
<1>6. UNCHANGED <<m_Refcount, live>> BY DEF TakeSource, TakeNull, Return, Unref
<1>7. \A g \in Handle : pc[g] = "delete" => m_Ptr'[g] = m_Ptr[g]
      BY DEF TypeOK, TakeSource, TakeNull, Return, Unref
<1> QED BY <1>1, <1>2, <1>3, <1>4, <1>5, <1>6, <1>7, SameHolders

\* A holder gives up its share (Reference.h 281-297).
LEMMA UnrefInv ==
    ASSUME IInv, NEW h \in Handle, Unref(h), m_Counter[h] # Null
    PROVE  IInv'
<1> USE ReferenceAssumption DEF IInv, Goto
<1> DEFINE c == m_Counter[h]
<1>1. c \in Object /\ m_Ptr[h] = c /\ h \in Holders(c) /\ c \in live
      BY DEF TypeOK, PtrHasItsCounter, Holders, Unref, HeldIsLive
<1>2. Holders(c)' = Holders(c) \ {h} BY DEF Holders, TypeOK, Unref
<1>3. \A o \in Object \ {c} : Holders(o)' = Holders(o) BY DEF Holders, TypeOK, Unref
<1>4. Cardinality(Holders(c)') = m_Refcount[c] - 1 /\ m_Refcount[c] \in Nat \ {0}
  <2>1. Cardinality(Holders(c) \ {h}) = Cardinality(Holders(c)) - 1
        BY <1>1, HoldersFinite, FS_RemoveElement
  <2>2. Cardinality(Holders(c) \ {h}) \in Nat BY <1>2, HoldersFinite, FS_CardinalityType, FS_RemoveElement
  <2> QED BY <1>1, <1>2, <2>1, <2>2 DEF CountIsHolders, TypeOK
<1>5. TypeOK' BY <1>1, <1>4 DEF TypeOK, Unref
<1>6. SourcesRest' BY <1>1 DEF TypeOK, SourcesRest, Unref
<1>7. PtrHasItsCounter' BY DEF PtrHasItsCounter, Unref
<1>8. CountIsHolders' BY <1>1, <1>3, <1>4 DEF CountIsHolders, TypeOK, Unref
<1>9. pc'[h] = "delete" <=> m_Refcount[c] = 1 BY <1>4 DEF Unref, TypeOK, ReachesZero
<1>10. \A g \in Handle \ {h} : pc'[g] = pc[g] BY DEF Unref, TypeOK
<1>11. m_Ptr' = m_Ptr /\ m_Counter' = m_Counter /\ live' = live BY DEF Unref
<1>12. \A g \in Handle : pc[g] = "delete" => m_Ptr[g] # c BY <1>1 DEF DeletesAlone
<1>13. pc'[h] = "delete" <=> Holders(c)' = {}
  <2>1. Holders(c)' = Holders(c) \ {h} /\ IsFiniteSet(Holders(c) \ {h})
        BY <1>2, HoldersFinite, FS_RemoveElement
  <2> QED BY <2>1, <1>4, <1>9, FS_EmptySet
<1>14. DeletesAlone' BY <1>1, <1>3, <1>10, <1>11, <1>12, <1>13 DEF DeletesAlone, TypeOK
<1>15. LiveIsHeld' BY <1>1, <1>3, <1>10, <1>11, <1>13 DEF LiveIsHeld, TypeOK
<1>16. HeldIsLive' BY <1>1, <1>2, <1>3, <1>11 DEF HeldIsLive
<1> QED BY <1>5, <1>6, <1>7, <1>8, <1>14, <1>15, <1>16

\* The object is freed by the one that took the count to zero (Reference.h 287).
LEMMA DeleteInv ==
    ASSUME IInv, NEW h \in Handle, Delete(h) PROVE IInv'
<1> USE ReferenceAssumption DEF IInv, Goto
<1>1. TypeOK' BY DEF TypeOK, Delete
<1>2. SourcesRest' BY DEF TypeOK, SourcesRest, Delete
<1>3. PtrHasItsCounter' BY DEF PtrHasItsCounter, Delete
<1>4. \A o \in Object : Holders(o)' = Holders(o) BY DEF Holders, TypeOK, Delete
<1>5. CountIsHolders' BY <1>4 DEF CountIsHolders, Delete
<1>6. m_Ptr' = m_Ptr /\ m_Ptr[h] \in Object BY DEF Delete, DeletesAlone, TypeOK
<1>7. DeletesAlone' BY <1>4, <1>6 DEF DeletesAlone, Delete, TypeOK
<1>8. LiveIsHeld' BY <1>4, <1>6 DEF LiveIsHeld, Delete, TypeOK
<1>9. HeldIsLive' BY <1>4, <1>6 DEF HeldIsLive, DeletesAlone, Delete
<1> QED BY <1>1, <1>2, <1>3, <1>5, <1>7, <1>8, <1>9

\* What Ref and TakeNew have in common: h becomes a holder of c, and is counted.
Joins(h, c) ==
    /\ m_Counter' = [m_Counter EXCEPT ![h] = c] /\ m_Ptr' = [m_Ptr EXCEPT ![h] = c]
    /\ m_Refcount' = [m_Refcount EXCEPT ![c] = Cardinality(Holders(c)) + 1]
    /\ live' = live \cup {c}
    /\ pc[h] \in {"ref", "take"} /\ Goto(h, IF pc[h] = "ref" THEN "done" ELSE "idle")
    /\ source' = source /\ (pc[h] = "take" => source[h] = Null)
    /\ \A g \in Handle : pc[g] = "delete" => m_Ptr[g] # c

\* A handle that joins the holders of an object keeps the invariant.
LEMMA JoinsInv ==
    ASSUME IInv, NEW h \in Handle, NEW c \in Object, Joins(h, c) PROVE IInv'
<1> USE ReferenceAssumption DEF IInv, Goto
<1>1. Joins(h, c) OBVIOUS
<1>2. h \notin Holders(c) BY <1>1 DEF Joins, Holders
<1>3. Holders(c)' = Holders(c) \cup {h} BY <1>1 DEF Joins, Holders, TypeOK
<1>4. \A o \in Object \ {c} : Holders(o)' = Holders(o) BY <1>1 DEF Joins, Holders, TypeOK
<1>5. Cardinality(Holders(c)') = Cardinality(Holders(c)) + 1 /\ Cardinality(Holders(c)) \in Nat
      BY <1>2, <1>3, HoldersFinite, FS_AddElement
<1>6. TypeOK' BY <1>1, <1>5 DEF Joins, TypeOK
<1>7. SourcesRest' BY <1>1 DEF Joins, SourcesRest, TypeOK
<1>8. PtrHasItsCounter' BY <1>1 DEF Joins, PtrHasItsCounter
<1>9. CountIsHolders' BY <1>1, <1>4, <1>5 DEF Joins, CountIsHolders, TypeOK
<1>10. \A g \in Handle : pc'[g] = "delete" <=> pc[g] = "delete" BY <1>1 DEF Joins, TypeOK
<1>11. \A g \in Handle : pc[g] = "delete" => m_Ptr'[g] = m_Ptr[g] BY <1>1 DEF Joins, TypeOK
<1>12. DeletesAlone' BY <1>1, <1>4, <1>10, <1>11 DEF Joins, DeletesAlone, TypeOK
<1>13. LiveIsHeld' BY <1>1, <1>3, <1>4, <1>10, <1>11 DEF Joins, LiveIsHeld, TypeOK
<1>14. HeldIsLive' BY <1>1, <1>3, <1>4 DEF Joins, HeldIsLive
<1> QED BY <1>6, <1>7, <1>8, <1>9, <1>12, <1>13, <1>14

\* A copy is counted while its source holds the object (Reference.h 264-269).
LEMMA RefInv == ASSUME IInv, NEW h \in Handle, Ref(h) PROVE IInv'
<1> DEFINE c == m_Counter[h]  s == source[h]
<1> USE ReferenceAssumption DEF IInv
<1>1. s \in Handle /\ c \in Object /\ m_Ptr[h] = c /\ s \in Holders(c)
      BY DEF Ref, SourcesRest, TypeOK, PtrHasItsCounter, Holders
<1>2. m_Refcount[c] = Cardinality(Holders(c)) /\ m_Refcount[c] # 0
      BY <1>1, ZeroMeansFree DEF CountIsHolders
<1>3. c \in live /\ \A g \in Handle : pc[g] = "delete" => m_Ptr[g] # c
      BY <1>1 DEF HeldIsLive, DeletesAlone
<1>4. m_Ptr' = [m_Ptr EXCEPT ![h] = c] /\ m_Counter' = [m_Counter EXCEPT ![h] = c]
      BY <1>1 DEF Ref, TypeOK
<1>5. m_Refcount' = [m_Refcount EXCEPT ![c] = Cardinality(Holders(c)) + 1]
      BY <1>1, <1>2 DEF Ref
<1>6. live' = live \cup {c} BY <1>3 DEF Ref
<1>7. pc[h] = "ref" /\ Goto(h, "done") /\ source' = source BY DEF Ref
<1>8. Joins(h, c) BY <1>3, <1>4, <1>5, <1>6, <1>7 DEF Joins, Goto
<1> QED BY <1>1, <1>8, JoinsInv

\* A new object has one holder (Reference.h 272-279).
LEMMA TakeNewInv == ASSUME IInv, NEW h \in Handle, NEW o \in Object, TakeNew(h, o) PROVE IInv'
<1> USE ReferenceAssumption DEF IInv
<1>1. Cardinality(Holders(o)) = 0 BY FS_EmptySet DEF TakeNew, HeldIsLive
<1>2. m_Refcount' = [m_Refcount EXCEPT ![o] = Cardinality(Holders(o)) + 1] BY <1>1 DEF TakeNew
<1>3. \A g \in Handle : pc[g] = "delete" => m_Ptr[g] # o BY DEF TakeNew, DeletesAlone
<1>4. Joins(h, o) BY <1>2, <1>3 DEF Joins, TakeNew, Goto, Point
<1> QED BY <1>4, JoinsInv

\* The invariant is inductive.
LEMMA StepInv == IInv /\ [Next]_vars => IInv'
<1> SUFFICES ASSUME IInv, [Next]_vars PROVE IInv' OBVIOUS
<1>1. CASE UNCHANGED vars
      BY <1>1 DEF vars, IInv, TypeOK, SourcesRest, PtrHasItsCounter, CountIsHolders,
                  DeletesAlone, LiveIsHeld, HeldIsLive, Holders
<1>2. CASE Next
  <2>1. PICK h \in Handle : Step(h) \/ Reset(h) \/ \E s \in Handle : Assign(h, s)
        BY <1>2 DEF Next
  <2> QED BY <2>1, BeginInv, QuietInv, UnrefInv, DeleteInv, RefInv, TakeNewInv DEF Step
<1> QED BY <1>1, <1>2

\* Every reachable state satisfies the invariant.
THEOREM Invariance == Spec => []IInv
BY InitInv, StepInv, PTL DEF Spec

\* The count of an object is the number of handles that hold it, however the
\* calls of several threads interleave (ReferenceCounter.h 72-89).
THEOREM CountsAreExact == Spec => []CountIsHolders
<1>1. IInv => CountIsHolders BY DEF IInv
<1> QED BY <1>1, Invariance, PTL

\* No handle that can be used dangles (Reference.h 254-298).
THEOREM NothingDangles == Spec => []HeldIsLive
<1>1. IInv => HeldIsLive BY DEF IInv
<1> QED BY <1>1, Invariance, PTL

\* The types of the handles and the counters, at every step (Reference.h 119-306).
THEOREM TypeCorrect == Spec => []TypeOK
<1>1. IInv => TypeOK BY DEF IInv
<1> QED BY <1>1, Invariance, PTL
=============================================================================
