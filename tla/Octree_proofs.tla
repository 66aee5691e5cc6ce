---------------------------- MODULE Octree_proofs ----------------------------
(***************************************************************************)
(* Proofs about the broad phase: what is found is what the boxes say, for  *)
(* any number of bodies, axes and halves, any boxes and any depth.         *)
(***************************************************************************)
EXTENDS Octree, SequenceTheorems, TLAPS

-----------------------------------------------------------------------------
(* Lemmas about boxes. *)

(* Merge gives a box that holds both. *)
LEMMA MergeHoldsBoth ==
    ASSUME NEW b \in BoundingBoxes, NEW c \in BoundingBoxes
    PROVE  /\ Merge(b, c) \in BoundingBoxes
           /\ \A x \in Axes : /\ Merge(b, c).min[x] <= b.min[x]
                              /\ Merge(b, c).min[x] <= c.min[x]
                              /\ b.max[x] <= Merge(b, c).max[x]
                              /\ c.max[x] <= Merge(b, c).max[x]
<1>1. /\ b.min \in Points /\ b.max \in Points
      /\ c.min \in Points /\ c.max \in Points
  BY DEF BoundingBoxes
<1>2. \A m, n \in Int : /\ Lesser(m, n) \in Int /\ Greater(m, n) \in Int
                        /\ Lesser(m, n) <= m /\ Lesser(m, n) <= n
                        /\ m <= Greater(m, n) /\ n <= Greater(m, n)
  BY DEF Lesser, Greater
<1>3. \A x \in Axes : /\ b.min[x] \in Int /\ b.max[x] \in Int
                      /\ c.min[x] \in Int /\ c.max[x] \in Int
  BY <1>1 DEF Points
<1>4. Merge(b, c) = [min |-> [x \in Axes |-> Lesser(b.min[x], c.min[x])],
                     max |-> [x \in Axes |-> Greater(b.max[x], c.max[x])]]
  BY DEF Merge
<1> QED
  BY <1>2, <1>3, <1>4 DEF BoundingBoxes, Points

(* The point where two boxes meet is held by both. *)
LEMMA MeetingPointIsShared ==
    ASSUME box \in [Bodies -> SolidBoxes], NEW a \in Bodies, NEW b \in Bodies,
           IsInsideFast(box[a], box[b])
    PROVE  /\ MeetingPoint(a, b) \in Points
           /\ Holds(box[a], MeetingPoint(a, b))
           /\ Holds(box[b], MeetingPoint(a, b))
<1>1. /\ box[a] \in SolidBoxes /\ box[b] \in SolidBoxes
  OBVIOUS
<1>2. \A x \in Axes : /\ box[a].min[x] \in Int /\ box[a].max[x] \in Int
                      /\ box[b].min[x] \in Int /\ box[b].max[x] \in Int
                      /\ box[a].min[x] < box[a].max[x]
                      /\ box[b].min[x] < box[b].max[x]
  BY <1>1 DEF SolidBoxes, BoundingBoxes, Points
<1>3. \A x \in Axes : /\ box[b].max[x] >= box[a].min[x]
                      /\ box[b].min[x] <= box[a].max[x]
  BY DEF IsInsideFast
<1> QED
  BY <1>2, <1>3 DEF MeetingPoint, Greater, Holds, Points

(* Two boxes that hold one point are not apart. *)
LEMMA HoldersMeet ==
    ASSUME NEW b \in BoundingBoxes, NEW c \in BoundingBoxes, NEW p \in Points,
           Holds(b, p), Holds(c, p)
    PROVE  IsInsideFast(b, c)
<1>1. \A x \in Axes : /\ b.min[x] \in Int /\ b.max[x] \in Int
                      /\ c.min[x] \in Int /\ c.max[x] \in Int /\ p[x] \in Int
  BY DEF BoundingBoxes, Points
<1> QED
  BY <1>1 DEF Holds, IsInsideFast

(* Each half of a box is a box. *)
LEMMA ChildBoxType ==
    ASSUME NEW b \in BoundingBoxes, NEW upper
    PROVE  ChildBox(b, upper) \in BoundingBoxes
<1>1. \A x \in Axes : b.min[x] \in Int /\ b.max[x] \in Int
  BY DEF BoundingBoxes, Points
<1>2. \A x \in Axes : Center(b)[x] \in Int
  BY <1>1 DEF Center
<1> QED
  BY <1>1, <1>2 DEF ChildBox, BoundingBoxes, Points

(* A point of a box is in one of the halves that Divide makes of it. *)
LEMMA SomeChildHolds ==
    ASSUME Parameters, NEW b \in BoundingBoxes, NEW p \in Points, Holds(b, p)
    PROVE  \E i \in 1 .. Len(Divisions) : Holds(ChildBox(b, Divisions[i]), p)
<1> DEFINE upper == {x \in Axes : p[x] > Center(b)[x]}
<1>1. PICK i \in DOMAIN Divisions : Divisions[i] = upper
  <2>1. upper \in SUBSET Axes
    OBVIOUS
  <2> QED
    BY <2>1, Zenon DEF Parameters
<1>2. i \in 1 .. Len(Divisions)
  <2>1. Divisions \in Seq(SUBSET Axes)
    BY Zenon DEF Parameters
  <2> QED
    BY <2>1, <1>1
<1>3. Holds(ChildBox(b, upper), p)
  <2>1. \A x \in Axes : /\ b.min[x] \in Int /\ b.max[x] \in Int /\ p[x] \in Int
    BY DEF BoundingBoxes, Points
  <2>2. \A x \in Axes : Center(b)[x] \in Int
    BY <2>1 DEF Center
  <2>3. \A x \in Axes : b.min[x] <= p[x] /\ p[x] <= b.max[x]
    BY DEF Holds
  <2> QED
    BY <2>1, <2>2, <2>3 DEF ChildBox, Holds
<1> QED
  BY <1>1, <1>2, <1>3, Zenon

-----------------------------------------------------------------------------
(* Lemmas about the stack of calls. *)

(* Return takes the last call off. *)
LEMMA Pop ==
    ASSUME NEW S, NEW s \in Seq(S), s # <<>>
    PROVE  LET t == SubSeq(s, 1, Len(s) - 1)
           IN  /\ t \in Seq(S)
               /\ Len(t) = Len(s) - 1
               /\ \A k \in 1 .. Len(s) - 1 : t[k] = s[k]
<1>1. Len(s) \in Nat \ {0}
  BY EmptySeq
<1> DEFINE t == SubSeq(s, 1, Len(s) - 1)
<1>2. \A i \in 1 .. Len(s) - 1 : s[i] \in S
  BY <1>1, ElementOfSeq
<1>3. /\ t \in Seq(S)
      /\ Len(t) = IF 1 <= Len(s) - 1 THEN Len(s) - 1 - 1 + 1 ELSE 0
      /\ \A i \in 1 .. Len(s) - 1 - 1 + 1 : t[i] = s[1 + i - 1]
  BY <1>1, <1>2, SubSeqProperties
<1> HIDE DEF t
<1>4. Len(t) = Len(s) - 1
  <2>1. ASSUME NEW n \in Nat \ {0}
        PROVE  (IF 1 <= n - 1 THEN n - 1 - 1 + 1 ELSE 0) = n - 1
    OBVIOUS
  <2>2. (IF 1 <= Len(s) - 1 THEN Len(s) - 1 - 1 + 1 ELSE 0) = Len(s) - 1
    BY <1>1, <2>1, Zenon
  <2> QED
    BY ONLY <1>3, <2>2
<1>5. ASSUME NEW k \in 1 .. Len(s) - 1
      PROVE  t[k] = s[k]
  <2>1. k \in 1 .. Len(s) - 1 - 1 + 1 /\ 1 + k - 1 = k
    BY <1>1
  <2>2. t[k] = s[1 + k - 1]
    BY <1>3, <2>1
  <2> QED
    BY <2>1, <2>2
<1> QED
  BY <1>3, <1>4, <1>5 DEF t

(* A call replaces the last one and another goes on top of it. *)
LEMMA Replace ==
    ASSUME NEW S, NEW s \in Seq(S), s # <<>>, NEW u \in S, NEW c \in S, NEW t,
           t = SubSeq(s, 1, Len(s) - 1) \o <<u, c>>
    PROVE  /\ t \in Seq(S)
           /\ Len(t) = Len(s) + 1
           /\ \A k \in 1 .. Len(s) - 1 : t[k] = s[k]
           /\ t[Len(s)] = u
           /\ t[Len(t)] = c
<1> DEFINE r == SubSeq(s, 1, Len(s) - 1)
<1>1. /\ r \in Seq(S)
      /\ Len(r) = Len(s) - 1
      /\ \A k \in 1 .. Len(s) - 1 : r[k] = s[k]
  BY Pop
<1>2. Len(s) \in Nat \ {0}
  BY EmptySeq
<1>3. <<u, c>> \in Seq(S) /\ Len(<<u, c>>) = 2
  OBVIOUS
<1> HIDE DEF r
<1>4. /\ r \o <<u, c>> \in Seq(S)
      /\ Len(r \o <<u, c>>) = Len(s) + 1
      /\ \A k \in 1 .. Len(s) - 1 : (r \o <<u, c>>)[k] = r[k]
      /\ (r \o <<u, c>>)[Len(s)] = u
      /\ (r \o <<u, c>>)[Len(s) + 1] = c
  BY <1>1, <1>2, <1>3
<1> QED
  BY <1>1, <1>4 DEF r
-----------------------------------------------------------------------------
(* The invariant of one step. *)

LEMMA InitIInv ==
    ASSUME Parameters, Init
    PROVE  IInv
<1>1. Infinity \in Nat
  BY Zenon DEF Parameters
<1>2. root \in BoundingBoxes
  BY <1>1 DEF Init, UndefinedBox, BoundingBoxes, Points
<1>3. /\ objects = {} /\ unmerged = {} /\ stack = <<>> /\ leaves = <<>>
      /\ swept = 0 /\ pairs = {} /\ searching = FALSE
      /\ box \in [Bodies -> SolidBoxes] /\ atRest \in SUBSET Bodies /\ static \in SUBSET Bodies
  BY DEF Init
<1>4. TypeOK
  <2>1. stack \in Seq(Calls)
    BY <1>2, <1>3
  <2>2. \A k \in DOMAIN stack : /\ stack[k].objects \subseteq objects
                               /\ stack[k].iteration = k - 1
                               /\ k <= MaxPartitionDepth + 2
    BY <1>2, <1>3
  <2>3. /\ leaves \in Seq(SUBSET objects)
        /\ swept \in 0 .. Len(leaves)
        /\ \A p \in pairs : p.leaf \in 1 .. swept /\ p.bodies \subseteq objects
    BY <1>2, <1>3
  <2>4. searching \in BOOLEAN
    BY <1>2, <1>3, Zenon
  <2>5. /\ box \in [Bodies -> SolidBoxes] /\ atRest \subseteq Bodies /\ static \subseteq Bodies
        /\ objects \subseteq Bodies /\ unmerged \subseteq objects /\ root \in BoundingBoxes
    BY <1>2, <1>3
  <2> QED
    BY <2>1, <2>2, <2>3, <2>4, <2>5, Zenon DEF TypeOK
<1>5. IdleIsReset /\ MergedInRoot /\ ContactsKept
  BY <1>3 DEF IdleIsReset, MergedInRoot, ContactsKept
<1>6. LeavesSwept
  BY <1>3 DEF LeavesSwept, NoStrayPair, PairsFound
<1> QED
  BY <1>4, <1>5, <1>6 DEF IInv

(* What is between two searches may change: nothing is kept of it but the root. *)
LEMMA WorldKeepsIInv ==
    ASSUME Parameters, IInv, World, UNCHANGED search
    PROVE  IInv'
<1>1. /\ objects = {} /\ unmerged = {} /\ stack = <<>> /\ leaves = <<>>
      /\ swept = 0 /\ pairs = {} /\ searching = FALSE /\ root \in BoundingBoxes
  BY DEF World, IInv, IdleIsReset, TypeOK
<1>2. /\ objects' = {} /\ unmerged' = {} /\ stack' = <<>> /\ leaves' = <<>>
      /\ swept' = 0 /\ pairs' = {} /\ searching' = FALSE /\ root' \in BoundingBoxes
  BY <1>1 DEF search
<1>3. /\ box' \in [Bodies -> SolidBoxes] /\ atRest' \in SUBSET Bodies /\ static' \in SUBSET Bodies
  BY DEF World
<1>4. TypeOK'
  <2>1. stack' \in Seq(Calls)
    BY <1>2, <1>3
  <2>2. \A k \in DOMAIN stack' : /\ stack'[k].objects \subseteq objects'
                               /\ stack'[k].iteration = k - 1
                               /\ k <= MaxPartitionDepth + 2
    BY <1>2, <1>3
  <2>3. /\ leaves' \in Seq(SUBSET objects')
        /\ swept' \in 0 .. Len(leaves')
        /\ \A p \in pairs' : p.leaf \in 1 .. swept' /\ p.bodies \subseteq objects'
    BY <1>2, <1>3
  <2>4. searching' \in BOOLEAN
    BY <1>2, <1>3, Zenon
  <2>5. /\ box' \in [Bodies -> SolidBoxes] /\ atRest' \subseteq Bodies /\ static' \subseteq Bodies
        /\ objects' \subseteq Bodies /\ unmerged' \subseteq objects' /\ root' \in BoundingBoxes
    BY <1>2, <1>3
  <2> QED
    BY <2>1, <2>2, <2>3, <2>4, <2>5, Zenon DEF TypeOK
<1>5. IdleIsReset' /\ MergedInRoot' /\ ContactsKept'
  BY <1>2 DEF IdleIsReset, MergedInRoot, ContactsKept
<1>6. LeavesSwept'
  BY <1>2 DEF LeavesSwept, NoStrayPair, PairsFound
<1> QED
  BY <1>4, <1>5, <1>6 DEF IInv

(* A search begins with nothing but the root of the last one. *)
LEMMA BeginKeepsIInv ==
    ASSUME Parameters, IInv, NEW objs \in SUBSET Bodies, Begin(objs), UNCHANGED world
    PROVE  IInv'
<1>1. /\ objects' = objs /\ unmerged' = objs /\ stack' = <<>> /\ leaves' = <<>>
      /\ swept' = 0 /\ pairs' = {} /\ searching' = TRUE /\ root' \in BoundingBoxes
  BY DEF Begin, IInv, IdleIsReset, TypeOK
<1>2. /\ box' \in [Bodies -> SolidBoxes] /\ atRest' \in SUBSET Bodies /\ static' \in SUBSET Bodies
  BY DEF world, IInv, TypeOK
<1>3. TypeOK'
  <2>1. stack' \in Seq(Calls)
    BY <1>1, <1>2
  <2>2. \A k \in DOMAIN stack' : /\ stack'[k].objects \subseteq objects'
                               /\ stack'[k].iteration = k - 1
                               /\ k <= MaxPartitionDepth + 2
    BY <1>1, <1>2
  <2>3. /\ leaves' \in Seq(SUBSET objects')
        /\ swept' \in 0 .. Len(leaves')
        /\ \A p \in pairs' : p.leaf \in 1 .. swept' /\ p.bodies \subseteq objects'
    BY <1>1, <1>2
  <2>4. searching' \in BOOLEAN
    BY <1>1, <1>2, Zenon
  <2>5. /\ box' \in [Bodies -> SolidBoxes] /\ atRest' \subseteq Bodies /\ static' \subseteq Bodies
        /\ objects' \subseteq Bodies /\ unmerged' \subseteq objects' /\ root' \in BoundingBoxes
    BY <1>1, <1>2
  <2> QED
    BY <2>1, <2>2, <2>3, <2>4, <2>5, Zenon DEF TypeOK
<1>4. IdleIsReset' /\ MergedInRoot' /\ ContactsKept'
  BY <1>1 DEF IdleIsReset, MergedInRoot, ContactsKept
<1>5. LeavesSwept'
  BY <1>1 DEF LeavesSwept, NoStrayPair, PairsFound
<1> QED
  BY <1>3, <1>4, <1>5 DEF IInv

(* A search ends with all of it reset but the root. *)
LEMMA EndKeepsIInv ==
    ASSUME Parameters, IInv, End, UNCHANGED world
    PROVE  IInv'
<1>1. /\ objects' = {} /\ unmerged' = {} /\ stack' = <<>> /\ leaves' = <<>>
      /\ swept' = 0 /\ pairs' = {} /\ searching' = FALSE /\ root' \in BoundingBoxes
  BY DEF End, Found, Divided, IInv, TypeOK
<1>2. /\ box' \in [Bodies -> SolidBoxes] /\ atRest' \in SUBSET Bodies /\ static' \in SUBSET Bodies
  BY DEF world, IInv, TypeOK
<1>3. TypeOK'
  <2>1. stack' \in Seq(Calls)
    BY <1>1, <1>2
  <2>2. \A k \in DOMAIN stack' : /\ stack'[k].objects \subseteq objects'
                               /\ stack'[k].iteration = k - 1
                               /\ k <= MaxPartitionDepth + 2
    BY <1>1, <1>2
  <2>3. /\ leaves' \in Seq(SUBSET objects')
        /\ swept' \in 0 .. Len(leaves')
        /\ \A p \in pairs' : p.leaf \in 1 .. swept' /\ p.bodies \subseteq objects'
    BY <1>1, <1>2
  <2>4. searching' \in BOOLEAN
    BY <1>1, <1>2, Zenon
  <2>5. /\ box' \in [Bodies -> SolidBoxes] /\ atRest' \subseteq Bodies /\ static' \subseteq Bodies
        /\ objects' \subseteq Bodies /\ unmerged' \subseteq objects' /\ root' \in BoundingBoxes
    BY <1>1, <1>2
  <2> QED
    BY <2>1, <2>2, <2>3, <2>4, <2>5, Zenon DEF TypeOK
<1>4. IdleIsReset' /\ MergedInRoot' /\ ContactsKept'
  BY <1>1 DEF IdleIsReset, MergedInRoot, ContactsKept
<1>5. LeavesSwept'
  BY <1>1 DEF LeavesSwept, NoStrayPair, PairsFound
<1> QED
  BY <1>3, <1>4, <1>5 DEF IInv

(* Stutter. *)
LEMMA StutterKeepsIInv ==
    ASSUME IInv, UNCHANGED vars
    PROVE  IInv'
<1> USE DEF vars, world, search
<1>1. TypeOK'
  BY DEF IInv, TypeOK
<1>2. IdleIsReset' /\ MergedInRoot'
  BY DEF IInv, IdleIsReset, MergedInRoot
<1>3. ContactsKept'
  BY DEF IInv, ContactsKept, Kept, InLeaf, ToBeMade, MeetingPoint, Holds, IsInsideFast
<1>4. LeavesSwept'
  BY DEF IInv, LeavesSwept, NoStrayPair, PairsFound, SweptPairs, BruteForcePairs, Sweeps, Still
<1> QED
  BY <1>1, <1>2, <1>3, <1>4 DEF IInv

-----------------------------------------------------------------------------
(* The steps of a search. *)

(* The call on top of the stack. *)
LEMMA TopType ==
    ASSUME TypeOK, stack # <<>>
    PROVE  /\ Len(stack) \in Nat \ {0}
           /\ stack \in Seq(Calls)
           /\ Top = stack[Len(stack)]
           /\ Top \in Calls
           /\ Top.objects \subseteq objects
           /\ Top.iteration = Len(stack) - 1
           /\ Len(stack) <= MaxPartitionDepth + 2
<1>1. stack \in Seq(Calls)
  BY DEF TypeOK
<1>2. Len(stack) \in Nat \ {0}
  BY <1>1, EmptySeq
<1>3. Len(stack) \in DOMAIN stack
  BY <1>1, <1>2
<1>4. stack[Len(stack)] \in Calls
  BY <1>1, <1>2, ElementOfSeq
<1>5. /\ stack[Len(stack)].objects \subseteq objects
      /\ stack[Len(stack)].iteration = Len(stack) - 1
      /\ Len(stack) <= MaxPartitionDepth + 2
  BY <1>3, Zenon DEF TypeOK
<1> QED
  BY <1>1, <1>2, <1>4, <1>5, Zenon DEF Top

(* The last object to be merged makes node 0 hold all of them, and with them every *)
(* point where two of them meet: a half of node 0 holds it.                        *)
LEMMA MergeKeepsIInv ==
    ASSUME Parameters, IInv, NEW o \in unmerged, MergeObject(o), UNCHANGED world
    PROVE  IInv'
<1>1. TypeOK
  BY DEF IInv
<1>2. /\ o \in objects /\ o \in Bodies /\ objects \subseteq Bodies
      /\ unmerged \subseteq objects /\ root \in BoundingBoxes
      /\ box \in [Bodies -> SolidBoxes]
  BY <1>1 DEF TypeOK
<1>3. /\ unmerged' = unmerged \ {o}
      /\ root' = Merge(root, box[o])
      /\ stack' = IF unmerged' = {} THEN <<Call(root', objects, 0, 1)>> ELSE stack
      /\ objects' = objects /\ leaves' = leaves /\ swept' = swept /\ pairs' = pairs
      /\ box' = box /\ atRest' = atRest /\ static' = static /\ searching' = searching
  BY DEF MergeObject, world
<1>4. box[o] \in BoundingBoxes
  BY <1>2 DEF SolidBoxes
<1>5. /\ root' \in BoundingBoxes
      /\ \A x \in Axes : /\ root'.min[x] <= root.min[x]
                         /\ root'.min[x] <= box[o].min[x]
                         /\ root.max[x] <= root'.max[x]
                         /\ box[o].max[x] <= root'.max[x]
  <2>1. /\ Merge(root, box[o]) \in BoundingBoxes
        /\ \A x \in Axes : /\ Merge(root, box[o]).min[x] <= root.min[x]
                           /\ Merge(root, box[o]).min[x] <= box[o].min[x]
                           /\ root.max[x] <= Merge(root, box[o]).max[x]
                           /\ box[o].max[x] <= Merge(root, box[o]).max[x]
    BY <1>2, <1>4, MergeHoldsBoth
  <2> QED
    BY <2>1, <1>3, Zenon
<1>6. Len(Divisions) \in Nat /\ MaxPartitionDepth \in Nat
  <2>1. Divisions \in Seq(SUBSET Axes) /\ MaxPartitionDepth \in Nat
    BY Zenon DEF Parameters
  <2> QED
    BY <2>1
<1>7. Call(root', objects, 0, 1) \in Calls
  <2>1. 1 \in 1 .. Len(Divisions) + 1
    BY <1>6
  <2> QED
    BY <1>2, <1>5, <2>1 DEF Call, Calls
<1>8. TypeOK'
  <2>1. stack' \in Seq(Calls)
    BY <1>1, <1>3, <1>7 DEF TypeOK
  <2>2. \A k \in DOMAIN stack' : /\ stack'[k].objects \subseteq objects'
                                /\ stack'[k].iteration = k - 1
                                /\ k <= MaxPartitionDepth + 2
    <3>1. CASE unmerged' = {}
      <4>1. stack' = <<Call(root', objects, 0, 1)>>
        BY <1>3, <3>1
      <4> QED
        BY <1>3, <1>6, <4>1 DEF Call
    <3>2. CASE unmerged' # {}
      <4>1. stack' = stack /\ objects' = objects
        BY <1>3, <3>2, Zenon
      <4> QED
        BY <1>1, <4>1, Zenon DEF TypeOK
    <3> QED
      BY <3>1, <3>2
  <2>3. /\ leaves' \in Seq(SUBSET objects')
        /\ swept' \in 0 .. Len(leaves')
        /\ \A p \in pairs' : p.leaf \in 1 .. swept' /\ p.bodies \subseteq objects'
    BY <1>1, <1>3, Zenon DEF TypeOK
  <2>4. searching' \in BOOLEAN
    BY <1>1, <1>3, Zenon DEF TypeOK
  <2>5. /\ box' \in [Bodies -> SolidBoxes] /\ atRest' \subseteq Bodies /\ static' \subseteq Bodies
        /\ objects' \subseteq Bodies /\ unmerged' \subseteq objects' /\ root' \in BoundingBoxes
    BY <1>1, <1>3, <1>5 DEF TypeOK
  <2> QED
    BY <2>1, <2>2, <2>3, <2>4, <2>5, Zenon DEF TypeOK
<1>9. searching'
  <2>1. objects # {}
    BY <1>2
  <2>2. searching
    BY <2>1, Zenon DEF IInv, IdleIsReset
  <2> QED
    BY <2>2, <1>3, Zenon
<1>10. MergedInRoot'
  <2>1. ASSUME NEW b \in objects' \ unmerged', NEW x \in Axes
        PROVE  root'.min[x] <= box'[b].min[x] /\ box'[b].max[x] <= root'.max[x]
    <3>1. CASE b = o
      BY <3>1, <1>3, <1>5
    <3>2. CASE b # o
      <4>1. b \in objects \ unmerged
        BY <1>3, <3>2
      <4>2. root.min[x] <= box[b].min[x] /\ box[b].max[x] <= root.max[x]
        BY <4>1 DEF IInv, MergedInRoot
      <4>3. box[b] \in BoundingBoxes
        BY <1>2, <4>1 DEF SolidBoxes
      <4>4. /\ box[b].min[x] \in Int /\ box[b].max[x] \in Int
            /\ root.min[x] \in Int /\ root.max[x] \in Int
            /\ root'.min[x] \in Int /\ root'.max[x] \in Int
        BY <4>3, <1>2, <1>5 DEF BoundingBoxes, Points
      <4>5. root'.min[x] <= root.min[x] /\ root.max[x] <= root'.max[x] /\ box' = box
        BY <1>3, <1>5
      <4> QED
        BY <4>2, <4>4, <4>5
    <3> QED
      BY <3>1, <3>2
  <2> QED
    BY <2>1 DEF MergedInRoot
<1>11. ContactsKept'
  <2> SUFFICES ASSUME unmerged' = {},
                      NEW a \in objects', NEW b \in objects',
                      IsInsideFast(box'[a], box'[b])
               PROVE  Kept(a, b)'
    BY DEF ContactsKept
  <2>1. stack' = <<Call(root', objects, 0, 1)>>
    BY <1>3
  <2>2. a \in Bodies /\ b \in Bodies /\ a \in objects /\ b \in objects
    BY <1>2, <1>3
  <2> DEFINE p == MeetingPoint(a, b)
  <2>3. p \in Points /\ Holds(box[a], p)
    BY <1>2, <1>3, <2>2, MeetingPointIsShared
  <2>4. Holds(root', p)
    <3>1. \A x \in Axes : /\ box[a].min[x] <= p[x] /\ p[x] <= box[a].max[x]
                         /\ root'.min[x] <= box[a].min[x] /\ box[a].max[x] <= root'.max[x]
      BY <2>3, <1>3, <1>10 DEF MergedInRoot, Holds
    <3>2. box[a] \in BoundingBoxes
      BY <1>2, <2>2 DEF SolidBoxes
    <3>3. \A x \in Axes : /\ p[x] \in Int /\ box[a].min[x] \in Int /\ box[a].max[x] \in Int
                         /\ root'.min[x] \in Int /\ root'.max[x] \in Int
      BY <2>3, <3>2, <1>5 DEF BoundingBoxes, Points
    <3> HIDE DEF p
    <3> QED
      BY <3>1, <3>3 DEF Holds
  <2>5. PICK i \in 1 .. Len(Divisions) : Holds(ChildBox(root', Divisions[i]), p)
    BY <1>5, <2>3, <2>4, SomeChildHolds
  <2>6. MeetingPoint(a, b)' = p
    BY <1>3 DEF MeetingPoint
  <2>7. ToBeMade(a, b, stack[1])'
    BY <2>1, <2>2, <2>5, <2>6 DEF ToBeMade, Call
  <2>8. 1 \in DOMAIN stack'
    BY <2>1
  <2> QED
    BY <2>7, <2>8 DEF Kept
<1>12. LeavesSwept'
  BY <1>3 DEF IInv, LeavesSwept, NoStrayPair, PairsFound, SweptPairs, BruteForcePairs, Sweeps, Still
<1> QED
  BY <1>8, <1>9, <1>10, <1>11, <1>12 DEF IInv, IdleIsReset

(* A call that becomes a leaf held nothing that its leaf does not keep. *)
LEMMA AddLeafKeepsIInv ==
    ASSUME Parameters, IInv, AddLeaf, UNCHANGED world
    PROVE  IInv'
<1>1. TypeOK /\ stack # <<>>
  BY DEF IInv, AddLeaf
<1>2. /\ Len(stack) \in Nat \ {0} /\ stack \in Seq(Calls) /\ Top = stack[Len(stack)]
      /\ Top \in Calls /\ Top.objects \subseteq objects
  BY <1>1, TopType, Zenon
<1>3. /\ leaves' = IF Top.objects = {} THEN leaves ELSE Append(leaves, Top.objects)
      /\ stack' = SubSeq(stack, 1, Len(stack) - 1)
      /\ objects' = objects /\ unmerged' = unmerged /\ root' = root
      /\ swept' = swept /\ pairs' = pairs
      /\ box' = box /\ atRest' = atRest /\ static' = static /\ searching' = searching
  BY DEF AddLeaf, world, Below
<1>4. /\ stack' \in Seq(Calls)
      /\ Len(stack') = Len(stack) - 1
      /\ \A k \in 1 .. Len(stack) - 1 : stack'[k] = stack[k]
  BY <1>1, <1>2, <1>3, Pop
<1>5. /\ DOMAIN stack = 1 .. Len(stack) /\ DOMAIN stack' = 1 .. Len(stack) - 1
      /\ DOMAIN stack' \subseteq DOMAIN stack
      /\ \A k \in DOMAIN stack' : stack'[k] = stack[k]
  BY <1>2, <1>4
<1>6. /\ leaves \in Seq(SUBSET objects) /\ leaves' \in Seq(SUBSET objects)
      /\ DOMAIN leaves = 1 .. Len(leaves) /\ Len(leaves) \in Nat
      /\ Len(leaves) <= Len(leaves') /\ Len(leaves') \in Nat
      /\ \A i \in DOMAIN leaves : i \in DOMAIN leaves' /\ leaves'[i] = leaves[i]
      /\ Top.objects # {} => \E i \in DOMAIN leaves' : leaves'[i] = Top.objects
  <2>1. leaves \in Seq(SUBSET objects)
    BY <1>1 DEF TypeOK
  <2>2. CASE Top.objects = {}
    BY <2>1, <2>2, <1>3
  <2>3. CASE Top.objects # {}
    <3>1. leaves' = Append(leaves, Top.objects)
      BY <1>3, <2>3
    <3>2. Len(leaves) \in Nat /\ Len(leaves') = Len(leaves) + 1
          /\ leaves' \in Seq(SUBSET objects)
          /\ leaves'[Len(leaves) + 1] = Top.objects
          /\ \A i \in 1 .. Len(leaves) : leaves'[i] = leaves[i]
      BY <2>1, <3>1, <1>2, AppendProperties
    <3> QED
      BY <2>1, <3>2
  <2> QED
    BY <2>2, <2>3
<1>7. TypeOK'
  <2>1. \A k \in DOMAIN stack' : /\ stack'[k].objects \subseteq objects'
                                /\ stack'[k].iteration = k - 1
                                /\ k <= MaxPartitionDepth + 2
    BY <1>1, <1>3, <1>5 DEF TypeOK
  <2>2. /\ leaves' \in Seq(SUBSET objects')
        /\ swept' \in 0 .. Len(leaves')
        /\ \A p \in pairs' : p.leaf \in 1 .. swept' /\ p.bodies \subseteq objects'
    BY <1>1, <1>3, <1>6 DEF TypeOK
  <2> QED
    BY <1>1, <1>3, <1>4, <2>1, <2>2, Zenon DEF TypeOK
<1>8. searching'
  BY <1>1, <1>3, Zenon DEF IInv, IdleIsReset
<1>9. MergedInRoot'
  BY <1>3 DEF IInv, MergedInRoot
<1>10. ContactsKept'
  <2> SUFFICES ASSUME unmerged' = {},
                      NEW a \in objects', NEW b \in objects', a # b,
                      IsInsideFast(box'[a], box'[b])
               PROVE  Kept(a, b)'
    BY DEF ContactsKept
  <2>1. Kept(a, b)
    BY <1>3 DEF IInv, ContactsKept
  <2>2. CASE InLeaf(a, b)
    BY <1>6, <2>2, Zenon DEF InLeaf, Kept
  <2>3. ASSUME NEW k \in DOMAIN stack, ToBeMade(a, b, stack[k])
        PROVE  Kept(a, b)'
    <3>1. CASE k \in DOMAIN stack'
      <4>1. ToBeMade(a, b, stack[k])'
        BY <1>3, <1>5, <2>3, <3>1 DEF ToBeMade, MeetingPoint
      <4> QED
        BY <3>1, <4>1, Zenon DEF Kept
    <3>2. CASE k \notin DOMAIN stack'
      <4>1. k = Len(stack)
        BY <1>2, <1>5, <3>2
      <4>2. a \in Top.objects /\ b \in Top.objects
        BY <2>3, <4>1, <1>2, Zenon DEF ToBeMade
      <4> QED
        BY <1>6, <4>2, Zenon DEF InLeaf, Kept
    <3> QED
      BY <3>1, <3>2
  <2> QED
    BY <2>1, <2>2, <2>3, Zenon DEF Kept
<1>11. LeavesSwept'
  <2>1. \A i \in 1 .. swept' : leaves'[i] = leaves[i]
    BY <1>1, <1>3, <1>6 DEF TypeOK
  <2>2. \A i \in 1 .. swept' : SweptPairs(leaves[i])' = SweptPairs(leaves[i])
    <3> SUFFICES ASSUME NEW i \in 1 .. swept'
                 PROVE  SweptPairs(leaves[i])' = SweptPairs(leaves[i])
      OBVIOUS
    <3>1. leaves'[i] = leaves[i]
      BY <2>1
    <3> QED
      BY <3>1, <1>3 DEF SweptPairs, Sweeps, Still
  <2>3. (\A i \in 1 .. swept : \A p \in SweptPairs(leaves[i]) : [leaf |-> i, bodies |-> p] \in pairs)'
    BY <2>2, <1>3, Zenon DEF IInv, LeavesSwept
  <2>4. NoStrayPair'
    BY <1>3 DEF IInv, LeavesSwept, NoStrayPair, PairsFound, BruteForcePairs
  <2> QED
    BY <2>3, <2>4, Zenon DEF LeavesSwept
<1> QED
  BY <1>7, <1>8, <1>9, <1>10, <1>11 DEF IInv, IdleIsReset

(* The child that is made takes the meeting point with it, or it is in a later one. *)
LEMMA CreateChildKeepsIInv ==
    ASSUME Parameters, IInv, CreateChild, UNCHANGED world
    PROVE  IInv'
<1>1. TypeOK /\ stack # <<>>
  BY DEF IInv, CreateChild
<1>2. /\ Len(stack) \in Nat \ {0} /\ stack \in Seq(Calls) /\ Top = stack[Len(stack)]
      /\ Top \in Calls /\ Top.objects \subseteq objects /\ Top.iteration = Len(stack) - 1
  BY <1>1, TopType, Zenon
<1> DEFINE child == ChildBox(Top.box, Divisions[Top.next])
           updated == Call(Top.box, Top.objects, Top.iteration, Top.next + 1)
           called == Call(child, Inside(child, Top.objects), Top.iteration + 1, 1)
<1>3. /\ stack' = SubSeq(stack, 1, Len(stack) - 1) \o <<updated, called>>
      /\ objects' = objects /\ unmerged' = unmerged /\ root' = root /\ leaves' = leaves
      /\ swept' = swept /\ pairs' = pairs
      /\ box' = box /\ atRest' = atRest /\ static' = static /\ searching' = searching
  BY DEF CreateChild, world, Below
<1>4. /\ Len(Divisions) \in Nat /\ MaxPartitionDepth \in Nat
      /\ Top.next \in 1 .. Len(Divisions)
      /\ Top.iteration \in Nat /\ Top.iteration <= MaxPartitionDepth
      /\ Top.box \in BoundingBoxes
  <2>1. Divisions \in Seq(SUBSET Axes) /\ MaxPartitionDepth \in Nat
    BY Zenon DEF Parameters
  <2>2. Top.next \in 1 .. Len(Divisions) + 1 /\ Top.iteration \in Nat /\ Top.box \in BoundingBoxes
    BY <1>2 DEF Calls
  <2>3. Top.next <= Len(Divisions) /\ ~IsLeaf(Top)
    BY Zenon DEF CreateChild
  <2>4. ~(Top.iteration > MaxPartitionDepth)
    BY <2>3, Zenon DEF IsLeaf
  <2> HIDE DEF child, updated, called
  <2> QED
    BY <2>1, <2>2, <2>3, <2>4
<1>5. updated \in Calls /\ called \in Calls
  <2>1. child \in BoundingBoxes
    BY <1>4, ChildBoxType
  <2>2. /\ Top.objects \subseteq Bodies /\ Inside(child, Top.objects) \subseteq Bodies
    BY <1>1, <1>2 DEF TypeOK, Inside
  <2>3. Top.next + 1 \in 1 .. Len(Divisions) + 1 /\ 1 \in 1 .. Len(Divisions) + 1
    BY <1>4
  <2> HIDE DEF child
  <2> QED
    BY <1>4, <2>1, <2>2, <2>3 DEF Call, Calls
<1> HIDE DEF updated, called
<1>6. /\ stack' \in Seq(Calls)
      /\ Len(stack') = Len(stack) + 1
      /\ \A k \in 1 .. Len(stack) - 1 : stack'[k] = stack[k]
      /\ stack'[Len(stack)] = updated
      /\ stack'[Len(stack) + 1] = called
  <2> HIDE DEF child
  <2>1. /\ stack \in Seq(Calls) /\ stack # <<>> /\ updated \in Calls /\ called \in Calls
        /\ stack' = SubSeq(stack, 1, Len(stack) - 1) \o <<updated, called>>
    BY <1>1, <1>2, <1>3, <1>5, Zenon
  <2>2. stack' \in Seq(Calls)
    BY ONLY <2>1, Replace
  <2>3. Len(stack') = Len(stack) + 1
    BY ONLY <2>1, Replace
  <2>4. \A k \in 1 .. Len(stack) - 1 : stack'[k] = stack[k]
    BY ONLY <2>1, Replace
  <2>5. stack'[Len(stack)] = updated
    BY ONLY <2>1, Replace
  <2>6. stack'[Len(stack')] = called
    BY ONLY <2>1, Replace
  <2> QED
    BY <2>2, <2>3, <2>4, <2>5, <2>6, Zenon
<1>7. DOMAIN stack = 1 .. Len(stack) /\ DOMAIN stack' = 1 .. Len(stack) + 1
  BY <1>2, <1>6
<1>8. /\ updated.objects = Top.objects /\ updated.iteration = Top.iteration
      /\ updated.box = Top.box /\ updated.next = Top.next + 1
      /\ called.objects = Inside(child, Top.objects) /\ called.iteration = Top.iteration + 1
      /\ called.box = child /\ called.next = 1
  BY DEF updated, called, Call
<1>9. TypeOK'
  <2>1. ASSUME NEW k \in DOMAIN stack'
        PROVE  /\ stack'[k].objects \subseteq objects'
               /\ stack'[k].iteration = k - 1
               /\ k <= MaxPartitionDepth + 2
    <3>1. CASE k \in 1 .. Len(stack) - 1
      <4>1. k \in DOMAIN stack /\ stack'[k] = stack[k]
        BY <1>2, <1>6, <1>7, <3>1
      <4> QED
        BY <4>1, <1>1, <1>3, Zenon DEF TypeOK
    <3>2. CASE k = Len(stack)
      <4>1. stack'[k].objects = Top.objects /\ stack'[k].iteration = k - 1
        BY <3>2, <1>2, <1>6, <1>8, Zenon
      <4>2. k <= MaxPartitionDepth + 2
        BY <3>2, <1>2, <1>4
      <4> QED
        BY <4>1, <4>2, <1>2, <1>3, Zenon
    <3>3. CASE k = Len(stack) + 1
      <4>1. stack'[k].objects \subseteq Top.objects /\ stack'[k].iteration = Top.iteration + 1
        BY <3>3, <1>6, <1>8, Zenon DEF Inside
      <4>2. k <= MaxPartitionDepth + 2 /\ Top.iteration + 1 = k - 1
        BY <3>3, <1>2, <1>4
      <4> QED
        BY <4>1, <4>2, <1>2, <1>3, Zenon
    <3>4. k \in 1 .. Len(stack) - 1 \/ k = Len(stack) \/ k = Len(stack) + 1
      BY <1>2, <1>7
    <3> QED
      BY <3>1, <3>2, <3>3, <3>4
  <2> QED
    BY <1>1, <1>3, <1>6, <2>1, Zenon DEF TypeOK
<1>10. searching'
  BY <1>1, <1>3, Zenon DEF IInv, IdleIsReset
<1>11. MergedInRoot'
  BY <1>3 DEF IInv, MergedInRoot
<1>12. ContactsKept'
  <2> SUFFICES ASSUME unmerged' = {},
                      NEW a \in objects', NEW b \in objects', a # b,
                      IsInsideFast(box'[a], box'[b])
               PROVE  Kept(a, b)'
    BY DEF ContactsKept
  <2> DEFINE p == MeetingPoint(a, b)
  <2>1. Kept(a, b)
    BY <1>3 DEF IInv, ContactsKept
  <2>2. MeetingPoint(a, b)' = p
    BY <1>3 DEF MeetingPoint
  <2>3. CASE InLeaf(a, b)
    BY <1>3, <2>3, Zenon DEF InLeaf, Kept
  <2>4. ASSUME NEW k \in DOMAIN stack, ToBeMade(a, b, stack[k]), k # Len(stack)
        PROVE  Kept(a, b)'
    <3>1. k \in DOMAIN stack' /\ stack'[k] = stack[k]
      BY <2>4, <1>2, <1>6, <1>7
    <3>2. ToBeMade(a, b, stack[k])'
      BY <3>1, <2>2, <2>4 DEF ToBeMade
    <3> QED
      BY <3>1, <3>2, Zenon DEF Kept
  <2>5. ASSUME ToBeMade(a, b, Top)
        PROVE  Kept(a, b)'
    <3>1. /\ a \in Top.objects /\ b \in Top.objects
      BY <2>5 DEF ToBeMade
    <3>2. PICK i \in Top.next .. Len(Divisions) : Holds(ChildBox(Top.box, Divisions[i]), p)
      BY <2>5 DEF ToBeMade
    <3>3. CASE i = Top.next
      <4>1. Holds(child, p)
        BY <3>2, <3>3
      <4>2. /\ a \in Bodies /\ b \in Bodies /\ box \in [Bodies -> SolidBoxes]
        BY <1>1, <1>3 DEF TypeOK
      <4>3. /\ p \in Points /\ Holds(box[a], p) /\ Holds(box[b], p)
        BY <4>2, <1>3, MeetingPointIsShared
      <4>4. child \in BoundingBoxes /\ box[a] \in BoundingBoxes /\ box[b] \in BoundingBoxes
        <5>1. child \in BoundingBoxes
          BY <1>4, ChildBoxType
        <5> QED
          BY <5>1, <4>2 DEF SolidBoxes
      <4> HIDE DEF p, child
      <4>5. IsInsideFast(child, box[a]) /\ IsInsideFast(child, box[b])
        BY <4>1, <4>3, <4>4, HoldersMeet
      <4>6. a \in called.objects /\ b \in called.objects
        BY <3>1, <4>5, <1>8 DEF Inside
      <4>7. PICK j \in 1 .. Len(Divisions) : Holds(ChildBox(child, Divisions[j]), p)
        BY <4>1, <4>3, <4>4, SomeChildHolds
      <4>8. PICK k \in DOMAIN stack' : k = Len(stack) + 1
        BY <1>2, <1>7
      <4>9. stack'[k] = called /\ called.objects = Inside(child, Top.objects)
            /\ called.box = child /\ called.next = 1
        BY <1>6, <1>8, <4>8 DEF child
      <4>10. /\ a \in stack'[k].objects /\ b \in stack'[k].objects
             /\ j \in stack'[k].next .. Len(Divisions)
             /\ Holds(ChildBox(stack'[k].box, Divisions[j]), p)
        BY <4>6, <4>7, <4>9, Zenon
      <4> QED
        BY <4>10, <2>2, Zenon DEF Kept, ToBeMade
    <3>4. CASE i # Top.next
      <4>1. i \in updated.next .. Len(Divisions)
        BY <3>2, <3>4, <1>4, <1>8
      <4>2. Len(stack) \in DOMAIN stack' /\ stack'[Len(stack)] = updated
        BY <1>2, <1>6, <1>7
      <4> QED
        BY <4>1, <4>2, <3>1, <3>2, <2>2, <1>8, Zenon DEF Kept, ToBeMade
    <3> QED
      BY <3>3, <3>4
  <2> QED
    BY <2>1, <2>3, <2>4, <2>5, <1>2, Zenon DEF Kept
<1>13. LeavesSwept'
  BY <1>3 DEF IInv, LeavesSwept, NoStrayPair, PairsFound, SweptPairs, BruteForcePairs, Sweeps, Still
<1> QED
  BY <1>9, <1>10, <1>11, <1>12, <1>13 DEF IInv, IdleIsReset

(* A call whose loop is over has no child to make: nothing was kept by it. *)
LEMMA ReturnKeepsIInv ==
    ASSUME Parameters, IInv, Return, UNCHANGED world
    PROVE  IInv'
<1>1. TypeOK /\ stack # <<>>
  BY DEF IInv, Return
<1>2. /\ Len(stack) \in Nat \ {0} /\ stack \in Seq(Calls) /\ Top = stack[Len(stack)]
      /\ Top \in Calls
  BY <1>1, TopType, Zenon
<1>3. /\ stack' = SubSeq(stack, 1, Len(stack) - 1)
      /\ objects' = objects /\ unmerged' = unmerged /\ root' = root /\ leaves' = leaves
      /\ swept' = swept /\ pairs' = pairs
      /\ box' = box /\ atRest' = atRest /\ static' = static /\ searching' = searching
  BY DEF Return, world, Below
<1>4. /\ stack' \in Seq(Calls)
      /\ Len(stack') = Len(stack) - 1
      /\ \A k \in 1 .. Len(stack) - 1 : stack'[k] = stack[k]
  BY <1>1, <1>2, <1>3, Pop
<1>5. /\ DOMAIN stack = 1 .. Len(stack) /\ DOMAIN stack' = 1 .. Len(stack) - 1
      /\ DOMAIN stack' \subseteq DOMAIN stack
      /\ \A k \in DOMAIN stack' : stack'[k] = stack[k]
  BY <1>2, <1>4
<1>6. TypeOK'
  <2>1. \A k \in DOMAIN stack' : /\ stack'[k].objects \subseteq objects'
                                /\ stack'[k].iteration = k - 1
                                /\ k <= MaxPartitionDepth + 2
    BY <1>1, <1>3, <1>5 DEF TypeOK
  <2> QED
    BY <1>1, <1>3, <1>4, <2>1, Zenon DEF TypeOK
<1>7. searching'
  BY <1>1, <1>3, Zenon DEF IInv, IdleIsReset
<1>8. MergedInRoot'
  BY <1>3 DEF IInv, MergedInRoot
<1>9. ContactsKept'
  <2> SUFFICES ASSUME unmerged' = {},
                      NEW a \in objects', NEW b \in objects', a # b,
                      IsInsideFast(box'[a], box'[b])
               PROVE  Kept(a, b)'
    BY DEF ContactsKept
  <2>1. Kept(a, b)
    BY <1>3 DEF IInv, ContactsKept
  <2>2. CASE InLeaf(a, b)
    BY <1>3, <2>2, Zenon DEF InLeaf, Kept
  <2>3. ASSUME NEW k \in DOMAIN stack, ToBeMade(a, b, stack[k])
        PROVE  Kept(a, b)'
    <3>1. k # Len(stack)
      <4> SUFFICES ASSUME k = Len(stack)
                   PROVE  FALSE
        OBVIOUS
      <4>1. \E i \in Top.next .. Len(Divisions) : Holds(ChildBox(Top.box, Divisions[i]), MeetingPoint(a, b))
        BY <2>3, <1>2, Zenon DEF ToBeMade
      <4>2. Top.next > Len(Divisions) /\ Top.next \in Int
        BY <1>2 DEF Return, Calls
      <4>3. Len(Divisions) \in Nat
        <5>1. Divisions \in Seq(SUBSET Axes)
          BY Zenon DEF Parameters
        <5> QED
          BY <5>1
      <4>4. Top.next .. Len(Divisions) = {}
        BY <4>2, <4>3
      <4> QED
        BY <4>1, <4>4, Zenon
    <3>2. k \in DOMAIN stack'
      BY <1>2, <1>5, <3>1
    <3>3. ToBeMade(a, b, stack[k])'
      BY <1>3, <1>5, <2>3, <3>2 DEF ToBeMade, MeetingPoint
    <3> QED
      BY <3>2, <3>3, Zenon DEF Kept
  <2> QED
    BY <2>1, <2>2, <2>3, Zenon DEF Kept
<1>10. LeavesSwept'
  BY <1>3 DEF IInv, LeavesSwept, NoStrayPair, PairsFound, SweptPairs, BruteForcePairs, Sweeps, Still
<1> QED
  BY <1>6, <1>7, <1>8, <1>9, <1>10 DEF IInv, IdleIsReset

(* A pair of two bodies. *)
LEMMA SweptIsBruteForce ==
    ASSUME NEW objs \in SUBSET objects
    PROVE  SweptPairs(objs) \subseteq BruteForcePairs(objects)
<1> SUFFICES ASSUME NEW q \in objs \X objs, q[1] # q[2], ~({q[1], q[2]} \subseteq Still)
             PROVE  {q[1], q[2]} \in BruteForcePairs(objects)
  BY DEF SweptPairs
<1>1. q \in objects \X objects
  OBVIOUS
<1>2. ~(q[1] \in Still /\ q[2] \in Still)
  OBVIOUS
<1> QED
  BY <1>1, <1>2 DEF BruteForcePairs, Still

(* The leaf that is swept gives all its pairs and no other. *)
LEMMA SweepKeepsIInv ==
    ASSUME IInv, SweepLeaf, UNCHANGED world
    PROVE  IInv'
<1> DEFINE found == {[leaf |-> swept + 1, bodies |-> p] : p \in SweptPairs(leaves[swept + 1])}
<1>1. TypeOK /\ searching /\ swept < Len(leaves)
  BY DEF IInv, SweepLeaf, Divided
<1>2. /\ swept' = swept + 1 /\ pairs' = pairs \cup found
      /\ objects' = objects /\ unmerged' = unmerged /\ root' = root /\ leaves' = leaves
      /\ stack' = stack
      /\ box' = box /\ atRest' = atRest /\ static' = static /\ searching' = searching
  BY DEF SweepLeaf, world
<1>3. /\ leaves \in Seq(SUBSET objects) /\ Len(leaves) \in Nat /\ swept \in Nat
      /\ swept + 1 \in 1 .. Len(leaves) /\ leaves[swept + 1] \in SUBSET objects
  <2>1. leaves \in Seq(SUBSET objects) /\ swept \in 0 .. Len(leaves)
    BY <1>1 DEF TypeOK
  <2>2. Len(leaves) \in Nat /\ swept \in Nat /\ swept + 1 \in 1 .. Len(leaves)
    BY <1>1, <2>1
  <2> QED
    BY <2>1, <2>2, ElementOfSeq
<1>4. SweptPairs(leaves[swept + 1]) \subseteq BruteForcePairs(objects)
  BY <1>3, SweptIsBruteForce
<1>5. TypeOK'
  <2>1. ASSUME NEW p \in pairs'
        PROVE  p.leaf \in 1 .. swept' /\ p.bodies \subseteq objects'
    <3>1. CASE p \in pairs
      BY <1>1, <1>2, <1>3, <3>1 DEF TypeOK
    <3>2. CASE p \in found
      <4>1. PICK q \in SweptPairs(leaves[swept + 1]) : p = [leaf |-> swept + 1, bodies |-> q]
        BY <3>2
      <4>2. q \subseteq objects
        BY <1>3 DEF SweptPairs
      <4> QED
        BY <4>1, <4>2, <1>2, <1>3
    <3> QED
      BY <1>2, <3>1, <3>2
  <2>2. swept' \in 0 .. Len(leaves')
    BY <1>2, <1>3
  <2> QED
    BY <1>1, <1>2, <2>1, <2>2, Zenon DEF TypeOK
<1>6. MergedInRoot'
  BY <1>2 DEF IInv, MergedInRoot
<1>7. ContactsKept'
  <2> HIDE DEF found
  <2>1. ContactsKept
    BY DEF IInv
  <2> QED
    BY <1>2, <2>1 DEF ContactsKept, Kept, InLeaf, ToBeMade, MeetingPoint
<1>8. NoStrayPair'
  <2>1. PairsFound' \subseteq PairsFound \cup SweptPairs(leaves[swept + 1])
    BY <1>2 DEF PairsFound
  <2>2. PairsFound \subseteq BruteForcePairs(objects)
    BY DEF IInv, LeavesSwept, NoStrayPair
  <2>3. BruteForcePairs(objects)' = BruteForcePairs(objects)
    BY <1>2 DEF BruteForcePairs
  <2> QED
    BY <1>4, <2>1, <2>2, <2>3, Zenon DEF NoStrayPair
<1>9. (\A i \in 1 .. swept : \A p \in SweptPairs(leaves[i]) : [leaf |-> i, bodies |-> p] \in pairs)'
  <2>1. ASSUME NEW i \in 1 .. swept'
        PROVE  SweptPairs(leaves[i])' = SweptPairs(leaves[i])
    BY <1>2 DEF SweptPairs, Sweeps, Still
  <2>2. ASSUME NEW i \in 1 .. swept', NEW p \in SweptPairs(leaves[i])
        PROVE  [leaf |-> i, bodies |-> p] \in pairs'
    <3>1. CASE i = swept + 1
      BY <1>2, <2>2, <3>1
    <3>2. CASE i # swept + 1
      <4>1. i \in 1 .. swept
        BY <1>2, <1>3, <3>2
      <4>2. [leaf |-> i, bodies |-> p] \in pairs
        BY <4>1, <2>2, Zenon DEF IInv, LeavesSwept
      <4> QED
        BY <4>2, <1>2
    <3> QED
      BY <3>1, <3>2
  <2> QED
    BY <2>1, <2>2, Zenon
<1> QED
  BY <1>1, <1>2, <1>5, <1>6, <1>7, <1>8, <1>9, Zenon DEF IInv, IdleIsReset, LeavesSwept

-----------------------------------------------------------------------------
(* The theorems. *)

(* When all leaves are swept, two bodies that meet were in one of them. *)
LEMMA FoundMissesNothing ==
    ASSUME IInv
    PROVE  NoContactMissed
<1> SUFFICES ASSUME Found, NEW a \in objects, NEW b \in objects, a # b, Overlap(a, b),
                    {a, b} \in BruteForcePairs(objects)
             PROVE  {a, b} \in PairsFound
  BY DEF NoContactMissed
<1>1. unmerged = {} /\ stack = <<>> /\ swept = Len(leaves)
  BY DEF Found, Divided
<1>2. IsInsideFast(box[a], box[b]) /\ (Sweeps(a, b) \/ Sweeps(b, a))
  BY DEF Overlap
<1>3. ~({a, b} \subseteq Still)
  <2>1. PICK q \in objects \X objects : /\ {a, b} = {q[1], q[2]}
                                       /\ ~(q[1] \in atRest /\ q[2] \in atRest)
                                       /\ ~(q[1] \in static /\ q[2] \in static)
                                       /\ ~(q[1] \in atRest /\ q[2] \in static)
                                       /\ ~(q[1] \in static /\ q[2] \in atRest)
    BY DEF BruteForcePairs
  <2> QED
    BY <2>1 DEF Still
<1>4. InLeaf(a, b)
  <2>1. Kept(a, b)
    BY <1>1, <1>2 DEF IInv, ContactsKept
  <2> QED
    BY <1>1, <2>1 DEF Kept
<1>5. PICK i \in DOMAIN leaves : a \in leaves[i] /\ b \in leaves[i]
  BY <1>4 DEF InLeaf
<1>6. i \in 1 .. swept
  <2>1. leaves \in Seq(SUBSET objects)
    BY DEF IInv, TypeOK
  <2> QED
    BY <1>1, <1>5, <2>1
<1>7. {a, b} \in SweptPairs(leaves[i])
  <2>1. CASE Sweeps(a, b)
    <3>1. <<a, b>> \in leaves[i] \X leaves[i]
      BY <1>5
    <3> QED
      BY <2>1, <3>1, <1>3 DEF SweptPairs
  <2>2. CASE Sweeps(b, a)
    <3>1. <<b, a>> \in leaves[i] \X leaves[i] /\ {a, b} = {b, a}
      BY <1>5
    <3> QED
      BY <2>2, <3>1, <1>3 DEF SweptPairs
  <2> QED
    BY <1>2, <2>1, <2>2
<1>8. [leaf |-> i, bodies |-> {a, b}] \in pairs
  BY <1>6, <1>7, Zenon DEF IInv, LeavesSwept
<1> QED
  BY <1>8 DEF PairsFound

(* The invariant holds of every search, whatever its boxes and the depth it divides to. *)
THEOREM BroadphaseInvariant ==
    ASSUME Parameters
    PROVE  Spec => []IInv
<1>1. Init => IInv
  BY InitIInv
<1>2. IInv /\ [Next]_vars => IInv'
  <2> SUFFICES ASSUME IInv, [Next]_vars
               PROVE  IInv'
    OBVIOUS
  <2>1. CASE World /\ UNCHANGED search
    BY <2>1, WorldKeepsIInv
  <2>2. ASSUME NEW objs \in SUBSET Bodies, Begin(objs), UNCHANGED world
        PROVE  IInv'
    BY <2>2, BeginKeepsIInv
  <2>3. ASSUME NEW o \in unmerged, MergeObject(o), UNCHANGED world
        PROVE  IInv'
    BY <2>3, MergeKeepsIInv
  <2>4. CASE AddLeaf /\ UNCHANGED world
    BY <2>4, AddLeafKeepsIInv
  <2>5. CASE CreateChild /\ UNCHANGED world
    BY <2>5, CreateChildKeepsIInv
  <2>6. CASE Return /\ UNCHANGED world
    BY <2>6, ReturnKeepsIInv
  <2>7. CASE SweepLeaf /\ UNCHANGED world
    BY <2>7, SweepKeepsIInv
  <2>8. CASE End /\ UNCHANGED world
    BY <2>8, EndKeepsIInv
  <2>9. CASE UNCHANGED vars
    BY <2>9, StutterKeepsIInv
  <2> QED
    BY <2>1, <2>2, <2>3, <2>4, <2>5, <2>6, <2>7, <2>8, <2>9, Zenon DEF Next, Step, Divide
<1> QED
  BY <1>1, <1>2, PTL DEF Spec

(* No contact is missed, though a body is in many leaves, a child is shared by what only *)
(* touches it, and the box of node 0 is never reset.                                     *)
THEOREM NoContactIsMissed ==
    ASSUME Parameters
    PROVE  Spec => []NoContactMissed
<1>1. IInv => NoContactMissed
  BY FoundMissesNothing
<1> QED
  BY <1>1, BroadphaseInvariant, PTL

(* What the octree and the sort find is a part of what BruteForceBroadphase finds. *)
THEOREM NoPairIsStray ==
    ASSUME Parameters
    PROVE  Spec => []NoStrayPair
<1>1. IInv => NoStrayPair
  BY DEF IInv, LeavesSwept
<1> QED
  BY <1>1, BroadphaseInvariant, PTL

(* Divide nests no deeper than the depth it is given. *)
THEOREM BroadphaseTypeOK ==
    ASSUME Parameters
    PROVE  Spec => []TypeOK
<1>1. IInv => TypeOK
  BY DEF IInv
<1> QED
  BY <1>1, BroadphaseInvariant, PTL
=============================================================================
