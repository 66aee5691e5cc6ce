------------------------------- MODULE Octree -------------------------------
(***************************************************************************)
(* The broad phase of the 3D physics: OctreeBroadphase divides the world   *)
(* where bodies are many and SortAndSweepBroadphase pairs the bodies of    *)
(* each leaf.  The recursion of Divide is a stack of the calls that have   *)
(* not returned.  A node of the pool is the call that made it, and a leaf  *)
(* the set of its objects; coordinates are integers and a body's box has a *)
(* width.                                                                  *)
(***************************************************************************)
EXTENDS Integers, Sequences, FiniteSets

CONSTANTS
    Bodies,
    Axes,
    SweepAxis,               \* m_axisIndex
    Divisions,               \* DIVISION_POINT_INDICES: the axes on which a child is the upper half
    MaxObjectsPerPartition,
    MaxPartitionDepth,
    Infinity                 \* M_INFINITY

(* What the parameters must be: every choice of halves is a child. *)
Parameters ==
    /\ SweepAxis \in Axes
    /\ Divisions \in Seq(SUBSET Axes)
    /\ \A upper \in SUBSET Axes : \E i \in DOMAIN Divisions : Divisions[i] = upper
    /\ MaxObjectsPerPartition \in Nat
    /\ MaxPartitionDepth \in Nat
    /\ Infinity \in Nat

VARIABLES
    box,        \* GetWorldSpaceAABB of each body
    atRest,     \* the bodies with m_AtRest
    static,     \* the bodies with m_Static
    searching,  \* in FindPotentialCollisionPairs
    objects,    \* its argument: the bodies that have a collision shape
    unmerged,   \* those not yet added to node 0
    root,       \* m_NodePool[0].boundingBox
    stack,      \* the calls of Divide
    leaves,     \* m_Leaves
    swept,      \* the leaves that were given to the second broad phase
    pairs       \* collisionPairs, each with the leaf it was found in

world == <<box, atRest, static>>
search == <<searching, objects, unmerged, root, stack, leaves, swept, pairs>>
vars == <<world, search>>

Points == [Axes -> Int]

BoundingBoxes == [min : Points, max : Points]

(* The boxes of bodies. *)
SolidBoxes == {b \in BoundingBoxes : \A x \in Axes : b.min[x] < b.max[x]}

-----------------------------------------------------------------------------

(* BoundingBox: the default box, Merge, Center and IsInsideFast. *)
UndefinedBox == [min |-> [x \in Axes |-> Infinity], max |-> [x \in Axes |-> -Infinity]]

Lesser(m, n) == IF m < n THEN m ELSE n
Greater(m, n) == IF m > n THEN m ELSE n

Merge(b, c) == [min |-> [x \in Axes |-> Lesser(b.min[x], c.min[x])],
                max |-> [x \in Axes |-> Greater(b.max[x], c.max[x])]]

Center(b) == [x \in Axes |-> (b.min[x] + b.max[x]) \div 2]

IsInsideFast(b, c) == \A x \in Axes : c.max[x] >= b.min[x] /\ c.min[x] <= b.max[x]

(* The child that is the upper half on the axes "upper" and the lower half on the others. *)
ChildBox(b, upper) ==
    [min |-> [x \in Axes |-> IF x \in upper THEN Center(b)[x] ELSE b.min[x]],
     max |-> [x \in Axes |-> IF x \in upper THEN b.max[x] ELSE Center(b)[x]]]

Inside(b, objs) == {o \in objs : IsInsideFast(b, box[o])}

(* SortAndSweepBroadphase, for a body sorted before another, and for a leaf. *)
Still == atRest \cup static

Sweeps(first, second) ==
    /\ box[first].min[SweepAxis] <= box[second].min[SweepAxis]
    /\ box[second].min[SweepAxis] < box[first].max[SweepAxis]

\* Faulty: two bodies that stay where they are make a pair.
SweptPairsOfAll(objs) ==
    {{p[1], p[2]} : p \in {q \in objs \X objs : q[1] # q[2] /\ Sweeps(q[1], q[2])}}

SweptPairs(objs) ==
    {{p[1], p[2]} : p \in {q \in objs \X objs : /\ q[1] # q[2]
                                                /\ ~({q[1], q[2]} \subseteq Still)
                                                /\ Sweeps(q[1], q[2])}}

(* BruteForceBroadphase: what the engine's other broad phase gives for the same objects. *)
BruteForcePairs(objs) ==
    {{p[1], p[2]} : p \in {q \in objs \X objs : /\ q[1] # q[2]
                                                /\ ~(q[1] \in atRest /\ q[2] \in atRest)
                                                /\ ~(q[1] \in static /\ q[2] \in static)
                                                /\ ~(q[1] \in atRest /\ q[2] \in static)
                                                /\ ~(q[1] \in static /\ q[2] \in atRest)
                                                /\ ~(q[1] \in atRest) \/ ~(q[2] \in atRest)}}

-----------------------------------------------------------------------------

(* A call Divide(node, iteration), and the child its loop makes next. *)
Call(b, objs, iteration, next) ==
    [box |-> b, objects |-> objs, iteration |-> iteration, next |-> next]

Calls == [box : BoundingBoxes, objects : SUBSET Bodies, iteration : Nat,
          next : 1 .. Len(Divisions) + 1]

Top == stack[Len(stack)]
Below == SubSeq(stack, 1, Len(stack) - 1)

\* Faulty: the depth of the division is not limited.
IsLeafAtAnyDepth(call) == Cardinality(call.objects) <= MaxObjectsPerPartition

IsLeaf(call) == \/ call.iteration > MaxPartitionDepth
                \/ Cardinality(call.objects) <= MaxObjectsPerPartition

Init ==
    /\ box \in [Bodies -> SolidBoxes]
    /\ atRest \in SUBSET Bodies
    /\ static \in SUBSET Bodies
    /\ searching = FALSE
    /\ objects = {}
    /\ unmerged = {}
    /\ root = UndefinedBox
    /\ stack = <<>>
    /\ leaves = <<>>
    /\ swept = 0
    /\ pairs = {}

(* The engine calls FindPotentialCollisionPairs: the nodes are reset, except for the *)
(* box of node 0.                                                                    *)
Begin(objs) ==
    /\ ~searching
    /\ searching' = TRUE
    /\ objects' = objs
    /\ unmerged' = objs
    /\ leaves' = <<>>
    /\ swept' = 0
    /\ pairs' = {}
    /\ UNCHANGED <<root, stack>>

(* One object is merged into the box of node 0 and added to it.  After the last one *)
(* node 0 is divided.                                                               *)
MergeObject(o) ==
    /\ o \in unmerged
    /\ unmerged' = unmerged \ {o}
    /\ root' = Merge(root, box[o])
    /\ stack' = IF unmerged' = {} THEN <<Call(root', objects, 0, 1)>> ELSE stack
    /\ UNCHANGED <<searching, objects, leaves, swept, pairs>>

(* A call that divides no further: the node is a leaf if it has objects. *)
AddLeaf ==
    /\ stack # <<>>
    /\ IsLeaf(Top)
    /\ leaves' = IF Top.objects = {} THEN leaves ELSE Append(leaves, Top.objects)
    /\ stack' = Below
    /\ UNCHANGED <<searching, objects, unmerged, root, swept, pairs>>

\* Faulty: an object belongs to a child only if it lies in it.
CreateChildOfContained ==
    /\ stack # <<>>
    /\ ~IsLeaf(Top)
    /\ Top.next <= Len(Divisions)
    /\ LET child == ChildBox(Top.box, Divisions[Top.next])
           contained == {o \in Top.objects : \A x \in Axes : /\ box[o].min[x] >= child.min[x]
                                                             /\ box[o].max[x] <= child.max[x]}
       IN  stack' = Below \o <<Call(Top.box, Top.objects, Top.iteration, Top.next + 1),
                               Call(child, contained, Top.iteration + 1, 1)>>
    /\ UNCHANGED <<searching, objects, unmerged, root, leaves, swept, pairs>>

(* The loop of Divide makes a child, gives it the objects that touch it, and divides it. *)
CreateChild ==
    /\ stack # <<>>
    /\ ~IsLeaf(Top)
    /\ Top.next <= Len(Divisions)
    /\ LET child == ChildBox(Top.box, Divisions[Top.next])
       IN  stack' = Below \o <<Call(Top.box, Top.objects, Top.iteration, Top.next + 1),
                               Call(child, Inside(child, Top.objects), Top.iteration + 1, 1)>>
    /\ UNCHANGED <<searching, objects, unmerged, root, leaves, swept, pairs>>

(* The loop ends. *)
Return ==
    /\ stack # <<>>
    /\ ~IsLeaf(Top)
    /\ Top.next > Len(Divisions)
    /\ stack' = Below
    /\ UNCHANGED <<searching, objects, unmerged, root, leaves, swept, pairs>>

Divided == searching /\ unmerged = {} /\ stack = <<>>

(* The last loop of FindPotentialCollisionPairs gives a leaf to the second broad phase. *)
SweepLeaf ==
    /\ Divided
    /\ swept < Len(leaves)
    /\ swept' = swept + 1
    /\ pairs' = pairs \cup {[leaf |-> swept + 1, bodies |-> p] : p \in SweptPairs(leaves[swept + 1])}
    /\ UNCHANGED <<searching, objects, unmerged, root, stack, leaves>>

Found == Divided /\ swept = Len(leaves)

(* FindPotentialCollisionPairs returns the pairs.  Nothing reads the nodes, and no one   *)
(* but the caller the pairs, before they are reset (DebugDraw, which shows the nodes, is *)
(* left out).                                                                            *)
End ==
    /\ Found
    /\ searching' = FALSE
    /\ objects' = {}
    /\ leaves' = <<>>
    /\ swept' = 0
    /\ pairs' = {}
    /\ UNCHANGED <<unmerged, root, stack>>

Divide == AddLeaf \/ CreateChild \/ Return

Step == (\E o \in unmerged : MergeObject(o)) \/ Divide \/ SweepLeaf

(* Between two searches the bodies move, sleep and wake. *)
World ==
    /\ ~searching
    /\ box' \in [Bodies -> SolidBoxes]
    /\ atRest' \in SUBSET Bodies
    /\ static' \in SUBSET Bodies

Next ==
    \/ World /\ UNCHANGED search
    \/ (\E objs \in SUBSET Bodies : Begin(objs)) /\ UNCHANGED world
    \/ Step /\ UNCHANGED world
    \/ End /\ UNCHANGED world

Spec == Init /\ [][Next]_vars

-----------------------------------------------------------------------------

(* A search works on the objects it was given, and the calls of Divide nest no deeper *)
(* than the depth they count: boxes that no division separates do not divide forever. *)
(* The pool the nodes are taken from is not modelled.                                 *)
TypeOK ==
    /\ box \in [Bodies -> SolidBoxes]
    /\ atRest \subseteq Bodies
    /\ static \subseteq Bodies
    /\ searching \in BOOLEAN
    /\ objects \subseteq Bodies
    /\ unmerged \subseteq objects
    /\ root \in BoundingBoxes
    /\ stack \in Seq(Calls)
    /\ \A k \in DOMAIN stack : /\ stack[k].objects \subseteq objects
                               /\ stack[k].iteration = k - 1
                               /\ k <= MaxPartitionDepth + 2
    /\ leaves \in Seq(SUBSET objects)
    /\ swept \in 0 .. Len(leaves)
    /\ \A p \in pairs : p.leaf \in 1 .. swept /\ p.bodies \subseteq objects

(* The bodies whose boxes share more than a border of the sweep axis. *)
Overlap(a, b) ==
    /\ IsInsideFast(box[a], box[b])
    /\ Sweeps(a, b) \/ Sweeps(b, a)

PairsFound == {p.bodies : p \in pairs}

(* No contact is missed: when the search ends, two bodies whose boxes overlap, one of   *)
(* them not still, are a pair of some leaf, although children that only touch a box     *)
(* share it and the leaves, the order of the sort and what was merged into the root in  *)
(* earlier frames decide who is compared with whom.                                     *)
NoContactMissed ==
    Found => \A a, b \in objects :
                 /\ a # b
                 /\ Overlap(a, b)
                 /\ {a, b} \in BruteForcePairs(objects)
                 => {a, b} \in PairsFound

(* No pair is found that BruteForceBroadphase would not give: the two broad phases of   *)
(* the engine skip the same pairs, though they are written with different conditions.   *)
NoStrayPair == PairsFound \subseteq BruteForcePairs(objects)

-----------------------------------------------------------------------------
(* What makes NoContactMissed inductive: the point where two boxes meet is in the   *)
(* root once both are merged, and then in a child that Divide has still to make for *)
(* both of them, until they are in one leaf.                                        *)

Holds(b, p) == \A x \in Axes : b.min[x] <= p[x] /\ p[x] <= b.max[x]

MeetingPoint(a, b) == [x \in Axes |-> Greater(box[a].min[x], box[b].min[x])]

IdleIsReset ==
    ~searching => /\ objects = {} /\ stack = <<>> /\ leaves = <<>>
                  /\ swept = 0 /\ pairs = {}

MergedInRoot ==
    \A o \in objects \ unmerged : \A x \in Axes : /\ root.min[x] <= box[o].min[x]
                                                 /\ box[o].max[x] <= root.max[x]

InLeaf(a, b) == \E i \in DOMAIN leaves : a \in leaves[i] /\ b \in leaves[i]

ToBeMade(a, b, call) ==
    /\ a \in call.objects
    /\ b \in call.objects
    /\ \E i \in call.next .. Len(Divisions) :
           Holds(ChildBox(call.box, Divisions[i]), MeetingPoint(a, b))

Kept(a, b) == InLeaf(a, b) \/ \E k \in DOMAIN stack : ToBeMade(a, b, stack[k])

ContactsKept ==
    unmerged = {} =>
        \A a, b \in objects : a # b /\ IsInsideFast(box[a], box[b]) => Kept(a, b)

LeavesSwept ==
    /\ \A i \in 1 .. swept : \A p \in SweptPairs(leaves[i]) : [leaf |-> i, bodies |-> p] \in pairs
    /\ NoStrayPair

IInv ==
    /\ TypeOK
    /\ IdleIsReset
    /\ MergedInRoot
    /\ ContactsKept
    /\ LeavesSwept
=============================================================================
