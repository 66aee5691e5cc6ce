---------------------------- MODULE Physics_proofs ----------------------------
(***************************************************************************)
(* Proofs about a frame of LumosPhysicsEngine, of any bodies, places and   *)
(* boxes: it uses the broad phase as the broad phase expects, so what is   *)
(* proved of that (Octree_proofs) holds in it, and what the frame itself   *)
(* keeps: the boxes, the manifolds and the bodies that are woken.          *)
(***************************************************************************)
EXTENDS Physics, FiniteSetTheorems, TLAPS

(* The broad phase again, with its theorems. *)
Search == INSTANCE Octree_proofs WITH box <- [b \in Bodies |-> WorldSpaceAABB(b)]

-----------------------------------------------------------------------------
(* Types. *)

TypeInv ==
    /\ phase \in {"idle", "broad", "narrow", "update"}
    /\ searching \in BOOLEAN
    /\ searching <=> phase = "broad"
    /\ unchecked # {} => phase = "narrow"
    /\ waiting # {} => phase = "update"
    /\ entities \subseteq Bodies
    /\ bodies \subseteq Bodies
    /\ waiting \subseteq bodies
    /\ turned \subseteq Bodies
    /\ unmerged \subseteq Bodies
    /\ atRest \subseteq Bodies
    /\ static \subseteq Bodies
    /\ position \in Choices(Positions)
    /\ orientation \in Choices(Orientations)
    /\ aabb \in [Bodies -> SUBSET Broadphase!SolidBoxes]
    /\ \A b \in Bodies : \A c, d \in aabb[b] : c = d

(* One body is moved or turned. *)
LEMMA MovedIsChoice ==
    ASSUME NEW values, NEW f \in Choices(values), NEW b \in Bodies, NEW v \in values[b]
    PROVE  [f EXCEPT ![b] = v] \in Choices(values)
  BY DEF Choices

(* The box of a body that is where it may be. *)
LEMMA TrueBoxIsSolid ==
    ASSUME TypeInv, NEW b \in Bodies
    PROVE  TrueBox(b) \in Broadphase!SolidBoxes
<1>1. position[b] \in [Axes -> Int] /\ orientation[b] \in Orientations[b]
  BY BodiesAssumption DEF TypeInv, Choices
<1> DEFINE extent == HalfExtents[b][orientation[b]]
<1>2. extent \in [Axes -> Nat \ {0}]
  BY <1>1, BodiesAssumption
<1> HIDE DEF extent
<1>3. \A x \in Axes : /\ position[b][x] - extent[x] \in Int
                      /\ position[b][x] + extent[x] \in Int
                      /\ position[b][x] - extent[x] < position[b][x] + extent[x]
  BY <1>1, <1>2
<1>4. TrueBox(b) = [min |-> [x \in Axes |-> position[b][x] - extent[x]],
                    max |-> [x \in Axes |-> position[b][x] + extent[x]]]
  BY DEF TrueBox, extent
<1> QED
  BY <1>3, <1>4 DEF Broadphase!SolidBoxes, Broadphase!BoundingBoxes, Broadphase!Points

LEMMA WorldSpaceAABBIsSolid ==
    ASSUME TypeInv, NEW b \in Bodies
    PROVE  WorldSpaceAABB(b) \in Broadphase!SolidBoxes
<1>1. CASE aabb[b] = {}
  BY <1>1, TrueBoxIsSolid DEF WorldSpaceAABB
<1>2. CASE aabb[b] # {}
  <2>1. (CHOOSE c \in aabb[b] : TRUE) \in aabb[b]
    BY <1>2
  <2>2. aabb[b] \subseteq Broadphase!SolidBoxes
    BY DEF TypeInv
  <2> QED
    BY <1>2, <2>1, <2>2 DEF WorldSpaceAABB
<1> QED
  BY <1>1, <1>2

LEMMA InitTypeInv ==
    ASSUME Init
    PROVE  TypeInv
<1>1. /\ phase = "idle" /\ searching = FALSE /\ unchecked = {} /\ waiting = {}
      /\ entities = Bodies /\ bodies = {} /\ turned = {} /\ unmerged = {}
      /\ atRest \subseteq Bodies /\ static \subseteq Bodies
      /\ position \in Choices(Positions) /\ orientation \in Choices(Orientations)
      /\ aabb = [b \in Bodies |-> {}]
  BY FixedAssumption, ToggledAssumption DEF Init
<1> QED
  BY <1>1 DEF TypeInv

(* Between two frames. *)
LEMMA IdleKeepsTypeInv ==
    ASSUME TypeInv, NEW b \in entities,
           \/ \E p \in Positions[b] : SetPosition(b, p)
           \/ \E o \in Orientations[b] : SetOrientation(b, o)
           \/ SetIsAtRest(b)
           \/ SetIsStatic(b)
           \/ Destroy(b)
    PROVE  TypeInv'
<1>1. b \in Bodies
  BY DEF TypeInv
<1>2. ASSUME NEW p \in Positions[b], SetPosition(b, p)
      PROVE  TypeInv'
  <2>1. position' \in Choices(Positions)
    BY <1>1, <1>2, MovedIsChoice DEF TypeInv, SetPosition
  <2> QED
    BY <1>1, <1>2, <2>1 DEF TypeInv, SetPosition, frame, search
<1>3. ASSUME NEW o \in Orientations[b], SetOrientation(b, o)
      PROVE  TypeInv'
  <2>1. orientation' \in Choices(Orientations)
    BY <1>1, <1>3, MovedIsChoice DEF TypeInv, SetOrientation
  <2>2. turned' \subseteq Bodies
    BY <1>1, <1>3 DEF TypeInv, SetOrientation
  <2> QED
    BY <1>3, <2>1, <2>2 DEF TypeInv, SetOrientation, frame, search
<1>4. CASE SetIsAtRest(b)
  BY <1>1, <1>4 DEF TypeInv, SetIsAtRest, frame, motion, search
<1>5. CASE SetIsStatic(b)
  BY <1>1, <1>5 DEF TypeInv, SetIsStatic, frame, motion, search
<1>6. CASE Destroy(b)
  BY <1>6 DEF TypeInv, Destroy, frame, motion, search
<1> QED
  BY <1>2, <1>3, <1>4, <1>5, <1>6

(* OnUpdate. *)
LEMMA UpdateKeepsTypeInv ==
    ASSUME TypeInv,
           \/ OnUpdateNothing
           \/ OnUpdate
           \/ BroadPhaseCollisions
           \/ NarrowPhaseCollisions
           \/ SolveConstraints
           \/ EndUpdate
           \/ UNCHANGED vars
    PROVE  TypeInv'
<1>1. CASE OnUpdateNothing
  BY <1>1 DEF TypeInv, OnUpdateNothing, motion, search
<1>2. CASE OnUpdate
  BY <1>2 DEF TypeInv, OnUpdate, Broadphase!Begin, motion
<1>3. CASE BroadPhaseCollisions
  BY <1>3 DEF TypeInv, BroadPhaseCollisions, Broadphase!Divide, Broadphase!AddLeaf,
              Broadphase!CreateChild, Broadphase!Return, Broadphase!SweepLeaf, frame, motion
<1>4. CASE NarrowPhaseCollisions
  BY <1>4 DEF TypeInv, NarrowPhaseCollisions, Broadphase!End, motion
<1>5. CASE SolveConstraints
  BY <1>5 DEF TypeInv, SolveConstraints, motion, search
<1>6. CASE EndUpdate
  BY <1>6 DEF TypeInv, EndUpdate, motion, search
<1>7. CASE UNCHANGED vars
  BY <1>7 DEF TypeInv, vars, frame, motion, search
<1> QED
  BY <1>1, <1>2, <1>3, <1>4, <1>5, <1>6, <1>7

LEMMA MergeObjectKeepsTypeInv ==
    ASSUME TypeInv, NEW b \in unmerged, MergeObject(b)
    PROVE  TypeInv'
<1>1. b \in Bodies
  BY DEF TypeInv
<1>2. WorldSpaceAABB(b) \in Broadphase!SolidBoxes
  BY <1>1, WorldSpaceAABBIsSolid
<1>3. aabb' = [aabb EXCEPT ![b] = {WorldSpaceAABB(b)}]
  BY DEF MergeObject
<1>4. /\ aabb' \in [Bodies -> SUBSET Broadphase!SolidBoxes]
      /\ \A e \in Bodies : \A c, d \in aabb'[e] : c = d
  BY <1>1, <1>2, <1>3 DEF TypeInv
<1> QED
  BY <1>4 DEF TypeInv, MergeObject, Broadphase!MergeObject, frame

LEMMA CheckPairKeepsTypeInv ==
    ASSUME TypeInv, NEW p \in unchecked, CheckPair(p)
    PROVE  TypeInv'
<1>1. atRest' \subseteq atRest
  BY DEF CheckPair, CheckCollision
<1>2. /\ unchecked' \subseteq unchecked
      /\ UNCHANGED <<phase, bodies, waiting, motion, search, entities, static>>
  BY DEF CheckPair
<1> QED
  BY <1>1, <1>2 DEF TypeInv, motion, search

LEMMA UpdateRigidBodyKeepsTypeInv ==
    ASSUME TypeInv, NEW b \in waiting, UpdateRigidBody(b)
    PROVE  TypeInv'
<1>1. b \in Bodies
  BY DEF TypeInv
<1>2. /\ waiting' = waiting \ {b} /\ phase = "update"
      /\ UNCHANGED <<phase, bodies, unchecked, manifolds, search, entities, static>>
  BY DEF UpdateRigidBody
<1>3. CASE UNCHANGED <<motion, atRest>>
  BY <1>2, <1>3 DEF TypeInv, motion, search
<1>4. CASE Update(b)
  <2>1. PICK p \in Positions[b], o \in Orientations[b], rests \in BOOLEAN :
            /\ position' = [position EXCEPT ![b] = p]
            /\ orientation' = [orientation EXCEPT ![b] = o]
            /\ aabb' = [aabb EXCEPT ![b] = {}]
            /\ turned' = turned \ {b}
            /\ atRest' = IF rests THEN atRest \cup {b} ELSE atRest \ {b}
    BY <1>4 DEF Update
  <2>2. position' \in Choices(Positions)
    BY <1>1, <2>1, MovedIsChoice DEF TypeInv
  <2>3. orientation' \in Choices(Orientations)
    BY <1>1, <2>1, MovedIsChoice DEF TypeInv
  <2>4. /\ aabb' \in [Bodies -> SUBSET Broadphase!SolidBoxes]
        /\ \A e \in Bodies : \A c, d \in aabb'[e] : c = d
    BY <1>1, <2>1 DEF TypeInv
  <2>5. atRest' \subseteq Bodies /\ turned' \subseteq Bodies
    BY <1>1, <2>1 DEF TypeInv
  <2> QED
    BY <1>2, <2>2, <2>3, <2>4, <2>5 DEF TypeInv, search
<1> QED
  BY <1>3, <1>4 DEF UpdateRigidBody

(* The element that a loop takes next. *)
LEMMA FirstIsOne ==
    ASSUME NEW S, S # {}
    PROVE  First(S) \in S
  BY DEF First

(* The actions of Next, with the elements the loops take. *)
LEMMA NextCases ==
    ASSUME [Next]_vars
    PROVE  \/ \E b \in entities : \/ \E p \in Positions[b] : SetPosition(b, p)
                                  \/ \E o \in Orientations[b] : SetOrientation(b, o)
                                  \/ SetIsAtRest(b)
                                  \/ SetIsStatic(b)
                                  \/ Destroy(b)
           \/ \E b \in unmerged : MergeObject(b)
           \/ \E p \in unchecked : CheckPair(p)
           \/ \E b \in waiting : UpdateRigidBody(b)
           \/ OnUpdateNothing
           \/ OnUpdate
           \/ BroadPhaseCollisions
           \/ NarrowPhaseCollisions
           \/ SolveConstraints
           \/ EndUpdate
           \/ UNCHANGED vars
<1>1. CASE unmerged # {} /\ MergeObject(First(unmerged))
  BY <1>1, FirstIsOne
<1>2. CASE unchecked # {} /\ CheckPair(First(unchecked))
  BY <1>2, FirstIsOne
<1>3. CASE waiting # {} /\ UpdateRigidBody(First(waiting))
  BY <1>3, FirstIsOne
<1>4. CASE \E b \in entities :
               \/ \E p \in Positions[b] : SetPosition(b, p)
               \/ \E o \in Orientations[b] : SetOrientation(b, o)
  BY <1>4, Zenon
<1>5. CASE \E b \in entities \cap Toggled : SetIsAtRest(b) \/ SetIsStatic(b)
  <2>1. PICK b \in entities : SetIsAtRest(b) \/ SetIsStatic(b)
    BY <1>5
  <2> QED
    BY <2>1, Zenon
<1>6. CASE \E b \in entities \cap Removed : Destroy(b)
  <2>1. PICK b \in entities : Destroy(b)
    BY <1>6
  <2> QED
    BY <2>1, Zenon
<1>7. CASE \/ OnUpdateNothing \/ OnUpdate \/ BroadPhaseCollisions \/ NarrowPhaseCollisions
           \/ SolveConstraints \/ EndUpdate \/ UNCHANGED vars
  BY <1>7, Zenon
<1> QED
  BY <1>1, <1>2, <1>3, <1>4, <1>5, <1>6, <1>7, Zenon DEF Next

LEMMA NextKeepsTypeInv == TypeInv /\ [Next]_vars => TypeInv'
<1> SUFFICES ASSUME TypeInv, [Next]_vars
             PROVE  TypeInv'
  OBVIOUS
<1> QED
  BY NextCases, IdleKeepsTypeInv, MergeObjectKeepsTypeInv, CheckPairKeepsTypeInv,
     UpdateRigidBodyKeepsTypeInv, UpdateKeepsTypeInv, Zenon

THEOREM FrameTypes == Spec => []TypeInv
  BY InitTypeInv, NextKeepsTypeInv, PTL DEF Spec

-----------------------------------------------------------------------------
(* The frame implements the world of its broad phase. *)

(* The box the broad phase is given of each body. *)
Boxes == [b \in Bodies |-> WorldSpaceAABB(b)]

BoxesSolid == Boxes \in [Bodies -> Broadphase!SolidBoxes]

LEMMA BoxesAreSolid == TypeInv => BoxesSolid
  BY WorldSpaceAABBIsSolid DEF Boxes, BoxesSolid

LEMMA BoxesStaySolid == TypeInv' => BoxesSolid'
  BY BoxesAreSolid, PTL

(* What the frame does while no search goes on is a step of the world. *)
LEMMA IdleIsWorld ==
    ASSUME TypeInv', ~searching, UNCHANGED search
    PROVE  Broadphase!Next
<1>1. Boxes' \in [Bodies -> Broadphase!SolidBoxes]
  BY BoxesStaySolid DEF BoxesSolid, Broadphase!SolidBoxes, Broadphase!BoundingBoxes, Broadphase!Points
<1>2. atRest' \in SUBSET Bodies /\ static' \in SUBSET Bodies
  BY DEF TypeInv
<1>3. Broadphase!World
  BY <1>1, <1>2 DEF Broadphase!World, Boxes
<1>4. UNCHANGED Broadphase!search
  BY DEF search, Broadphase!search
<1> QED
  BY <1>3, <1>4, Zenon DEF Broadphase!Next

(* A box that is asked for is cached as it was. *)
LEMMA AskedBoxIsKept ==
    ASSUME TypeInv, NEW b \in Bodies, aabb' = [aabb EXCEPT ![b] = {WorldSpaceAABB(b)}],
           UNCHANGED <<position, orientation>>
    PROVE  Boxes' = Boxes
<1>1. ASSUME NEW e \in Bodies
      PROVE  WorldSpaceAABB(e)' = WorldSpaceAABB(e)
  <2>1. TrueBox(e)' = TrueBox(e)
    BY DEF TrueBox
  <2>2. CASE e = b
    <3>1. aabb'[e] = {WorldSpaceAABB(e)}
      BY <2>2 DEF TypeInv
    <3>2. \A w : (CHOOSE c \in {w} : TRUE) = w
      OBVIOUS
    <3>3. WorldSpaceAABB(e)' = (CHOOSE c \in {WorldSpaceAABB(e)} : TRUE)
      <4>1. aabb'[e] # {}
        BY <3>1
      <4> QED
        BY <3>1, <4>1, Zenon DEF WorldSpaceAABB
    <3> QED
      BY <3>2, <3>3, Zenon
  <2>3. CASE e # b
    <3>1. aabb'[e] = aabb[e]
      BY <2>3 DEF TypeInv
    <3>2. WorldSpaceAABB(e)' = IF aabb'[e] = {} THEN TrueBox(e)' ELSE CHOOSE c \in aabb'[e] : TRUE
      BY DEF WorldSpaceAABB
    <3>3. WorldSpaceAABB(e)' = IF aabb[e] = {} THEN TrueBox(e) ELSE CHOOSE c \in aabb[e] : TRUE
      BY <2>1, <3>1, <3>2
    <3> QED
      BY <3>3, Zenon DEF WorldSpaceAABB
  <2> QED
    BY <2>2, <2>3
<1> QED
  BY <1>1 DEF Boxes

(* While a search goes on no box changes, nor who is still. *)
LEMMA WorldIsKept ==
    ASSUME Boxes' = Boxes, UNCHANGED <<atRest, static>>
    PROVE  UNCHANGED Broadphase!world
  BY DEF Boxes, Broadphase!world

LEMMA KeptMotionKeepsBoxes ==
    ASSUME UNCHANGED <<position, orientation, aabb>>
    PROVE  Boxes' = Boxes
  BY DEF Boxes, WorldSpaceAABB, TrueBox

LEMMA NextIsBroadphaseNext ==
    ASSUME TypeInv, TypeInv', [Next]_vars
    PROVE  [Broadphase!Next]_(Broadphase!vars)
<1>1. CASE ~searching /\ UNCHANGED search
  BY <1>1, IdleIsWorld
<1>2. CASE \E b \in entities : \/ \E p \in Positions[b] : SetPosition(b, p)
                               \/ \E o \in Orientations[b] : SetOrientation(b, o)
                               \/ SetIsAtRest(b)
                               \/ SetIsStatic(b)
                               \/ Destroy(b)
  <2>1. phase = "idle" /\ UNCHANGED search
    BY <1>2 DEF SetPosition, SetOrientation, SetIsAtRest, SetIsStatic, Destroy
  <2> QED
    BY <1>1, <2>1 DEF TypeInv
<1>3. CASE \/ OnUpdateNothing
           \/ \E p \in unchecked : CheckPair(p)
           \/ \E b \in waiting : UpdateRigidBody(b)
           \/ SolveConstraints
           \/ EndUpdate
  <2>1. phase # "broad" /\ UNCHANGED search
    BY <1>3 DEF OnUpdateNothing, CheckPair, UpdateRigidBody, SolveConstraints, EndUpdate
  <2> QED
    BY <1>1, <2>1 DEF TypeInv
<1>4. CASE OnUpdate
  <2>1. Broadphase!Begin(entities \ Shapeless) /\ UNCHANGED <<motion, atRest, static>>
    BY <1>4 DEF OnUpdate
  <2>2. UNCHANGED Broadphase!world
    BY <2>1, KeptMotionKeepsBoxes, WorldIsKept DEF motion
  <2>3. entities \ Shapeless \in SUBSET Bodies
    BY DEF TypeInv
  <2> QED
    BY <2>1, <2>2, <2>3, Zenon DEF Broadphase!Next
<1>5. ASSUME NEW b \in unmerged, MergeObject(b)
      PROVE  Broadphase!Next
  <2>1. /\ Broadphase!MergeObject(b)
        /\ aabb' = [aabb EXCEPT ![b] = {WorldSpaceAABB(b)}]
        /\ UNCHANGED <<position, orientation, atRest, static>>
    BY <1>5 DEF MergeObject
  <2>2. b \in Bodies
    BY DEF TypeInv
  <2>3. UNCHANGED Broadphase!world
    BY <2>1, <2>2, AskedBoxIsKept, WorldIsKept
  <2> QED
    BY <1>5, <2>1, <2>3, Zenon DEF Broadphase!Next, Broadphase!Step
<1>6. CASE BroadPhaseCollisions
  <2>1. /\ Broadphase!Divide \/ Broadphase!SweepLeaf
        /\ UNCHANGED <<motion, atRest, static>>
    BY <1>6 DEF BroadPhaseCollisions
  <2>2. UNCHANGED Broadphase!world
    BY <2>1, KeptMotionKeepsBoxes, WorldIsKept DEF motion
  <2> QED
    BY <2>1, <2>2, Zenon DEF Broadphase!Next, Broadphase!Step
<1>7. CASE NarrowPhaseCollisions
  <2>1. Broadphase!End /\ UNCHANGED <<motion, atRest, static>>
    BY <1>7 DEF NarrowPhaseCollisions
  <2>2. UNCHANGED Broadphase!world
    BY <2>1, KeptMotionKeepsBoxes, WorldIsKept DEF motion
  <2> QED
    BY <2>1, <2>2, Zenon DEF Broadphase!Next
<1>8. CASE UNCHANGED vars
  <2>1. UNCHANGED <<motion, search, atRest, static>>
    BY <1>8 DEF vars
  <2>2. UNCHANGED Broadphase!world
    BY <2>1, KeptMotionKeepsBoxes, WorldIsKept DEF motion
  <2> QED
    BY <2>1, <2>2 DEF search, Broadphase!search, Broadphase!vars
<1> QED
  BY NextCases, <1>2, <1>3, <1>4, <1>5, <1>6, <1>7, <1>8, Zenon

(* The engine uses its broad phase as the broad phase expects. *)
THEOREM FrameImplementsBroadphase == Spec => BroadphaseSpec
<1>1. Init => Broadphase!Init
  <2> SUFFICES ASSUME Init
               PROVE  Broadphase!Init
    OBVIOUS
  <2>1. Boxes \in [Bodies -> Broadphase!SolidBoxes]
    BY InitTypeInv, BoxesAreSolid DEF BoxesSolid
  <2>2. atRest \in SUBSET Bodies /\ static \in SUBSET Bodies
    BY InitTypeInv DEF TypeInv
  <2>3. /\ searching = FALSE /\ objects = {} /\ unmerged = {} /\ root = Broadphase!UndefinedBox
        /\ stack = <<>> /\ leaves = <<>> /\ swept = 0 /\ pairs = {}
    BY DEF Init
  <2> QED
    BY <2>1, <2>2, <2>3, Zenon DEF Broadphase!Init, Boxes
<1>2. TypeInv /\ TypeInv' /\ [Next]_vars => [Broadphase!Next]_(Broadphase!vars)
  BY NextIsBroadphaseNext
<1> QED
  BY <1>1, <1>2, FrameTypes, PTL DEF Spec, BroadphaseSpec, Broadphase!Spec

(* The two instances of the broad phase are one. *)
LEMMA SameSearch == BroadphaseSpec => Search!Spec
<1> USE DEF Broadphase!search, Search!search, Broadphase!world, Search!world
<1>1. Broadphase!Init => Search!Init
  BY DEF Broadphase!Init, Search!Init, Broadphase!UndefinedBox, Search!UndefinedBox,
         Broadphase!SolidBoxes, Search!SolidBoxes, Broadphase!BoundingBoxes, Search!BoundingBoxes,
         Broadphase!Points, Search!Points
<1>2. Broadphase!Next => Search!Next
  <2>1. Broadphase!World => Search!World
    BY DEF Broadphase!World, Search!World, Broadphase!SolidBoxes, Search!SolidBoxes,
           Broadphase!BoundingBoxes, Search!BoundingBoxes, Broadphase!Points, Search!Points
  <2>2. \A objs : Broadphase!Begin(objs) => Search!Begin(objs)
    BY DEF Broadphase!Begin, Search!Begin
  <2>3. \A o : Broadphase!MergeObject(o) => Search!MergeObject(o)
    BY DEF Broadphase!MergeObject, Search!MergeObject, Broadphase!Merge, Search!Merge,
           Broadphase!Lesser, Search!Lesser, Broadphase!Greater, Search!Greater,
           Broadphase!Call, Search!Call
  <2>4. Broadphase!Divide => Search!Divide
    <3> USE DEF Broadphase!Top, Search!Top, Broadphase!IsLeaf, Search!IsLeaf,
                Broadphase!Below, Search!Below, Broadphase!Cardinality, Search!Cardinality
    <3>1. Broadphase!AddLeaf => Search!AddLeaf
      BY Zenon DEF Broadphase!AddLeaf, Search!AddLeaf
    <3>2. Broadphase!CreateChild => Search!CreateChild
      BY Zenon DEF Broadphase!CreateChild, Search!CreateChild, Broadphase!Call, Search!Call,
             Broadphase!Inside, Search!Inside, Broadphase!IsInsideFast, Search!IsInsideFast,
             Broadphase!ChildBox, Search!ChildBox, Broadphase!Center, Search!Center
    <3>3. Broadphase!Return => Search!Return
      BY Zenon DEF Broadphase!Return, Search!Return
    <3> QED
      BY <3>1, <3>2, <3>3, Zenon DEF Broadphase!Divide, Search!Divide
  <2>5. Broadphase!SweepLeaf => Search!SweepLeaf
    BY Zenon DEF Broadphase!SweepLeaf, Search!SweepLeaf, Broadphase!Divided, Search!Divided,
           Broadphase!SweptPairs, Search!SweptPairs, Broadphase!Still, Search!Still,
           Broadphase!Sweeps, Search!Sweeps
  <2>6. Broadphase!End => Search!End
    BY Zenon DEF Broadphase!End, Search!End, Broadphase!Found, Search!Found,
           Broadphase!Divided, Search!Divided
  <2>7. Broadphase!Step => Search!Step
    BY <2>3, <2>4, <2>5, Zenon DEF Broadphase!Step, Search!Step
  <2> QED
    BY <2>1, <2>2, <2>6, <2>7, Zenon DEF Broadphase!Next, Search!Next
<1>3. UNCHANGED Broadphase!vars => UNCHANGED Search!vars
  BY DEF Broadphase!vars, Search!vars
<1> QED
  BY <1>1, <1>2, <1>3, PTL DEF BroadphaseSpec, Broadphase!Spec, Search!Spec

LEMMA SearchInvariance == Spec => []Search!IInv
<1>1. Search!Parameters
  BY BroadphaseAssumption DEF Broadphase!Parameters, Search!Parameters
<1>2. Search!Spec => []Search!IInv
  BY <1>1, Search!BroadphaseInvariant
<1> QED
  BY <1>2, FrameImplementsBroadphase, SameSearch, PTL

(* The broad phase finds in the frame no pair that BruteForceBroadphase would not. *)
THEOREM NoPairIsStray == Spec => []NoStrayPair
<1>1. Search!IInv => NoStrayPair
  BY DEF Search!IInv, Search!LeavesSwept, Search!NoStrayPair, Search!PairsFound,
         Search!BruteForcePairs, NoStrayPair, Broadphase!NoStrayPair, Broadphase!PairsFound,
         Broadphase!BruteForcePairs
<1> QED
  BY <1>1, SearchInvariance, PTL

-----------------------------------------------------------------------------
(* The boxes that bodies keep. *)

LEMMA NextKeepsBoxes ==
    ASSUME TypeInv, StaleOnlyIfTurned, [Next]_vars
    PROVE  StaleOnlyIfTurned'
<1>1. CASE UNCHANGED <<position, orientation, aabb, turned>>
  BY <1>1 DEF StaleOnlyIfTurned, TrueBox
<1>2. ASSUME NEW b \in entities, NEW p \in Positions[b], SetPosition(b, p)
      PROVE  StaleOnlyIfTurned'
  <2>1. /\ b \in Bodies
        /\ aabb' = [aabb EXCEPT ![b] = {}] /\ position' = [position EXCEPT ![b] = p]
        /\ orientation' = orientation /\ turned' = turned \ {b}
    BY <1>2 DEF SetPosition, TypeInv
  <2> QED
    BY <2>1 DEF TypeInv, Choices, StaleOnlyIfTurned, TrueBox
<1>3. ASSUME NEW b \in entities, NEW o \in Orientations[b], SetOrientation(b, o)
      PROVE  StaleOnlyIfTurned'
  <2>1. /\ b \in Bodies
        /\ aabb' = aabb /\ position' = position
        /\ orientation' = [orientation EXCEPT ![b] = o]
        /\ turned' = IF aabb[b] = {} THEN turned ELSE turned \cup {b}
    BY <1>3 DEF SetOrientation, TypeInv
  <2> SUFFICES ASSUME NEW e \in Bodies \ turned'
               PROVE  aabb[e] \subseteq {TrueBox(e)'}
    BY <2>1 DEF StaleOnlyIfTurned
  <2>2. CASE e = b
    <3>1. aabb[b] = {}
      BY <2>1, <2>2
    <3> QED
      BY <2>2, <3>1
  <2>3. CASE e # b
    <3>1. e \in Bodies \ turned
      BY <2>1
    <3>2. TrueBox(e)' = TrueBox(e)
      BY <2>1, <2>3 DEF TrueBox, TypeInv, Choices
    <3> QED
      BY <3>1, <3>2 DEF StaleOnlyIfTurned
  <2> QED
    BY <2>2, <2>3
<1>4. ASSUME NEW b \in unmerged, MergeObject(b)
      PROVE  StaleOnlyIfTurned'
  <2>1. /\ b \in Bodies
        /\ aabb' = [aabb EXCEPT ![b] = {WorldSpaceAABB(b)}]
        /\ UNCHANGED <<position, orientation, turned>>
    BY <1>4 DEF MergeObject, TypeInv
  <2>2. ASSUME NEW e \in Bodies
        PROVE  TrueBox(e)' = TrueBox(e)
    BY <2>1 DEF TrueBox
  <2>3. b \notin turned => WorldSpaceAABB(b) = TrueBox(b)
    <3>1. CASE aabb[b] = {}
      BY <3>1 DEF WorldSpaceAABB
    <3>2. CASE aabb[b] # {} /\ b \notin turned
      <4>1. aabb[b] = {TrueBox(b)}
        BY <2>1, <3>2 DEF StaleOnlyIfTurned
      <4>2. \A w : (CHOOSE c \in {w} : TRUE) = w
        OBVIOUS
      <4>3. WorldSpaceAABB(b) = CHOOSE c \in {TrueBox(b)} : TRUE
        BY <3>2, <4>1, Zenon DEF WorldSpaceAABB
      <4> QED
        BY <4>2, <4>3, Zenon
    <3> QED
      BY <3>1, <3>2
  <2> QED
    BY <2>1, <2>2, <2>3 DEF TypeInv, StaleOnlyIfTurned
<1>5. ASSUME NEW b \in waiting, UpdateRigidBody(b)
      PROVE  StaleOnlyIfTurned'
  <2>1. CASE UNCHANGED motion
    BY <1>1, <2>1 DEF motion
  <2>2. CASE Update(b)
    <3>1. PICK p \in Positions[b], o \in Orientations[b] :
              /\ position' = [position EXCEPT ![b] = p]
              /\ orientation' = [orientation EXCEPT ![b] = o]
              /\ aabb' = [aabb EXCEPT ![b] = {}]
              /\ turned' = turned \ {b}
      BY <2>2 DEF Update
    <3>2. b \in Bodies
      BY DEF TypeInv
    <3> SUFFICES ASSUME NEW e \in Bodies \ turned'
                 PROVE  aabb'[e] \subseteq {TrueBox(e)'}
      BY DEF StaleOnlyIfTurned
    <3>3. CASE e = b
      BY <3>1, <3>2, <3>3 DEF TypeInv
    <3>4. CASE e # b
      <4>1. aabb'[e] = aabb[e] /\ e \in Bodies \ turned
        BY <3>1, <3>4 DEF TypeInv
      <4>2. TrueBox(e)' = TrueBox(e)
        BY <3>1, <3>4 DEF TrueBox, TypeInv, Choices
      <4> QED
        BY <4>1, <4>2 DEF StaleOnlyIfTurned
    <3> QED
      BY <3>3, <3>4
  <2> QED
    BY <1>5, <2>1, <2>2 DEF UpdateRigidBody
<1>6. CASE \/ OnUpdateNothing \/ OnUpdate \/ BroadPhaseCollisions \/ NarrowPhaseCollisions
           \/ SolveConstraints \/ EndUpdate \/ UNCHANGED vars
           \/ \E p \in unchecked : CheckPair(p)
           \/ \E b \in entities : SetIsAtRest(b) \/ SetIsStatic(b) \/ Destroy(b)
  <2>1. UNCHANGED motion
    BY <1>6 DEF OnUpdateNothing, OnUpdate, BroadPhaseCollisions, NarrowPhaseCollisions,
                SolveConstraints, EndUpdate, vars, CheckPair, SetIsAtRest, SetIsStatic, Destroy
  <2> QED
    BY <1>1, <2>1 DEF motion
<1> QED
  BY NextCases, <1>2, <1>3, <1>4, <1>5, <1>6, Zenon

(* A box is stale only when its body was turned by SetOrientation alone. *)
THEOREM OnlyTurnedIsStale == Spec => []StaleOnlyIfTurned
<1>1. Init => StaleOnlyIfTurned
  BY DEF Init, StaleOnlyIfTurned
<1>2. TypeInv /\ StaleOnlyIfTurned /\ [Next]_vars => StaleOnlyIfTurned'
  BY NextKeepsBoxes
<1> QED
  BY <1>1, <1>2, FrameTypes, PTL DEF Spec

-----------------------------------------------------------------------------
(* The pairs that a frame finds, and what it does with them. *)

(* Two bodies that do overlap are a pair, if neither box is stale: the search found *)
(* every two of its boxes that meet.                                                *)
LEMMA FoundContacts ==
    ASSUME TypeInv, StaleOnlyIfTurned, Search!IInv, Search!NoContactMissed
    PROVE  NoContactMissed
<1> SUFFICES ASSUME Broadphase!Found,
                    NEW a \in objects \ turned, NEW b \in objects \ turned,
                    a # b, ~({a, b} \subseteq atRest \cup static),
                    \A x \in Axes : /\ TrueBox(a).min[x] < TrueBox(b).max[x]
                                    /\ TrueBox(b).min[x] < TrueBox(a).max[x]
             PROVE  {a, b} \in Broadphase!PairsFound
  BY DEF NoContactMissed
<1>1. a \in Bodies /\ b \in Bodies
  BY DEF Search!IInv, Search!TypeOK
<1>2. Boxes[a] = TrueBox(a) /\ Boxes[b] = TrueBox(b)
  <2>1. ASSUME NEW e \in Bodies \ turned
        PROVE  WorldSpaceAABB(e) = TrueBox(e)
    <3>1. CASE aabb[e] = {}
      BY <3>1 DEF WorldSpaceAABB
    <3>2. CASE aabb[e] # {}
      <4>1. aabb[e] = {TrueBox(e)}
        BY <3>2 DEF StaleOnlyIfTurned
      <4>2. \A w : (CHOOSE c \in {w} : TRUE) = w
        OBVIOUS
      <4>3. WorldSpaceAABB(e) = CHOOSE c \in {TrueBox(e)} : TRUE
        BY <3>2, <4>1, Zenon DEF WorldSpaceAABB
      <4> QED
        BY <4>2, <4>3, Zenon
    <3> QED
      BY <3>1, <3>2
  <2> QED
    BY <1>1, <2>1 DEF Boxes
<1>3. /\ TrueBox(a) \in Broadphase!SolidBoxes /\ TrueBox(b) \in Broadphase!SolidBoxes
  BY <1>1, TrueBoxIsSolid
<1>4. \A x \in Axes : /\ TrueBox(a).min[x] \in Int /\ TrueBox(a).max[x] \in Int
                      /\ TrueBox(b).min[x] \in Int /\ TrueBox(b).max[x] \in Int
                      /\ TrueBox(a).min[x] < TrueBox(a).max[x]
                      /\ TrueBox(b).min[x] < TrueBox(b).max[x]
  BY <1>3 DEF Broadphase!SolidBoxes, Broadphase!BoundingBoxes, Broadphase!Points
<1>5. \A x \in Axes : /\ TrueBox(a).min[x] < TrueBox(b).max[x]
                      /\ TrueBox(b).min[x] < TrueBox(a).max[x]
  OBVIOUS
<1>6. SweepAxis \in Axes
  BY BroadphaseAssumption, Zenon DEF Broadphase!Parameters
<1>7. Search!Overlap(a, b)
  <2>1. Search!IsInsideFast(TrueBox(a), TrueBox(b))
    BY <1>4, <1>5 DEF Search!IsInsideFast
  <2>2. \/ /\ TrueBox(a).min[SweepAxis] <= TrueBox(b).min[SweepAxis]
           /\ TrueBox(b).min[SweepAxis] < TrueBox(a).max[SweepAxis]
        \/ /\ TrueBox(b).min[SweepAxis] <= TrueBox(a).min[SweepAxis]
           /\ TrueBox(a).min[SweepAxis] < TrueBox(b).max[SweepAxis]
    BY <1>4, <1>5, <1>6
  <2> QED
    BY <1>2, <2>1, <2>2, Zenon DEF Search!Overlap, Search!Sweeps, Boxes
<1>8. {a, b} \in Search!BruteForcePairs(objects)
  <2>1. <<a, b>> \in objects \X objects /\ ~(a \in atRest \cup static /\ b \in atRest \cup static)
    OBVIOUS
  <2> QED
    BY <2>1 DEF Search!BruteForcePairs
<1>9. Search!Found
  BY Zenon DEF Broadphase!Found, Broadphase!Divided, Search!Found, Search!Divided
<1>10. {a, b} \in Search!PairsFound
  BY <1>7, <1>8, <1>9 DEF Search!NoContactMissed
<1> QED
  BY <1>10 DEF Search!PairsFound, Broadphase!PairsFound

(* A frame misses no contact but those of bodies turned in place. *)
THEOREM NoContactIsMissed == Spec => []NoContactMissed
<1>1. Search!IInv => Search!NoContactMissed
  BY Search!FoundMissesNothing
<1>2. TypeInv /\ StaleOnlyIfTurned /\ Search!IInv => NoContactMissed
  BY <1>1, FoundContacts
<1> QED
  BY <1>2, FrameTypes, OnlyTurnedIsStale, SearchInvariance, PTL

(* A pair is of two bodies of the frame. *)
IsPairOf(p, S) == \E a, b \in S : a # b /\ p = {a, b}

(* The bodies of a frame stay in the scene, its pairs and manifolds are of them, and   *)
(* while they are updated a body with a manifold has still to be moved, or was moved.  *)
FrameInv ==
    /\ phase # "idle" => bodies \subseteq entities
    /\ phase = "broad" => manifolds = {} /\ objects \subseteq bodies
    /\ \A p \in unchecked : IsPairOf(p.bodies, bodies)
    /\ phase # "idle" => \A m \in manifolds : IsPairOf(m, bodies)
    /\ SolvedBodiesAwake
    /\ phase = "update" =>
           \A m \in manifolds : \A b \in m \ static :
               (b \in waiting /\ b \notin atRest) \/ aabb[b] = {}

LEMMA IdleKeepsFrameInv ==
    ASSUME TypeInv, TypeInv', FrameInv, phase' = "idle"
    PROVE  FrameInv'
<1>1. unchecked' = {}
  BY DEF TypeInv
<1> QED
  BY <1>1 DEF FrameInv, SolvedBodiesAwake

(* The pairs that the broad phase returns. *)
LEMMA NarrowKeepsFrameInv ==
    ASSUME TypeInv, FrameInv, Search!IInv, NarrowPhaseCollisions
    PROVE  FrameInv'
<1>1. /\ phase = "broad" /\ phase' = "narrow" /\ unchecked' = pairs
      /\ UNCHANGED <<bodies, manifolds, waiting, motion, entities, atRest, static>>
  BY DEF NarrowPhaseCollisions
<1>2. ASSUME NEW p \in pairs
      PROVE  IsPairOf(p.bodies, bodies)
  <2>1. p.bodies \in Search!BruteForcePairs(objects)
    BY DEF Search!IInv, Search!LeavesSwept, Search!NoStrayPair, Search!PairsFound
  <2>2. PICK q \in objects \X objects : q[1] # q[2] /\ p.bodies = {q[1], q[2]}
    BY <2>1 DEF Search!BruteForcePairs
  <2>3. q[1] \in bodies /\ q[2] \in bodies
    BY <1>1, <2>2 DEF FrameInv
  <2> QED
    BY <2>2, <2>3 DEF IsPairOf
<1>3. manifolds' = {}
  BY <1>1 DEF FrameInv
<1> QED
  BY <1>1, <1>2, <1>3 DEF FrameInv, SolvedBodiesAwake

(* A manifold is made only of two bodies that were both woken. *)
LEMMA CheckPairKeepsFrameInv ==
    ASSUME TypeInv, FrameInv, NEW p \in unchecked, CheckPair(p)
    PROVE  FrameInv'
<1>1. /\ phase = "narrow" /\ phase' = phase /\ unchecked' = unchecked \ {p}
      /\ UNCHANGED <<bodies, waiting, motion, search, entities, static>>
  BY DEF CheckPair
<1>2. IsPairOf(p.bodies, bodies) /\ bodies \subseteq entities
  BY <1>1 DEF FrameInv
<1>3. /\ atRest' \subseteq atRest
      /\ \A m \in manifolds' : m \in manifolds \/ (m = p.bodies /\ m \cap atRest' = {})
  <2>1. CASE UNCHANGED <<atRest, manifolds>>
    BY <2>1
  <2>2. ASSUME NEW a \in p.bodies, NEW b \in p.bodies, a # b, CheckCollision(p.bodies, a, b)
        PROVE  /\ atRest' \subseteq atRest
               /\ \A m \in manifolds' : m \in manifolds \/ (m = p.bodies /\ m \cap atRest' = {})
    <3>1. p.bodies = {a, b}
      BY <1>2, <2>2 DEF IsPairOf
    <3>2. PICK okA \in Answers(a), okB \in Answers(b), built \in BOOLEAN :
              /\ atRest' = atRest \ {c \in p.bodies : (c = a /\ okA) \/ (c = b /\ okB)}
              /\ manifolds' = IF okA /\ okB /\ built THEN manifolds \cup {p.bodies} ELSE manifolds
      BY <2>2 DEF CheckCollision
    <3>3. CASE okA /\ okB
      BY <3>1, <3>2, <3>3
    <3>4. CASE ~(okA /\ okB)
      BY <3>2, <3>4
    <3> QED
      BY <3>3, <3>4
  <2> QED
    BY <2>1, <2>2 DEF CheckPair
<1>4. \A m \in manifolds' : IsPairOf(m, bodies)
  BY <1>1, <1>2, <1>3 DEF FrameInv
<1>5. \A m \in manifolds' : m \subseteq (bodies \cap entities) \ atRest'
  BY <1>1, <1>2, <1>3 DEF FrameInv, SolvedBodiesAwake, IsPairOf
<1>6. \A e \in unchecked' : IsPairOf(e.bodies, bodies)
  BY <1>1 DEF FrameInv
<1>7. bodies' = bodies /\ entities' = entities
  BY <1>1
<1>8. SolvedBodiesAwake'
  BY <1>5, <1>7 DEF SolvedBodiesAwake
<1> QED
  BY <1>1, <1>2, <1>4, <1>6, <1>7, <1>8 DEF FrameInv

(* The update of one body. *)
LEMMA UpdateRigidBodyKeepsFrameInv ==
    ASSUME TypeInv, FrameInv, NEW b \in waiting, UpdateRigidBody(b)
    PROVE  FrameInv'
<1>1. /\ phase = "update" /\ phase' = phase /\ waiting' = waiting \ {b}
      /\ UNCHANGED <<bodies, unchecked, manifolds, search, entities, static>>
  BY DEF UpdateRigidBody
<1>2. b \in Bodies
  BY DEF TypeInv
<1>3. ASSUME NEW m \in manifolds, NEW c \in m \ static
      PROVE  (c \in waiting' /\ c \notin atRest') \/ aabb'[c] = {}
  <2>1. (c \in waiting /\ c \notin atRest) \/ aabb[c] = {}
    BY <1>1 DEF FrameInv
  <2>2. CASE b \in static \cup atRest
    <3>1. UNCHANGED <<motion, atRest>>
      BY <2>2 DEF UpdateRigidBody
    <3>2. c \in waiting /\ c \notin atRest => c # b
      BY <2>2
    <3> QED
      BY <1>1, <2>1, <3>1, <3>2 DEF motion
  <2>3. CASE b \notin static \cup atRest
    <3>1. /\ aabb' = [aabb EXCEPT ![b] = {}]
          /\ atRest' = atRest \cup {b} \/ atRest' = atRest \ {b}
      BY <2>3 DEF UpdateRigidBody, Update
    <3>2. CASE c = b
      BY <1>2, <3>1, <3>2 DEF TypeInv
    <3>3. CASE c # b
      BY <1>1, <2>1, <3>1, <3>3 DEF TypeInv
    <3> QED
      BY <3>2, <3>3
  <2> QED
    BY <2>2, <2>3
<1> QED
  BY <1>1, <1>3 DEF FrameInv, SolvedBodiesAwake

LEMMA NextKeepsFrameInv ==
    ASSUME TypeInv, TypeInv', FrameInv, Search!IInv, [Next]_vars
    PROVE  FrameInv'
<1>1. CASE phase' = "idle"
  BY <1>1, IdleKeepsFrameInv
<1>2. CASE \/ OnUpdateNothing
           \/ \E b \in entities : \/ \E p \in Positions[b] : SetPosition(b, p)
                                  \/ \E o \in Orientations[b] : SetOrientation(b, o)
                                  \/ SetIsAtRest(b)
                                  \/ SetIsStatic(b)
                                  \/ Destroy(b)
  <2>1. phase' = "idle"
    BY <1>2 DEF OnUpdateNothing, SetPosition, SetOrientation, SetIsAtRest, SetIsStatic, Destroy, frame
  <2> QED
    BY <1>1, <2>1
<1>3. CASE OnUpdate
  <2>1. /\ phase = "idle" /\ phase' = "broad" /\ manifolds' = {} /\ bodies' = entities
        /\ objects' \subseteq entities /\ unchecked' = unchecked /\ entities' = entities
    BY <1>3 DEF OnUpdate, Broadphase!Begin
  <2>2. unchecked = {}
    BY <2>1 DEF TypeInv
  <2> QED
    BY <2>1, <2>2 DEF FrameInv, SolvedBodiesAwake
<1>4. ASSUME NEW b \in unmerged, MergeObject(b)
      PROVE  FrameInv'
  <2>1. phase = "broad" /\ objects' = objects /\ UNCHANGED <<frame, entities>>
    BY <1>4 DEF MergeObject, Broadphase!MergeObject
  <2> QED
    BY <2>1 DEF FrameInv, SolvedBodiesAwake, frame
<1>5. CASE BroadPhaseCollisions
  <2>1. phase = "broad" /\ objects' = objects /\ UNCHANGED <<frame, entities>>
    BY <1>5 DEF BroadPhaseCollisions, Broadphase!Divide, Broadphase!AddLeaf,
                Broadphase!CreateChild, Broadphase!Return, Broadphase!SweepLeaf
  <2> QED
    BY <2>1 DEF FrameInv, SolvedBodiesAwake, frame
<1>6. CASE NarrowPhaseCollisions
  BY <1>6, NarrowKeepsFrameInv
<1>7. ASSUME NEW p \in unchecked, CheckPair(p)
      PROVE  FrameInv'
  BY <1>7, CheckPairKeepsFrameInv
<1>8. CASE SolveConstraints
  <2>1. /\ phase = "narrow" /\ phase' = "update" /\ waiting' = bodies
        /\ UNCHANGED <<bodies, unchecked, manifolds, entities, atRest, static>>
    BY <1>8 DEF SolveConstraints
  <2>2. \A m \in manifolds : m \subseteq bodies \ atRest
    BY <2>1 DEF FrameInv, SolvedBodiesAwake
  <2> QED
    BY <2>1, <2>2 DEF FrameInv, SolvedBodiesAwake
<1>9. ASSUME NEW b \in waiting, UpdateRigidBody(b)
      PROVE  FrameInv'
  BY <1>9, UpdateRigidBodyKeepsFrameInv
<1>10. CASE EndUpdate
  BY <1>1, <1>10 DEF EndUpdate
<1>11. CASE UNCHANGED vars
  BY <1>11 DEF vars, frame, motion, search, FrameInv, SolvedBodiesAwake
<1> QED
  BY NextCases, <1>2, <1>3, <1>4, <1>5, <1>6, <1>7, <1>8, <1>9, <1>10, <1>11, Zenon

THEOREM FrameInvariance == Spec => []FrameInv
<1>1. Init => FrameInv
  BY DEF Init, FrameInv, SolvedBodiesAwake
<1>2. TypeInv /\ TypeInv' /\ FrameInv /\ Search!IInv /\ [Next]_vars => FrameInv'
  BY NextKeepsFrameInv
<1> QED
  BY <1>1, <1>2, FrameTypes, SearchInvariance, PTL DEF Spec

(* No impulse is given to a body that sleeps, is gone, or is not of this frame. *)
THEOREM SolverWakesBodies == Spec => []SolvedBodiesAwake
<1>1. FrameInv => SolvedBodiesAwake
  BY DEF FrameInv
<1> QED
  BY <1>1, FrameInvariance, PTL

(* Every body of a manifold that can move has been moved when the frame ends. *)
THEOREM ResponsesAreApplied == Spec => ResponseReachesBodies
<1> DEFINE Reached == phase = "update" /\ phase' = "idle" =>
                          \A m \in manifolds : \A b \in m \ static : aabb[b] = {}
<1>1. FrameInv /\ [Next]_vars => [Reached]_vars
  <2> SUFFICES ASSUME FrameInv, [Next]_vars, phase = "update", phase' = "idle"
               PROVE  \A m \in manifolds : \A b \in m \ static : aabb[b] = {}
    OBVIOUS
  <2>1. waiting = {}
    BY NextCases DEF OnUpdateNothing, OnUpdate, SetPosition, SetOrientation, SetIsAtRest,
       SetIsStatic, Destroy, MergeObject, BroadPhaseCollisions, NarrowPhaseCollisions, CheckPair,
       SolveConstraints, UpdateRigidBody, EndUpdate, vars, frame
  <2> QED
    BY <2>1 DEF FrameInv
<1> QED
  BY <1>1, FrameInvariance, PTL DEF Spec, ResponseReachesBodies

(* A manifold that outlives its frame is still a pair of two bodies. *)
ManifoldsOfBodies == \A m \in manifolds : IsPairOf(m, Bodies)

LEMMA ManifoldsStayOfBodies == Spec => []ManifoldsOfBodies
<1>1. Init => ManifoldsOfBodies
  BY DEF Init, ManifoldsOfBodies
<1>2. ManifoldsOfBodies /\ TypeInv' /\ FrameInv' /\ [Next]_vars => ManifoldsOfBodies'
  <2> SUFFICES ASSUME ManifoldsOfBodies, TypeInv', FrameInv', [Next]_vars
               PROVE  ManifoldsOfBodies'
    OBVIOUS
  <2>1. CASE phase' # "idle"
    BY <2>1 DEF FrameInv, TypeInv, ManifoldsOfBodies, IsPairOf
  <2>2. CASE phase' = "idle"
    <3>1. manifolds' = manifolds
      BY <2>2, NextCases DEF OnUpdateNothing, OnUpdate, SetPosition, SetOrientation, SetIsAtRest,
         SetIsStatic, Destroy, MergeObject, BroadPhaseCollisions, NarrowPhaseCollisions, CheckPair,
         SolveConstraints, UpdateRigidBody, EndUpdate, vars, frame
    <3> QED
      BY <3>1 DEF ManifoldsOfBodies
  <2> QED
    BY <2>1, <2>2
<1> QED
  BY <1>1, <1>2, FrameTypes, FrameInvariance, PTL DEF Spec

(* The types of the frame and of its search. *)
THEOREM TypeCorrect == Spec => []TypeOK
<1>1. TypeInv /\ ManifoldsOfBodies /\ Search!IInv => TypeOK
  <2> SUFFICES ASSUME TypeInv, ManifoldsOfBodies, Search!IInv
               PROVE  TypeOK
    OBVIOUS
  <2>1. ASSUME NEW b \in Bodies
        PROVE  aabb[b] \subseteq Broadphase!SolidBoxes /\ Cardinality(aabb[b]) <= 1
    <3>1. aabb[b] \subseteq Broadphase!SolidBoxes /\ \A c, d \in aabb[b] : c = d
      BY DEF TypeInv
    <3>2. CASE aabb[b] = {}
      BY <3>1, <3>2, FS_EmptySet
    <3>3. CASE aabb[b] # {}
      <4>1. PICK c \in aabb[b] : aabb[b] = {c}
        BY <3>1, <3>3
      <4> QED
        BY <3>1, <4>1, FS_Singleton
    <3> QED
      BY <3>2, <3>3
  <2>2. ASSUME NEW m \in manifolds
        PROVE  m \subseteq Bodies /\ Cardinality(m) = 2
    <3>1. PICK a \in Bodies, b \in Bodies : a # b /\ m = {a, b}
      BY DEF ManifoldsOfBodies, IsPairOf
    <3>2. IsFiniteSet({a}) /\ Cardinality({a}) = 1
      BY FS_Singleton
    <3>3. {a, b} = {a} \cup {b} /\ b \notin {a}
      BY <3>1
    <3>4. Cardinality({a} \cup {b}) = Cardinality({a}) + 1
      BY <3>2, <3>3, FS_AddElement
    <3> QED
      BY <3>1, <3>2, <3>3, <3>4
  <2>3. \A b \in Bodies : position[b] \in Positions[b] /\ orientation[b] \in Orientations[b]
    BY DEF TypeInv, Choices
  <2>4. Broadphase!TypeOK
    BY Zenon DEF Search!IInv, Search!TypeOK, Broadphase!TypeOK, Search!Calls, Broadphase!Calls,
       Search!SolidBoxes, Broadphase!SolidBoxes, Search!BoundingBoxes, Broadphase!BoundingBoxes,
       Search!Points, Broadphase!Points
  <2>5. /\ phase \in {"idle", "broad", "narrow", "update"}
        /\ entities \subseteq Bodies
        /\ bodies \subseteq Bodies /\ waiting \subseteq bodies /\ turned \subseteq Bodies
        /\ unchecked # {} => phase = "narrow"
        /\ waiting # {} => phase = "update"
        /\ searching <=> phase = "broad"
    BY Zenon DEF TypeInv
  <2> QED
    BY <2>1, <2>2, <2>3, <2>4, <2>5, Zenon DEF TypeOK
<1> QED
  BY <1>1, FrameTypes, ManifoldsStayOfBodies, SearchInvariance, PTL
===============================================================================
