------------------------------ MODULE Physics ------------------------------
(***************************************************************************)
(* A frame of LumosPhysicsEngine: the rigid bodies of the scene, the box   *)
(* each keeps of itself, the broad phase over these boxes, the narrow      *)
(* phase, and the update of the bodies.  Between two frames the editor and *)
(* the scripts move, turn, stop and remove bodies.                         *)
(*                                                                         *)
(* Velocities are left out: what CheckCollision, BuildCollisionManifold, a *)
(* callback and RestTest answer, and where a body moves, are choices.  A   *)
(* pair is checked once for each leaf it was found in, whatever the order: *)
(* the checks of a frame only wake bodies and add manifolds.  Every body   *)
(* has a shape, except those of Shapeless.                                 *)
(***************************************************************************)
EXTENDS Integers, Sequences, FiniteSets

CONSTANTS
    Bodies, Axes, SweepAxis, Divisions, MaxObjectsPerPartition, MaxPartitionDepth, Infinity,
    Positions,     \* bound: where each body may be
    Orientations,  \* bound: how each body may be turned
    HalfExtents,   \* of each body in each orientation
    Shapeless,     \* the bodies with no collision shape
    Declining,     \* the bodies with an m_OnCollisionCallback
    Fixed,         \* the bodies that are static at first
    Toggled,       \* bound: the bodies the editor puts to rest, wakes or makes static
    Removed        \* bound: the bodies whose entity is destroyed

ASSUME BodiesAssumption ==
    /\ \A b \in Bodies : Positions[b] # {} /\ Positions[b] \subseteq [Axes -> Int]
    /\ \A b \in Bodies : HalfExtents[b] \in [Orientations[b] -> [Axes -> Nat \ {0}]]
ASSUME FixedAssumption == Fixed \subseteq Bodies
ASSUME ToggledAssumption == Toggled \subseteq Bodies

VARIABLES
    phase,        \* where OnUpdate is: "idle", "broad", "narrow", "update"
    entities,     \* the bodies of the Physics3DComponents in the registry
    position, orientation, atRest, static,
    aabb,         \* m_wsAabb, none when m_wsAabbInvalidated
    bodies,       \* m_RigidBodys
    unchecked,    \* the pairs NarrowPhaseCollisions has still to check
    manifolds,    \* m_Manifolds: the pair of bodies of each
    waiting,      \* the bodies UpdateRigidBodys has still to update
    turned,       \* history: turned by SetOrientation since their box was computed
    searching, objects, unmerged, root, stack, leaves, swept, pairs  \* the octree

frame == <<phase, bodies, unchecked, manifolds, waiting>>
motion == <<position, orientation, aabb, turned>>
search == <<searching, objects, unmerged, root, stack, leaves, swept, pairs>>
vars == <<frame, motion, search, entities, atRest, static>>

-----------------------------------------------------------------------------

(* The box of a body, and what GetWorldSpaceAABB returns for it. *)
TrueBox(b) ==
    LET extent == HalfExtents[b][orientation[b]]
    IN  [min |-> [x \in Axes |-> position[b][x] - extent[x]],
         max |-> [x \in Axes |-> position[b][x] + extent[x]]]

WorldSpaceAABB(b) == IF aabb[b] = {} THEN TrueBox(b) ELSE CHOOSE c \in aabb[b] : TRUE

Broadphase == INSTANCE Octree WITH box <- [b \in Bodies |-> WorldSpaceAABB(b)]

ASSUME BroadphaseAssumption == Broadphase!Parameters

(* The loops take their elements in an order that nothing here depends on. *)
First(S) == CHOOSE e \in S : TRUE

(* One of its own values for each body. *)
Choices(values) == {f \in [Bodies -> UNION {values[b] : b \in Bodies}] :
                       \A b \in Bodies : f[b] \in values[b]}

Init ==
    /\ phase = "idle"
    /\ entities = Bodies
    /\ position \in Choices(Positions)
    /\ orientation \in Choices(Orientations)
    /\ atRest \in SUBSET Toggled
    /\ static = Fixed
    /\ aabb = [b \in Bodies |-> {}]
    /\ bodies = {}
    /\ unchecked = {}
    /\ manifolds = {}
    /\ waiting = {}
    /\ turned = {}
    /\ searching = FALSE
    /\ objects = {}
    /\ unmerged = {}
    /\ root = Broadphase!UndefinedBox
    /\ stack = <<>>
    /\ leaves = <<>>
    /\ swept = 0
    /\ pairs = {}

-----------------------------------------------------------------------------
(* Between two frames. *)

(* RigidBody3D::SetPosition. *)
SetPosition(b, p) ==
    /\ phase = "idle"
    /\ position' = [position EXCEPT ![b] = p]
    /\ aabb' = [aabb EXCEPT ![b] = {}]
    /\ turned' = turned \ {b}
    /\ UNCHANGED <<frame, search, entities, orientation, atRest, static>>

(* RigidBody3D::SetOrientation keeps the box. *)
SetOrientation(b, o) ==
    /\ phase = "idle"
    /\ orientation' = [orientation EXCEPT ![b] = o]
    /\ turned' = IF aabb[b] = {} THEN turned ELSE turned \cup {b}
    /\ UNCHANGED <<frame, search, entities, position, aabb, atRest, static>>

SetIsAtRest(b) ==
    /\ phase = "idle"
    /\ atRest' = IF b \in atRest THEN atRest \ {b} ELSE atRest \cup {b}
    /\ UNCHANGED <<frame, motion, search, entities, static>>

SetIsStatic(b) ==
    /\ phase = "idle"
    /\ static' = IF b \in static THEN static \ {b} ELSE static \cup {b}
    /\ UNCHANGED <<frame, motion, search, entities, atRest>>

(* The entity of the body is destroyed: the engine keeps the manifolds it has. *)
Destroy(b) ==
    /\ phase = "idle"
    /\ entities' = entities \ {b}
    /\ UNCHANGED <<frame, motion, search, atRest, static>>

(* OnUpdate of a paused engine, or of a scene with no body. *)
OnUpdateNothing ==
    /\ phase = "idle"
    /\ bodies' = {}
    /\ UNCHANGED <<phase, unchecked, manifolds, waiting, motion, search, entities, atRest, static>>

-----------------------------------------------------------------------------
(* OnUpdate. *)

\* Faulty: the manifolds of the last frame are not cleared.
OnUpdateUncleared ==
    /\ phase = "idle"
    /\ entities # {}
    /\ bodies' = entities
    /\ phase' = "broad"
    /\ Broadphase!Begin(entities \ Shapeless)
    /\ UNCHANGED <<manifolds, unchecked, waiting, motion, entities, atRest, static>>

(* OnUpdate collects the bodies; UpdatePhysics clears the manifolds and calls the *)
(* broad phase.                                                                   *)
OnUpdate ==
    /\ phase = "idle"
    /\ entities # {}
    /\ bodies' = entities
    /\ manifolds' = {}
    /\ phase' = "broad"
    /\ Broadphase!Begin(entities \ Shapeless)
    /\ UNCHANGED <<unchecked, waiting, motion, entities, atRest, static>>

\* Faulty: the box is cached as it is in the body's own space.
MergeObjectUntransformed(b) ==
    /\ phase = "broad"
    /\ Broadphase!MergeObject(b)
    /\ LET extent == HalfExtents[b][orientation[b]]
       IN  aabb' = [aabb EXCEPT ![b] = {[min |-> [x \in Axes |-> -extent[x]], max |-> extent]}]
    /\ UNCHANGED <<frame, position, orientation, turned, entities, atRest, static>>

(* FindPotentialCollisionPairs asks a body for its box, which is then cached. *)
MergeObject(b) ==
    /\ phase = "broad"
    /\ Broadphase!MergeObject(b)
    /\ aabb' = [aabb EXCEPT ![b] = {WorldSpaceAABB(b)}]
    /\ UNCHANGED <<frame, position, orientation, turned, entities, atRest, static>>

BroadPhaseCollisions ==
    /\ phase = "broad"
    /\ Broadphase!Divide \/ Broadphase!SweepLeaf
    /\ UNCHANGED <<frame, motion, entities, atRest, static>>

NarrowPhaseCollisions ==
    /\ phase = "broad"
    /\ Broadphase!End
    /\ phase' = "narrow"
    /\ unchecked' = pairs
    /\ UNCHANGED <<bodies, manifolds, waiting, motion, entities, atRest, static>>

(* The answer of a body's m_OnCollisionCallback. *)
Answers(b) == IF b \in Declining THEN BOOLEAN ELSE {TRUE}

\* Faulty: only one of the two bodies has its collision event fired.
CheckCollisionOnce(pair, a, b) ==
    \E okA \in Answers(a), built \in BOOLEAN :
        /\ atRest' = atRest \ {c \in pair : c = a /\ okA}
        /\ manifolds' = IF okA /\ built THEN manifolds \cup {pair} ELSE manifolds

(* Two bodies collide: each is woken if its own callback accepts, and they get a *)
(* manifold if both accept.                                                      *)
CheckCollision(pair, a, b) ==
    \E okA \in Answers(a), okB \in Answers(b), built \in BOOLEAN :
        /\ atRest' = atRest \ {c \in pair : (c = a /\ okA) \/ (c = b /\ okB)}
        /\ manifolds' = IF okA /\ okB /\ built THEN manifolds \cup {pair} ELSE manifolds

(* One turn of the loop of NarrowPhaseCollisions. *)
CheckPair(p) ==
    /\ phase = "narrow"
    /\ p \in unchecked
    /\ unchecked' = unchecked \ {p}
    /\ \/ UNCHANGED <<atRest, manifolds>>
       \/ \E a, b \in p.bodies :
              /\ a # b
              /\ Broadphase!IsInsideFast(TrueBox(a), TrueBox(b))
              /\ CheckCollision(p.bodies, a, b)
    /\ UNCHANGED <<phase, bodies, waiting, motion, search, entities, static>>

(* The manifolds are solved: the velocities of their bodies change.  The bodies of this  *)
(* model have no constraints, which SolveConstraints applies after the manifolds: a weld *)
(* moves its body, and a distance or a spring changes velocities whoever sleeps.         *)
SolveConstraints ==
    /\ phase = "narrow"
    /\ unchecked = {}
    /\ phase' = "update"
    /\ waiting' = bodies
    /\ UNCHANGED <<bodies, unchecked, manifolds, motion, search, entities, atRest, static>>

\* Faulty: the box is not invalidated.
UpdateCached(b) ==
    \E p \in Positions[b], o \in Orientations[b], rests \in BOOLEAN :
        /\ position' = [position EXCEPT ![b] = p]
        /\ orientation' = [orientation EXCEPT ![b] = o]
        /\ atRest' = IF rests THEN atRest \cup {b} ELSE atRest \ {b}
        /\ UNCHANGED <<aabb, turned>>

(* UpdateRigidBody moves a body that is neither static nor at rest. *)
Update(b) ==
    \E p \in Positions[b], o \in Orientations[b], rests \in BOOLEAN :
        /\ position' = [position EXCEPT ![b] = p]
        /\ orientation' = [orientation EXCEPT ![b] = o]
        /\ aabb' = [aabb EXCEPT ![b] = {}]
        /\ turned' = turned \ {b}
        /\ atRest' = IF rests THEN atRest \cup {b} ELSE atRest \ {b}

UpdateRigidBody(b) ==
    /\ phase = "update"
    /\ b \in waiting
    /\ waiting' = waiting \ {b}
    /\ IF b \in static \cup atRest THEN UNCHANGED <<motion, atRest>> ELSE Update(b)
    /\ UNCHANGED <<phase, bodies, unchecked, manifolds, search, entities, static>>

(* OnUpdate gives the transforms the places of the bodies and returns. *)
EndUpdate ==
    /\ phase = "update"
    /\ waiting = {}
    /\ phase' = "idle"
    /\ UNCHANGED <<bodies, unchecked, manifolds, waiting, motion, search, entities, atRest, static>>

Next ==
    \/ \E b \in entities :
           \/ \E p \in Positions[b] : SetPosition(b, p)
           \/ \E o \in Orientations[b] : SetOrientation(b, o)
    \/ \E b \in entities \cap Toggled : SetIsAtRest(b) \/ SetIsStatic(b)
    \/ \E b \in entities \cap Removed : Destroy(b)
    \/ OnUpdateNothing
    \/ OnUpdate
    \/ unmerged # {} /\ MergeObject(First(unmerged))
    \/ BroadPhaseCollisions
    \/ NarrowPhaseCollisions
    \/ unchecked # {} /\ CheckPair(First(unchecked))
    \/ SolveConstraints
    \/ waiting # {} /\ UpdateRigidBody(First(waiting))
    \/ EndUpdate

Spec == Init /\ [][Next]_vars

-----------------------------------------------------------------------------

(* A box is cached alone, the engine works on bodies it has collected, and each phase *)
(* has its own loop.                                                                  *)
TypeOK ==
    /\ phase \in {"idle", "broad", "narrow", "update"}
    /\ entities \subseteq Bodies
    /\ \A b \in Bodies : position[b] \in Positions[b] /\ orientation[b] \in Orientations[b]
    /\ \A b \in Bodies : aabb[b] \subseteq Broadphase!SolidBoxes /\ Cardinality(aabb[b]) <= 1
    /\ \A m \in manifolds : m \subseteq Bodies /\ Cardinality(m) = 2
    /\ bodies \subseteq Bodies /\ waiting \subseteq bodies /\ turned \subseteq Bodies
    /\ unchecked # {} => phase = "narrow"
    /\ waiting # {} => phase = "update"
    /\ searching <=> phase = "broad"
    /\ Broadphase!TypeOK

(* The engine uses its broad phase as the broad phase expects: no box, and no answer  *)
(* to whether a body is still, changes while the octree is built and swept, although  *)
(* the boxes are computed and cached on the way.  One thread runs the frame and the   *)
(* setters, which the editor and the scripts call between frames only: what is left   *)
(* to go wrong is a box that is computed again, or cached, and comes out another.     *)
BroadphaseSpec == Broadphase!Spec

(* No contact is missed: two bodies that do overlap, one of them not still, are a pair *)
(* when the broad phase ends, except for a body turned in place, whose box is stale.   *)
NoContactMissed ==
    phase = "broad" /\ Broadphase!Found =>
        \A a, b \in objects \ turned :
            /\ a # b
            /\ ~({a, b} \subseteq atRest \cup static)
            /\ \A x \in Axes : /\ TrueBox(a).min[x] < TrueBox(b).max[x]
                               /\ TrueBox(b).min[x] < TrueBox(a).max[x]
            => {a, b} \in Broadphase!PairsFound

(* The two broad phases of the engine skip the same pairs. *)
NoStrayPair == Broadphase!NoStrayPair

(* A box that a body keeps is its box, unless the body was turned by SetOrientation *)
(* since: no other way to move it leaves the box stale.                             *)
StaleOnlyIfTurned == \A b \in Bodies \ turned : aabb[b] \subseteq {TrueBox(b)}

(* The bodies of the manifolds that are solved are those of this frame, in the scene  *)
(* and awake: a manifold kept from a frame before a pause, of a body that is gone     *)
(* since, is never solved, and no contact gives an impulse to a body that sleeps.     *)
SolvedBodiesAwake ==
    phase = "narrow" => \A m \in manifolds : m \subseteq (bodies \cap entities) \ atRest

(* When a frame ends every body that was in contact and is not static has been moved: *)
(* no response to a contact waits in a body that UpdateRigidBodys passed over.        *)
ResponseReachesBodies ==
    [][phase = "update" /\ phase' = "idle" =>
           \A m \in manifolds : \A b \in m \ static : aabb[b] = {}]_vars

(* "Flag indicating if the cached world space transoformed AABB is invalid"           *)
(* (RigidBody3D.h): a box whose flag is not set is the box of the body.               *)
FlagTellsStaleBox == \A b \in Bodies : aabb[b] \subseteq {TrueBox(b)}
=============================================================================
