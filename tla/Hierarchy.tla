----------------------------- MODULE Hierarchy ------------------------------
(***************************************************************************)
(* Scene/SceneGraph.cpp: the children of an entity are a doubly linked     *)
(* list threaded through the Hierarchy components of the children.         *)
(*                                                                         *)
(* An operator takes a registry and returns the registry the function      *)
(* leaves.  A function that asks the registry for a component of a         *)
(* destroyed entity (an assertion, active in every configuration), follows *)
(* a null pointer or walks for ever leaves a registry that is not "ok".    *)
(* An identifier is used once: its version changes when it is destroyed.   *)
(***************************************************************************)
EXTENDS Naturals, FiniteSets, SequencesExt

CONSTANTS Entity,      \* entity identifiers
          NoEntity     \* entt::null

ASSUME HierarchyAssumption == IsFiniteSet(Entity) /\ NoEntity \notin Entity

Link == Entity \cup {NoEntity}
Links == [parent : Link, first : Link, next : Link, prev : Link]
NoHierarchy == [none |-> TRUE]      \* an entity without the component
Registry == [valid : SUBSET Entity, hier : [Entity -> Links \cup {NoHierarchy}], ok : BOOLEAN]

ChildOf(p) == [parent |-> p, first |-> NoEntity, next |-> NoEntity, prev |-> NoEntity]
EmptyRegistry == [valid |-> {}, hier |-> [e \in Entity |-> NoHierarchy], ok |-> TRUE]

Has(r, e) == e \in r.valid /\ r.hier[e] # NoHierarchy
FailIf(failed, r) == [r EXCEPT !.ok = @ /\ ~failed]

\* Writes one link of e's component; nothing when try_get finds none.
SetLink(r, e, link, to) ==
    IF Has(r, e) THEN [r EXCEPT !.hier[e] = [@ EXCEPT ![link] = to]] ELSE r

\* Where one kind of link leads; nowhere from what has no component.
To(r, e, link) == IF Has(r, e) THEN r.hier[e][link] ELSE NoEntity

\* The entities met by following one kind of link from x, up to the first
\* without a component.  A walk longer than there are entities never ends.
WalkBound == Cardinality(Entity) + 1
Walk(r, x, link) ==
    LET step[n \in 1 .. WalkBound] == IF n = 1 THEN x ELSE To(r, step[n - 1], link)
    IN  [n \in {n \in 1 .. WalkBound : step[n] # NoEntity} |-> step[n]]

\* The walk asks only for components of living entities, and ends.
WalkEnds(r, walk) == Len(walk) < WalkBound /\ ToSet(walk) \subseteq r.valid

Kids(r, p) == Walk(r, To(r, p, "first"), "next")
Ancestors(r, e) == Walk(r, To(r, e, "parent"), "parent")
Forest(r) == [e \in Entity |-> Kids(r, e)]

-----------------------------------------------------------------------------
(* The handlers of the component. *)

\* Faulty: in front of the children p has.
JoinFront(r, e, p, walk) ==
    LET q == SetLink(SetLink(r, p, "first", e), e, "next", r.hier[p].first)
    IN  SetLink(q, r.hier[p].first, "prev", e)

\* e joins the children of p, met on the walk, as the last one.
Join(r, e, p, walk) ==
    IF walk = <<>> THEN SetLink(r, p, "first", e)
    ELSE FailIf(~WalkEnds(r, walk) \/ ~Has(r, Last(walk)),
                SetLink(SetLink(r, Last(walk), "next", e), e, "prev", Last(walk)))

OnConstruct(r, e) ==
    LET p == r.hier[e].parent
        q == IF Has(r, p) THEN r ELSE [r EXCEPT !.hier[p] = ChildOf(NoEntity)]
    IN  CASE p = NoEntity      -> r
          [] p \in r.valid     -> Join(q, e, p, Kids(q, p))
          [] OTHER             -> FailIf(TRUE, r)

\* Faulty: the next sibling keeps its link to e.
OnDestroyNextOnly(r, e) ==
    LET h == r.hier[e]
    IN  IF h.prev \in r.valid THEN SetLink(r, h.prev, "next", h.next)
        ELSE SetLink(r, h.parent, "first", h.next)

\* Takes e out of the list it is in.  Its own links stay as they are, and its
\* children keep it as their parent.
OnDestroy(r, e) ==
    LET h == r.hier[e]
        Bridge(q) == FailIf(h.next \notin r.valid \cup {NoEntity}, q)
    IN  IF h.prev \in r.valid
        THEN Bridge(SetLink(SetLink(r, h.prev, "next", h.next), h.next, "prev", h.prev))
        ELSE IF Has(r, h.parent)
        THEN Bridge(SetLink(SetLink(r, h.parent, "first", h.next), h.next, "prev", NoEntity))
        ELSE r

Reparent(r, e, p) ==
    LET q == OnDestroy(r, e)
        s == [q EXCEPT !.hier[e] = [ChildOf(p) EXCEPT !.first = q.hier[e].first]]
    IN  IF p = NoEntity THEN s ELSE OnConstruct(s, e)

\* registry.emplace, .remove and .destroy with the handlers in "hooks" connected.
Emplace(r, hooks, e, p) ==
    LET q == [r EXCEPT !.hier[e] = ChildOf(p)]
    IN  IF "construct" \in hooks THEN OnConstruct(q, e) ELSE q

RemoveHierarchy(r, hooks, e) ==
    LET q == IF Has(r, e) /\ "destroy" \in hooks THEN OnDestroy(r, e) ELSE r
    IN  [q EXCEPT !.hier[e] = NoHierarchy]

\* Faulty: the identifier is released with its component still in the storage.
DestroyIdOnly(r, hooks, e) == [r EXCEPT !.valid = @ \ {e}]

Destroy(r, hooks, e) ==
    IF e \in r.valid THEN [RemoveHierarchy(r, hooks, e) EXCEPT !.valid = @ \ {e}]
    ELSE FailIf(TRUE, r)

DestroyAll(r, hooks, order) ==
    LET after[i \in 0 .. Len(order)] ==
          IF i = 0 THEN r ELSE Destroy(after[i - 1], hooks, order[i])
    IN  after[Len(order)]

-----------------------------------------------------------------------------
(* The functions that go down the tree. *)

\* What a recursion over the children comes to.
Reach(children, from) ==
    LET reached[n \in 0 .. Cardinality(Entity)] ==
          IF n = 0 THEN from ELSE UNION {{e} \cup ToSet(children[e]) : e \in reached[n - 1]}
    IN  reached[Cardinality(Entity)]

Subtree(r, e) == Reach(Forest(r), {e})

\* The recursion ends, and comes to no entity twice.
IsTree(r, e) ==
    LET kids == Forest(r)
    IN  \A x, y \in Subtree(r, e) :
            /\ WalkEnds(r, kids[x]) /\ e \notin ToSet(kids[x])
            /\ ToSet(kids[x]) \cap ToSet(kids[y]) # {} => x = y

ChildrenFirst(r, e) ==
    LET kids == Forest(r)
    IN  {order \in SetToSeqs(Subtree(r, e)) :
            \A i, j \in DOMAIN order : order[j] \in ToSet(kids[order[i]]) => j < i}

\* HierarchyWindow::DestroyEntity: the children go before their parent.
DestroyTree(r, hooks, e) ==
    IF IsTree(r, e) THEN {DestroyAll(r, hooks, order) : order \in ChildrenFirst(r, e)}
    ELSE {FailIf(TRUE, r)}

\* SceneGraph::Update, when the entities of "transforms" have a Transform: those
\* it gives a world matrix.  It starts from the roots that have one, and an
\* entity whose parent has none keeps the matrix it had.
Updated(r, transforms) ==
    LET roots   == {e \in transforms : Has(r, e) /\ r.hier[e].parent = NoEntity}
        reached == Reach(Forest(r), roots)
    IN  {e \in transforms : ~Has(r, e)}
        \cup {e \in transforms \cap reached :
                 Has(r, e) /\ r.hier[e].parent \in transforms \cup {NoEntity}}
=============================================================================
