----------------------------- MODULE SceneGraph -----------------------------
(***************************************************************************)
(* One scene and what is done to its hierarchy: Entity.h and Scene.cpp,    *)
(* called by scripts and by the engine, and HierarchyWindow.cpp, the tree  *)
(* view of the editor.  All of it runs on the main thread, so a step is a  *)
(* whole call.                                                             *)
(*                                                                         *)
(* The handlers that keep the lists are entt signals.  They are connected  *)
(* by OnInit, which the editor calls when Play is pressed; Deserialise     *)
(* disconnects OnConstruct while it loads.                                 *)
(***************************************************************************)
EXTENDS Hierarchy

CONSTANT NoFile

ASSUME NoFileAssumption ==
    /\ NoFile \notin [registry : Registry, created : SUBSET Entity]
    /\ NoFile \notin [nodes : SUBSET Entity, children : [Entity -> Seq(Entity)]]

VARIABLES registry,   \* m_EntityManager's registry: entities and their Hierarchy
          hooks,      \* which handlers of Hierarchy are connected
          created,    \* identifiers handed out
          file        \* what the scene's file holds, or NoFile

vars == <<registry, hooks, created, file>>

AllHooks == {"construct", "destroy"}

TypeOK == /\ registry \in Registry
          /\ hooks \subseteq AllHooks
          /\ created \subseteq Entity /\ registry.valid \subseteq created
          /\ \A e \in Entity \ registry.valid : registry.hier[e] = NoHierarchy
          /\ file = NoFile \/ file \in [registry : Registry, created : SUBSET Entity]

\* A scene in the editor before Play, and one that was started.
Init == registry = EmptyRegistry /\ hooks = {} /\ created = {} /\ file = NoFile
StartedInit == registry = EmptyRegistry /\ hooks = AllHooks /\ created = {} /\ file = NoFile

Running == registry.ok
New(r, e) == [r EXCEPT !.valid = @ \cup {e}]

-----------------------------------------------------------------------------
(* Entity.h *)

\* Faulty: looks one level up.
IsParentDirect(r, x, p) == Has(r, x) /\ r.hier[x].parent = p

IsParent(r, x, p) == p \in ToSet(Ancestors(r, x))

CreateEntity(e) == /\ Running /\ e \notin created
                   /\ registry' = New(registry, e)
                   /\ created' = created \cup {e}
                   /\ UNCHANGED <<hooks, file>>

\* Nothing changes when p is e or below e.
SetParent(e, p) ==
    /\ Running /\ {e, p} \subseteq registry.valid /\ e # p
    /\ IF Has(registry, e)
       THEN /\ ~IsParent(registry, p, e)
            /\ registry' = FailIf(~WalkEnds(registry, Ancestors(registry, p)),
                                  Reparent(registry, e, p))
       ELSE registry' = Emplace(registry, hooks, e, p)
    /\ UNCHANGED <<hooks, created, file>>

EntityDestroy(e) == /\ Running /\ e \in registry.valid
                    /\ registry' = Destroy(registry, hooks, e)
                    /\ UNCHANGED <<hooks, created, file>>

-----------------------------------------------------------------------------
(* HierarchyWindow.cpp *)

AddChild(node, e) ==
    /\ Running /\ node \in registry.valid /\ e \notin created
    /\ registry' = Emplace(New(registry, e), hooks, e, node)
    /\ created' = created \cup {e}
    /\ UNCHANGED <<hooks, file>>

Drop(e, node) == /\ Has(registry, e) => registry.hier[e].parent # node
                 /\ SetParent(e, node)

\* On the search box.
DropOnFilter(e) == /\ Running /\ Has(registry, e)
                   /\ registry' = Reparent(registry, e, NoEntity)
                   /\ UNCHANGED <<hooks, created, file>>

\* On the empty part of the panel: the component goes too.
DropOnPanel(e) == /\ Running /\ Has(registry, e) /\ registry.hier[e].parent # NoEntity
                  /\ registry' = RemoveHierarchy(Reparent(registry, e, NoEntity), hooks, e)
                  /\ UNCHANGED <<hooks, created, file>>

DestroyEntity(e) == /\ Running /\ e \in registry.valid
                    /\ registry' \in DestroyTree(registry, hooks, e)
                    /\ UNCHANGED <<hooks, created, file>>

\* The copy of an entity that was cut goes under node, and then node is
\* destroyed with everything below it: the entity that was cut is not.
PasteCut(node, e) ==
    /\ Running /\ node \in registry.valid /\ e \notin created
    /\ registry' \in DestroyTree(Emplace(New(registry, e), hooks, e, node), hooks, node)
    /\ created' = created \cup {e}
    /\ UNCHANGED <<hooks, file>>

-----------------------------------------------------------------------------
(* Scene.cpp *)

Serialise == /\ Running
             /\ file' = [registry |-> registry, created |-> created]
             /\ UNCHANGED <<registry, hooks, created>>

\* EntityManager::Clear destroys in the order of the identifiers, which says
\* nothing of the hierarchy.
Clear == {DestroyAll(registry, hooks, order) : order \in SetToSeqs(registry.valid)}

DeserialiseFails == /\ Running /\ file = NoFile
                    /\ registry' \in Clear
                    /\ hooks' = hooks \ {"construct"}
                    /\ UNCHANGED <<created, file>>

Deserialise == /\ Running /\ file # NoFile
               /\ \E r \in Clear : registry' = IF r.ok THEN file.registry ELSE r
               /\ created' = file.created
               /\ hooks' = hooks \cup {"construct"}
               /\ UNCHANGED file

OnInit == /\ Running
          /\ hooks' = AllHooks
          /\ UNCHANGED <<registry, created, file>>

-----------------------------------------------------------------------------
Childless(e) == Kids(registry, e) = <<>>

\* What leaves no entity without the parent it names: Entity::Destroy and the
\* panel only for entities without children, and a file that is there.
TreeNext ==
    \/ \E e \in Entity : \/ CreateEntity(e) \/ DropOnFilter(e) \/ DestroyEntity(e)
                         \/ Childless(e) /\ (EntityDestroy(e) \/ DropOnPanel(e))
    \/ \E e, p \in Entity : SetParent(e, p) \/ Drop(e, p) \/ AddChild(p, e) \/ PasteCut(p, e)
    \/ Serialise \/ Deserialise

Next == \/ TreeNext
        \/ \E e \in Entity : EntityDestroy(e) \/ DropOnPanel(e)
        \/ DeserialiseFails \/ OnInit

Spec == Init /\ [][Next]_vars
StartedSpec == StartedInit /\ [][Next]_vars
TreeSpec == StartedInit /\ [][TreeNext]_vars

-----------------------------------------------------------------------------
(* Properties. *)

\* No call follows a link to an entity that was destroyed, follows a null
\* pointer or goes round a list for ever (the walks of SceneGraph.cpp 157-167,
\* Entity.h 163-174 and HierarchyWindow.cpp 363-370).
NeverStuck == registry.ok

\* The four links of every component agree: the children met from First are
\* the entities that name this parent, each once, and Prev undoes Next
\* (SceneGraph.cpp 144-178 and 251-298).
ChildListsAgree ==
    \A p \in registry.valid :
        LET kids == Kids(registry, p)
        IN  /\ \A e \in Entity : e \in ToSet(kids) <=> Has(registry, e) /\ registry.hier[e].parent = p
            /\ IsInjective(kids)
            /\ \A i \in DOMAIN kids :
                  registry.hier[kids[i]].prev = IF i = 1 THEN NoEntity ELSE kids[i - 1]

\* Whichever entities have a Transform, Update gives a world matrix anew to
\* exactly those whose parent and whose root have one too: the way down from
\* the roots meets every entity under them, also through entities without a
\* Transform, and none is above itself (SceneGraph.cpp 38-92).
UpdateFollowsTree ==
    \A transforms \in SUBSET registry.valid :
        Updated(registry, transforms) =
            {e \in transforms :
                /\ To(registry, e, "parent") \in transforms \cup {NoEntity}
                /\ \A a \in ToSet(Ancestors(registry, e)) :
                      To(registry, a, "parent") = NoEntity => a \in transforms}

ST == INSTANCE SceneTree WITH
        nodes <- registry.valid,
        children <- Forest(registry),
        saved <- IF file = NoFile THEN NoFile
                 ELSE [nodes |-> file.registry.valid, children |-> Forest(file.registry)],
        NoSave <- NoFile

\* The linked lists are an ordered forest that a reparenting, a destruction
\* or a reload changes only where it should (SceneGraph.cpp, Entity.h).
ImplementsSceneTree == ST!Spec

\* SceneGraph.h 196: "update hierarchy components when hierarchy component is
\* removed".  A link leads to an entity that has the component.
RemovalUpdatesLinks ==
    \A e \in registry.valid : Has(registry, e) =>
        \A link \in DOMAIN registry.hier[e] :
            registry.hier[e][link] # NoEntity => Has(registry, registry.hier[e][link])
=============================================================================
