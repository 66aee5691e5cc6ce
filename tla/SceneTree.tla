----------------------------- MODULE SceneTree ------------------------------
(***************************************************************************)
(* What the scene graph promises: an ordered forest of entities.  An       *)
(* entity that gets a parent becomes the last of its children, an entity   *)
(* is never below itself, what is below a destroyed entity goes with it,   *)
(* and a reload brings back the forest that was saved.                     *)
(***************************************************************************)
EXTENDS Naturals, FiniteSets, Sequences

CONSTANTS Entity, NoSave

VARIABLES nodes,     \* the entities of the scene
          children,  \* of every entity, in order
          saved      \* the forest in the file, or NoSave

vars == <<nodes, children, saved>>

Members(seq) == {seq[i] : i \in DOMAIN seq}

\* e is at one place at most.
Without(seq, e) ==
    IF e \notin Members(seq) THEN seq
    ELSE LET k == CHOOSE k \in DOMAIN seq : seq[k] = e
         IN  SubSeq(seq, 1, k - 1) \o SubSeq(seq, k + 1, Len(seq))

\* e and everything under it.
Below(e) ==
    LET level[n \in 0 .. Cardinality(Entity)] ==
          IF n = 0 THEN {e} ELSE UNION {{x} \cup Members(children[x]) : x \in level[n - 1]}
    IN  level[Cardinality(Entity)]

Init == nodes = {} /\ children = [e \in Entity |-> <<>>] /\ saved = NoSave

Create(e) == /\ e \notin nodes
             /\ nodes' = nodes \cup {e}
             /\ UNCHANGED <<children, saved>>

\* Out of the list it is in; without a parent it is a root.
Detach(e) == /\ e \in nodes
             /\ children' = [x \in Entity |-> Without(children[x], e)]
             /\ UNCHANGED <<nodes, saved>>

Attach(e, p) == 
    /\ e \in nodes /\ p \in nodes /\ p \notin Below(e)
    /\ children' = [x \in Entity |-> IF x = p THEN Append(Without(children[x], e), e)
                                     ELSE Without(children[x], e)]
    /\ UNCHANGED <<nodes, saved>>

CreateUnder(p, e) == /\ e \notin nodes /\ p \in nodes
                     /\ nodes' = nodes \cup {e}
                     /\ children' = [children EXCEPT ![p] = Append(@, e)]
                     /\ UNCHANGED saved

Prune(e) == /\ e \in nodes
            /\ nodes' = nodes \ Below(e)
            /\ children' = [x \in Entity |-> IF x \in Below(e) THEN <<>>
                                             ELSE Without(children[x], e)]
            /\ UNCHANGED saved

Save == saved' = [nodes |-> nodes, children |-> children] /\ UNCHANGED <<nodes, children>>

Load == /\ saved # NoSave
        /\ nodes' = saved.nodes /\ children' = saved.children
        /\ UNCHANGED saved

Next == \/ Save \/ Load
        \/ \E e \in Entity : Create(e) \/ Detach(e) \/ Prune(e)
        \/ \E e, p \in Entity : Attach(e, p) \/ CreateUnder(p, e)

Spec == Init /\ [][Next]_vars
=============================================================================
