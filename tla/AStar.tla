------------------------------- MODULE AStar --------------------------------
(***************************************************************************)
(* AI/AStar.cpp: the search for a path, one step per iteration of its      *)
(* while loop.  The open list is a plain vector: the heap operations of    *)
(* PathNodePriorityQueue.h are commented out, so fScore orders nothing and *)
(* is left out.  Top is the front of the vector and Pop removes its back.  *)
(* The closed list is asked for members and for its back, nothing else.    *)
(* The edges of a node may come in any order.                              *)
(***************************************************************************)
EXTENDS Integers, Sequences, SequencesExt

CONSTANTS N,         \* PathNodes are 1 .. N; the search goes from 1 to N
          MaxCost,   \* bound: costs of an edge, StaticCost() * m_Weight
          Infinity   \* numeric_limits<float>::max()

ASSUME AStarAssumption ==
    N \in Nat \ {0, 1} /\ MaxCost \in Nat \ {0} /\ Infinity \in Nat /\ Infinity > N * MaxCost

Node == 1 .. N
NoNode == 0

\* An edge joins two nodes; it may exist and not be traversable.
NoEdge == -1
Blocked == 0

VARIABLES edge,          \* the PathEdges: {a, b} -> its cost, NoEdge or Blocked
          m_OpenList,
          m_ClosedList,  \* its nodes
          closedBack,    \* and the last one
          gScore, Parent,
          result         \* "searching", or what FindPath returned

vars == <<edge, m_OpenList, m_ClosedList, closedBack, gScore, Parent, result>>

Pairs == {{a, b} : a, b \in Node} \ {{a} : a \in Node}

Cost(p, q) == IF p = q THEN NoEdge ELSE edge[{p, q}]

\* Faulty: nodes that no edge joins; edges that are blocked.
AnyNode(p) == {q \in Node : Cost(p, q) # Blocked}
EveryEdge(p) == {q \in Node : Cost(p, q) >= Blocked}

\* The nodes at the other end of the traversable edges of p.
Neighbours(p) == {q \in Node : Cost(p, q) > Blocked}

Init == /\ edge \in [Pairs -> {NoEdge, Blocked} \cup 1 .. MaxCost]
        /\ m_OpenList = <<1>> /\ m_ClosedList = {} /\ closedBack = NoNode
        /\ gScore = [n \in Node |-> IF n = 1 THEN 0 ELSE Infinity]
        /\ Parent = [n \in Node |-> NoNode]
        /\ result = "searching"

-----------------------------------------------------------------------------
(* One iteration. *)

Top == Head(m_OpenList)
Pop == Front(m_OpenList)
Closed == m_ClosedList \cup {Top}

NewScore(p, q) == gScore[p] + Cost(p, q)

\* Faulty: a node that waits on the open list is added again.
FreshIfOpen(p) == Neighbours(p) \ Closed

\* The nodes that are on neither list when p is expanded.
Fresh(p) == Neighbours(p) \ (Closed \cup ToSet(Pop))

\* Faulty: the scores are not compared.
Overwritten(p) == Neighbours(p)

\* The nodes that get a new score and p as their Parent.
Improved(p) == Fresh(p) \cup {q \in Neighbours(p) : gScore[q] > NewScore(p, q)}

\* The loop over the connections of p.
Expand(p) ==
    /\ gScore' = [q \in Node |-> IF q \in Improved(p) THEN NewScore(p, q) ELSE gScore[q]]
    /\ Parent' = [q \in Node |-> IF q \in Improved(p) THEN p ELSE Parent[q]]
    /\ \E pushed \in SetToSeqs(Fresh(p)) : m_OpenList' = Pop \o pushed

Iterate ==
    /\ result = "searching" /\ m_OpenList # <<>>
    /\ m_ClosedList' = Closed /\ closedBack' = Top
    /\ IF Top = N
       THEN result' = "found" /\ m_OpenList' = Pop /\ UNCHANGED <<gScore, Parent>>
       ELSE Expand(Top) /\ UNCHANGED result
    /\ UNCHANGED edge

GiveUp == /\ result = "searching" /\ m_OpenList = <<>>
          /\ result' = "none"
          /\ UNCHANGED <<edge, m_OpenList, m_ClosedList, closedBack, gScore, Parent>>

Next == Iterate \/ GiveUp
Spec == Init /\ [][Next]_vars

\* The nodes met from the back of the closed list by following Parent, at most N.
m_Path == LET back[i \in 1 .. N] == IF i = 1 THEN closedBack
                                    ELSE IF back[i - 1] = NoNode THEN NoNode ELSE Parent[back[i - 1]]
          IN  Reverse([i \in {i \in 1 .. N : back[i] # NoNode} |-> back[i]])

-----------------------------------------------------------------------------
TypeOK == /\ edge \in [Pairs -> {NoEdge, Blocked} \cup 1 .. MaxCost]
          /\ m_OpenList \in Seq(Node) /\ m_ClosedList \subseteq Node
          /\ closedBack \in Node \cup {NoNode}
          /\ gScore \in [Node -> 0 .. Infinity]
          /\ Parent \in [Node -> Node \cup {NoNode}]
          /\ result \in {"searching", "found", "none"}

\* A node found is reached over a traversable edge from its Parent, which is
\* nearer to the start by at least the cost of that edge, so a walk along Parent
\* ends (AStar.cpp 73-98, 106-111).
ParentsAreNearer ==
    \A q \in Node : Parent[q] # NoNode =>
        Cost(Parent[q], q) > 0 /\ gScore[Parent[q]] + Cost(Parent[q], q) <= gScore[q]

\* When FindPath returns true, Path leads from start to end over traversable
\* edges, although scores and Parents change while nodes wait
\* (AStar.cpp 82-98, 103-115).
PathLeadsToEnd ==
    result = "found" =>
        /\ Head(m_Path) = 1 /\ Last(m_Path) = N
        /\ \A i \in 1 .. Len(m_Path) - 1 : Cost(m_Path[i], m_Path[i + 1]) > 0

OpenOnce == IsInjective(m_OpenList)

\* Every node on the open list was reached: it is the start, or its Parent was
\* taken from the list before it, and it has a score.  None waits there twice
\* (AStar.cpp 76-98).
WaitingWereReached ==
    /\ OpenOnce
    /\ \A q \in ToSet(m_OpenList) :
          gScore[q] < Infinity /\ (q = 1 \/ Parent[q] \in m_ClosedList)
=============================================================================
