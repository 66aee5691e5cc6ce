---------------------------- MODULE AStar_proofs ----------------------------
(***************************************************************************)
(* The search of AStar.tla, in graphs of any size and with any costs: a    *)
(* path it returns leads from the start to the end, although nodes are     *)
(* dropped from the open list and closed nodes get new scores.             *)
(***************************************************************************)
EXTENDS AStar, SequenceTheorems, FiniteSetTheorems, WellFoundedInduction, TLAPS

\* A node the search came to.
Reached(q) == q = 1 \/ Parent[q] # NoNode

\* What the lists hold was reached.  A node gets its score from a closed node, so
\* it is at most one edge further than the closed nodes are.
ListsOK == \A q \in m_ClosedList \cup ToSet(m_OpenList) : Reached(q)

StartOK == /\ gScore[1] = 0 /\ Parent[1] = NoNode
           /\ m_ClosedList = {} => m_OpenList = <<1>>
           /\ m_ClosedList # {} => 1 \in m_ClosedList
           /\ \A q \in Node : ~Reached(q) => gScore[q] = Infinity

ParentsAreClosed == \A q \in Node : Parent[q] # NoNode => Parent[q] \in m_ClosedList

ScoresBounded ==
    /\ \A q \in m_ClosedList : gScore[q] + MaxCost <= Cardinality(m_ClosedList) * MaxCost
    /\ \A q \in Node : Reached(q) => gScore[q] <= Cardinality(m_ClosedList) * MaxCost

FoundOK == result = "found" => closedBack = N /\ Reached(N)

IInv == /\ TypeOK /\ ListsOK /\ StartOK /\ ParentsAreClosed /\ ScoresBounded
        /\ ParentsAreNearer /\ OpenOnce /\ FoundOK

\* An edge leads to another node and costs at most MaxCost.
LEMMA EdgeFacts ==
    ASSUME TypeOK, NEW p \in Node, NEW q \in Neighbours(p)
    PROVE  q \in Node /\ q # p /\ Cost(p, q) \in 1 .. MaxCost
<1> USE AStarAssumption DEF Neighbours, Cost, NoEdge, Blocked
<1>1. q \in Node /\ q # p OBVIOUS
<1>2. {p, q} \in Pairs BY <1>1 DEF Pairs
<1>3. edge[{p, q}] \in {NoEdge, Blocked} \cup 1 .. MaxCost BY <1>2 DEF TypeOK
<1> QED BY <1>1, <1>3

LEMMA CostType ==
    ASSUME TypeOK, NEW p \in Node, NEW q \in Node
    PROVE  Cost(p, q) \in Int
<1>1. CASE p = q BY <1>1 DEF Cost, NoEdge
<1>2. CASE p # q
  <2>1. {p, q} \in Pairs BY <1>2 DEF Pairs
  <2>2. edge[{p, q}] \in {NoEdge, Blocked} \cup 1 .. MaxCost BY <2>1 DEF TypeOK
  <2> QED BY <1>2, <2>2, AStarAssumption DEF Cost, NoEdge, Blocked
<1> QED BY <1>1, <1>2

LEMMA InitInv == Init => IInv
<1> SUFFICES ASSUME Init PROVE IInv OBVIOUS
<1> USE AStarAssumption DEF Init, Node, NoNode
<1>1. /\ edge \in [Pairs -> {NoEdge, Blocked} \cup 1 .. MaxCost]
      /\ m_OpenList = <<1>> /\ m_ClosedList = {} /\ closedBack = NoNode
      /\ gScore = [n \in Node |-> IF n = 1 THEN 0 ELSE Infinity]
      /\ Parent = [n \in Node |-> NoNode] /\ result = "searching"
      BY DEF Init
<1>2. TypeOK BY <1>1 DEF TypeOK
<1>3. ToSet(m_OpenList) = {1} BY <1>1 DEF ToSet
<1>4. ListsOK BY <1>1, <1>3 DEF ListsOK, Reached
<1>5. StartOK BY <1>1 DEF StartOK, Reached
<1>6. ParentsAreClosed /\ ParentsAreNearer BY <1>1 DEF ParentsAreClosed, ParentsAreNearer
<1>7. Cardinality(m_ClosedList) = 0 /\ 0 * MaxCost = 0 BY <1>1, FS_EmptySet
<1>8. ScoresBounded BY <1>1, <1>7 DEF ScoresBounded, Reached
<1>9. OpenOnce BY <1>1 DEF OpenOnce, IsInjective
<1>10. FoundOK BY <1>1 DEF FoundOK
<1> QED BY <1>2, <1>4, <1>5, <1>6, <1>8, <1>9, <1>10 DEF IInv

\* Top and Pop: what is left of the open list was on it.
LEMMA PopFacts ==
    ASSUME TypeOK, m_OpenList # <<>>
    PROVE  /\ Top \in ToSet(m_OpenList) /\ Top \in Node
           /\ Pop \in Seq(Node) /\ ToSet(Pop) \subseteq ToSet(m_OpenList)
           /\ OpenOnce => IsInjective(Pop)
           /\ m_OpenList = <<1>> => Top = 1
<1> DEFINE s == m_OpenList
<1>1. s \in Seq(Node) /\ Len(s) \in Nat \ {0} /\ DOMAIN s = 1 .. Len(s)
      BY EmptySeq, LenProperties DEF TypeOK
<1>2. Top = s[1] /\ 1 \in DOMAIN s BY <1>1 DEF Top
<1>3. Top \in ToSet(s) /\ Top \in Node BY <1>1, <1>2 DEF ToSet
<1>4. /\ Pop \in Seq(Node) /\ Len(Pop) = Len(s) - 1 /\ DOMAIN Pop = 1 .. Len(s) - 1
      /\ \A i \in 1 .. Len(s) - 1 : Pop[i] = s[i]
  <2>1. \A i \in 1 .. Len(s) - 1 : s[i] \in Node BY <1>1
  <2>2. /\ Pop \in Seq(Node) /\ Len(Pop) = Len(s) - 1
        /\ \A i \in 1 .. (Len(s) - 1) - 1 + 1 : Pop[i] = s[1 + i - 1]
        BY <1>1, <2>1, SubSeqProperties DEF Pop, Front
  <2> QED BY <1>1, <2>2, LenProperties
<1>5. ToSet(Pop) \subseteq ToSet(s) BY <1>1, <1>4 DEF ToSet
<1>6. OpenOnce => IsInjective(Pop) BY <1>1, <1>4 DEF OpenOnce, IsInjective
<1> QED BY <1>2, <1>3, <1>4, <1>5, <1>6

LEMMA NodesAreFinite == IsFiniteSet(Node) /\ Cardinality(Node) = N
<1>1. 1 \in Int /\ N \in Int /\ ~(1 > N) /\ N - 1 + 1 = N BY AStarAssumption
<1> QED BY <1>1, FS_Interval DEF Node

\* The nodes pushed by one expansion, in any order: each once.
LEMMA PushedFacts ==
    ASSUME NEW S \in SUBSET Node, NEW pushed \in SetToSeqs(S)
    PROVE  pushed \in Seq(Node) /\ ToSet(pushed) \subseteq S /\ IsInjective(pushed)
<1>1. IsFiniteSet(S) BY NodesAreFinite, FS_Subset
<1>2. Cardinality(S) \in Nat BY <1>1, FS_CardinalityType
<1>3. /\ pushed \in [1 .. Cardinality(S) -> S]
      /\ \A i, j \in 1 .. Cardinality(S) : i # j => pushed[i] # pushed[j]
      BY DEF SetToSeqs
<1> QED BY <1>2, <1>3 DEF ToSet, IsInjective

\* Two lists without repetitions and without a common node.
LEMMA ConcatFacts ==
    ASSUME NEW s \in Seq(Node), NEW t \in Seq(Node)
    PROVE  /\ s \o t \in Seq(Node) /\ ToSet(s \o t) = ToSet(s) \cup ToSet(t)
           /\ IsInjective(s) /\ IsInjective(t) /\ ToSet(s) \cap ToSet(t) = {} => IsInjective(s \o t)
<1> DEFINE u == s \o t  m == Len(s)  n == Len(t)
<1>1. /\ u \in Seq(Node) /\ m \in Nat /\ n \in Nat
      /\ DOMAIN u = 1 .. m + n /\ DOMAIN s = 1 .. m /\ DOMAIN t = 1 .. n
      /\ \A i \in 1 .. m + n : u[i] = IF i <= m THEN s[i] ELSE t[i - m]
      BY ConcatProperties, LenProperties
<1> HIDE DEF u, m, n
<1>2. \A i \in 1 .. m + n :
        \/ i \in 1 .. m /\ u[i] = s[i] /\ s[i] \in ToSet(s)
        \/ i - m \in 1 .. n /\ u[i] = t[i - m] /\ t[i - m] \in ToSet(t)
  <2> SUFFICES ASSUME NEW i \in 1 .. m + n
               PROVE  \/ i \in 1 .. m /\ u[i] = s[i] /\ s[i] \in ToSet(s)
                      \/ i - m \in 1 .. n /\ u[i] = t[i - m] /\ t[i - m] \in ToSet(t)
      OBVIOUS
  <2>1. CASE i <= m
    <3>1. i \in 1 .. m /\ u[i] = s[i] BY <1>1, <2>1
    <3> QED BY <1>1, <3>1 DEF ToSet
  <2>2. CASE i > m
    <3>1. i - m \in 1 .. n /\ u[i] = t[i - m] BY <1>1, <2>2
    <3> QED BY <1>1, <3>1 DEF ToSet
  <2> QED BY <1>1, <2>1, <2>2
<1>3. ASSUME NEW i \in 1 .. m PROVE s[i] \in ToSet(u)
  <2>1. i \in 1 .. m + n /\ i <= m BY <1>1
  <2>2. u[i] = s[i] BY <1>1, <2>1
  <2> QED BY <1>1, <2>1, <2>2 DEF ToSet
<1>6. ASSUME NEW i \in 1 .. n PROVE t[i] \in ToSet(u)
  <2>1. m + i \in 1 .. m + n /\ ~(m + i <= m) /\ (m + i) - m = i BY <1>1
  <2>2. u[m + i] = t[i] BY <1>1, <2>1
  <2> QED BY <1>1, <2>1, <2>2 DEF ToSet
<1>4. ToSet(u) = ToSet(s) \cup ToSet(t)
  <2>1. ToSet(u) \subseteq ToSet(s) \cup ToSet(t)
    <3> SUFFICES ASSUME NEW x \in ToSet(u) PROVE x \in ToSet(s) \cup ToSet(t) OBVIOUS
    <3>1. PICK i \in 1 .. m + n : x = u[i] BY <1>1 DEF ToSet
    <3> QED BY <1>2, <3>1
  <2>2. ToSet(s) \subseteq ToSet(u) BY <1>1, <1>3 DEF ToSet
  <2>3. ToSet(t) \subseteq ToSet(u) BY <1>1, <1>6 DEF ToSet
  <2> QED BY <2>1, <2>2, <2>3
<1>5. ASSUME IsInjective(s), IsInjective(t), ToSet(s) \cap ToSet(t) = {} PROVE IsInjective(u)
  <2> SUFFICES ASSUME NEW i \in 1 .. m + n, NEW j \in 1 .. m + n, u[i] = u[j] PROVE i = j
      BY <1>1 DEF IsInjective
  <2>1. \/ i \in 1 .. m /\ j \in 1 .. m /\ s[i] = s[j]
        \/ i - m \in 1 .. n /\ j - m \in 1 .. n /\ t[i - m] = t[j - m]
        BY <1>2, <1>5
  <2>2. \A a, b \in 1 .. m : s[a] = s[b] => a = b BY <1>1, <1>5 DEF IsInjective
  <2>3. \A a, b \in 1 .. n : t[a] = t[b] => a = b BY <1>1, <1>5 DEF IsInjective
  <2>4. i = j \/ i - m = j - m BY <2>1, <2>2, <2>3
  <2> QED BY <1>1, <2>4
<1> QED BY <1>1, <1>4, <1>5 DEF u

-----------------------------------------------------------------------------
(* One iteration. *)

\* Scores stay below the value that stands for infinity.
LEMMA ScoreLimit ==
    ASSUME NEW C \in SUBSET Node
    PROVE  /\ Cardinality(C) \in Nat /\ Cardinality(C) * MaxCost \in Nat
           /\ Cardinality(C) * MaxCost < Infinity
<1>1. IsFiniteSet(C) /\ Cardinality(C) <= N BY NodesAreFinite, FS_Subset
<1>2. Cardinality(C) \in Nat BY <1>1, FS_CardinalityType
<1>3. \A k \in Nat : k <= N => k * MaxCost \in Nat /\ k * MaxCost <= N * MaxCost
  <2> SUFFICES ASSUME NEW k \in Nat, k <= N PROVE k * MaxCost \in Nat /\ k * MaxCost <= N * MaxCost
      OBVIOUS
  <2>1. k * MaxCost \in Nat /\ (N - k) * MaxCost \in Nat BY AStarAssumption
  <2>2. N * MaxCost = k * MaxCost + (N - k) * MaxCost BY AStarAssumption
  <2> QED BY <2>1, <2>2
<1> QED BY <1>1, <1>2, <1>3, AStarAssumption

\* Closing one more node raises the limit of the scores by one edge.
LEMMA ClosedFacts ==
    ASSUME TypeOK, Top \in Node
    PROVE  LET c == Cardinality(m_ClosedList)  d == Cardinality(Closed)
           IN  /\ Closed \subseteq Node /\ c \in Nat /\ c * MaxCost \in Nat /\ d * MaxCost \in Nat
               /\ d * MaxCost < Infinity /\ c * MaxCost <= d * MaxCost
               /\ Top \notin m_ClosedList => d * MaxCost = c * MaxCost + MaxCost
               /\ Top \in m_ClosedList => d * MaxCost = c * MaxCost
<1> DEFINE c == Cardinality(m_ClosedList)  d == Cardinality(Closed)
<1>1. Closed \subseteq Node /\ m_ClosedList \subseteq Node BY DEF TypeOK, Closed
<1>2. /\ c \in Nat /\ c * MaxCost \in Nat /\ d \in Nat /\ d * MaxCost \in Nat
      /\ d * MaxCost < Infinity
      BY <1>1, ScoreLimit
<1>3. d = IF Top \in m_ClosedList THEN c ELSE c + 1
      BY <1>1, NodesAreFinite, FS_Subset, FS_AddElement DEF Closed
<1>4. (c + 1) * MaxCost = c * MaxCost + MaxCost BY <1>2, AStarAssumption
<1> QED BY <1>1, <1>2, <1>3, <1>4, AStarAssumption

\* The node taken from the open list joins the closed ones (AStar.cpp 48-52).
LEMMA TakenInv ==
    ASSUME IInv, m_OpenList # <<>>
    PROVE  /\ Top \in Node /\ Reached(Top) /\ 1 \in Closed
           /\ \A q \in Closed : gScore[q] + MaxCost <= Cardinality(Closed) * MaxCost
           /\ \A q \in Node : Reached(q) => gScore[q] <= Cardinality(Closed) * MaxCost
<1> USE AStarAssumption DEF IInv
<1> DEFINE c == Cardinality(m_ClosedList) * MaxCost  d == Cardinality(Closed) * MaxCost
<1>1. Top \in Node /\ Top \in ToSet(m_OpenList) BY PopFacts
<1>2. Reached(Top) BY <1>1 DEF ListsOK
<1>3. 1 \in Closed BY PopFacts DEF StartOK, Closed
<1>4. /\ c \in Nat /\ d \in Nat /\ c <= d
      /\ Top \notin m_ClosedList => d = c + MaxCost
      BY <1>1, ClosedFacts
<1> HIDE DEF c, d
<1>5. /\ \A q \in m_ClosedList : gScore[q] + MaxCost <= c
      /\ \A q \in Node : Reached(q) => gScore[q] <= c
      BY DEF ScoresBounded, c
<1>6. /\ \A q \in Node : gScore[q] \in Nat
      /\ \A q \in m_ClosedList : q \in Node
      BY DEF TypeOK
<1>7. ASSUME NEW q \in Closed PROVE gScore[q] + MaxCost <= d
  <2>1. CASE q \in m_ClosedList BY <1>4, <1>5, <1>6, <2>1
  <2>2. CASE q \notin m_ClosedList
    <3>1. q = Top /\ d = c + MaxCost BY <1>4, <1>7, <2>2 DEF Closed
    <3> QED BY <1>1, <1>2, <1>4, <1>5, <1>6, <3>1
  <2> QED BY <2>1, <2>2
<1>8. \A q \in Node : Reached(q) => gScore[q] <= d BY <1>4, <1>5, <1>6
<1> QED BY <1>1, <1>2, <1>3, <1>7, <1>8 DEF d

\* What an expansion may change: nodes that are improved get Top as their parent
\* and a score one edge above Top's; Top and the start are never among them.
LEMMA ImprovedFacts ==
    ASSUME IInv, m_OpenList # <<>>
    PROVE  /\ Top \notin Improved(Top) /\ 1 \notin Improved(Top)
           /\ \A q \in Improved(Top) :
                 /\ q \in Neighbours(Top) /\ Cost(Top, q) \in 1 .. MaxCost
                 /\ NewScore(Top, q) \in Nat
                 /\ NewScore(Top, q) <= Cardinality(Closed) * MaxCost
                 /\ q \in Closed => NewScore(Top, q) < gScore[q]
<1> USE AStarAssumption DEF IInv
<1> DEFINE d == Cardinality(Closed) * MaxCost
<1>1. /\ Top \in Node /\ 1 \in Closed /\ Top \in Closed
      /\ gScore[Top] + MaxCost <= d
      BY TakenInv DEF Closed
<1>2. gScore[Top] \in Nat /\ gScore[1] = 0 /\ d \in Nat BY <1>1, ClosedFacts DEF TypeOK, StartOK
<1> HIDE DEF d
<1>3. \A q \in Improved(Top) : q \in Neighbours(Top) /\ (q \in Closed => NewScore(Top, q) < gScore[q])
  <2>1. \A q \in Neighbours(Top) : q \in Node BY DEF Neighbours
  <2>2. \A q \in Neighbours(Top) : NewScore(Top, q) \in Nat /\ gScore[q] \in Nat
        BY <1>1, <1>2, <2>1, EdgeFacts DEF NewScore, TypeOK
  <2> QED BY <2>2 DEF Improved, Fresh
<1>4. ASSUME NEW q \in Improved(Top)
      PROVE  /\ q # Top /\ Cost(Top, q) \in 1 .. MaxCost
             /\ NewScore(Top, q) \in Nat \ {0} /\ NewScore(Top, q) <= d
  <2>1. q # Top /\ Cost(Top, q) \in 1 .. MaxCost BY <1>1, <1>3, EdgeFacts
  <2>2. NewScore(Top, q) = gScore[Top] + Cost(Top, q) BY DEF NewScore
  <2> HIDE DEF NewScore
  <2> QED BY <1>1, <1>2, <2>1, <2>2
<1>5. 1 \notin Improved(Top)
  <2> SUFFICES ASSUME 1 \in Improved(Top) PROVE FALSE OBVIOUS
  <2>1. NewScore(Top, 1) < 0 BY <1>1, <1>2, <1>3
  <2>2. NewScore(Top, 1) \in Nat BY <1>4
  <2> QED BY <2>1, <2>2
<1> QED BY <1>3, <1>4, <1>5 DEF d

\* Expanding a node (AStar.cpp 62-99).
LEMMA ExpandInv ==
    ASSUME IInv, m_OpenList # <<>>, result = "searching", Expand(Top),
           m_ClosedList' = Closed, closedBack' = Top, UNCHANGED <<edge, result>>
    PROVE  IInv'
<1> USE AStarAssumption DEF IInv
<1> DEFINE d == Cardinality(Closed) * MaxCost  better == Improved(Top)
<1>1. /\ Top \in Node /\ Reached(Top) /\ 1 \in Closed /\ Closed \subseteq Node
      /\ \A q \in Closed : gScore[q] + MaxCost <= d
      /\ \A q \in Node : Reached(q) => gScore[q] <= d
      /\ d \in Nat /\ d < Infinity
      BY TakenInv, ClosedFacts
<1>2. /\ Top \notin better /\ 1 \notin better
      /\ \A q \in better :
            /\ q \in Neighbours(Top) /\ Cost(Top, q) \in 1 .. MaxCost
            /\ NewScore(Top, q) \in Nat /\ NewScore(Top, q) <= d
            /\ q \in Closed => NewScore(Top, q) < gScore[q]
      BY ImprovedFacts
<1>3. better \subseteq Node BY <1>2 DEF Neighbours
<1> HIDE DEF d, better
<1>4. /\ gScore' = [q \in Node |-> IF q \in better THEN NewScore(Top, q) ELSE gScore[q]]
      /\ Parent' = [q \in Node |-> IF q \in better THEN Top ELSE Parent[q]]
      BY DEF Expand, better
<1>5. PICK pushed \in SetToSeqs(Fresh(Top)) : m_OpenList' = Pop \o pushed BY DEF Expand
<1>6. /\ pushed \in Seq(Node) /\ ToSet(pushed) \subseteq Fresh(Top) /\ IsInjective(pushed)
  <2>1. Fresh(Top) \in SUBSET Node BY DEF Fresh, Neighbours
  <2> QED BY <2>1, PushedFacts
<1>7. /\ m_OpenList' \in Seq(Node)
      /\ ToSet(m_OpenList') \subseteq ToSet(m_OpenList) \cup Fresh(Top)
      /\ IsInjective(m_OpenList')
  <2>1. Pop \in Seq(Node) /\ ToSet(Pop) \subseteq ToSet(m_OpenList) /\ IsInjective(Pop) BY PopFacts
  <2>2. ToSet(Pop) \cap ToSet(pushed) = {} BY <1>6 DEF Fresh
  <2>3. /\ Pop \o pushed \in Seq(Node) /\ ToSet(Pop \o pushed) = ToSet(Pop) \cup ToSet(pushed)
        /\ IsInjective(Pop \o pushed)
        BY <1>6, <2>1, <2>2, ConcatFacts
  <2> QED BY <1>5, <1>6, <2>1, <2>3
<1>8. \A q \in Node : gScore[q] \in 0 .. Infinity /\ Parent[q] \in Node \cup {NoNode} BY DEF TypeOK
<1>9. TypeOK'
  <2>1. \A q \in better : NewScore(Top, q) \in 0 .. Infinity BY <1>1, <1>2
  <2>2. gScore' \in [Node -> 0 .. Infinity] BY <1>4, <1>8, <2>1
  <2>3. Parent' \in [Node -> Node \cup {NoNode}] BY <1>1, <1>4, <1>8
  <2> QED BY <1>1, <1>7, <2>2, <2>3 DEF TypeOK
<1>10. \A q \in Node : Reached(q)' <=> Reached(q) \/ q \in better
  <2>1. Top # NoNode BY <1>1 DEF Node, NoNode
  <2> QED BY <1>4, <2>1 DEF Reached
<1>11. ListsOK'
  <2> SUFFICES ASSUME NEW q \in Closed \cup ToSet(m_OpenList') PROVE Reached(q)'
      BY DEF ListsOK
  <2>1. CASE q \in Fresh(Top)
    <3>1. q \in better /\ q \in Node BY <1>3, <2>1 DEF better, Improved
    <3> QED BY <1>10, <3>1
  <2>2. CASE q \notin Fresh(Top)
    <3>1. q = Top \/ q \in m_ClosedList \cup ToSet(m_OpenList) BY <1>7, <2>2 DEF Closed
    <3>2. Reached(q) BY <1>1, <3>1 DEF ListsOK
    <3>3. q \in Node BY <1>1, <1>7, <2>2, PopFacts DEF TypeOK, ToSet
    <3> QED BY <1>10, <3>2, <3>3
  <2> QED BY <2>1, <2>2
<1>12. 1 \in Node BY DEF Node
<1>13. StartOK' BY <1>1, <1>2, <1>4, <1>10, <1>12 DEF StartOK
<1>14. ParentsAreClosed' BY <1>4, <1>8 DEF ParentsAreClosed, Closed
<1>15. ScoresBounded'
  <2>1. ASSUME NEW q \in Closed PROVE gScore'[q] + MaxCost <= d
    <3>1. q \in Node /\ gScore[q] \in Nat /\ gScore[q] + MaxCost <= d BY <1>1, <1>8
    <3>2. CASE q \in better BY <1>1, <1>2, <1>4, <3>1, <3>2
    <3>3. CASE q \notin better BY <1>4, <3>1, <3>3
    <3> QED BY <3>2, <3>3
  <2>2. ASSUME NEW q \in Node, Reached(q)' PROVE gScore'[q] <= d
    <3>1. CASE q \in better BY <1>2, <1>4, <3>1
    <3>2. CASE q \notin better BY <1>1, <1>4, <1>10, <2>2, <3>2
    <3> QED BY <3>1, <3>2
  <2> QED BY <2>1, <2>2 DEF ScoresBounded, d
<1>16. ParentsAreNearer'
  <2>1. \A p, q \in Node : Cost(p, q)' = Cost(p, q) BY DEF Cost
  <2> SUFFICES ASSUME NEW q \in Node, Parent'[q] # NoNode
               PROVE  /\ Cost(Parent'[q], q) > 0
                      /\ gScore'[Parent'[q]] + Cost(Parent'[q], q) <= gScore'[q]
      BY DEF ParentsAreNearer, Cost
  <2>2. CASE q \in better
    <3>1. Parent'[q] = Top /\ gScore'[q] = NewScore(Top, q) /\ gScore'[Top] = gScore[Top]
          BY <1>1, <1>2, <1>4, <2>2
    <3>2. Cost(Top, q) \in 1 .. MaxCost /\ NewScore(Top, q) \in Nat BY <1>2, <2>2
    <3>3. NewScore(Top, q) = gScore[Top] + Cost(Top, q) BY DEF NewScore
    <3> QED BY <3>1, <3>2, <3>3
  <2>3. CASE q \notin better
    <3> DEFINE p == Parent[q]
    <3>1. Parent'[q] = p /\ gScore'[q] = gScore[q] /\ p # NoNode BY <1>4, <2>3
    <3>2. p \in m_ClosedList /\ p \in Closed /\ p \in Node
          BY <3>1, <1>8 DEF ParentsAreClosed, Closed
    <3>3. Cost(p, q) > 0 /\ gScore[p] + Cost(p, q) <= gScore[q] BY <3>1 DEF ParentsAreNearer
    <3>4. gScore'[p] \in Nat /\ gScore[p] \in Nat /\ gScore'[p] <= gScore[p]
      <4>1. CASE p \in better BY <1>2, <1>4, <1>8, <3>2, <4>1
      <4>2. CASE p \notin better BY <1>4, <1>8, <3>2, <4>2
      <4> QED BY <4>1, <4>2
    <3>5. Cost(p, q) \in Int BY <3>2, CostType
    <3>6. gScore[q] \in Nat BY <1>8
    <3> HIDE DEF p
    <3> QED BY <3>1, <3>3, <3>4, <3>5, <3>6
  <2> QED BY <2>2, <2>3
<1>17. OpenOnce' BY <1>7 DEF OpenOnce
<1>18. FoundOK' BY DEF FoundOK
<1> QED BY <1>9, <1>11, <1>13, <1>14, <1>15, <1>16, <1>17, <1>18

\* An iteration (AStar.cpp 46-100).
LEMMA IterateInv == ASSUME IInv, Iterate PROVE IInv'
<1> USE AStarAssumption DEF IInv
<1>1. /\ m_OpenList # <<>> /\ result = "searching"
      /\ m_ClosedList' = Closed /\ closedBack' = Top /\ edge' = edge
      BY DEF Iterate
<1>2. CASE Top = N
  <2>1. /\ result' = "found" /\ m_OpenList' = Pop /\ gScore' = gScore /\ Parent' = Parent
        BY <1>2 DEF Iterate
  <2>2. /\ Top \in Node /\ Reached(Top) /\ 1 \in Closed /\ Closed \subseteq Node
        /\ \A q \in Closed : gScore[q] + MaxCost <= Cardinality(Closed) * MaxCost
        /\ \A q \in Node : Reached(q) => gScore[q] <= Cardinality(Closed) * MaxCost
        BY <1>1, TakenInv, ClosedFacts
  <2>3. /\ Pop \in Seq(Node) /\ ToSet(Pop) \subseteq ToSet(m_OpenList) /\ IsInjective(Pop)
        BY <1>1, PopFacts
  <2>4. \A q : Reached(q)' <=> Reached(q) BY <2>1 DEF Reached
  <2>5. TypeOK' BY <1>1, <2>1, <2>2, <2>3 DEF TypeOK
  <2>6. ListsOK' BY <1>1, <2>1, <2>2, <2>3, <2>4 DEF ListsOK, Closed
  <2>7. StartOK' BY <1>1, <2>1, <2>2, <2>4 DEF StartOK
  <2>8. ParentsAreClosed' BY <1>1, <2>1 DEF ParentsAreClosed, Closed
  <2>9. ScoresBounded' BY <1>1, <2>1, <2>2, <2>4 DEF ScoresBounded
  <2>10. ParentsAreNearer' BY <1>1, <2>1 DEF ParentsAreNearer, Cost
  <2>11. OpenOnce' BY <2>1, <2>3 DEF OpenOnce
  <2>12. FoundOK' BY <1>1, <1>2, <2>2, <2>4 DEF FoundOK
  <2> QED BY <2>5, <2>6, <2>7, <2>8, <2>9, <2>10, <2>11, <2>12
<1>3. CASE Top # N
  <2>1. Expand(Top) /\ result' = result BY <1>3 DEF Iterate
  <2> QED BY <1>1, <2>1, ExpandInv
<1> QED BY <1>2, <1>3

LEMMA StepInv == IInv /\ [Next]_vars => IInv'
<1> SUFFICES ASSUME IInv, [Next]_vars PROVE IInv' OBVIOUS
<1>1. ASSUME UNCHANGED <<edge, m_OpenList, m_ClosedList, closedBack, gScore, Parent>>,
             result' \in {result, "none"}
      PROVE  IInv'
  <2> USE <1>1 DEF IInv
  <2>1. TypeOK' /\ FoundOK' BY DEF TypeOK, FoundOK, Reached
  <2>2. ListsOK' /\ StartOK' /\ ParentsAreClosed' /\ OpenOnce'
        BY DEF ListsOK, StartOK, ParentsAreClosed, OpenOnce, Reached
  <2>3. ScoresBounded' /\ ParentsAreNearer' BY DEF ScoresBounded, ParentsAreNearer, Reached, Cost
  <2> QED BY <2>1, <2>2, <2>3
<1>2. CASE UNCHANGED vars BY <1>1, <1>2 DEF vars
<1>3. CASE GiveUp BY <1>1, <1>3 DEF GiveUp
<1>4. CASE Iterate BY <1>4, IterateInv
<1> QED BY <1>2, <1>3, <1>4 DEF Next

\* The invariant holds throughout a search.
THEOREM Invariance == Spec => []IInv
BY InitInv, StepInv, PTL DEF Spec

\* Scores fit below numeric_limits<float>::max(), which stands for a node that was
\* not reached (AStar.cpp 26-32, 73-98).
THEOREM TypeCorrect == Spec => []TypeOK
<1>1. IInv => TypeOK BY DEF IInv
<1> QED BY <1>1, Invariance, PTL

\* The Parent of a node is nearer to the start by the cost of the edge between them
\* (AStar.cpp 73-98).
THEOREM ParentsLeadBack == Spec => []ParentsAreNearer
<1>1. IInv => ParentsAreNearer BY DEF IInv
<1> QED BY <1>1, Invariance, PTL

\* A node on the open list waits there once, is the start or has a closed Parent,
\* and its score is not that of a node that was not reached (AStar.cpp 76-98).
THEOREM WaitingWereMet == Spec => []WaitingWereReached
<1>1. ASSUME IInv, NEW q \in ToSet(m_OpenList)
      PROVE  gScore[q] < Infinity /\ (q = 1 \/ Parent[q] \in m_ClosedList)
  <2>1. q \in Node BY <1>1 DEF IInv, TypeOK, ToSet
  <2>2. Reached(q) /\ gScore[q] \in Nat BY <1>1, <2>1 DEF IInv, ListsOK, TypeOK
  <2>3. q = 1 \/ Parent[q] \in m_ClosedList
        BY <1>1, <2>1, <2>2 DEF IInv, ParentsAreClosed, Reached
  <2>4. gScore[q] <= Cardinality(m_ClosedList) * MaxCost
        BY <1>1, <2>1, <2>2 DEF IInv, ScoresBounded
  <2>5. /\ Cardinality(m_ClosedList) * MaxCost \in Nat
        /\ Cardinality(m_ClosedList) * MaxCost < Infinity
        BY <1>1, ScoreLimit DEF IInv, TypeOK
  <2>6. Infinity \in Nat BY AStarAssumption
  <2>7. gScore[q] < Infinity BY <2>2, <2>4, <2>5, <2>6
  <2> QED BY <2>3, <2>7
<1>2. IInv => WaitingWereReached BY <1>1 DEF IInv, WaitingWereReached
<1> QED BY <1>2, Invariance, PTL

-----------------------------------------------------------------------------
(* The path.  The walk from the end along Parent never meets a node twice,  *)
(* as scores get smaller: it comes to the start within N nodes.             *)

\* Induction, with the property as a set of numbers.
LEMMA NumberInduction ==
    ASSUME NEW S, 0 \in S, \A n \in Nat : n \in S => n + 1 \in S
    PROVE  Nat \subseteq S
<1> DEFINE R == OpToRel(<, Nat)
<1>1. IsWellFoundedOn(R, Nat) BY NatLessThanWellFounded
<1>2. R = {pair \in Nat \X Nat : pair[1] < pair[2]} BY DEF OpToRel
<1> HIDE DEF R
<1>3. SUFFICES ASSUME Nat \ S # {} PROVE FALSE OBVIOUS
<1>4. PICK n \in Nat \ S : \A m \in Nat \ S : <<m, n>> \notin R BY <1>1, <1>3, WFMin
<1>5. n - 1 \in Nat /\ <<n - 1, n>> \in R BY <1>2, <1>4
<1>6. n - 1 \in S BY <1>4, <1>5
<1> QED BY <1>4, <1>5, <1>6

\* The node after n on the way back, and the walks of a length.
Before(n) == IF n = NoNode THEN NoNode ELSE Parent[n]
IsWalk(back, length) ==
    back = [i \in 1 .. length |-> IF i = 1 THEN closedBack ELSE Before(back[i - 1])]

\* There is a walk of every length.
LEMMA WalkExists == ASSUME NEW length \in Nat PROVE \E back : IsWalk(back, length)
<1> DEFINE S == {n \in Nat : \E back : IsWalk(back, n)}
<1>1. 0 \in S
  <2>1. IsWalk([i \in 1 .. 0 |-> closedBack], 0) BY DEF IsWalk
  <2> QED BY <2>1
<1>2. ASSUME NEW n \in Nat, n \in S PROVE n + 1 \in S
  <2>1. PICK f : IsWalk(f, n) BY <1>2
  <2> DEFINE last == IF n + 1 = 1 THEN closedBack ELSE Before(f[n])
             g == [i \in 1 .. n + 1 |-> IF i = n + 1 THEN last ELSE f[i]]
  <2>2. \A i \in 1 .. n : f[i] = IF i = 1 THEN closedBack ELSE Before(f[i - 1]) BY <2>1 DEF IsWalk
  <2>3. ASSUME NEW i \in 1 .. n + 1
        PROVE  g[i] = IF i = 1 THEN closedBack ELSE Before(g[i - 1])
    <3>1. CASE i = n + 1 BY <3>1
    <3>2. CASE i # n + 1
      <4>1. i \in 1 .. n /\ g[i] = f[i] /\ (i # 1 => i - 1 \in 1 .. n /\ g[i - 1] = f[i - 1]) BY <3>2
      <4> QED BY <2>2, <4>1
    <3> QED BY <3>1, <3>2
  <2> HIDE DEF last
  <2>4. IsWalk(g, n + 1) BY <2>3 DEF IsWalk
  <2> QED BY <2>4
<1> HIDE DEF S
<1>3. Nat \subseteq S BY <1>1, <1>2, NumberInduction
<1> QED BY <1>3 DEF S

\* So the walk of m_Path is one.
LEMMA PathIsAWalk ==
    \E back : /\ IsWalk(back, N)
              /\ m_Path = Reverse([i \in {i \in 1 .. N : back[i] # NoNode} |-> back[i]])
<1> DEFINE back == CHOOSE back : IsWalk(back, N)
<1>1. IsWalk(back, N) BY WalkExists, AStarAssumption
<1>2. m_Path = Reverse([i \in {i \in 1 .. N : back[i] # NoNode} |-> back[i]])
      BY DEF m_Path, IsWalk, Before
<1> QED BY <1>1, <1>2

\* What a walk from the end meets: reached nodes, each nearer than those before.
LEMMA WalkDescends ==
    ASSUME IInv, result = "found", NEW back, IsWalk(back, N)
    PROVE  \A i \in 1 .. N :
              /\ back[i] \in Node \cup {NoNode}
              /\ back[i] # NoNode =>
                    /\ Reached(back[i])
                    /\ \A j \in 1 .. i - 1 : back[j] \in Node /\ gScore[back[i]] < gScore[back[j]]
<1> USE AStarAssumption DEF IInv
<1> DEFINE P(i) == /\ back[i] \in Node \cup {NoNode}
                   /\ back[i] # NoNode =>
                         /\ Reached(back[i])
                         /\ \A j \in 1 .. i - 1 : back[j] \in Node /\ gScore[back[i]] < gScore[back[j]]
           S == {i \in Nat : i \in 1 .. N => P(i)}
<1>1. \A i \in 1 .. N : back[i] = IF i = 1 THEN closedBack ELSE Before(back[i - 1]) BY DEF IsWalk
<1>2. 0 \in S OBVIOUS
<1>3. ASSUME NEW n \in Nat, n \in S PROVE n + 1 \in S
  <2> SUFFICES ASSUME n + 1 \in 1 .. N PROVE P(n + 1) OBVIOUS
  <2>1. CASE n = 0
    <3>1. back[1] = N /\ Reached(N) /\ N \in Node BY <1>1 DEF FoundOK, Node
    <3>2. \A j \in 1 .. 1 - 1 : FALSE OBVIOUS
    <3> QED BY <2>1, <3>1, <3>2
  <2>2. CASE n # 0
    <3>1. n \in 1 .. N /\ n + 1 # 1 /\ (n + 1) - 1 = n BY <2>2
    <3>2. P(n) BY <1>3, <3>1
    <3>3. back[n + 1] = Before(back[n]) BY <1>1, <3>1
    <3> HIDE DEF P
    <3>4. CASE back[n] = NoNode
      <4>1. back[n + 1] = NoNode BY <3>3, <3>4 DEF Before
      <4> QED BY <4>1 DEF P
    <3>5. CASE back[n] # NoNode
      <4> DEFINE m == back[n]  p == Parent[m]
      <4>1. m \in Node /\ back[n + 1] = p /\ p \in Node \cup {NoNode}
            BY <3>2, <3>3, <3>5 DEF P, Before, TypeOK
      <4>2. CASE p = NoNode BY <4>1, <4>2 DEF P
      <4>3. CASE p # NoNode
        <5>1. p \in Node /\ Reached(p) BY <4>1, <4>3 DEF ParentsAreClosed, ListsOK
        <5>2. Cost(p, m) > 0 /\ gScore[p] + Cost(p, m) <= gScore[m] BY <4>1, <4>3 DEF ParentsAreNearer
        <5>3. Cost(p, m) \in Int /\ gScore[p] \in Nat /\ gScore[m] \in Nat
              BY <4>1, <5>1, CostType DEF TypeOK
        <5>4. gScore[p] < gScore[m] BY <5>2, <5>3
        <5>5. ASSUME NEW j \in 1 .. (n + 1) - 1
              PROVE  back[j] \in Node /\ gScore[p] < gScore[back[j]]
          <6>1. CASE j = n BY <4>1, <5>4, <6>1
          <6>2. CASE j # n
            <7>1. j \in 1 .. n - 1 BY <6>2
            <7>2. back[j] \in Node /\ gScore[m] < gScore[back[j]] BY <3>2, <3>5, <7>1 DEF P
            <7>3. gScore[back[j]] \in Nat BY <7>2 DEF TypeOK
            <7> QED BY <5>3, <5>4, <7>2, <7>3
          <6> QED BY <6>1, <6>2
        <5> QED BY <4>1, <5>1, <5>5 DEF P
      <4> QED BY <4>2, <4>3
    <3> QED BY <3>4, <3>5
  <2> QED BY <2>1, <2>2
<1> HIDE DEF S
<1>4. Nat \subseteq S BY <1>2, <1>3, NumberInduction
<1> QED BY <1>4 DEF S

\* The walk comes to the start: N nodes without it would be N different ones.
LEMMA WalkMeetsStart ==
    ASSUME IInv, result = "found", NEW back, IsWalk(back, N)
    PROVE  \E k \in 1 .. N : back[k] = 1
<1> USE AStarAssumption
<1> SUFFICES ASSUME \A k \in 1 .. N : back[k] # 1 PROVE FALSE OBVIOUS
<1>1. \A i \in 1 .. N :
         /\ back[i] \in Node \cup {NoNode}
         /\ back[i] # NoNode => Reached(back[i])
         /\ back[i] # NoNode => \A j \in 1 .. i - 1 : gScore[back[i]] < gScore[back[j]]
      BY WalkDescends
<1>2. \A i \in 1 .. N : back[i] = IF i = 1 THEN closedBack ELSE Before(back[i - 1]) BY DEF IsWalk
<1> DEFINE S == {i \in Nat : i \in 1 .. N => back[i] # NoNode}
<1>3. 0 \in S OBVIOUS
<1>4. ASSUME NEW n \in Nat, n \in S PROVE n + 1 \in S
  <2> SUFFICES ASSUME n + 1 \in 1 .. N PROVE back[n + 1] # NoNode OBVIOUS
  <2>1. CASE n = 0 BY <1>2, <2>1 DEF IInv, FoundOK, NoNode
  <2>2. CASE n # 0
    <3>1. n \in 1 .. N /\ (n + 1) - 1 = n /\ n + 1 # 1 BY <2>2
    <3>2. back[n] # NoNode /\ back[n] # 1 /\ Reached(back[n]) BY <1>1, <1>4, <3>1
    <3> QED BY <1>2, <3>1, <3>2 DEF Reached, Before
  <2> QED BY <2>1, <2>2
<1> HIDE DEF S
<1>5. Nat \subseteq S BY <1>3, <1>4, NumberInduction
<1>6. \A i \in 1 .. N : back[i] \in Node \ {1} BY <1>1, <1>5 DEF S
<1> DEFINE f == [i \in 1 .. N |-> back[i]]
<1>7. ASSUME NEW i \in 1 .. N, NEW j \in 1 .. N, back[i] = back[j] PROVE i = j
  <2>1. gScore[back[i]] \in Nat /\ back[i] # NoNode BY <1>6 DEF IInv, TypeOK, Node, NoNode
  <2>2. CASE i < j
    <3>1. i \in 1 .. j - 1 BY <2>2
    <3> QED BY <1>1, <1>7, <2>1, <3>1
  <2>3. CASE j < i
    <3>1. j \in 1 .. i - 1 BY <2>3
    <3> QED BY <1>1, <1>7, <2>1, <3>1
  <2> QED BY <2>2, <2>3
<1>8. f \in Injection(1 .. N, Node \ {1})
  <2>1. f \in [1 .. N -> Node \ {1}] BY <1>6
  <2>2. \A i, j \in 1 .. N : f[i] = f[j] => i = j BY <1>7
  <2> QED BY <2>1, <2>2 DEF Injection, IsInjective
<1> HIDE DEF f
<1>9. IsFiniteSet(Node \ {1}) /\ Cardinality(Node \ {1}) = N - 1
  <2>1. 1 \in Node BY DEF Node
  <2> QED BY <2>1, NodesAreFinite, FS_RemoveElement
<1>10. Cardinality(1 .. N) = N BY NodesAreFinite DEF Node
<1>11. N <= N - 1 BY <1>8, <1>9, <1>10, FS_Injection
<1> QED BY <1>11

\* A path that FindPath returns leads from start to end over traversable edges,
\* although scores and Parents change while nodes wait (AStar.cpp 82-98, 103-115).
THEOREM PathsLeadToTheEnd == Spec => []PathLeadsToEnd
<1>1. IInv => PathLeadsToEnd
  <2> SUFFICES ASSUME IInv, result = "found"
               PROVE  /\ Head(m_Path) = 1 /\ Last(m_Path) = N
                      /\ \A i \in 1 .. Len(m_Path) - 1 : Cost(m_Path[i], m_Path[i + 1]) > 0
      BY DEF PathLeadsToEnd
  <2> USE AStarAssumption
  <2>1. PICK back : /\ IsWalk(back, N)
                    /\ m_Path = Reverse([i \in {i \in 1 .. N : back[i] # NoNode} |-> back[i]])
        BY PathIsAWalk
  <2>2. PICK k \in 1 .. N : back[k] = 1 BY <2>1, WalkMeetsStart
  <2>3. \A i \in 1 .. N : back[i] = IF i = 1 THEN closedBack ELSE Before(back[i - 1])
        BY <2>1 DEF IsWalk
  <2>4. \A i \in 1 .. k : back[i] \in Node
    <3>1. 1 # NoNode /\ 1 \in Node BY DEF Node, NoNode
    <3>2. \A j \in 1 .. k - 1 : back[j] \in Node BY <2>1, <2>2, <3>1, WalkDescends
    <3> QED BY <2>2, <3>1, <3>2
  <2>5. \A i \in 1 .. N : i > k => back[i] = NoNode
    <3> DEFINE S == {n \in Nat : n > k /\ n <= N => back[n] = NoNode}
    <3>1. 0 \in S OBVIOUS
    <3>2. ASSUME NEW n \in Nat, n \in S PROVE n + 1 \in S
      <4> SUFFICES ASSUME n + 1 > k, n + 1 <= N PROVE back[n + 1] = NoNode OBVIOUS
      <4>1. n + 1 \in 1 .. N /\ n + 1 # 1 /\ (n + 1) - 1 = n BY <2>2
      <4>2. back[n + 1] = Before(back[n]) BY <2>3, <4>1
      <4>3. CASE n = k BY <2>2, <4>2, <4>3 DEF IInv, StartOK, Before
      <4>4. CASE n > k BY <3>2, <4>1, <4>2, <4>4 DEF Before
      <4> QED BY <4>1, <4>3, <4>4
    <3> HIDE DEF S
    <3>3. Nat \subseteq S BY <3>1, <3>2, NumberInduction
    <3> QED BY <3>3 DEF S
  <2>6. {i \in 1 .. N : back[i] # NoNode} = 1 .. k
    <3>1. \A i \in 1 .. k : back[i] # NoNode /\ i \in 1 .. N BY <2>2, <2>4 DEF Node, NoNode
    <3> QED BY <2>5, <3>1
  <2> DEFINE met == [i \in 1 .. k |-> back[i]]
  <2>7. met \in Seq(Node) /\ Len(met) = k /\ m_Path = Reverse(met) BY <2>1, <2>4, <2>6
  <2>8. m_Path \in Seq(Node) /\ Len(m_Path) = k /\ \A i \in 1 .. k : m_Path[i] = back[k - i + 1]
    <3>1. \A i \in 1 .. k : k - i + 1 \in 1 .. k BY <2>2
    <3>2. m_Path = [i \in 1 .. k |-> met[k - i + 1]] BY <2>7 DEF Reverse
    <3>3. \A i \in 1 .. k : met[k - i + 1] = back[k - i + 1] /\ back[k - i + 1] \in Node BY <2>4, <3>1
    <3>4. m_Path = [i \in 1 .. k |-> back[k - i + 1]] BY <3>2, <3>3
    <3> QED BY <3>3, <3>4
  <2>9. Head(m_Path) = 1
    <3>1. 1 \in 1 .. k /\ k - 1 + 1 = k BY <2>2
    <3>2. m_Path[1] = 1 BY <2>2, <2>8, <3>1
    <3> QED BY <2>8, <3>2
  <2>10. Last(m_Path) = N
    <3>1. k \in 1 .. k /\ k - k + 1 = 1 /\ 1 \in 1 .. N BY <2>2
    <3>2. m_Path[k] = back[1] /\ back[1] = closedBack BY <2>3, <2>8, <3>1
    <3> QED BY <2>8, <3>2 DEF Last, IInv, FoundOK
  <2>11. ASSUME NEW i \in 1 .. k - 1 PROVE Cost(m_Path[i], m_Path[i + 1]) > 0
    <3>1. /\ i \in 1 .. k /\ i + 1 \in 1 .. k /\ k - i + 1 \in 1 .. k /\ k - i \in 1 .. k
          /\ k - i + 1 \in 1 .. N /\ k - i + 1 # 1 /\ (k - i + 1) - 1 = k - i
          /\ k - (i + 1) + 1 = k - i
          BY <2>2
    <3>2. m_Path[i] = back[k - i + 1] /\ m_Path[i + 1] = back[k - i] BY <2>8, <3>1
    <3>3. back[k - i] \in Node /\ back[k - i + 1] \in Node /\ back[k - i + 1] = Before(back[k - i])
          BY <2>3, <2>4, <3>1
    <3>4. back[k - i] # NoNode /\ back[k - i + 1] # NoNode BY <3>3 DEF Node, NoNode
    <3>5. back[k - i + 1] = Parent[back[k - i]] BY <3>3, <3>4 DEF Before
    <3> QED BY <3>2, <3>3, <3>4, <3>5 DEF IInv, ParentsAreNearer
  <2> QED BY <2>8, <2>9, <2>10, <2>11
<1> QED BY <1>1, Invariance, PTL
=============================================================================
