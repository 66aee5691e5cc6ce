-------------------------- MODULE SceneGraph_proofs -------------------------
(***************************************************************************)
(* The linked lists of SceneGraph.tla are an ordered forest, for any set   *)
(* of entities, and what is done to them implements SceneTree.tla.         *)
(***************************************************************************)
EXTENDS SceneGraph, SequenceTheorems, FiniteSetTheorems, WellFoundedInduction, TLAPS

-----------------------------------------------------------------------------
(* Registries and their links. *)

LEMMA NoHierarchyIsNoLinks == NoHierarchy \notin Links
<1>1. ASSUME NoHierarchy \in Links PROVE FALSE
  <2>1. DOMAIN NoHierarchy = {"none"} BY DEF NoHierarchy
  <2>2. DOMAIN NoHierarchy = {"parent", "first", "next", "prev"} BY <1>1 DEF Links
  <2> QED BY <2>1, <2>2
<1> QED BY <1>1

\* What an entity has is four links.
LEMMA HierType ==
    ASSUME NEW r \in Registry, NEW e, Has(r, e), r.valid \subseteq Entity
    PROVE  /\ e \in Entity /\ r.hier[e] \in Links
           /\ \A link \in {"parent", "first", "next", "prev"} : r.hier[e][link] \in Link
<1>1. e \in Entity /\ r.hier[e] \in Links BY DEF Has, Registry
<1> QED BY <1>1 DEF Links

LinkNames == {"parent", "first", "next", "prev"}

\* SetLink changes one link of one entity.
LEMMA SetLinkFacts ==
    ASSUME NEW r \in Registry, NEW e \in Link, NEW link \in LinkNames, NEW to \in Link
    PROVE  /\ SetLink(r, e, link, to) \in Registry
           /\ SetLink(r, e, link, to).valid = r.valid
           /\ SetLink(r, e, link, to).ok = r.ok
           /\ \A x : Has(SetLink(r, e, link, to), x) <=> Has(r, x)
           /\ \A x \in Entity : x # e => SetLink(r, e, link, to).hier[x] = r.hier[x]
           /\ Has(r, e) => SetLink(r, e, link, to).hier[e] = [r.hier[e] EXCEPT ![link] = to]
<1>1. CASE ~Has(r, e) BY <1>1 DEF SetLink
<1>2. CASE Has(r, e)
  <2> DEFINE h == [r.hier[e] EXCEPT ![link] = to]
             q == [r EXCEPT !.hier[e] = h]
  <2>1. SetLink(r, e, link, to) = q BY <1>2 DEF SetLink
  <2>2. e \in Entity /\ r.hier[e] \in Links /\ r.hier \in [Entity -> Links \cup {NoHierarchy}]
        BY <1>2 DEF Has, Registry
  <2>3. h \in Links BY <2>2 DEF Links, LinkNames
  <2> HIDE DEF h
  <2>4. /\ q.valid = r.valid /\ q.ok = r.ok /\ q.hier = [r.hier EXCEPT ![e] = h]
        BY DEF Registry
  <2>5. q \in Registry BY <2>2, <2>3, <2>4 DEF Registry
  <2>6. \A x \in Entity : x # e => q.hier[x] = r.hier[x] BY <2>2, <2>4
  <2>7. q.hier[e] = h BY <2>2, <2>4
  <2>8. ASSUME NEW x PROVE Has(q, x) <=> Has(r, x)
    <3>1. CASE x = e BY <1>2, <2>2, <2>3, <2>4, <2>7, <3>1, NoHierarchyIsNoLinks DEF Has
    <3>2. CASE x # e /\ x \in Entity BY <2>4, <2>6, <3>2 DEF Has
    <3>3. CASE x \notin Entity BY <2>4, <3>3 DEF Has, Registry
    <3> QED BY <3>1, <3>2, <3>3
  <2> HIDE DEF q
  <2> QED BY <2>1, <2>4, <2>5, <2>6, <2>7, <2>8, <1>2 DEF h
<1> QED BY <1>1, <1>2

\* The same, link by link.
LEMMA ToAfterSetLink ==
    ASSUME NEW r \in Registry, NEW e \in Link, NEW link \in LinkNames, NEW to \in Link,
           NEW x, NEW m \in LinkNames
    PROVE  To(SetLink(r, e, link, to), x, m) =
             IF Has(r, e) /\ x = e /\ m = link THEN to ELSE To(r, x, m)
<1> DEFINE q == SetLink(r, e, link, to)
<1>1. Has(q, x) <=> Has(r, x) BY SetLinkFacts
<1>2. Has(r, x) => x \in Entity BY DEF Has, Registry
<1>3. CASE x # e
  <2>1. \A y \in Entity : y # e => q.hier[y] = r.hier[y]
    <3>1. CASE ~Has(r, e) BY <3>1 DEF SetLink
    <3>2. CASE Has(r, e)
      <4>1. q.hier = [r.hier EXCEPT ![e] = [r.hier[e] EXCEPT ![link] = to]]
            BY <3>2 DEF SetLink, Registry
      <4>2. r.hier \in [Entity -> Links \cup {NoHierarchy}] BY DEF Registry
      <4> QED BY <4>1, <4>2
    <3> QED BY <3>1, <3>2
  <2> HIDE DEF q
  <2>2. Has(r, x) => q.hier[x] = r.hier[x] BY <1>2, <1>3, <2>1
  <2>3. To(q, x, m) = To(r, x, m) BY <1>1, <2>2 DEF To
  <2> QED BY <1>3, <2>3 DEF q
<1>4. CASE x = e /\ Has(r, e)
  <2>1. q.hier[e] = [r.hier[e] EXCEPT ![link] = to] BY <1>4, SetLinkFacts
  <2>2. r.hier[e] \in Links BY <1>4 DEF Has, Registry
  <2>3. q.hier[e][m] = IF m = link THEN to ELSE r.hier[e][m] BY <2>1, <2>2 DEF Links, LinkNames
  <2> QED BY <1>1, <1>4, <2>3 DEF To
<1>5. CASE x = e /\ ~Has(r, e) BY <1>1, <1>5 DEF To
<1> QED BY <1>3, <1>4, <1>5

LEMMA ToType ==
    ASSUME NEW r \in Registry, NEW e, NEW m \in LinkNames
    PROVE  /\ To(r, e, m) \in Link
           /\ To(r, e, m) # NoEntity => Has(r, e) /\ e \in Entity /\ To(r, e, m) \in Entity
           /\ Has(r, e) => To(r, e, m) = r.hier[e][m]
<1>1. Has(r, e) => r.hier[e][m] \in Link /\ e \in Entity
  <2>1. Has(r, e) => e \in Entity /\ r.hier[e] \in Links BY DEF Has, Registry
  <2> QED BY <2>1 DEF Links, LinkNames
<1> QED BY <1>1 DEF To, Link

LEMMA NothingIsNoEntity == ASSUME NEW r \in Registry PROVE NoEntity \notin r.valid /\ ~Has(r, NoEntity)
BY HierarchyAssumption DEF Registry, Has

LEMMA FailIfNot ==
    ASSUME NEW r \in Registry, NEW failed \in BOOLEAN, ~failed
    PROVE  FailIf(failed, r) = r
<1>1. r.ok \in BOOLEAN BY DEF Registry
<1>2. (r.ok /\ ~failed) = r.ok BY <1>1
<1>3. [r EXCEPT !.ok = r.ok] = r BY DEF Registry
<1> QED BY <1>2, <1>3 DEF FailIf

-----------------------------------------------------------------------------
(* Registries and forests. *)

\* Entities that were destroyed have no component.
Dead(r) == \A e \in Entity \ r.valid : r.hier[e] = NoHierarchy

FirstOf(s) == IF s = <<>> THEN NoEntity ELSE s[1]

\* The i-th child of p names p and its neighbours.
Placed(r, C, p, i) ==
    /\ To(r, C[p][i], "parent") = p
    /\ To(r, C[p][i], "prev") = IF i = 1 THEN NoEntity ELSE C[p][i - 1]
    /\ To(r, C[p][i], "next") = IF i = Len(C[p]) THEN NoEntity ELSE C[p][i + 1]

\* The links of the registry say what the forest C does, but for the entities X,
\* which are in no list.
Rep(r, C, X) ==
    /\ r \in Registry /\ r.ok /\ Dead(r)
    /\ C \in [Entity -> Seq(Entity)]
    /\ \A p \in Entity : IsInjective(C[p]) /\ (C[p] # <<>> => Has(r, p))
    /\ \A p \in Entity : To(r, p, "first") = FirstOf(C[p])
    /\ \A p \in Entity : \A i \in DOMAIN C[p] : Placed(r, C, p, i)
    /\ \A e \in Entity \ X :
          IF To(r, e, "parent") = NoEntity
          THEN To(r, e, "prev") = NoEntity /\ To(r, e, "next") = NoEntity
          ELSE e \in ToSet(C[To(r, e, "parent")])
    /\ \A e \in X, p \in Entity : e \notin ToSet(C[p])

\* Numbers.
LEMMA NumberInduction ==
    ASSUME NEW S, 0 \in S, \A n \in Nat : n \in S => n + 1 \in S
    PROVE  Nat \subseteq S
<1> DEFINE R == OpToRel(<, Nat)
<1>1. IsWellFoundedOn(R, Nat) BY NatLessThanWellFounded
<1>2. R = {pair \in Nat \X Nat : pair[1] < pair[2]} BY DEF OpToRel
<1> HIDE DEF R
<1>3. SUFFICES ASSUME Nat \ S # {} PROVE FALSE OBVIOUS
<1>4. PICK n \in Nat \ S : \A m \in Nat \ S : <<m, n>> \notin R BY <1>1, <1>3, WFMin
<1>5. n - 1 \in Nat /\ <<n - 1, n>> \in R BY <1>2, <1>4
<1>6. n - 1 \in S BY <1>4, <1>5
<1> QED BY <1>4, <1>5, <1>6

\* A list without repetition is shorter than a walk may be.
LEMMA ListsAreShort ==
    ASSUME NEW s \in Seq(Entity), IsInjective(s)
    PROVE  Len(s) \in Nat /\ DOMAIN s = 1 .. Len(s) /\ WalkBound \in Nat /\ Len(s) < WalkBound
<1>1. Len(s) \in Nat /\ DOMAIN s = 1 .. Len(s) /\ s \in [1 .. Len(s) -> Entity]
      BY LenProperties
<1>2. Cardinality(Entity) \in Nat BY HierarchyAssumption, FS_CardinalityType
<1>3. s \in Injection(1 .. Len(s), Entity)
  <2>1. \A i, j \in 1 .. Len(s) : s[i] = s[j] => i = j BY <1>1 DEF IsInjective
  <2> QED BY <1>1, <2>1 DEF Injection
<1>4. Cardinality(1 .. Len(s)) = Len(s) /\ IsFiniteSet(1 .. Len(s))
  <2>1. CASE Len(s) = 0
    <3>1. 1 .. Len(s) = {} BY <2>1
    <3> QED BY <2>1, <3>1, FS_EmptySet
  <2>2. CASE Len(s) # 0
    <3>1. 1 \in Int /\ Len(s) \in Int /\ ~(1 > Len(s)) /\ Len(s) - 1 + 1 = Len(s) BY <1>1, <2>2
    <3> QED BY <3>1, FS_Interval
  <2> QED BY <2>1, <2>2
<1>5. Len(s) <= Cardinality(Entity) BY <1>3, <1>4, HierarchyAssumption, FS_Injection
<1> QED BY <1>1, <1>2, <1>5 DEF WalkBound

-----------------------------------------------------------------------------
(* Walks. *)

IsWalk(r, x, link, step, bound) ==
    step = [n \in 1 .. bound |-> IF n = 1 THEN x ELSE To(r, step[n - 1], link)]

\* There is a walk of every length.
LEMMA WalkExists ==
    ASSUME NEW r, NEW x, NEW link, NEW bound \in Nat
    PROVE  \E step : IsWalk(r, x, link, step, bound)
<1> DEFINE S == {n \in Nat : \E step : IsWalk(r, x, link, step, n)}
<1>1. 0 \in S
  <2>1. IsWalk(r, x, link, [i \in 1 .. 0 |-> x], 0) BY DEF IsWalk
  <2> QED BY <2>1
<1>2. ASSUME NEW n \in Nat, n \in S PROVE n + 1 \in S
  <2>1. PICK step : step = [i \in 1 .. n |-> IF i = 1 THEN x ELSE To(r, step[i - 1], link)]
        BY <1>2 DEF IsWalk
  <2> DEFINE more == [i \in 1 .. n + 1 |->
                        IF i <= n THEN step[i] ELSE IF i = 1 THEN x ELSE To(r, step[i - 1], link)]
  <2>2. ASSUME NEW i \in 1 .. n + 1
        PROVE  more[i] = IF i = 1 THEN x ELSE To(r, more[i - 1], link)
    <3>1. CASE i = 1 BY <2>1, <3>1
    <3>2. CASE i # 1
      <4>1. i - 1 \in 1 .. n + 1 /\ i - 1 <= n BY <3>2
      <4>2. more[i - 1] = step[i - 1] BY <4>1
      <4>3. CASE i <= n
        <5>1. i \in 1 .. n BY <4>3
        <5>2. step[i] = To(r, step[i - 1], link) BY <2>1, <3>2, <5>1
        <5> QED BY <3>2, <4>2, <4>3, <5>2
      <4>4. CASE i = n + 1 BY <3>2, <4>2, <4>4
      <4> QED BY <4>3, <4>4
    <3> QED BY <3>1, <3>2
  <2>3. more = [i \in 1 .. n + 1 |-> more[i]] OBVIOUS
  <2> HIDE DEF more
  <2>4. more = [i \in 1 .. n + 1 |-> IF i = 1 THEN x ELSE To(r, more[i - 1], link)]
        BY <2>2, <2>3
  <2>5. IsWalk(r, x, link, more, n + 1) BY <2>4 DEF IsWalk
  <2> QED BY <2>5
<1> HIDE DEF S
<1>3. Nat \subseteq S BY <1>1, <1>2, NumberInduction
<1> QED BY <1>3 DEF S

\* Walk follows a list whose members are linked one to the next.
LEMMA WalkIsList ==
    ASSUME NEW r \in Registry, NEW s \in Seq(Entity), IsInjective(s), NEW link \in LinkNames,
           NEW x, x = FirstOf(s),
           \A i \in DOMAIN s : To(r, s[i], link) = IF i = Len(s) THEN NoEntity ELSE s[i + 1]
    PROVE  Walk(r, x, link) = s
<1> DEFINE size == Len(s)
<1>1. size \in Nat /\ DOMAIN s = 1 .. size /\ WalkBound \in Nat /\ size < WalkBound
      /\ \A i \in 1 .. size : s[i] \in Entity
      BY ListsAreShort
<1> DEFINE walk == CHOOSE step : IsWalk(r, x, link, step, WalkBound)
<1>2. Walk(r, x, link) = [n \in {n \in 1 .. WalkBound : walk[n] # NoEntity} |-> walk[n]]
      BY DEF Walk, IsWalk
<1>3. IsWalk(r, x, link, walk, WalkBound) BY <1>1, WalkExists
<1> HIDE DEF walk
<1>4. \A n \in 1 .. WalkBound : walk[n] = IF n = 1 THEN x ELSE To(r, walk[n - 1], link)
      BY <1>3 DEF IsWalk
<1>5. \A e \in Entity : e # NoEntity BY HierarchyAssumption
<1>6. To(r, NoEntity, link) = NoEntity BY NothingIsNoEntity DEF To
<1> DEFINE S == {n \in Nat : n + 1 <= WalkBound =>
                    walk[n + 1] = IF n + 1 <= size THEN s[n + 1] ELSE NoEntity}
<1>7. 0 \in S
  <2>1. walk[1] = x BY <1>1, <1>4
  <2>2. x = IF 1 <= size THEN s[1] ELSE NoEntity
    <3>1. s = <<>> <=> size = 0 BY EmptySeq
    <3> QED BY <1>1, <3>1 DEF FirstOf
  <2> QED BY <2>1, <2>2
<1>8. ASSUME NEW n \in Nat, n \in S PROVE n + 1 \in S
  <2> SUFFICES ASSUME (n + 1) + 1 <= WalkBound
               PROVE  walk[(n + 1) + 1] = IF (n + 1) + 1 <= size THEN s[(n + 1) + 1] ELSE NoEntity
      OBVIOUS
  <2>1. (n + 1) + 1 \in 1 .. WalkBound /\ (n + 1) + 1 # 1 /\ ((n + 1) + 1) - 1 = n + 1 BY <1>1
  <2>2. walk[(n + 1) + 1] = To(r, walk[n + 1], link) BY <1>4, <2>1
  <2>3. walk[n + 1] = IF n + 1 <= size THEN s[n + 1] ELSE NoEntity BY <1>1, <1>8
  <2>4. CASE n + 1 <= size
    <3>1. n + 1 \in DOMAIN s BY <1>1, <2>4
    <3>2. To(r, s[n + 1], link) = IF n + 1 = size THEN NoEntity ELSE s[(n + 1) + 1] BY <3>1
    <3>3. walk[(n + 1) + 1] = To(r, s[n + 1], link) BY <2>2, <2>3, <2>4
    <3>4. CASE n + 1 = size
      <4>1. ~((n + 1) + 1 <= size) BY <1>1, <3>4
      <4> QED BY <3>2, <3>3, <3>4, <4>1
    <3>5. CASE n + 1 # size
      <4>1. (n + 1) + 1 <= size
        <5>1. size \in Nat /\ n \in Nat BY <1>1
        <5> HIDE DEF size
        <5> QED BY ONLY <5>1, <2>4, <3>5
      <4> QED BY <3>2, <3>3, <3>5, <4>1
    <3> QED BY <3>4, <3>5
  <2>5. CASE n + 1 > size BY <1>1, <1>6, <2>2, <2>3, <2>5
  <2> QED BY <1>1, <2>4, <2>5
<1> HIDE DEF S
<1>9. Nat \subseteq S BY <1>7, <1>8, NumberInduction
<1>10. ASSUME NEW n \in 1 .. WalkBound
       PROVE  walk[n] = IF n <= size THEN s[n] ELSE NoEntity
  <2>1. n - 1 \in S /\ (n - 1) + 1 = n /\ n <= WalkBound BY <1>1, <1>9
  <2> QED BY <2>1 DEF S
<1>11. {n \in 1 .. WalkBound : walk[n] # NoEntity} = 1 .. size
  <2>1. \A n \in 1 .. size : n \in 1 .. WalkBound /\ walk[n] # NoEntity BY <1>1, <1>5, <1>10
  <2>2. \A n \in 1 .. WalkBound : walk[n] # NoEntity => n \in 1 .. size BY <1>1, <1>10
  <2> QED BY <2>1, <2>2
<1>12. \A n \in 1 .. size : walk[n] = s[n] BY <1>1, <1>10
<1> QED BY <1>1, <1>2, <1>11, <1>12

\* The children that a registry's links lead to are those of its forest.
LEMMA KidsAre ==
    ASSUME NEW r, NEW C, NEW X, Rep(r, C, X), NEW p \in Entity
    PROVE  Kids(r, p) = C[p]
<1>1. r \in Registry /\ C[p] \in Seq(Entity) /\ IsInjective(C[p]) BY DEF Rep
<1>2. To(r, p, "first") = FirstOf(C[p]) BY DEF Rep
<1>3. \A i \in DOMAIN C[p] : To(r, C[p][i], "next") = IF i = Len(C[p]) THEN NoEntity ELSE C[p][i + 1]
      BY DEF Rep, Placed
<1>4. "next" \in LinkNames BY DEF LinkNames
<1>5. Walk(r, To(r, p, "first"), "next") = C[p] BY <1>1, <1>2, <1>3, <1>4, WalkIsList
<1> QED BY <1>5 DEF Kids

LEMMA ForestIs == ASSUME NEW r, NEW C, NEW X, Rep(r, C, X) PROVE Forest(r) = C
<1>1. Forest(r) = [e \in Entity |-> C[e]] BY KidsAre DEF Forest
<1>2. C \in [Entity -> Seq(Entity)] BY DEF Rep
<1> QED BY <1>1, <1>2

\* What a list and its entities are.
LEMMA RepFacts ==
    ASSUME NEW r, NEW C, NEW X, Rep(r, C, X), NEW p \in Entity
    PROVE  /\ C[p] \in Seq(Entity) /\ IsInjective(C[p])
           /\ Len(C[p]) \in Nat /\ DOMAIN C[p] = 1 .. Len(C[p])
           /\ \A i \in 1 .. Len(C[p]) : C[p][i] \in Entity /\ Has(r, C[p][i]) /\ Placed(r, C, p, i)
           /\ \A e \in ToSet(C[p]) :
                 e \in Entity /\ Has(r, e) /\ Has(r, p) /\ To(r, e, "parent") = p
<1>1. r \in Registry /\ C[p] \in Seq(Entity) /\ IsInjective(C[p]) BY DEF Rep
<1>2. Len(C[p]) \in Nat /\ DOMAIN C[p] = 1 .. Len(C[p]) /\ C[p] \in [1 .. Len(C[p]) -> Entity]
      BY <1>1, LenProperties
<1>3. p # NoEntity BY HierarchyAssumption
<1>4. ASSUME NEW i \in 1 .. Len(C[p])
      PROVE  /\ C[p][i] \in Entity /\ Placed(r, C, p, i) /\ Has(r, C[p][i])
             /\ To(r, C[p][i], "parent") = p
  <2>1. C[p][i] \in Entity /\ Placed(r, C, p, i) BY <1>2 DEF Rep
  <2>2. To(r, C[p][i], "parent") = p BY <2>1 DEF Placed
  <2>3. Has(r, C[p][i]) BY <1>3, <2>2 DEF To
  <2> QED BY <2>1, <2>2, <2>3
<1>5. ASSUME NEW e \in ToSet(C[p])
      PROVE  e \in Entity /\ Has(r, e) /\ Has(r, p) /\ To(r, e, "parent") = p
  <2>1. PICK i \in 1 .. Len(C[p]) : e = C[p][i] BY <1>2 DEF ToSet
  <2>2. C[p] # <<>> BY <1>2, <2>1, EmptySeq
  <2>3. Has(r, p) BY <2>2 DEF Rep
  <2> QED BY <1>4, <2>1, <2>3
<1> QED BY <1>1, <1>2, <1>4, <1>5

\* An entity is in the list of its parent only.
LEMMA InOneList ==
    ASSUME NEW r, NEW C, NEW X, Rep(r, C, X), NEW p \in Entity, NEW e, p # To(r, e, "parent")
    PROVE  e \notin ToSet(C[p])
BY RepFacts

-----------------------------------------------------------------------------
(* A list without one of its entities. *)

LEMMA WithoutFacts ==
    ASSUME NEW s \in Seq(Entity), IsInjective(s), NEW e
    PROVE  /\ ST!Without(s, e) \in Seq(Entity)
           /\ e \notin ToSet(s) => ST!Without(s, e) = s
           /\ \A k \in 1 .. Len(s) : s[k] = e =>
                 /\ Len(ST!Without(s, e)) = Len(s) - 1
                 /\ \A i \in 1 .. Len(s) - 1 :
                       ST!Without(s, e)[i] = IF i < k THEN s[i] ELSE s[i + 1]
<1>1. Len(s) \in Nat /\ DOMAIN s = 1 .. Len(s) /\ s \in [1 .. Len(s) -> Entity] BY LenProperties
<1>2. ToSet(s) = ST!Members(s) BY DEF ToSet, ST!Members
<1>3. CASE e \notin ToSet(s)
  <2>1. ST!Without(s, e) = s BY <1>2, <1>3 DEF ST!Without
  <2>2. \A k \in 1 .. Len(s) : s[k] # e BY <1>1, <1>3 DEF ToSet
  <2> QED BY <2>1, <2>2
<1>4. CASE e \in ToSet(s)
  <2>1. PICK k \in 1 .. Len(s) : s[k] = e BY <1>1, <1>4 DEF ToSet
  <2>2. \A j \in 1 .. Len(s) : s[j] = e => j = k BY <1>1, <2>1 DEF IsInjective
  <2>3. (CHOOSE j \in DOMAIN s : s[j] = e) = k BY <1>1, <2>1, <2>2
  <2> DEFINE a == SubSeq(s, 1, k - 1)
             b == SubSeq(s, k + 1, Len(s))
  <2>4. ST!Without(s, e) = a \o b BY <1>2, <1>4, <2>3 DEF ST!Without
  <2>5. a \in Seq(Entity) /\ Len(a) = k - 1 /\ \A i \in 1 .. k - 1 : a[i] = s[i]
    <3>1. \A i \in 1 .. k - 1 : s[i] \in Entity BY <1>1
    <3>2. 1 \in Int /\ k - 1 \in Int BY <1>1
    <3>3. a \in Seq(Entity) /\ Len(a) = (IF 1 <= k - 1 THEN k - 1 - 1 + 1 ELSE 0)
          /\ \A i \in 1 .. (k - 1 - 1 + 1) : a[i] = s[1 + i - 1]
          BY <1>1, <3>1, <3>2, SubSeqProperties
    <3> QED BY <1>1, <3>3
  <2>6. b \in Seq(Entity) /\ Len(b) = Len(s) - k /\ \A i \in 1 .. Len(s) - k : b[i] = s[k + i]
    <3>1. \A i \in k + 1 .. Len(s) : s[i] \in Entity BY <1>1
    <3>2. k + 1 \in Int /\ Len(s) \in Int BY <1>1
    <3>3. b \in Seq(Entity) /\ Len(b) = (IF k + 1 <= Len(s) THEN Len(s) - (k + 1) + 1 ELSE 0)
          /\ \A i \in 1 .. (Len(s) - (k + 1) + 1) : b[i] = s[k + 1 + i - 1]
          BY <1>1, <3>1, <3>2, SubSeqProperties
    <3> HIDE DEF b
    <3>4. Len(b) = Len(s) - k
      <4>1. CASE k + 1 <= Len(s) BY <1>1, <3>3, <4>1
      <4>2. CASE k = Len(s) BY <1>1, <3>3, <4>2
      <4>3. k + 1 <= Len(s) \/ k = Len(s)
        <5>1. k \in 1 .. Len(s) /\ Len(s) \in Nat BY <1>1, <2>1
        <5> QED BY ONLY <5>1
      <4> QED BY <4>1, <4>2, <4>3
    <3>5. ASSUME NEW i \in 1 .. Len(s) - k PROVE b[i] = s[k + i]
      <4>1. i \in 1 .. (Len(s) - (k + 1) + 1) /\ k + 1 + i - 1 = k + i BY <1>1
      <4> QED BY <3>3, <4>1
    <3> QED BY <3>3, <3>4, <3>5
  <2> HIDE DEF a, b
  <2>7. /\ a \o b \in Seq(Entity) /\ Len(a \o b) = Len(s) - 1
        /\ \A i \in 1 .. Len(s) - 1 : (a \o b)[i] = IF i < k THEN s[i] ELSE s[i + 1]
    <3>1. a \o b \in Seq(Entity) /\ Len(a \o b) = Len(a) + Len(b)
          /\ \A i \in 1 .. Len(a) + Len(b) :
                (a \o b)[i] = IF i <= Len(a) THEN a[i] ELSE b[i - Len(a)]
          BY <2>5, <2>6, ConcatProperties
    <3>2. ASSUME NEW i \in 1 .. Len(s) - 1
          PROVE  (a \o b)[i] = IF i < k THEN s[i] ELSE s[i + 1]
      <4>1. CASE i < k
        <5>1. i \in 1 .. k - 1 /\ i \in 1 .. Len(a) + Len(b) /\ i <= Len(a)
              BY <1>1, <2>5, <2>6, <4>1
        <5> QED BY <2>5, <3>1, <4>1, <5>1
      <4>2. CASE i >= k
        <5>1. i - (k - 1) \in 1 .. Len(s) - k /\ k + (i - (k - 1)) = i + 1 BY <1>1, <4>2
        <5>2. b[i - (k - 1)] = s[i + 1] BY <2>6, <5>1
        <5>3. i \in 1 .. Len(a) + Len(b) /\ ~(i <= Len(a)) BY <1>1, <2>5, <2>6, <4>2
        <5> QED BY <2>5, <3>1, <4>2, <5>2, <5>3
      <4>3. i < k \/ i >= k BY <1>1
      <4> QED BY <4>1, <4>2, <4>3
    <3> QED BY <1>1, <2>5, <2>6, <3>1, <3>2
  <2> QED BY <1>4, <2>2, <2>4, <2>7
<1> QED BY <1>3, <1>4

LEMMA WithoutMembers ==
    ASSUME NEW s \in Seq(Entity), IsInjective(s), NEW e
    PROVE  IsInjective(ST!Without(s, e)) /\ ToSet(ST!Without(s, e)) = ToSet(s) \ {e}
<1> DEFINE w == ST!Without(s, e)
<1>1. Len(s) \in Nat /\ DOMAIN s = 1 .. Len(s) BY LenProperties
<1>2. w \in Seq(Entity) BY WithoutFacts
<1>3. DOMAIN w = 1 .. Len(w) BY <1>2, LenProperties
<1>4. CASE e \notin ToSet(s) BY <1>4, WithoutFacts
<1>5. CASE e \in ToSet(s)
  <2>1. PICK k \in 1 .. Len(s) : s[k] = e BY <1>1, <1>5 DEF ToSet
  <2>2. Len(w) = Len(s) - 1 /\ \A i \in 1 .. Len(s) - 1 : w[i] = IF i < k THEN s[i] ELSE s[i + 1]
        BY <2>1, WithoutFacts
  <2>3. k \in 1 .. Len(s) /\ Len(s) \in Nat BY <1>1, <2>1
  <2>4. \A i, j \in 1 .. Len(s) : s[i] = s[j] => i = j BY <1>1 DEF IsInjective
  <2> HIDE DEF w
  <2> DEFINE from(i) == IF i < k THEN i ELSE i + 1
  <2>5. \A i \in 1 .. Len(s) - 1 : from(i) \in 1 .. Len(s) /\ from(i) # k /\ w[i] = s[from(i)]
        BY <2>2, <2>3
  <2>6. \A i, j \in 1 .. Len(s) - 1 : from(i) = from(j) => i = j BY <2>3
  <2>7. \A j \in 1 .. Len(s) : j # k => \E i \in 1 .. Len(s) - 1 : from(i) = j
    <3> SUFFICES ASSUME NEW j \in 1 .. Len(s), j # k
                 PROVE  \E i \in 1 .. Len(s) - 1 : from(i) = j
        OBVIOUS
    <3>1. CASE j < k
      <4>1. j \in 1 .. Len(s) - 1 /\ from(j) = j BY <2>3, <3>1
      <4> QED BY <4>1
    <3>2. CASE j > k
      <4>1. j - 1 \in 1 .. Len(s) - 1 /\ from(j - 1) = j BY <2>3, <3>2
      <4> QED BY <4>1
    <3>3. j < k \/ j > k BY <2>3
    <3> QED BY <3>1, <3>2, <3>3
  <2> HIDE DEF from
  <2>8. IsInjective(w)
    <3>1. \A i, j \in 1 .. Len(s) - 1 : w[i] = w[j] => i = j BY <2>4, <2>5, <2>6
    <3> QED BY <1>3, <2>2, <3>1 DEF IsInjective
  <2>9. ToSet(w) = ToSet(s) \ {e}
    <3>1. \A x \in ToSet(w) : x \in ToSet(s) /\ x # e
      <4>1. \A i \in 1 .. Len(s) - 1 : w[i] \in ToSet(s) /\ w[i] # e
            BY <1>1, <2>1, <2>4, <2>5 DEF ToSet
      <4> QED BY <1>3, <2>2, <4>1 DEF ToSet
    <3>2. ASSUME NEW x \in ToSet(s), x # e PROVE x \in ToSet(w)
      <4>1. PICK j \in 1 .. Len(s) : s[j] = x BY <1>1 DEF ToSet
      <4>2. j # k BY <2>1, <3>2, <4>1
      <4>3. PICK i \in 1 .. Len(s) - 1 : from(i) = j BY <2>7, <4>1, <4>2
      <4>4. w[i] = x /\ i \in DOMAIN w BY <1>3, <2>2, <2>5, <4>1, <4>3
      <4> QED BY <4>4 DEF ToSet
    <3> QED BY <3>1, <3>2
  <2> QED BY <2>8, <2>9 DEF w
<1> QED BY <1>4, <1>5

-----------------------------------------------------------------------------
(* What a write to the registry does to the links. *)

\* What a write to links leaves alone.
Kept(q, r) == /\ q \in Registry /\ q.valid = r.valid /\ q.ok = r.ok /\ (Dead(r) => Dead(q))
              /\ \A x : Has(q, x) <=> Has(r, x)

LEMMA SetLinkKeeps ==
    ASSUME NEW r \in Registry, NEW e \in Link, NEW link \in LinkNames, NEW to \in Link
    PROVE  Kept(SetLink(r, e, link, to), r)
<1> DEFINE q == SetLink(r, e, link, to)
<1>1. q \in Registry BY SetLinkFacts
<1>2. \A x : Has(q, x) <=> Has(r, x) BY SetLinkFacts
<1>3. CASE ~Has(r, e) BY <1>1, <1>2, <1>3 DEF SetLink, Kept
<1>4. CASE Has(r, e)
  <2>1. r.hier \in [Entity -> Links \cup {NoHierarchy}] BY DEF Registry
  <2>2. q.hier = [r.hier EXCEPT ![e] = [r.hier[e] EXCEPT ![link] = to]]
        /\ q.valid = r.valid /\ q.ok = r.ok
        BY <1>4 DEF SetLink, Registry
  <2>3. e \in r.valid BY <1>4 DEF Has
  <2> HIDE DEF q
  <2>4. Dead(r) => Dead(q) BY <2>1, <2>2, <2>3 DEF Dead
  <2>5. Kept(q, r) BY <1>1, <1>2, <2>2, <2>4 DEF Kept
  <2> QED BY <2>5 DEF q
<1> QED BY <1>3, <1>4

\* b gets n as its successor by a link, and n gets c before it.
LinkUp(r, b, link, n, c) == SetLink(SetLink(r, b, link, n), n, "prev", c)

LEMMA LinkUpKeeps ==
    ASSUME NEW r \in Registry, NEW b \in Link, NEW link \in LinkNames, NEW n \in Link, NEW c \in Link
    PROVE  Kept(LinkUp(r, b, link, n, c), r)
<1>1. Kept(SetLink(r, b, link, n), r) BY SetLinkKeeps
<1>2. SetLink(r, b, link, n) \in Registry /\ "prev" \in LinkNames BY <1>1 DEF Kept, LinkNames
<1>3. Kept(LinkUp(r, b, link, n, c), SetLink(r, b, link, n)) BY <1>2, SetLinkKeeps DEF LinkUp
<1> QED BY <1>1, <1>3 DEF Kept

LEMMA ToAfterLinkUp ==
    ASSUME NEW r \in Registry, NEW b \in Link, NEW link \in LinkNames, NEW n \in Link, NEW c \in Link,
           NEW z, NEW m \in LinkNames
    PROVE  To(LinkUp(r, b, link, n, c), z, m) =
             IF Has(r, n) /\ z = n /\ m = "prev" THEN c
             ELSE IF Has(r, b) /\ z = b /\ m = link THEN n ELSE To(r, z, m)
<1> DEFINE s == SetLink(r, b, link, n)
<1>1. Kept(s, r) BY SetLinkKeeps
<1>2. To(s, z, m) = IF Has(r, b) /\ z = b /\ m = link THEN n ELSE To(r, z, m) BY ToAfterSetLink
<1>3. LinkUp(r, b, link, n, c) = SetLink(s, n, "prev", c) BY DEF LinkUp
<1> HIDE DEF s
<1>4. s \in Registry /\ (Has(s, n) <=> Has(r, n)) /\ "prev" \in LinkNames
      BY <1>1 DEF Kept, LinkNames
<1>5. To(SetLink(s, n, "prev", c), z, m) = IF Has(s, n) /\ z = n /\ m = "prev" THEN c ELSE To(s, z, m)
      BY <1>4, ToAfterSetLink
<1> QED BY <1>2, <1>3, <1>4, <1>5

\* The whole component is written.
IsPut(q, r, e, h) ==
    /\ q \in Registry /\ q.valid = r.valid /\ q.ok = r.ok /\ Dead(q) /\ q.hier[e] = h
    /\ \A x : Has(q, x) <=> Has(r, x) \/ x = e
    /\ \A x, m : To(q, x, m) = IF x = e THEN h[m] ELSE To(r, x, m)

LEMMA PutFacts ==
    ASSUME NEW r \in Registry, Dead(r), NEW e \in r.valid, NEW h \in Links,
           NEW q, q = [r EXCEPT !.hier[e] = h]
    PROVE  IsPut(q, r, e, h)
<1>1. e \in Entity /\ r.valid \subseteq Entity /\ r.hier \in [Entity -> Links \cup {NoHierarchy}]
      BY DEF Registry
<1>2. q.hier = [r.hier EXCEPT ![e] = h] /\ q.valid = r.valid /\ q.ok = r.ok /\ q \in Registry
      BY <1>1 DEF Registry
<1>3. q.hier[e] = h /\ \A x \in Entity : x # e => q.hier[x] = r.hier[x] BY <1>1, <1>2
<1>4. \A x : Has(q, x) <=> Has(r, x) \/ x = e
      BY <1>1, <1>2, <1>3, NoHierarchyIsNoLinks DEF Has
<1>5. \A x, m : To(q, x, m) = IF x = e THEN h[m] ELSE To(r, x, m)
  <2>1. \A x : Has(q, x) => x \in Entity BY <1>1, <1>2 DEF Has
  <2> QED BY <1>3, <1>4, <2>1 DEF To
<1>6. Dead(q) BY <1>2, <1>3 DEF Dead
<1> QED BY <1>2, <1>3, <1>4, <1>5, <1>6 DEF IsPut

\* The component goes.
IsDropped(q, r, e) ==
    /\ q \in Registry /\ q.valid = r.valid /\ q.ok = r.ok /\ Dead(q)
    /\ q.hier[e] = NoHierarchy
    /\ \A x : Has(q, x) <=> Has(r, x) /\ x # e
    /\ \A x, m : To(q, x, m) = IF x = e THEN NoEntity ELSE To(r, x, m)

LEMMA DropFacts ==
    ASSUME NEW r \in Registry, Dead(r), NEW e \in Entity,
           NEW q, q = [r EXCEPT !.hier[e] = NoHierarchy]
    PROVE  IsDropped(q, r, e)
<1>1. r.valid \subseteq Entity /\ r.hier \in [Entity -> Links \cup {NoHierarchy}] BY DEF Registry
<1>2. q.hier = [r.hier EXCEPT ![e] = NoHierarchy] /\ q.valid = r.valid /\ q.ok = r.ok
      /\ q \in Registry
      BY <1>1 DEF Registry
<1>3. q.hier[e] = NoHierarchy /\ \A x \in Entity : x # e => q.hier[x] = r.hier[x] BY <1>1, <1>2
<1>4. \A x : Has(q, x) <=> Has(r, x) /\ x # e BY <1>1, <1>2, <1>3 DEF Has
<1>5. \A x, m : To(q, x, m) = IF x = e THEN NoEntity ELSE To(r, x, m)
  <2>1. \A x : Has(q, x) => x \in Entity BY <1>1, <1>2 DEF Has
  <2> QED BY <1>3, <1>4, <2>1 DEF To
<1>6. Dead(q) BY <1>2, <1>3 DEF Dead
<1> QED BY <1>2, <1>3, <1>4, <1>5, <1>6 DEF IsDropped

\* Which entities are alive matters to those without a component only.
IsRevalued(q, r, v) ==
    /\ q \in Registry /\ q.valid = v /\ q.ok = r.ok /\ Dead(q) /\ q.hier = r.hier
    /\ \A x : Has(q, x) <=> Has(r, x)
    /\ \A x, m : To(q, x, m) = To(r, x, m)

LEMMA ValidFacts ==
    ASSUME NEW r \in Registry, Dead(r), NEW v \in SUBSET Entity,
           \A x \in Entity : x \in r.valid \ v \/ x \in v \ r.valid => r.hier[x] = NoHierarchy,
           NEW q, q = [r EXCEPT !.valid = v]
    PROVE  IsRevalued(q, r, v)
<1>1. r.valid \subseteq Entity BY DEF Registry
<1>2. q.hier = r.hier /\ q.valid = v /\ q.ok = r.ok /\ q \in Registry BY DEF Registry
<1>3. \A x : Has(q, x) <=> Has(r, x) BY <1>1, <1>2 DEF Has
<1>4. \A x, m : To(q, x, m) = To(r, x, m) BY <1>2, <1>3 DEF To
<1>5. Dead(q) BY <1>2 DEF Dead
<1> QED BY <1>2, <1>3, <1>4, <1>5 DEF IsRevalued

\* A forest is known by the links alone.
LEMMA RepSame ==
    ASSUME NEW r, NEW C, NEW X, Rep(r, C, X), NEW q \in Registry, q.ok, Dead(q),
           \A x \in Entity : Has(r, x) => Has(q, x),
           \A x \in Entity, m \in LinkNames : To(q, x, m) = To(r, x, m)
    PROVE  Rep(q, C, X)
<1>1. /\ C \in [Entity -> Seq(Entity)]
      /\ \A p \in Entity : IsInjective(C[p]) /\ (C[p] # <<>> => Has(q, p))
      /\ \A e \in X, p \in Entity : e \notin ToSet(C[p])
      BY DEF Rep
<1>2. /\ \A x \in Entity : /\ To(q, x, "parent") = To(r, x, "parent")
                           /\ To(q, x, "first") = To(r, x, "first")
                           /\ To(q, x, "next") = To(r, x, "next")
                           /\ To(q, x, "prev") = To(r, x, "prev")
      BY DEF LinkNames
<1>3. \A p \in Entity : To(q, p, "first") = FirstOf(C[p]) BY <1>2 DEF Rep
<1>4. ASSUME NEW p \in Entity, NEW i \in DOMAIN C[p] PROVE Placed(q, C, p, i)
  <2>1. C[p][i] \in Entity /\ Placed(r, C, p, i) BY RepFacts
  <2> QED BY <1>2, <2>1 DEF Placed
<1>5. \A e \in Entity \ X :
          IF To(q, e, "parent") = NoEntity
          THEN To(q, e, "prev") = NoEntity /\ To(q, e, "next") = NoEntity
          ELSE e \in ToSet(C[To(q, e, "parent")])
      BY <1>2 DEF Rep
<1> QED BY <1>1, <1>3, <1>4, <1>5 DEF Rep

\* An entity without links to a parent and to siblings is a root.
LEMMA RepRoot ==
    ASSUME NEW r, NEW C, NEW e \in Entity, Rep(r, C, {e}),
           To(r, e, "parent") = NoEntity, To(r, e, "prev") = NoEntity, To(r, e, "next") = NoEntity
    PROVE  Rep(r, C, {})
BY DEF Rep

-----------------------------------------------------------------------------
(* OnDestroy. *)

Rest(C, e) == [x \in Entity |-> ST!Without(C[x], e)]

\* The neighbours of the k-th child of p are linked to each other.
Spliced(r, C, p, k, n, q) ==
    \A x \in Entity :
       /\ To(q, x, "parent") = To(r, x, "parent")
       /\ To(q, x, "first") = IF x = p /\ k = 1 THEN n ELSE To(r, x, "first")
       /\ To(q, x, "next") = IF k > 1 /\ x = C[p][k - 1] THEN n ELSE To(r, x, "next")
       /\ To(q, x, "prev") = IF x = n THEN (IF k = 1 THEN NoEntity ELSE C[p][k - 1])
                             ELSE To(r, x, "prev")

LEMMA SpliceOut ==
    ASSUME NEW r, NEW C, Rep(r, C, {}), NEW p \in Entity, NEW k \in 1 .. Len(C[p]),
           NEW e, e = C[p][k], NEW q, Kept(q, r), Spliced(r, C, p, k, To(r, e, "next"), q)
    PROVE  Rep(q, Rest(C, e), {e})
<1> DEFINE n == To(r, e, "next")
<1>0. /\ q \in Registry /\ q.ok /\ Dead(q) /\ \A x : Has(q, x) <=> Has(r, x)
      /\ \A x \in Entity :
           /\ To(q, x, "parent") = To(r, x, "parent")
           /\ To(q, x, "first") = IF x = p /\ k = 1 THEN n ELSE To(r, x, "first")
           /\ To(q, x, "next") = IF k > 1 /\ x = C[p][k - 1] THEN n ELSE To(r, x, "next")
           /\ To(q, x, "prev") = IF x = n THEN (IF k = 1 THEN NoEntity ELSE C[p][k - 1])
                                 ELSE To(r, x, "prev")
      BY DEF Kept, Spliced, Rep
<1>00. n = To(r, e, "next") OBVIOUS
<1> HIDE DEF n
<1> USE <1>0, <1>00
<1> DEFINE W == Rest(C, e)
           size == Len(C[p])
<1>1. /\ size \in Nat /\ DOMAIN C[p] = 1 .. size /\ k \in 1 .. size
      /\ \A i \in 1 .. size : C[p][i] \in Entity /\ Placed(r, C, p, i)
      /\ \A i, j \in 1 .. size : C[p][i] = C[p][j] => i = j
  <2>1. Len(C[p]) \in Nat /\ DOMAIN C[p] = 1 .. Len(C[p]) /\ IsInjective(C[p])
        /\ \A i \in 1 .. Len(C[p]) : C[p][i] \in Entity /\ Placed(r, C, p, i)
        BY RepFacts
  <2> QED BY <2>1 DEF IsInjective
<1>2. \A x \in Entity : /\ C[x] \in Seq(Entity) /\ IsInjective(C[x]) /\ W[x] = ST!Without(C[x], e)
                        /\ W[x] \in Seq(Entity) /\ IsInjective(W[x])
                        /\ ToSet(W[x]) = ToSet(C[x]) \ {e}
  <2> TAKE x \in Entity
  <2>1. C[x] \in Seq(Entity) /\ IsInjective(C[x]) BY RepFacts
  <2>2. W[x] = ST!Without(C[x], e) BY DEF Rest
  <2> QED BY <2>1, <2>2, WithoutFacts, WithoutMembers
<1>3. e \in Entity /\ e \in ToSet(C[p]) /\ To(r, e, "parent") = p /\ p # NoEntity
      BY <1>1, HierarchyAssumption DEF ToSet, Placed
<1>4. \A x \in Entity : x # p => W[x] = C[x]
      BY <1>2, <1>3, InOneList, WithoutFacts
<1>5. /\ Len(W[p]) = size - 1
      /\ \A i \in 1 .. size - 1 : W[p][i] = IF i < k THEN C[p][i] ELSE C[p][i + 1]
      /\ DOMAIN W[p] = 1 .. size - 1
  <2>1. C[p] \in Seq(Entity) /\ IsInjective(C[p]) /\ W[p] = ST!Without(C[p], e)
        /\ W[p] \in Seq(Entity) /\ k \in 1 .. Len(C[p])
        BY <1>1, <1>2
  <2>2. Len(W[p]) = size - 1 /\ \A i \in 1 .. size - 1 : W[p][i] = IF i < k THEN C[p][i] ELSE C[p][i + 1]
        BY <2>1, WithoutFacts
  <2> QED BY <2>1, <2>2, LenProperties
<1>6. n = IF k = size THEN NoEntity ELSE C[p][k + 1] BY <1>1 DEF Placed
<1>7. W \in [Entity -> Seq(Entity)] BY <1>2 DEF Rest
<1> HIDE DEF W, size
<1>8. \A x \in Entity : W[x] # <<>> => Has(q, x)
  <2> SUFFICES ASSUME NEW x \in Entity, W[x] # <<>> PROVE Has(r, x) OBVIOUS
  <2>1. CASE x # p BY <1>4, <2>1 DEF Rep
  <2>2. CASE x = p BY <1>3, <2>2, RepFacts
  <2> QED BY <2>1, <2>2
<1>9. ASSUME NEW x \in Entity PROVE To(q, x, "first") = FirstOf(W[x])
  <2>1. To(r, x, "first") = FirstOf(C[x]) BY DEF Rep
  <2>2. CASE x # p BY <1>4, <2>1, <2>2
  <2>3. CASE x = p
    <3>1. W[p] = <<>> <=> size = 1
      <4>1. W[p] = <<>> <=> Len(W[p]) = 0 BY <1>2, EmptySeq
      <4> QED BY <1>1, <1>5, <4>1
    <3>2. C[p] # <<>> BY <1>1, EmptySeq DEF size
    <3>3. size # 1 => W[p][1] = IF 1 < k THEN C[p][1] ELSE C[p][2] BY <1>1, <1>5
    <3>4. k = 1 \/ k > 1 BY <1>1
    <3>5. CASE k = 1 BY <1>1, <1>6, <2>3, <3>1, <3>3, <3>5 DEF FirstOf
    <3>6. CASE k > 1
      <4>1. size # 1 BY <1>1, <3>6
      <4> QED BY <1>1, <2>1, <2>3, <3>1, <3>2, <3>3, <3>6, <4>1 DEF FirstOf
    <3> QED BY <3>4, <3>5, <3>6
  <2> QED BY <2>2, <2>3
<1>10. \A x \in Entity : \A y \in ToSet(C[x]) : x # p => y # n /\ (k > 1 => y # C[p][k - 1])
  <2>1. SUFFICES ASSUME NEW x \in Entity, NEW y \in ToSet(C[x]), x # p
                 PROVE  y # n /\ (k > 1 => y # C[p][k - 1])
        OBVIOUS
  <2>2. \A i \in 1 .. size : To(r, C[p][i], "parent") = p BY <1>1 DEF Placed
  <2>3. To(r, y, "parent") = x /\ y \in Entity BY RepFacts
  <2>4. \A i \in 1 .. size : y # C[p][i] BY ONLY <2>1, <2>2, <2>3
  <2>5. k > 1 => k - 1 \in 1 .. size BY <1>1
  <2>6. k # size => k + 1 \in 1 .. size BY <1>1
  <2> QED BY <1>6, <2>3, <2>4, <2>5, <2>6, HierarchyAssumption
<1>11. ASSUME NEW x \in Entity, NEW i \in DOMAIN W[x] PROVE Placed(q, W, x, i)
  <2>1. CASE x # p
    <3>1. W[x] = C[x] BY <1>4, <2>1
    <3>2. i \in 1 .. Len(C[x]) /\ C[x][i] \in Entity /\ Placed(r, C, x, i) /\ C[x][i] \in ToSet(C[x])
          BY <3>1, RepFacts DEF ToSet
    <3>3. C[x][i] # n /\ (k > 1 => C[x][i] # C[p][k - 1]) BY <1>10, <2>1, <3>2
    <3> QED BY <3>1, <3>2, <3>3 DEF Placed
  <2>2. CASE x = p
    <3>1. i \in 1 .. size - 1 BY <1>5, <2>2
    <3>2. CASE i < k
      <4>1. i \in 1 .. size /\ W[p][i] = C[p][i] /\ i # size BY <1>1, <1>5, <3>1, <3>2
      <4>2. C[p][i] # n
        <5>1. CASE k = size BY <1>1, <1>6, <4>1, <5>1, HierarchyAssumption
        <5>2. CASE k # size
          <6>1. k + 1 \in 1 .. size /\ i # k + 1 BY <1>1, <3>2, <5>2
          <6> QED BY <1>1, <1>6, <4>1, <5>2, <6>1
        <5> QED BY <5>1, <5>2
      <4>3. /\ To(r, C[p][i], "parent") = p
            /\ To(r, C[p][i], "prev") = IF i = 1 THEN NoEntity ELSE C[p][i - 1]
            /\ To(r, C[p][i], "next") = C[p][i + 1]
            BY <1>1, <4>1 DEF Placed, size
      <4>4. To(q, W[p][i], "parent") = p
            /\ To(q, W[p][i], "prev") = IF i = 1 THEN NoEntity ELSE C[p][i - 1]
            BY <1>1, <4>1, <4>2, <4>3
      <4>5. i # 1 => W[p][i - 1] = C[p][i - 1]
        <5>1. i # 1 => i - 1 \in 1 .. size - 1 /\ i - 1 < k BY ONLY <1>1, <3>1, <3>2
        <5> QED BY ONLY <1>5, <5>1
      <4>6. To(q, W[p][i], "next") = IF i = size - 1 THEN NoEntity ELSE W[p][i + 1]
        <5>1. CASE i = k - 1
          <6>1. k > 1 /\ To(q, C[p][i], "next") = n BY <1>1, <4>1, <5>1
          <6>2. CASE k = size BY <1>1, <1>6, <4>1, <5>1, <6>1, <6>2
          <6>3. CASE k # size
            <7>1. i + 1 \in 1 .. size - 1 /\ i + 1 = k /\ i # size - 1 BY <1>1, <5>1, <6>3
            <7>2. W[p][i + 1] = C[p][k + 1] BY <1>1, <1>5, <7>1
            <7> QED BY <1>6, <4>1, <6>1, <6>3, <7>1, <7>2
          <6> QED BY <6>2, <6>3
        <5>2. CASE i # k - 1
          <6>1. k - 1 \in 1 .. size /\ i + 1 < k /\ i + 1 \in 1 .. size - 1 /\ i # size - 1
                BY <1>1, <3>1, <3>2, <5>2
          <6>2. C[p][i] # C[p][k - 1] BY <1>1, <4>1, <5>2, <6>1
          <6>3. To(q, C[p][i], "next") = C[p][i + 1] BY <1>1, <4>1, <4>3, <6>2
          <6>4. W[p][i + 1] = C[p][i + 1] BY <1>5, <6>1
          <6> QED BY <4>1, <6>1, <6>3, <6>4
        <5> QED BY <5>1, <5>2
      <4> QED BY <1>5, <2>2, <4>4, <4>5, <4>6 DEF Placed
    <3>3. CASE i >= k
      <4>1. i + 1 \in 1 .. size /\ W[p][i] = C[p][i + 1] /\ i + 1 # 1 BY <1>1, <1>5, <3>1, <3>3
      <4>2. /\ To(r, C[p][i + 1], "parent") = p
            /\ To(r, C[p][i + 1], "prev") = C[p][i]
            /\ To(r, C[p][i + 1], "next") = IF i + 1 = size THEN NoEntity ELSE C[p][(i + 1) + 1]
        <5>1. (i + 1) - 1 = i BY <3>1
        <5> QED BY <1>1, <4>1, <5>1 DEF Placed, size
      <4>3. To(q, W[p][i], "parent") = p BY <1>1, <4>1, <4>2
      <4>4. To(q, W[p][i], "next") = IF i = size - 1 THEN NoEntity ELSE W[p][i + 1]
        <5>1. k > 1 => C[p][i + 1] # C[p][k - 1] BY <1>1, <3>1, <3>3, <4>1
        <5>2. To(q, C[p][i + 1], "next") = IF i + 1 = size THEN NoEntity ELSE C[p][(i + 1) + 1]
              BY <1>1, <4>1, <4>2, <5>1
        <5>3. i + 1 = size <=> i = size - 1 BY <1>1, <3>1
        <5>4. i # size - 1 => W[p][i + 1] = C[p][(i + 1) + 1] BY <1>1, <1>5, <3>1, <3>3
        <5> QED BY <4>1, <5>2, <5>3, <5>4
      <4>5. To(q, W[p][i], "prev") = IF i = 1 THEN NoEntity ELSE W[p][i - 1]
        <5>1. CASE i = k
          <6>1. k # size /\ n = C[p][i + 1] BY <1>1, <1>6, <3>1, <5>1
          <6>2. To(q, W[p][i], "prev") = IF i = 1 THEN NoEntity ELSE C[p][i - 1]
                BY <1>1, <4>1, <5>1, <6>1
          <6>3. i # 1 => W[p][i - 1] = C[p][i - 1] BY <1>1, <1>5, <3>1, <5>1
          <6> QED BY <6>2, <6>3
        <5>2. CASE i # k
          <6>1. C[p][i + 1] # n
            <7>1. CASE k = size BY <1>1, <3>1, <3>3, <7>1
            <7>2. CASE k # size
              <8>1. k + 1 \in 1 .. size /\ i + 1 # k + 1 BY <1>1, <3>1, <5>2, <7>2
              <8> QED BY <1>1, <1>6, <4>1, <7>2, <8>1
            <7> QED BY <7>1, <7>2
          <6>2. To(q, W[p][i], "prev") = C[p][i] BY <1>1, <4>1, <4>2, <6>1
          <6>3. i # 1 /\ i - 1 \in 1 .. size - 1 /\ ~(i - 1 < k) /\ (i - 1) + 1 = i
                BY <1>1, <3>1, <3>3, <5>2
          <6>4. W[p][i - 1] = C[p][i] BY <1>5, <6>3
          <6> QED BY <6>2, <6>3, <6>4
        <5> QED BY <5>1, <5>2
      <4> QED BY <1>5, <2>2, <4>3, <4>4, <4>5 DEF Placed
    <3>4. i < k \/ i >= k BY <1>1, <3>1
    <3> QED BY <3>2, <3>3, <3>4
  <2> QED BY <2>1, <2>2
<1>12. ASSUME NEW y \in Entity \ {e}
       PROVE  IF To(q, y, "parent") = NoEntity
              THEN To(q, y, "prev") = NoEntity /\ To(q, y, "next") = NoEntity
              ELSE y \in ToSet(W[To(q, y, "parent")])
  <2>1. To(q, y, "parent") = To(r, y, "parent") OBVIOUS
  <2>2. CASE To(r, y, "parent") = NoEntity
    <3>1. To(r, y, "prev") = NoEntity /\ To(r, y, "next") = NoEntity BY <2>2 DEF Rep
    <3>2. \A i \in 1 .. size : y # C[p][i]
      <4>1. \A i \in 1 .. size : To(r, C[p][i], "parent") = p BY <1>1 DEF Placed
      <4> QED BY ONLY <1>3, <2>2, <4>1
    <3>3. y # n /\ (k > 1 => y # C[p][k - 1])
      <4>1. k > 1 => k - 1 \in 1 .. size BY <1>1
      <4>2. k # size => k + 1 \in 1 .. size BY <1>1
      <4> QED BY <1>6, <3>2, <4>1, <4>2, HierarchyAssumption
    <3> QED BY <2>1, <2>2, <3>1, <3>3
  <2>3. CASE To(r, y, "parent") # NoEntity
    <3>1. y \in ToSet(C[To(r, y, "parent")]) BY <2>3 DEF Rep
    <3>2. To(r, y, "parent") \in Entity BY <2>3, ToType DEF Rep, LinkNames
    <3> QED BY <1>2, <2>1, <2>3, <3>1, <3>2
  <2> QED BY <2>2, <2>3
<1>13. \A x \in Entity : e \notin ToSet(W[x]) BY <1>2
<1>14. Rep(q, W, {e}) BY <1>2, <1>7, <1>8, <1>9, <1>11, <1>12, <1>13 DEF Rep
<1> QED BY <1>14 DEF W

\* A root is in no list.
LEMMA RootFacts ==
    ASSUME NEW r, NEW C, Rep(r, C, {}), NEW e \in Entity, To(r, e, "parent") = NoEntity
    PROVE  Rep(r, C, {e}) /\ Rest(C, e) = C
<1>1. \A p \in Entity : e \notin ToSet(C[p]) BY HierarchyAssumption, InOneList
<1>2. Rep(r, C, {e}) BY <1>1 DEF Rep
<1>3. C \in [Entity -> Seq(Entity)] BY DEF Rep
<1>4. \A x \in Entity : ST!Without(C[x], e) = C[x] BY <1>1, RepFacts, WithoutFacts
<1> QED BY <1>2, <1>3, <1>4 DEF Rest

\* OnDestroy takes e out of the list of its parent, and writes nothing of its own.
LEMMA OnDestroyFacts ==
    ASSUME NEW r, NEW C, Rep(r, C, {}), NEW e, Has(r, e), NEW q, q = OnDestroy(r, e)
    PROVE  /\ Rep(q, Rest(C, e), {e}) /\ q.valid = r.valid
           /\ \A x : Has(q, x) <=> Has(r, x)
<1> DEFINE h == r.hier[e]
<1>1. r \in Registry /\ r.ok /\ Dead(r) /\ e \in Entity BY DEF Rep, Registry, Has
<1>2. /\ h.parent = To(r, e, "parent") /\ h.prev = To(r, e, "prev")
      /\ h.next = To(r, e, "next") /\ h.first = To(r, e, "first")
      BY DEF To
<1>3. h.parent \in Link /\ h.prev \in Link /\ h.next \in Link BY <1>1, <1>2, ToType DEF LinkNames
<1> DEFINE p == h.parent
           n == h.next
<1>4. CASE p = NoEntity
  <2>1. h.prev = NoEntity BY <1>1, <1>2, <1>4 DEF Rep
  <2>2. h.prev \notin r.valid /\ ~Has(r, p) BY <1>1, <1>4, <2>1, NothingIsNoEntity
  <2>3. q = r BY <2>2 DEF OnDestroy
  <2> QED BY <1>1, <1>2, <1>4, <2>3, RootFacts
<1>5. CASE p # NoEntity
  <2>1. e \in ToSet(C[p]) /\ p \in Entity BY <1>1, <1>2, <1>3, <1>5 DEF Rep, Link
  <2>2. PICK k \in 1 .. Len(C[p]) : e = C[p][k] BY <2>1, RepFacts DEF ToSet
  <2>3. /\ Len(C[p]) \in Nat /\ k \in 1 .. Len(C[p])
        /\ \A i \in 1 .. Len(C[p]) : C[p][i] \in Entity /\ Has(r, C[p][i]) /\ Placed(r, C, p, i)
        BY <2>1, <2>2, RepFacts
  <2>4. Has(r, p) BY <2>1, RepFacts
  <2>5. /\ h.prev = IF k = 1 THEN NoEntity ELSE C[p][k - 1]
        /\ n = IF k = Len(C[p]) THEN NoEntity ELSE C[p][k + 1]
        BY <1>2, <2>2, <2>3 DEF Placed
  <2>6. n = NoEntity \/ Has(r, n)
    <3>1. k # Len(C[p]) => k + 1 \in 1 .. Len(C[p]) BY <2>3
    <3> QED BY <2>3, <2>5, <3>1
  <2>7. n \in r.valid \cup {NoEntity} BY <2>6 DEF Has
  <2>8. CASE k = 1
    <3> DEFINE s == LinkUp(r, p, "first", n, NoEntity)
    <3>1. "first" \in LinkNames /\ "prev" \in LinkNames /\ NoEntity \in Link BY DEF LinkNames, Link
    <3>2. Kept(s, r) BY <1>1, <1>3, <3>1, LinkUpKeeps
    <3>8. ASSUME NEW z, NEW m \in LinkNames
          PROVE  To(s, z, m) = IF Has(r, n) /\ z = n /\ m = "prev" THEN NoEntity
                     ELSE IF Has(r, p) /\ z = p /\ m = "first" THEN n ELSE To(r, z, m)
      <4>1. r \in Registry /\ p \in Link /\ n \in Link /\ NoEntity \in Link BY <1>1, <1>3, <3>1 DEF Link
      <4> HIDE DEF p, n
      <4> QED BY <3>1, <4>1, ToAfterLinkUp
    <3>3. h.prev \notin r.valid BY <1>1, <2>5, <2>8, NothingIsNoEntity
    <3>4. q = FailIf(n \notin r.valid \cup {NoEntity}, s) BY <2>4, <3>3 DEF OnDestroy, LinkUp
    <3> HIDE DEF s
    <3>5. q = s BY <2>7, <3>2, <3>4, FailIfNot DEF Kept
    <3>6. Spliced(r, C, p, k, n, q)
          BY <2>4, <2>6, <2>8, <3>5, <3>8, HierarchyAssumption DEF LinkNames, Spliced
    <3>7. Rep(q, Rest(C, e), {e})
      <4>1. Kept(q, r) BY <3>2, <3>5
      <4>2. Spliced(r, C, p, k, To(r, e, "next"), q) BY <1>2, <3>6
      <4> HIDE DEF p, n, h
      <4> QED BY <2>1, <2>2, <4>1, <4>2, SpliceOut
    <3> QED BY <3>2, <3>5, <3>7 DEF Kept
  <2>9. CASE k # 1
    <3> DEFINE a == h.prev
               s == LinkUp(r, a, "next", n, a)
    <3>1. "next" \in LinkNames /\ "prev" \in LinkNames BY DEF LinkNames
    <3>2. a = C[p][k - 1] /\ Has(r, a) /\ a \in r.valid /\ k > 1
      <4>1. k - 1 \in 1 .. Len(C[p]) /\ k > 1 BY <2>3, <2>9
      <4> QED BY <2>3, <2>5, <2>9, <4>1 DEF Has
    <3>3. Kept(s, r) BY <1>1, <1>3, <3>1, LinkUpKeeps
    <3>8. ASSUME NEW z, NEW m \in LinkNames
          PROVE  To(s, z, m) = IF Has(r, n) /\ z = n /\ m = "prev" THEN a
                     ELSE IF Has(r, a) /\ z = a /\ m = "next" THEN n ELSE To(r, z, m)
      <4>1. r \in Registry /\ a \in Link /\ n \in Link /\ NoEntity \in Link BY <1>1, <1>3, <3>1 DEF Link
      <4> HIDE DEF a, n
      <4> QED BY <3>1, <4>1, ToAfterLinkUp
    <3>4. q = FailIf(n \notin r.valid \cup {NoEntity}, s) BY <3>2 DEF OnDestroy, LinkUp
    <3> HIDE DEF s
    <3>5. q = s BY <2>7, <3>3, <3>4, FailIfNot DEF Kept
    <3>6. Spliced(r, C, p, k, n, q)
          BY <2>6, <2>9, <3>2, <3>5, <3>8, HierarchyAssumption DEF LinkNames, Spliced
    <3>7. Rep(q, Rest(C, e), {e})
      <4>1. Kept(q, r) BY <3>3, <3>5
      <4>2. Spliced(r, C, p, k, To(r, e, "next"), q) BY <1>2, <3>6
      <4> HIDE DEF p, n, h
      <4> QED BY <2>1, <2>2, <4>1, <4>2, SpliceOut
    <3> QED BY <3>3, <3>5, <3>7 DEF Kept
  <2> QED BY <2>8, <2>9
<1> QED BY <1>4, <1>5

-----------------------------------------------------------------------------
(* OnConstruct. *)

Grown(C, p, e) == [C EXCEPT ![p] = Append(@, e)]

LEMMA GrownMembers ==
    ASSUME NEW C, C \in [Entity -> Seq(Entity)], NEW p \in Entity, NEW e \in Entity
    PROVE  \A x \in Entity : \A y :
              y \in ToSet(Grown(C, p, e)[x]) <=> y \in ToSet(C[x]) \/ (x = p /\ y = e)
<1> TAKE x \in Entity
<1>1. C[p] \in Seq(Entity) /\ Len(C[p]) \in Nat /\ DOMAIN C[p] = 1 .. Len(C[p])
      BY LenProperties
<1> DEFINE g == Append(C[p], e)
           size == Len(C[p])
<1>2. /\ g \in Seq(Entity) /\ Len(g) = size + 1 /\ DOMAIN g = 1 .. size + 1
      /\ \A i \in 1 .. size : g[i] = C[p][i]
      /\ g[size + 1] = e
  <2>1. /\ g \in Seq(Entity) /\ Len(g) = size + 1
        /\ \A i \in 1 .. size : g[i] = C[p][i]
        /\ g[size + 1] = e
        BY <1>1, AppendProperties
  <2> QED BY <2>1, LenProperties
<1>3. Grown(C, p, e)[x] = IF x = p THEN g ELSE C[x] BY <1>2 DEF Grown
<1> HIDE DEF g, size
<1>4. ToSet(g) = ToSet(C[p]) \cup {e}
  <2>1. size \in Nat /\ DOMAIN C[p] = 1 .. size BY <1>1 DEF size
  <2>2. \A y \in ToSet(g) : y \in ToSet(C[p]) \cup {e}
    <3> TAKE y \in ToSet(g)
    <3>1. PICK i \in 1 .. size + 1 : y = g[i] BY <1>2 DEF ToSet
    <3>2. i \in 1 .. size \/ i = size + 1 BY <2>1
    <3> QED BY <1>2, <2>1, <3>1, <3>2 DEF ToSet
  <2>3. \A y \in ToSet(C[p]) : y \in ToSet(g)
    <3> TAKE y \in ToSet(C[p])
    <3>1. PICK i \in 1 .. size : y = C[p][i] BY <2>1 DEF ToSet
    <3>2. y = g[i] /\ i \in DOMAIN g BY <1>2, <2>1, <3>1
    <3> QED BY <3>2 DEF ToSet
  <2>4. e \in ToSet(g)
    <3>1. size + 1 \in DOMAIN g /\ g[size + 1] = e BY <1>2, <2>1
    <3> QED BY <3>1 DEF ToSet
  <2> QED BY <2>2, <2>3, <2>4
<1> QED BY <1>3, <1>4 DEF g

\* The links of p and of its last child, when e comes after that one.
Appended(r, C, p, e, q) ==
    \A x \in Entity :
       /\ To(q, x, "parent") = To(r, x, "parent")
       /\ To(q, x, "first") = IF x = p /\ C[p] = <<>> THEN e ELSE To(r, x, "first")
       /\ To(q, x, "next") = IF C[p] # <<>> /\ x = C[p][Len(C[p])] THEN e ELSE To(r, x, "next")
       /\ To(q, x, "prev") = IF C[p] # <<>> /\ x = e THEN C[p][Len(C[p])] ELSE To(r, x, "prev")

LEMMA SpliceIn ==
    ASSUME NEW r, NEW C, NEW p \in Entity, NEW e \in Entity, Rep(r, C, {e}), Has(r, p),
           To(r, e, "parent") = p, To(r, e, "prev") = NoEntity, To(r, e, "next") = NoEntity,
           NEW q, Kept(q, r), Appended(r, C, p, e, q)
    PROVE  Rep(q, Grown(C, p, e), {})
<1> DEFINE G == Grown(C, p, e)
           size == Len(C[p])
           last == C[p][size]
<1>1. /\ q \in Registry /\ q.ok /\ Dead(q) /\ \A x : Has(q, x) <=> Has(r, x)
      /\ \A x \in Entity :
           /\ To(q, x, "parent") = To(r, x, "parent")
           /\ To(q, x, "first") = IF x = p /\ C[p] = <<>> THEN e ELSE To(r, x, "first")
           /\ To(q, x, "next") = IF C[p] # <<>> /\ x = last THEN e ELSE To(r, x, "next")
           /\ To(q, x, "prev") = IF C[p] # <<>> /\ x = e THEN last ELSE To(r, x, "prev")
      BY DEF Kept, Appended, Rep
<1>2. /\ C \in [Entity -> Seq(Entity)] /\ C[p] \in Seq(Entity)
      /\ size \in Nat /\ DOMAIN C[p] = 1 .. size
      /\ \A i \in 1 .. size : C[p][i] \in Entity /\ Placed(r, C, p, i)
      /\ \A i, j \in 1 .. size : C[p][i] = C[p][j] => i = j
      /\ \A i \in 1 .. size : C[p][i] # e
  <2>1. /\ C[p] \in Seq(Entity) /\ IsInjective(C[p])
        /\ Len(C[p]) \in Nat /\ DOMAIN C[p] = 1 .. Len(C[p])
        /\ \A i \in 1 .. Len(C[p]) : C[p][i] \in Entity /\ Placed(r, C, p, i)
        BY RepFacts
  <2>2. C \in [Entity -> Seq(Entity)] /\ e \notin ToSet(C[p]) BY DEF Rep
  <2> QED BY <2>1, <2>2 DEF IsInjective, ToSet
<1>3. /\ G \in [Entity -> Seq(Entity)] /\ \A x \in Entity : x # p => G[x] = C[x]
      /\ G[p] = Append(C[p], e)
      /\ Len(G[p]) = size + 1 /\ DOMAIN G[p] = 1 .. size + 1 /\ G[p] # <<>>
      /\ \A i \in 1 .. size : G[p][i] = C[p][i]
      /\ G[p][size + 1] = e
  <2>1. G[p] = Append(C[p], e) /\ \A x \in Entity : x # p => G[x] = C[x] BY <1>2 DEF Grown
  <2>2. /\ G[p] \in Seq(Entity) /\ G[p] # <<>> /\ Len(G[p]) = size + 1
        /\ \A i \in 1 .. size : G[p][i] = C[p][i]
        /\ G[p][size + 1] = e
        BY <1>2, <2>1, AppendProperties
  <2>3. G \in [Entity -> Seq(Entity)] BY <1>2, <2>1, <2>2 DEF Grown
  <2> QED BY <2>1, <2>2, <2>3, LenProperties
<1>4. C[p] = <<>> <=> size = 0 BY <1>2, EmptySeq
<1>5. p # NoEntity /\ e # NoEntity BY HierarchyAssumption
<1> HIDE DEF G, size, last
<1>6. last = C[p][size] BY DEF last
<1>7. \A x \in Entity : ToSet(G[x]) = IF x = p THEN ToSet(C[p]) \cup {e} ELSE ToSet(C[x])
  <2>1. \A x \in Entity : \A y :
           y \in ToSet(G[x]) <=> y \in ToSet(C[x]) \/ (x = p /\ y = e)
    <3>1. C \in [Entity -> Seq(Entity)] /\ p \in Entity /\ e \in Entity BY <1>2
    <3>2. \A x \in Entity : \A y :
              y \in ToSet(Grown(C, p, e)[x]) <=> y \in ToSet(C[x]) \/ (x = p /\ y = e)
          BY ONLY <3>1, GrownMembers
    <3> QED BY <3>2 DEF G
  <2> QED BY <2>1
<1>8. ASSUME NEW x \in Entity PROVE IsInjective(G[x]) /\ (G[x] # <<>> => Has(q, x))
  <2>1. CASE x # p BY <1>1, <1>3, <2>1 DEF Rep
  <2>2. CASE x = p
    <3>1. \A i, j \in 1 .. size + 1 : G[p][i] = G[p][j] => i = j
      <4> SUFFICES ASSUME NEW i \in 1 .. size + 1, NEW j \in 1 .. size + 1, G[p][i] = G[p][j]
                   PROVE  i = j
          OBVIOUS
      <4>1. (i \in 1 .. size \/ i = size + 1) /\ (j \in 1 .. size \/ j = size + 1) BY <1>2
      <4>2. CASE i \in 1 .. size /\ j \in 1 .. size BY <1>2, <1>3, <4>2
      <4>3. CASE i = size + 1 /\ j \in 1 .. size BY <1>2, <1>3, <4>3
      <4>4. CASE i \in 1 .. size /\ j = size + 1 BY <1>2, <1>3, <4>4
      <4> QED BY <4>1, <4>2, <4>3, <4>4
    <3> QED BY <1>1, <1>3, <2>2, <3>1 DEF IsInjective
  <2> QED BY <2>1, <2>2
<1>9. ASSUME NEW x \in Entity PROVE To(q, x, "first") = FirstOf(G[x])
  <2>1. To(r, x, "first") = FirstOf(C[x]) BY DEF Rep
  <2>2. CASE x # p BY <1>1, <1>3, <2>1, <2>2
  <2>3. CASE x = p
    <3>1. CASE size = 0 BY <1>1, <1>3, <1>4, <2>3, <3>1 DEF FirstOf
    <3>2. CASE size # 0
      <4>1. 1 \in 1 .. size BY <1>2, <3>2
      <4> QED BY <1>1, <1>3, <1>4, <2>1, <2>3, <3>2, <4>1 DEF FirstOf
    <3> QED BY <3>1, <3>2
  <2> QED BY <2>2, <2>3
<1>10. ASSUME NEW x \in Entity, NEW i \in DOMAIN G[x] PROVE Placed(q, G, x, i)
  <2>1. CASE x # p
    <3>1. G[x] = C[x] BY <1>3, <2>1
    <3>2. i \in 1 .. Len(C[x]) /\ C[x][i] \in Entity /\ Placed(r, C, x, i) /\ C[x][i] \in ToSet(C[x])
          BY <3>1, RepFacts DEF ToSet
    <3>3. C[x][i] # e BY <3>2 DEF Rep
    <3>4. size # 0 => C[x][i] # last
      <4>1. size # 0 => size \in 1 .. size BY <1>2
      <4>2. size # 0 => To(r, last, "parent") = p BY <1>2, <1>6, <4>1 DEF Placed
      <4>3. To(r, C[x][i], "parent") = x BY <3>2 DEF Placed
      <4> QED BY <2>1, <4>2, <4>3
    <3> QED BY <1>1, <1>4, <3>1, <3>2, <3>3, <3>4 DEF Placed
  <2>2. CASE x = p /\ i = size + 1
    <3>1. G[x][i] = e /\ i = Len(G[x]) /\ i - 1 = size BY <1>2, <1>3, <2>2
    <3>2. To(q, e, "parent") = p BY <1>1
    <3>3. To(q, e, "next") = NoEntity
      <4>1. size # 0 => e # last
        <5>1. size # 0 => size \in 1 .. size BY <1>2
        <5> QED BY <1>2, <1>6, <5>1
      <4> QED BY <1>1, <1>4, <4>1
    <3>4. To(q, e, "prev") = IF i = 1 THEN NoEntity ELSE G[x][i - 1]
      <4>1. CASE size = 0 BY <1>1, <1>4, <2>2, <4>1
      <4>2. CASE size # 0
        <5>1. size \in 1 .. size /\ i # 1 BY <1>2, <2>2, <4>2
        <5>2. G[x][i - 1] = last BY <1>3, <1>6, <2>2, <3>1, <5>1
        <5> QED BY <1>1, <1>4, <4>2, <5>1, <5>2
      <4> QED BY <4>1, <4>2
    <3> QED BY <2>2, <3>1, <3>2, <3>3, <3>4 DEF Placed
  <2>3. CASE x = p /\ i # size + 1
    <3>1. i \in 1 .. size /\ size # 0 /\ i # Len(G[x]) BY <1>2, <1>3, <2>3
    <3>2. G[x][i] = C[p][i] /\ C[p][i] \in Entity /\ C[p][i] # e BY <1>2, <1>3, <2>3, <3>1
    <3>3. /\ To(r, C[p][i], "parent") = p
          /\ To(r, C[p][i], "prev") = IF i = 1 THEN NoEntity ELSE C[p][i - 1]
          /\ To(r, C[p][i], "next") = IF i = size THEN NoEntity ELSE C[p][i + 1]
          BY <1>2, <3>1 DEF Placed, size
    <3>4. To(q, C[p][i], "parent") = p /\ To(q, C[p][i], "prev") = To(r, C[p][i], "prev")
          BY <1>1, <3>2, <3>3
    <3>5. i # 1 => G[x][i - 1] = C[p][i - 1]
      <4>1. i # 1 => i - 1 \in 1 .. size BY <1>2, <3>1
      <4> QED BY <1>3, <2>3, <4>1
    <3>6. To(q, C[p][i], "next") = G[x][i + 1]
      <4>1. CASE i = size BY <1>1, <1>3, <1>4, <1>6, <2>3, <3>1, <3>2, <4>1
      <4>2. CASE i # size
        <5>1. i + 1 \in 1 .. size /\ size \in 1 .. size BY <1>2, <3>1, <4>2
        <5>2. C[p][i] # last BY <1>2, <1>6, <3>1, <4>2, <5>1
        <5> QED BY <1>1, <1>3, <2>3, <3>2, <3>3, <4>2, <5>1, <5>2
      <4> QED BY <4>1, <4>2
    <3> QED BY <2>3, <3>1, <3>2, <3>3, <3>4, <3>5, <3>6 DEF Placed
  <2> QED BY <2>1, <2>2, <2>3
<1>11. ASSUME NEW y \in Entity
       PROVE  IF To(q, y, "parent") = NoEntity
              THEN To(q, y, "prev") = NoEntity /\ To(q, y, "next") = NoEntity
              ELSE y \in ToSet(G[To(q, y, "parent")])
  <2>1. To(q, y, "parent") = To(r, y, "parent") BY <1>1
  <2>2. CASE y = e BY <1>5, <1>7, <2>1, <2>2
  <2>3. CASE y # e /\ To(r, y, "parent") = NoEntity
    <3>1. To(r, y, "prev") = NoEntity /\ To(r, y, "next") = NoEntity BY <2>3 DEF Rep
    <3>2. size # 0 => y # last
      <4>1. size # 0 => size \in 1 .. size BY <1>2
      <4>2. size # 0 => To(r, last, "parent") = p BY <1>2, <1>6, <4>1 DEF Placed
      <4> QED BY <1>5, <2>3, <4>2
    <3> QED BY <1>1, <1>4, <2>1, <2>3, <3>1, <3>2
  <2>4. CASE y # e /\ To(r, y, "parent") # NoEntity
    <3>1. y \in ToSet(C[To(r, y, "parent")]) BY <2>4 DEF Rep
    <3>2. To(r, y, "parent") \in Entity BY <2>4, ToType DEF Rep, LinkNames
    <3> QED BY <1>7, <2>1, <2>4, <3>1, <3>2
  <2> QED BY <2>2, <2>3, <2>4
<1>12. Rep(q, G, {}) BY <1>1, <1>3, <1>8, <1>9, <1>10, <1>11 DEF Rep
<1> QED BY <1>12 DEF G

LEMMA ChildOfType == ASSUME NEW p \in Link PROVE ChildOf(p) \in Links
BY DEF ChildOf, Links, Link

IsJoined(q, r, C, p, e) ==
    /\ Rep(q, Grown(C, p, e), {}) /\ q.valid = r.valid
    /\ \A x : Has(q, x) <=> Has(r, x) \/ x = p

\* OnConstruct makes e the last child of the parent it names, which gets a
\* component when it had none.
LEMMA OnConstructFacts ==
    ASSUME NEW r, NEW C, NEW e \in Entity, Rep(r, C, {e}), Has(r, e), NEW p \in r.valid, p # e,
           To(r, e, "parent") = p, To(r, e, "prev") = NoEntity, To(r, e, "next") = NoEntity,
           NEW q, q = OnConstruct(r, e)
    PROVE  IsJoined(q, r, C, p, e)
<1>1. r \in Registry /\ r.ok /\ Dead(r) /\ p \in Entity /\ e \in Entity BY DEF Rep, Registry
<1>2. p # NoEntity /\ p \in Link /\ e \in Link /\ NoEntity \in Link
      BY <1>1, HierarchyAssumption DEF Link
<1> DEFINE t == IF Has(r, p) THEN r ELSE [r EXCEPT !.hier[p] = ChildOf(NoEntity)]
<1>3. /\ t \in Registry /\ t.ok /\ Dead(t) /\ t.valid = r.valid
      /\ \A x : Has(t, x) <=> Has(r, x) \/ x = p
      /\ \A x : \A m \in LinkNames : To(t, x, m) = To(r, x, m)
  <2>1. CASE Has(r, p) BY <1>1, <2>1
  <2>2. CASE ~Has(r, p)
    <3> DEFINE h == ChildOf(NoEntity)
    <3>1. h \in Links BY <1>2, ChildOfType
    <3>2. \A m \in LinkNames : h[m] = NoEntity BY DEF ChildOf, LinkNames
    <3>3. t = [r EXCEPT !.hier[p] = h] BY <2>2
    <3> HIDE DEF t, h
    <3>4. /\ t \in Registry /\ t.valid = r.valid /\ t.ok = r.ok /\ Dead(t)
          /\ \A x : Has(t, x) <=> Has(r, x) \/ x = p
          /\ \A x, m : To(t, x, m) = IF x = p THEN h[m] ELSE To(r, x, m)
      <4>1. IsPut(t, r, p, h) BY <1>1, <3>1, <3>3, PutFacts
      <4> QED BY <4>1 DEF IsPut
    <3>5. \A m : To(r, p, m) = NoEntity BY <2>2 DEF To
    <3> QED BY <1>1, <3>2, <3>4, <3>5
  <2> QED BY <2>1, <2>2
<1>4. r.hier[e].parent = p BY DEF To
<1>5. q = Join(t, e, p, Kids(t, p)) BY <1>2, <1>4 DEF OnConstruct
<1> HIDE DEF t
<1>6. Rep(t, C, {e}) BY <1>3, RepSame
<1>7. Kids(t, p) = C[p] BY <1>1, <1>6, KidsAre
<1>8. Has(t, p) /\ C[p] \in Seq(Entity) /\ IsInjective(C[p])
      /\ To(t, e, "parent") = p /\ To(t, e, "prev") = NoEntity /\ To(t, e, "next") = NoEntity
      BY <1>1, <1>3, <1>6, RepFacts DEF LinkNames
<1>9. Has(t, e) BY <1>3
<1>10. Kept(q, t) /\ Appended(t, C, p, e, q)
  <2>1. CASE C[p] = <<>>
    <3>1. q = SetLink(t, p, "first", e) BY <1>5, <1>7, <2>1 DEF Join
    <3>2. "first" \in LinkNames BY DEF LinkNames
    <3>3. Kept(q, t) BY <1>1, <1>2, <1>3, <3>1, <3>2, SetLinkKeeps DEF Link
    <3>4. ASSUME NEW x, NEW m \in LinkNames
          PROVE  To(q, x, m) = IF x = p /\ m = "first" THEN e ELSE To(t, x, m)
      <4>1. To(q, x, m) = IF Has(t, p) /\ x = p /\ m = "first" THEN e ELSE To(t, x, m)
            BY <1>2, <1>3, <3>1, <3>2, ToAfterSetLink
      <4> QED BY <1>8, <4>1
    <3> QED BY <2>1, <3>3, <3>4 DEF Appended, LinkNames
  <2>2. CASE C[p] # <<>>
    <3> DEFINE last == C[p][Len(C[p])]
               s == LinkUp(t, last, "next", e, last)
    <3>1. Len(C[p]) \in 1 .. Len(C[p])
      <4>1. Len(C[p]) \in Nat /\ Len(C[p]) # 0 BY <1>8, <2>2, EmptySeq, LenProperties
      <4> QED BY <4>1
    <3>2. last \in Entity /\ Has(t, last) /\ last = Last(C[p]) BY <1>1, <1>6, <3>1, RepFacts DEF Last
    <3>3. WalkEnds(t, C[p])
      <4>1. Len(C[p]) < WalkBound BY <1>8, ListsAreShort
      <4>2. \A x \in ToSet(C[p]) : x \in t.valid BY <1>1, <1>6, RepFacts DEF Has
      <4> QED BY <4>1, <4>2 DEF WalkEnds
    <3>4. q = FailIf(~WalkEnds(t, C[p]) \/ ~Has(t, last), s)
          BY <1>5, <1>7, <2>2, <3>2 DEF Join, LinkUp
    <3>5. last \in Link /\ "next" \in LinkNames BY <3>2 DEF Link, LinkNames
    <3> HIDE DEF last
    <3>6. Kept(s, t) BY <1>2, <1>3, <3>5, LinkUpKeeps
    <3>7. ASSUME NEW x, NEW m \in LinkNames
          PROVE  To(s, x, m) = IF x = e /\ m = "prev" THEN last
                               ELSE IF x = last /\ m = "next" THEN e ELSE To(t, x, m)
      <4>1. To(s, x, m) = IF Has(t, e) /\ x = e /\ m = "prev" THEN last
                          ELSE IF Has(t, last) /\ x = last /\ m = "next" THEN e ELSE To(t, x, m)
            BY <1>2, <1>3, <3>5, ToAfterLinkUp
      <4> QED BY <1>9, <3>2, <4>1
    <3> HIDE DEF s
    <3>8. q = s BY <3>2, <3>3, <3>4, <3>6, FailIfNot DEF Kept
    <3>9. Appended(t, C, p, e, q) BY <2>2, <3>7, <3>8 DEF Appended, LinkNames, last
    <3> QED BY <3>6, <3>8, <3>9
  <2> QED BY <2>1, <2>2
<1>11. Rep(q, Grown(C, p, e), {}) BY <1>1, <1>6, <1>8, <1>10, SpliceIn
<1> QED BY <1>3, <1>10, <1>11 DEF Kept, IsJoined

-----------------------------------------------------------------------------
(* The calls of the registry. *)

\* e is a member of no list of the rest, and the rest has the other members.
LEMMA RestFacts ==
    ASSUME NEW r, NEW C, NEW X, Rep(r, C, X), NEW e, NEW p \in Entity
    PROVE  /\ Rest(C, e)[p] = ST!Without(C[p], e)
           /\ ToSet(Rest(C, e)[p]) = ToSet(C[p]) \ {e}
           /\ e \notin ToSet(C[p]) => Rest(C, e)[p] = C[p]
           /\ C[p] = <<>> => Rest(C, e)[p] = <<>>
<1>1. C[p] \in Seq(Entity) /\ IsInjective(C[p]) BY RepFacts
<1>2. Rest(C, e)[p] = ST!Without(C[p], e) BY DEF Rest
<1>3. ToSet(ST!Without(C[p], e)) = ToSet(C[p]) \ {e} BY <1>1, WithoutMembers
<1>4. e \notin ToSet(C[p]) => ST!Without(C[p], e) = C[p] BY <1>1, WithoutFacts
<1>5. C[p] = <<>> => ToSet(C[p]) = {} BY DEF ToSet
<1> QED BY <1>2, <1>3, <1>4, <1>5

\* The component of an entity that is in no list, with its first child only.
Loose(q, r, C, e, p) ==
    /\ Rep(q, C, {e}) /\ q.valid = r.valid /\ \A x : Has(q, x) <=> Has(r, x) \/ x = e
    /\ To(q, e, "parent") = p /\ To(q, e, "prev") = NoEntity /\ To(q, e, "next") = NoEntity

LEMMA RepPut ==
    ASSUME NEW r, NEW C, NEW e \in r.valid, Rep(r, C, {e}), NEW p \in Link,
           NEW h, h = [ChildOf(p) EXCEPT !.first = To(r, e, "first")],
           NEW q, q = [r EXCEPT !.hier[e] = h]
    PROVE  Loose(q, r, C, e, p)
<1>1. r \in Registry /\ r.ok /\ Dead(r) /\ e \in Entity BY DEF Rep, Registry
<1>2. To(r, e, "first") \in Link /\ NoEntity \in Link BY <1>1, ToType DEF LinkNames, Link
<1>3. /\ h \in Links /\ h["parent"] = p /\ h["prev"] = NoEntity /\ h["next"] = NoEntity
      /\ h["first"] = To(r, e, "first")
      BY <1>2 DEF ChildOf, Links
<1>4. /\ q \in Registry /\ q.valid = r.valid /\ q.ok = r.ok /\ Dead(q)
      /\ \A x : Has(q, x) <=> Has(r, x) \/ x = e
      /\ \A x, m : To(q, x, m) = IF x = e THEN h[m] ELSE To(r, x, m)
  <2>1. IsPut(q, r, e, h) BY <1>1, <1>3, PutFacts
  <2> QED BY <2>1 DEF IsPut
<1>5. /\ C \in [Entity -> Seq(Entity)]
      /\ \A x \in Entity : IsInjective(C[x]) /\ (C[x] # <<>> => Has(q, x))
      /\ \A x \in Entity : e \notin ToSet(C[x])
      BY <1>4 DEF Rep
<1>6. ASSUME NEW x \in Entity PROVE To(q, x, "first") = FirstOf(C[x])
  <2>1. To(r, x, "first") = FirstOf(C[x]) BY DEF Rep
  <2> QED BY <1>3, <1>4, <2>1
<1>7. ASSUME NEW x \in Entity, NEW i \in DOMAIN C[x] PROVE Placed(q, C, x, i)
  <2>1. Placed(r, C, x, i) /\ C[x][i] # e BY <1>5 DEF Rep, ToSet
  <2> QED BY <1>4, <2>1 DEF Placed
<1>8. \A x \in Entity \ {e} :
          IF To(q, x, "parent") = NoEntity
          THEN To(q, x, "prev") = NoEntity /\ To(q, x, "next") = NoEntity
          ELSE x \in ToSet(C[To(q, x, "parent")])
  <2> TAKE x \in Entity \ {e}
  <2>1. IF To(r, x, "parent") = NoEntity
        THEN To(r, x, "prev") = NoEntity /\ To(r, x, "next") = NoEntity
        ELSE x \in ToSet(C[To(r, x, "parent")])
        BY DEF Rep
  <2>2. \A m : To(q, x, m) = To(r, x, m) BY <1>4
  <2> QED BY ONLY <2>1, <2>2
<1>9. Rep(q, C, {e}) BY <1>1, <1>4, <1>5, <1>6, <1>7, <1>8 DEF Rep
<1> QED BY <1>3, <1>4, <1>9 DEF Loose

IsUnlinked(q, r, C, e) ==
    /\ Rep(q, C, {}) /\ q.valid = r.valid /\ q.hier[e] = NoHierarchy
    /\ \A x : Has(q, x) <=> Has(r, x) /\ x # e

\* The component of an entity that is in no list and has no children goes.
LEMMA RepDrop ==
    ASSUME NEW r, NEW C, NEW e \in Entity, Rep(r, C, {e}), C[e] = <<>>,
           NEW q, q = [r EXCEPT !.hier[e] = NoHierarchy]
    PROVE  IsUnlinked(q, r, C, e)
<1>1. r \in Registry /\ r.ok /\ Dead(r) BY DEF Rep
<1>2. /\ q \in Registry /\ q.valid = r.valid /\ q.ok = r.ok /\ Dead(q)
      /\ q.hier[e] = NoHierarchy
      /\ \A x : Has(q, x) <=> Has(r, x) /\ x # e
      /\ \A x, m : To(q, x, m) = IF x = e THEN NoEntity ELSE To(r, x, m)
  <2>1. IsDropped(q, r, e) BY <1>1, DropFacts
  <2> QED BY <2>1 DEF IsDropped
<1>3. /\ C \in [Entity -> Seq(Entity)]
      /\ \A x \in Entity : IsInjective(C[x]) /\ (C[x] # <<>> => Has(q, x))
      /\ \A x \in Entity : e \notin ToSet(C[x])
      BY <1>2 DEF Rep
<1>4. ASSUME NEW x \in Entity PROVE To(q, x, "first") = FirstOf(C[x])
  <2>1. To(r, x, "first") = FirstOf(C[x]) BY DEF Rep
  <2> QED BY <1>2, <2>1 DEF FirstOf
<1>5. ASSUME NEW x \in Entity, NEW i \in DOMAIN C[x] PROVE Placed(q, C, x, i)
  <2>1. Placed(r, C, x, i) /\ C[x][i] # e BY <1>3 DEF Rep, ToSet
  <2> QED BY <1>2, <2>1 DEF Placed
<1>6. \A x \in Entity :
          IF To(q, x, "parent") = NoEntity
          THEN To(q, x, "prev") = NoEntity /\ To(q, x, "next") = NoEntity
          ELSE x \in ToSet(C[To(q, x, "parent")])
  <2> TAKE x \in Entity
  <2>1. CASE x = e BY <1>2, <2>1
  <2>2. CASE x # e
    <3>1. x \in Entity \ {e} BY <2>2
    <3>2. IF To(r, x, "parent") = NoEntity
          THEN To(r, x, "prev") = NoEntity /\ To(r, x, "next") = NoEntity
          ELSE x \in ToSet(C[To(r, x, "parent")])
          BY <3>1 DEF Rep
    <3> QED BY <1>2, <2>2, <3>2
  <2> QED BY <2>1, <2>2
<1>7. Rep(q, C, {}) BY <1>1, <1>2, <1>3, <1>4, <1>5, <1>6 DEF Rep
<1> QED BY <1>2, <1>7 DEF IsUnlinked

LEMMA ReparentFacts ==
    ASSUME NEW r, NEW C, Rep(r, C, {}), NEW e, Has(r, e),
           NEW p \in r.valid \cup {NoEntity}, p # e, NEW q, q = Reparent(r, e, p)
    PROVE  /\ Rep(q, IF p = NoEntity THEN Rest(C, e) ELSE Grown(Rest(C, e), p, e), {})
           /\ q.valid = r.valid
<1> DEFINE d == OnDestroy(r, e)
           h == [ChildOf(p) EXCEPT !.first = d.hier[e].first]
           s == [d EXCEPT !.hier[e] = h]
<1>1. Rep(d, Rest(C, e), {e}) /\ d.valid = r.valid /\ \A x : Has(d, x) <=> Has(r, x)
      BY OnDestroyFacts
<1>2. q = IF p = NoEntity THEN s ELSE OnConstruct(s, e) BY DEF Reparent
<1>3. r \in Registry /\ e \in r.valid /\ e \in Entity /\ p \in Link
      BY DEF Rep, Registry, Has, Link
<1>4. d.hier[e].first = To(d, e, "first") BY <1>1 DEF To
<1> HIDE DEF d
<1>5. h = [ChildOf(p) EXCEPT !.first = To(d, e, "first")] BY <1>4
<1> HIDE DEF h
<1>6. /\ Rep(s, Rest(C, e), {e}) /\ s.valid = r.valid /\ \A x : Has(s, x) <=> Has(r, x) \/ x = e
      /\ To(s, e, "parent") = p /\ To(s, e, "prev") = NoEntity /\ To(s, e, "next") = NoEntity
  <2> DEFINE D == Rest(C, e)
  <2>1. Rep(d, D, {e}) /\ e \in d.valid BY <1>1, <1>3
  <2> HIDE DEF D
  <2>2. s = [d EXCEPT !.hier[e] = h] OBVIOUS
  <2> HIDE DEF s
  <2>3. /\ Rep(s, D, {e}) /\ s.valid = d.valid /\ \A x : Has(s, x) <=> Has(d, x) \/ x = e
        /\ To(s, e, "parent") = p /\ To(s, e, "prev") = NoEntity /\ To(s, e, "next") = NoEntity
    <3>1. Loose(s, d, D, e, p) BY <1>3, <1>5, <2>1, <2>2, RepPut
    <3> QED BY <3>1 DEF Loose
  <2> QED BY <1>1, <2>3 DEF D
<1> HIDE DEF s
<1>7. CASE p = NoEntity BY <1>2, <1>3, <1>6, <1>7, RepRoot
<1>8. CASE p # NoEntity
  <2>1. q = OnConstruct(s, e) /\ p \in s.valid /\ Has(s, e) BY <1>2, <1>6, <1>8
  <2>2. Rep(q, Grown(Rest(C, e), p, e), {}) /\ q.valid = s.valid
    <3> DEFINE D == Rest(C, e)
    <3>1. /\ e \in Entity /\ Rep(s, D, {e})
          /\ To(s, e, "parent") = p /\ To(s, e, "prev") = NoEntity /\ To(s, e, "next") = NoEntity
          BY <1>3, <1>6
    <3> HIDE DEF D
    <3>2. IsJoined(q, s, D, p, e) BY <2>1, <3>1, OnConstructFacts
    <3> QED BY <3>2 DEF IsJoined, D
  <2> QED BY <1>6, <1>8, <2>2
<1> QED BY <1>7, <1>8

LEMMA EmplaceFacts ==
    ASSUME NEW r, NEW C, Rep(r, C, {}), NEW e \in r.valid, ~Has(r, e),
           NEW p \in r.valid, p # e, NEW q, q = Emplace(r, AllHooks, e, p)
    PROVE  Rep(q, Grown(C, p, e), {}) /\ q.valid = r.valid /\ Rest(C, e) = C /\ C[e] = <<>>
<1>1. r \in Registry /\ e \in Entity /\ p \in Link BY DEF Rep, Registry, Link
<1>2. To(r, e, "parent") = NoEntity /\ To(r, e, "first") = NoEntity BY DEF To
<1>3. Rep(r, C, {e}) /\ Rest(C, e) = C BY <1>1, <1>2, RootFacts
<1> DEFINE h == ChildOf(p)
           s == [r EXCEPT !.hier[e] = h]
<1>4. h = [ChildOf(p) EXCEPT !.first = To(r, e, "first")] BY <1>2 DEF ChildOf
<1>5. q = OnConstruct(s, e) BY DEF Emplace, AllHooks
<1>6. s = [r EXCEPT !.hier[e] = h] OBVIOUS
<1> HIDE DEF h, s
<1>7. /\ Rep(s, C, {e}) /\ s.valid = r.valid /\ \A x : Has(s, x) <=> Has(r, x) \/ x = e
      /\ To(s, e, "parent") = p /\ To(s, e, "prev") = NoEntity /\ To(s, e, "next") = NoEntity
  <2>1. Loose(s, r, C, e, p) BY <1>1, <1>3, <1>4, <1>6, RepPut
  <2> QED BY <2>1 DEF Loose
<1>8. p \in s.valid /\ Has(s, e) BY <1>7
<1>9. Rep(q, Grown(C, p, e), {}) /\ q.valid = s.valid
  <2>1. IsJoined(q, s, C, p, e) BY <1>1, <1>5, <1>7, <1>8, OnConstructFacts
  <2> QED BY <2>1 DEF IsJoined
<1>10. C[e] = <<>> BY <1>1 DEF Rep
<1> QED BY <1>3, <1>7, <1>9, <1>10

LEMMA RemoveFacts ==
    ASSUME NEW r, NEW C, Rep(r, C, {}), NEW e \in Entity, C[e] = <<>>,
           NEW q, q = RemoveHierarchy(r, AllHooks, e)
    PROVE  Rep(q, Rest(C, e), {}) /\ q.valid = r.valid /\ q.hier[e] = NoHierarchy
<1> DEFINE d == IF Has(r, e) THEN OnDestroy(r, e) ELSE r
           D == Rest(C, e)
<1>1. q = [d EXCEPT !.hier[e] = NoHierarchy] BY DEF RemoveHierarchy, AllHooks
<1>2. Rep(d, D, {e}) /\ d.valid = r.valid
  <2>1. CASE Has(r, e) BY <2>1, OnDestroyFacts
  <2>2. CASE ~Has(r, e)
    <3>1. To(r, e, "parent") = NoEntity BY <2>2 DEF To
    <3> QED BY <2>2, <3>1, RootFacts
  <2> QED BY <2>1, <2>2
<1>3. D[e] = <<>> BY RestFacts
<1> HIDE DEF d, D
<1>4. Rep(q, D, {}) /\ q.valid = d.valid /\ q.hier[e] = NoHierarchy
  <2>1. e \in Entity /\ Rep(d, D, {e}) /\ D[e] = <<>> BY <1>2, <1>3
  <2>2. IsUnlinked(q, d, D, e) BY ONLY <1>1, <2>1, RepDrop
  <2> QED BY ONLY <2>2 DEF IsUnlinked
<1> QED BY <1>2, <1>4 DEF D

LEMMA DestroyFacts ==
    ASSUME NEW r, NEW C, Rep(r, C, {}), NEW e \in r.valid, C[e] = <<>>,
           NEW q, q = Destroy(r, AllHooks, e)
    PROVE  Rep(q, Rest(C, e), {}) /\ q.valid = r.valid \ {e}
<1> DEFINE s == RemoveHierarchy(r, AllHooks, e)
           v == r.valid \ {e}
<1>1. r \in Registry /\ e \in Entity /\ r.valid \subseteq Entity BY DEF Rep, Registry
<1>2. Rep(s, Rest(C, e), {}) /\ s.valid = r.valid /\ s.hier[e] = NoHierarchy BY <1>1, RemoveFacts
<1>3. q = [s EXCEPT !.valid = s.valid \ {e}] BY DEF Destroy
<1> HIDE DEF s
<1>4. q = [s EXCEPT !.valid = v] BY <1>2, <1>3
<1>5. s \in Registry /\ s.ok /\ Dead(s) BY <1>2 DEF Rep
<1>6. /\ q \in Registry /\ q.valid = v /\ q.ok = s.ok /\ Dead(q)
      /\ \A x : Has(q, x) <=> Has(s, x)
      /\ \A x, m : To(q, x, m) = To(s, x, m)
  <2>1. v \in SUBSET Entity BY <1>1
  <2>2. \A x \in Entity : x \in s.valid \ v \/ x \in v \ s.valid => s.hier[x] = NoHierarchy
        BY <1>2
  <2> HIDE DEF v
  <2> QED
    <3>1. IsRevalued(q, s, v) BY <1>4, <1>5, <2>1, <2>2, ValidFacts
    <3> QED BY <3>1 DEF IsRevalued
<1> QED BY <1>2, <1>5, <1>6, RepSame

\* A new entity is alone.
LEMMA NewFacts ==
    ASSUME NEW r, NEW C, Rep(r, C, {}), NEW e \in Entity \ r.valid, NEW q, q = New(r, e)
    PROVE  Rep(q, C, {}) /\ q.valid = r.valid \cup {e} /\ ~Has(q, e) /\ \A x : Has(q, x) <=> Has(r, x)
<1> DEFINE v == r.valid \cup {e}
<1>1. r \in Registry /\ r.ok /\ Dead(r) BY DEF Rep
<1>2. q = [r EXCEPT !.valid = v] BY DEF New
<1>3. v \in SUBSET Entity BY <1>1 DEF Registry
<1>4. \A x \in Entity : x \in r.valid \ v \/ x \in v \ r.valid => r.hier[x] = NoHierarchy
      BY <1>1 DEF Dead
<1> HIDE DEF v
<1>5. /\ q \in Registry /\ q.valid = v /\ q.ok = r.ok /\ Dead(q)
      /\ \A x : Has(q, x) <=> Has(r, x)
      /\ \A x, m : To(q, x, m) = To(r, x, m)
  <2>1. IsRevalued(q, r, v) BY <1>1, <1>2, <1>3, <1>4, ValidFacts
  <2> QED BY <2>1 DEF IsRevalued
<1>6. ~Has(r, e) BY DEF Has
<1>7. Rep(q, C, {}) BY <1>1, <1>5, RepSame
<1> QED BY <1>5, <1>6, <1>7 DEF v

-----------------------------------------------------------------------------
(* No entity is above itself: the children of an entity have higher ranks. *)

Ranks(C, rank) == rank \in [Entity -> Nat]
                  /\ \A p \in Entity : \A e \in ToSet(C[p]) : rank[p] < rank[e]
Ranked(C) == \E rank : Ranks(C, rank)

LEMMA FewerAreRanked ==
    ASSUME NEW C, Ranked(C), NEW D, \A p \in Entity : ToSet(D[p]) \subseteq ToSet(C[p])
    PROVE  Ranked(D)
BY DEF Ranked, Ranks

\* e joins p, which is not among the entities D below e.
LEMMA GrownIsRanked ==
    ASSUME NEW C \in [Entity -> Seq(Entity)], Ranked(C), NEW p \in Entity, NEW D \in SUBSET Entity,
           NEW e \in D, p \notin D, \A x \in D : ToSet(C[x]) \subseteq D
    PROVE  Ranked(Grown(C, p, e))
<1>1. PICK rank : Ranks(C, rank) BY DEF Ranked
<1>2. rank \in [Entity -> Nat] /\ \A x \in Entity : \A y \in ToSet(C[x]) : rank[x] < rank[y]
      BY <1>1 DEF Ranks
<1> DEFINE new == [x \in Entity |-> IF x \in D THEN rank[x] + rank[p] + 1 ELSE rank[x]]
<1>3. new \in [Entity -> Nat] BY <1>2
<1>4. ASSUME NEW x \in Entity, NEW y \in ToSet(Grown(C, p, e)[x]) PROVE new[x] < new[y]
  <2>1. y \in ToSet(C[x]) \/ (x = p /\ y = e)
    <3>1. e \in Entity OBVIOUS
    <3>2. \A z \in Entity : \A v :
             v \in ToSet(Grown(C, p, e)[z]) <=> v \in ToSet(C[z]) \/ (z = p /\ v = e)
          BY <3>1, GrownMembers
    <3> QED BY <1>4, <3>2
  <2>2. CASE x = p /\ y = e
    <3>1. new[x] = rank[p] /\ new[y] = rank[e] + rank[p] + 1 BY <2>2
    <3>2. rank[e] \in Nat /\ rank[p] \in Nat BY <1>2
    <3> QED BY <3>1, <3>2
  <2>3. CASE y \in ToSet(C[x])
    <3>1. y \in Entity
      <4>1. C[x] \in Seq(Entity) OBVIOUS
      <4>2. PICK i \in DOMAIN C[x] : y = C[x][i] BY <2>3 DEF ToSet
      <4> QED BY <4>1, <4>2
    <3>2. rank[x] < rank[y] /\ rank[x] \in Nat /\ rank[y] \in Nat /\ rank[p] \in Nat
          BY <1>2, <2>3, <3>1
    <3>3. x \in D => y \in D BY <2>3
    <3>4. new[x] = IF x \in D THEN rank[x] + rank[p] + 1 ELSE rank[x] OBVIOUS
    <3>5. new[y] = IF y \in D THEN rank[y] + rank[p] + 1 ELSE rank[y] BY <3>1
    <3> HIDE DEF new
    <3> QED BY <3>2, <3>3, <3>4, <3>5
  <2> QED BY <2>1, <2>2, <2>3
<1> HIDE DEF new
<1> QED BY <1>3, <1>4 DEF Ranked, Ranks

-----------------------------------------------------------------------------
(* The way up. *)

IsChain(r, rank, s, x) ==
    /\ s \in Seq(Entity) /\ IsInjective(s) /\ FirstOf(s) = To(r, x, "parent")
    /\ \A i \in DOMAIN s : To(r, s[i], "parent") = IF i = Len(s) THEN NoEntity ELSE s[i + 1]
    /\ \A i \in DOMAIN s : rank[s[i]] < rank[x]

LEMMA ParentFacts ==
    ASSUME NEW r, NEW C, Rep(r, C, {}), NEW x \in Entity, To(r, x, "parent") # NoEntity
    PROVE  To(r, x, "parent") \in r.valid /\ x \in ToSet(C[To(r, x, "parent")])
<1> DEFINE p == To(r, x, "parent")
<1>1. p \in Entity BY ToType DEF Rep, LinkNames
<1>2. x \in ToSet(C[p]) BY DEF Rep
<1>3. Has(r, p) BY <1>1, <1>2, RepFacts
<1> QED BY <1>2, <1>3 DEF Has

LEMMA ChainExists ==
    ASSUME NEW r, NEW C, Rep(r, C, {}), NEW rank, Ranks(C, rank), NEW x \in Entity
    PROVE  \E s : IsChain(r, rank, s, x)
<1> DEFINE S == {n \in Nat : \A y \in Entity : rank[y] < n => \E s : IsChain(r, rank, s, y)}
<1>0. r \in Registry /\ r.valid \subseteq Entity BY DEF Rep, Registry
<1>1. rank \in [Entity -> Nat] /\ \A p \in Entity : \A e \in ToSet(C[p]) : rank[p] < rank[e]
      BY DEF Ranks
<1>2. 0 \in S BY <1>1
<1>3. ASSUME NEW n \in Nat, n \in S PROVE n + 1 \in S
  <2> SUFFICES ASSUME NEW y \in Entity, rank[y] < n + 1
               PROVE  \E s : IsChain(r, rank, s, y)
      OBVIOUS
  <2> DEFINE p == To(r, y, "parent")
  <2>1. CASE p = NoEntity
    <3>1. <<>> \in Seq(Entity) /\ DOMAIN <<>> = {} /\ IsInjective(<<>>) BY DEF IsInjective
    <3>2. IsChain(r, rank, <<>>, y) BY <2>1, <3>1 DEF IsChain, FirstOf
    <3> QED BY <3>2
  <2>2. CASE p # NoEntity
    <3>1. p \in Entity /\ y \in ToSet(C[p]) BY <1>0, <2>2, ParentFacts
    <3>2. rank[p] < rank[y] /\ rank[p] \in Nat /\ rank[y] \in Nat BY <1>1, <3>1
    <3>3. rank[p] < n BY <3>2
    <3>4. PICK s : IsChain(r, rank, s, p) BY <1>3, <3>1, <3>3
    <3>5. /\ s \in Seq(Entity) /\ IsInjective(s) /\ FirstOf(s) = To(r, p, "parent")
          /\ \A i \in DOMAIN s : To(r, s[i], "parent") = IF i = Len(s) THEN NoEntity ELSE s[i + 1]
          /\ \A i \in DOMAIN s : rank[s[i]] < rank[p]
          BY <3>4 DEF IsChain
    <3> HIDE DEF p
    <3> DEFINE t == <<p>> \o s
               size == Len(s)
    <3>6. /\ size \in Nat /\ DOMAIN s = 1 .. size /\ \A i \in 1 .. size : s[i] \in Entity
          BY <3>5, LenProperties
    <3>7. /\ t \in Seq(Entity) /\ Len(t) = size + 1 /\ DOMAIN t = 1 .. size + 1
          /\ t[1] = p /\ \A i \in 2 .. size + 1 : t[i] = s[i - 1]
      <4>1. <<p>> \in Seq(Entity) /\ Len(<<p>>) = 1 /\ <<p>>[1] = p BY <3>1
      <4>2. t \in Seq(Entity) /\ Len(t) = 1 + size
            /\ \A i \in 1 .. 1 + size : t[i] = IF i <= 1 THEN <<p>>[i] ELSE s[i - 1]
            BY <3>5, <4>1, ConcatProperties
      <4>3. DOMAIN t = 1 .. Len(t) BY <4>2, LenProperties
      <4> HIDE DEF t, size
      <4>4. 1 \in 1 .. 1 + size BY <3>6
      <4>5. t[1] = p BY <4>1, <4>2, <4>4
      <4>6. \A i \in 2 .. size + 1 : t[i] = s[i - 1]
        <5> TAKE i \in 2 .. size + 1
        <5>1. i \in 1 .. 1 + size /\ ~(i <= 1) BY <3>6
        <5> QED BY <4>2, <5>1
      <4> QED BY <3>6, <4>2, <4>3, <4>5, <4>6
    <3> HIDE DEF t, size
    <3>8. IsInjective(t)
      <4>1. \A i \in 2 .. size + 1 : i - 1 \in 1 .. size BY <3>6
      <4>2. ASSUME NEW i \in 1 .. size PROVE s[i] # p
        <5>1. rank[s[i]] < rank[p] /\ rank[p] \in Nat BY <1>1, <3>1, <3>5, <3>6
        <5>2. ~(rank[p] < rank[p]) BY ONLY <5>1
        <5> QED BY <5>1, <5>2
      <4>3. \A i \in 2 .. size + 1 : t[i] # t[1] BY <3>7, <4>1, <4>2
      <4>4. \A i, j \in 1 .. size : s[i] = s[j] => i = j BY <3>5, <3>6 DEF IsInjective
      <4>5. \A i, j \in 2 .. size + 1 : t[i] = t[j] => i = j
        <5> TAKE i, j \in 2 .. size + 1
        <5>1. i - 1 \in 1 .. size /\ j - 1 \in 1 .. size /\ t[i] = s[i - 1] /\ t[j] = s[j - 1]
              BY <3>7, <4>1
        <5>2. t[i] = t[j] => i - 1 = j - 1 BY <4>4, <5>1
        <5> QED BY <3>6, <5>2
      <4>6. \A i \in 1 .. size + 1 : i = 1 \/ i \in 2 .. size + 1 BY <3>6
      <4> QED BY <3>7, <4>3, <4>5, <4>6 DEF IsInjective
    <3>9. FirstOf(t) = To(r, y, "parent")
      <4>1. t # <<>> BY <3>6, <3>7, EmptySeq
      <4> QED BY <3>7, <4>1 DEF FirstOf, p
    <3>10. ASSUME NEW i \in DOMAIN t
           PROVE  /\ To(r, t[i], "parent") = IF i = Len(t) THEN NoEntity ELSE t[i + 1]
                  /\ rank[t[i]] < rank[y]
      <4>1. CASE i = 1
        <5>1. t[i] = p /\ To(r, p, "parent") = FirstOf(s) BY <3>5, <3>7, <4>1
        <5>2. s = <<>> <=> size = 0 BY <3>5, EmptySeq DEF size
        <5>3. CASE size = 0 BY <3>2, <3>7, <4>1, <5>1, <5>2, <5>3 DEF FirstOf
        <5>4. CASE size # 0
          <6>1. 2 \in 2 .. size + 1 /\ i # size + 1 BY <3>6, <4>1, <5>4
          <6>2. t[i + 1] = s[1] BY <3>7, <4>1, <6>1
          <6> QED BY <3>2, <3>7, <5>1, <5>2, <5>4, <6>1, <6>2 DEF FirstOf
        <5> QED BY <5>3, <5>4
      <4>2. CASE i # 1
        <5>1. i \in 2 .. size + 1 /\ i - 1 \in 1 .. size BY <3>6, <3>7, <4>2
        <5>2. t[i] = s[i - 1] BY <3>7, <5>1
        <5>3. rank[s[i - 1]] < rank[p] /\ rank[s[i - 1]] \in Nat BY <1>1, <3>5, <3>6, <5>1
        <5>4. To(r, s[i - 1], "parent") = IF i - 1 = size THEN NoEntity ELSE s[(i - 1) + 1]
              BY <3>5, <3>6, <5>1 DEF size
        <5>5. i - 1 = size <=> i = size + 1 BY <3>6, <5>1
        <5>6. i # size + 1 => t[i + 1] = s[(i - 1) + 1]
          <6>1. i # size + 1 => i + 1 \in 2 .. size + 1 /\ (i + 1) - 1 = (i - 1) + 1
                BY <3>6, <5>1
          <6> QED BY <3>7, <6>1
        <5> QED BY <3>2, <3>7, <5>2, <5>3, <5>4, <5>5, <5>6
      <4> QED BY <4>1, <4>2
    <3>11. IsChain(r, rank, t, y) BY <3>7, <3>8, <3>9, <3>10 DEF IsChain
    <3> QED BY <3>11
  <2> QED BY <2>1, <2>2
<1> HIDE DEF S
<1>4. Nat \subseteq S BY <1>2, <1>3, NumberInduction
<1>5. rank[x] + 1 \in S /\ rank[x] < rank[x] + 1 BY <1>1, <1>4
<1> QED BY <1>5 DEF S

\* The way up from x ends, does not come back to x and misses no parent.
IsAbove(r, A, x) ==
    /\ A \subseteq r.valid /\ x \notin A
    /\ \A y \in A \cup {x} : To(r, y, "parent") # NoEntity => To(r, y, "parent") \in A

LEMMA AncestorsFacts ==
    ASSUME NEW r, NEW C, Rep(r, C, {}), Ranked(C), NEW x \in Entity
    PROVE  WalkEnds(r, Ancestors(r, x)) /\ IsAbove(r, ToSet(Ancestors(r, x)), x)
<1>0. r \in Registry /\ "parent" \in LinkNames BY DEF Rep, LinkNames
<1>1. PICK rank : Ranks(C, rank) BY DEF Ranked
<1>2. PICK s : IsChain(r, rank, s, x) BY <1>1, ChainExists
<1>3. /\ s \in Seq(Entity) /\ IsInjective(s) /\ FirstOf(s) = To(r, x, "parent")
      /\ \A i \in DOMAIN s : To(r, s[i], "parent") = IF i = Len(s) THEN NoEntity ELSE s[i + 1]
      /\ \A i \in DOMAIN s : rank[s[i]] < rank[x]
      BY <1>2 DEF IsChain
<1>4. Walk(r, To(r, x, "parent"), "parent") = s BY <1>0, <1>3, WalkIsList
<1>5. Ancestors(r, x) = s BY <1>4 DEF Ancestors
<1>6. Len(s) \in Nat /\ DOMAIN s = 1 .. Len(s) /\ Len(s) < WalkBound
      /\ \A i \in 1 .. Len(s) : s[i] \in Entity
      BY <1>3, ListsAreShort
<1>7. \A y \in Entity : To(r, y, "parent") # NoEntity => To(r, y, "parent") \in r.valid
      BY ParentFacts
<1>8. ASSUME NEW i \in 1 .. Len(s) PROVE s[i] \in r.valid
  <2>1. s[i] # NoEntity BY <1>6, HierarchyAssumption
  <2>2. CASE i = 1
    <3>1. s # <<>> BY <1>3, <1>6, EmptySeq
    <3>2. s[1] = To(r, x, "parent") BY <1>3, <3>1 DEF FirstOf
    <3> QED BY <1>7, <2>1, <2>2, <3>2
  <2>3. CASE i # 1
    <3>1. i - 1 \in 1 .. Len(s) /\ i - 1 # Len(s) /\ (i - 1) + 1 = i BY <1>6, <2>3
    <3>2. To(r, s[i - 1], "parent") = s[i] BY <1>3, <1>6, <3>1
    <3> QED BY <1>6, <1>7, <2>1, <3>1, <3>2
  <2> QED BY <2>2, <2>3
<1>9. x \notin ToSet(s)
  <2>1. rank[x] \in Nat BY <1>1 DEF Ranks
  <2> QED BY <1>3, <2>1 DEF ToSet
<1>10. ASSUME NEW y \in ToSet(s) \cup {x}, To(r, y, "parent") # NoEntity
       PROVE  To(r, y, "parent") \in ToSet(s)
  <2>1. CASE y = x
    <3>1. s # <<>> /\ s[1] = To(r, x, "parent") BY <1>3, <1>10, <2>1 DEF FirstOf
    <3>2. 1 \in 1 .. Len(s)
      <4>1. Len(s) # 0 BY <1>3, <3>1, EmptySeq
      <4> QED BY <1>6, <4>1
    <3> QED BY <1>6, <2>1, <3>1, <3>2 DEF ToSet
  <2>2. CASE y \in ToSet(s)
    <3>1. PICK i \in 1 .. Len(s) : y = s[i] BY <1>6, <2>2 DEF ToSet
    <3>2. To(r, y, "parent") = s[i + 1] /\ i # Len(s) BY <1>3, <1>6, <1>10, <3>1
    <3>3. i + 1 \in 1 .. Len(s)
      <4>1. i \in 1 .. Len(s) /\ Len(s) \in Nat BY <1>6, <3>1
      <4> QED BY ONLY <3>2, <4>1
    <3> QED BY <1>6, <3>2, <3>3 DEF ToSet
  <2> QED BY <2>1, <2>2
<1>11. ToSet(s) \subseteq r.valid BY <1>6, <1>8 DEF ToSet
<1>12. WalkEnds(r, s) BY <1>6, <1>11 DEF WalkEnds
<1>13. IsAbove(r, ToSet(s), x) BY <1>9, <1>10, <1>11 DEF IsAbove
<1> QED BY <1>5, <1>12, <1>13

\* The way up from x holds nothing but what it must.
IsUpward(r, U, x) ==
    \A y \in U \cup {x} : To(r, y, "parent") # NoEntity => To(r, y, "parent") \in U

LEMMA AncestorsLeast ==
    ASSUME NEW r, NEW C, Rep(r, C, {}), Ranked(C), NEW x \in Entity,
           NEW U, IsUpward(r, U, x)
    PROVE  ToSet(Ancestors(r, x)) \subseteq U
<1>0. r \in Registry /\ "parent" \in LinkNames BY DEF Rep, LinkNames
<1>1. PICK rank : Ranks(C, rank) BY DEF Ranked
<1>2. PICK s : IsChain(r, rank, s, x) BY <1>1, ChainExists
<1>3. /\ s \in Seq(Entity) /\ IsInjective(s) /\ FirstOf(s) = To(r, x, "parent")
      /\ \A i \in DOMAIN s : To(r, s[i], "parent") = IF i = Len(s) THEN NoEntity ELSE s[i + 1]
      BY <1>2 DEF IsChain
<1>4. Walk(r, To(r, x, "parent"), "parent") = s BY <1>0, <1>3, WalkIsList
<1>5. Ancestors(r, x) = s BY <1>4 DEF Ancestors
<1>6. Len(s) \in Nat /\ DOMAIN s = 1 .. Len(s) /\ \A i \in 1 .. Len(s) : s[i] \in Entity
      BY <1>3, ListsAreShort
<1>7. \A i \in 1 .. Len(s) : s[i] # NoEntity BY <1>6, HierarchyAssumption
<1> DEFINE S == {n \in Nat : n + 1 <= Len(s) => s[n + 1] \in U}
<1>8. 0 \in S
  <2> SUFFICES ASSUME 1 <= Len(s) PROVE s[1] \in U OBVIOUS
  <2>1. s # <<>> /\ 1 \in 1 .. Len(s) BY <1>6, EmptySeq
  <2>2. s[1] = To(r, x, "parent") BY <1>3, <2>1 DEF FirstOf
  <2> QED BY <1>7, <2>1, <2>2 DEF IsUpward
<1>9. ASSUME NEW n \in Nat, n \in S PROVE n + 1 \in S
  <2> SUFFICES ASSUME (n + 1) + 1 <= Len(s) PROVE s[(n + 1) + 1] \in U OBVIOUS
  <2>1. n + 1 \in 1 .. Len(s) /\ n + 1 # Len(s) /\ n + 1 <= Len(s)
        /\ (n + 1) + 1 \in 1 .. Len(s)
    <3>1. Len(s) \in Nat /\ n \in Nat /\ (n + 1) + 1 <= Len(s) BY <1>6
    <3> HIDE DEF S
    <3> QED BY ONLY <3>1
  <2>2. s[n + 1] \in U BY <1>9, <2>1
  <2>3. To(r, s[n + 1], "parent") = s[(n + 1) + 1] BY <1>3, <1>6, <2>1
  <2> QED BY <1>7, <2>1, <2>2, <2>3 DEF IsUpward
<1> HIDE DEF S
<1>10. Nat \subseteq S BY <1>8, <1>9, NumberInduction
<1>11. ASSUME NEW i \in 1 .. Len(s) PROVE s[i] \in U
  <2>1. i - 1 \in Nat /\ (i - 1) + 1 = i /\ i <= Len(s) BY <1>6
  <2>2. i - 1 \in S BY <1>10, <2>1
  <2> QED BY <2>1, <2>2 DEF S
<1> QED BY <1>5, <1>6, <1>11 DEF ToSet

\* What is above x is its parent and what is above that.
LEMMA AncestorsGrow ==
    ASSUME NEW r, NEW C, Rep(r, C, {}), Ranked(C), NEW x \in Entity
    PROVE  ToSet(Ancestors(r, x)) =
             IF To(r, x, "parent") = NoEntity THEN {}
             ELSE {To(r, x, "parent")} \cup ToSet(Ancestors(r, To(r, x, "parent")))
<1> DEFINE p == To(r, x, "parent")
           A(y) == ToSet(Ancestors(r, y))
<1>1. CASE p = NoEntity
  <2>1. IsUpward(r, {}, x) BY <1>1 DEF IsUpward
  <2>2. A(x) \subseteq {} BY <2>1, AncestorsLeast
  <2> QED BY <1>1, <2>2
<1>2. CASE p # NoEntity
  <2>1. p \in Entity BY <1>2, ToType DEF Rep, LinkNames
  <2>2. IsAbove(r, A(x), x) /\ IsAbove(r, A(p), p) BY <2>1, AncestorsFacts
  <2>3. p \in A(x) BY <1>2, <2>2 DEF IsAbove
  <2>4. IsUpward(r, A(x), p) BY <2>2, <2>3 DEF IsAbove, IsUpward
  <2>5. IsUpward(r, {p} \cup A(p), x) BY <2>2 DEF IsAbove, IsUpward
  <2> HIDE DEF p
  <2>6. A(p) \subseteq A(x) BY <2>1, <2>4, AncestorsLeast
  <2>7. A(x) \subseteq {p} \cup A(p) BY <2>5, AncestorsLeast
  <2>8. A(x) = {p} \cup A(p) BY <2>3, <2>6, <2>7
  <2> QED BY <1>2, <2>8 DEF p
<1> QED BY <1>1, <1>2

-----------------------------------------------------------------------------
(* The way down. *)

IsLevels(C, from, level, bound) ==
    level = [n \in 0 .. bound |->
               IF n = 0 THEN from ELSE UNION {{e} \cup ToSet(C[e]) : e \in level[n - 1]}]

LEMMA LevelsExist ==
    ASSUME NEW C, NEW from, NEW bound \in Nat
    PROVE  \E level : IsLevels(C, from, level, bound)
<1> DEFINE S == {n \in Nat : \E level : IsLevels(C, from, level, n)}
           next(l) == UNION {{e} \cup ToSet(C[e]) : e \in l}
<1>1. 0 \in S
  <2> DEFINE level == [n \in 0 .. 0 |-> from]
  <2>1. level = [n \in 0 .. 0 |->
                   IF n = 0 THEN from ELSE UNION {{e} \cup ToSet(C[e]) : e \in level[n - 1]}]
        OBVIOUS
  <2> HIDE DEF level
  <2>2. IsLevels(C, from, level, 0) BY <2>1 DEF IsLevels
  <2> QED BY <2>2
<1>2. ASSUME NEW n \in Nat, n \in S PROVE n + 1 \in S
  <2>1. PICK level : IsLevels(C, from, level, n) BY <1>2
  <2>2. level = [i \in 0 .. n |-> IF i = 0 THEN from ELSE next(level[i - 1])]
        BY <2>1 DEF IsLevels
  <2> HIDE DEF next
  <2> DEFINE more == [i \in 0 .. n + 1 |->
                        IF i <= n THEN level[i] ELSE next(level[i - 1])]
  <2>3. ASSUME NEW i \in 0 .. n + 1
        PROVE  more[i] = IF i = 0 THEN from ELSE next(more[i - 1])
    <3>1. CASE i = 0 BY <2>2, <3>1
    <3>2. CASE i # 0
      <4>1. i - 1 \in 0 .. n + 1 /\ i - 1 <= n BY <3>2
      <4>2. more[i - 1] = level[i - 1] BY <4>1
      <4>3. CASE i <= n
        <5>1. i \in 0 .. n BY <4>3
        <5>2. level[i] = next(level[i - 1]) BY <2>2, <3>2, <5>1
        <5> QED BY <3>2, <4>2, <4>3, <5>2
      <4>4. CASE i = n + 1 BY <3>2, <4>2, <4>4
      <4> QED BY <4>3, <4>4
    <3> QED BY <3>1, <3>2
  <2>4. more = [i \in 0 .. n + 1 |-> more[i]] OBVIOUS
  <2> HIDE DEF more
  <2>5. more = [i \in 0 .. n + 1 |-> IF i = 0 THEN from ELSE next(more[i - 1])] BY <2>3, <2>4
  <2>6. IsLevels(C, from, more, n + 1) BY <2>5 DEF IsLevels, next
  <2> QED BY <2>6
<1> HIDE DEF S
<1>3. Nat \subseteq S BY <1>1, <1>2, NumberInduction
<1> QED BY <1>3 DEF S

Closed(C, D) == \A x \in D : ToSet(C[x]) \subseteq D

\* What can be reached is the least set that is closed under the children.
IsReach(R, C, from) ==
    /\ from \subseteq R /\ R \subseteq Entity /\ Closed(C, R)
    /\ \A D \in SUBSET Entity : from \subseteq D /\ Closed(C, D) => R \subseteq D

LEMMA ReachFacts ==
    ASSUME NEW C, C \in [Entity -> Seq(Entity)], NEW from, from \subseteq Entity
    PROVE  IsReach(Reach(C, from), C, from)
<1> DEFINE size == Cardinality(Entity)
           next(l) == UNION {{e} \cup ToSet(C[e]) : e \in l}
           level == CHOOSE level : IsLevels(C, from, level, size)
<1>1. size \in Nat /\ IsFiniteSet(Entity) BY HierarchyAssumption, FS_CardinalityType
<1>2. Reach(C, from) = level[size] BY DEF Reach, IsLevels
<1>3. IsLevels(C, from, level, size) BY <1>1, LevelsExist
<1> HIDE DEF level
<1>4. level = [n \in 0 .. size |-> IF n = 0 THEN from ELSE next(level[n - 1])]
      BY <1>3 DEF IsLevels
<1>5. \A l : l \subseteq Entity => l \subseteq next(l) /\ next(l) \subseteq Entity
  <2>1. \A x \in Entity : ToSet(C[x]) \subseteq Entity
    <3> TAKE x \in Entity
    <3>1. C[x] \in Seq(Entity) BY <1>1
    <3> QED BY <3>1 DEF ToSet
  <2> QED BY <2>1
<1>6. \A l : next(l) \subseteq l <=> Closed(C, l)
  <2> TAKE l
  <2>1. ASSUME next(l) \subseteq l PROVE Closed(C, l) BY <2>1 DEF Closed
  <2>2. ASSUME Closed(C, l) PROVE next(l) \subseteq l BY <2>2 DEF Closed
  <2> QED BY <2>1, <2>2
<1>7. \A l, D : l \subseteq D /\ Closed(C, D) => next(l) \subseteq D BY DEF Closed
<1> HIDE DEF next, size
<1>8. level[0] = from /\ \A n \in 0 .. size : n # 0 => level[n] = next(level[n - 1])
      BY <1>1, <1>4
<1> DEFINE S == {n \in Nat : n <= size =>
                    /\ from \subseteq level[n] /\ level[n] \subseteq Entity
                    /\ \A D \in SUBSET Entity : from \subseteq D /\ Closed(C, D) => level[n] \subseteq D
                    /\ Closed(C, level[n]) \/ Cardinality(level[n]) >= n + 1}
<1>9. 0 \in S
  <2>1. CASE from = {}
    <3>1. Closed(C, {}) BY DEF Closed
    <3> QED BY <1>8, <2>1, <3>1
  <2>2. CASE from # {}
    <3>1. IsFiniteSet(from) BY <1>1, FS_Subset
    <3>2. Cardinality(from) \in Nat /\ Cardinality(from) # 0
          BY <2>2, <3>1, FS_CardinalityType, FS_EmptySet
    <3>3. Cardinality(from) >= 0 + 1 BY <3>2
    <3> QED BY <1>8, <3>3
  <2> QED BY <2>1, <2>2
<1>10. ASSUME NEW n \in Nat, n \in S PROVE n + 1 \in S
  <2> SUFFICES ASSUME n + 1 <= size
               PROVE  /\ from \subseteq level[n + 1] /\ level[n + 1] \subseteq Entity
                      /\ \A D \in SUBSET Entity :
                            from \subseteq D /\ Closed(C, D) => level[n + 1] \subseteq D
                      /\ Closed(C, level[n + 1]) \/ Cardinality(level[n + 1]) >= (n + 1) + 1
      OBVIOUS
  <2> DEFINE l == level[n]
             m == level[n + 1]
  <2>1. /\ from \subseteq l /\ l \subseteq Entity
        /\ \A D \in SUBSET Entity : from \subseteq D /\ Closed(C, D) => l \subseteq D
        /\ Closed(C, l) \/ Cardinality(l) >= n + 1
        BY <1>1, <1>10
  <2>2. m = next(l)
    <3>1. n + 1 \in 0 .. size /\ n + 1 # 0 /\ (n + 1) - 1 = n BY <1>1
    <3> QED BY <1>8, <3>1
  <2> HIDE DEF l, m, S
  <2>3. l \subseteq m /\ m \subseteq Entity BY <1>5, <2>1, <2>2
  <2>4. \A D \in SUBSET Entity : from \subseteq D /\ Closed(C, D) => m \subseteq D
        BY <1>7, <2>1, <2>2
  <2>5. Closed(C, m) \/ Cardinality(m) >= (n + 1) + 1
    <3>1. CASE Closed(C, l)
      <4>1. m = l BY <1>6, <2>2, <2>3, <3>1
      <4> QED BY <3>1, <4>1
    <3>2. CASE ~Closed(C, l)
      <4>1. m # l BY <1>6, <2>2, <3>2
      <4>2. IsFiniteSet(m) BY <1>1, <2>3, FS_Subset
      <4>3. Cardinality(l) < Cardinality(m) /\ Cardinality(m) \in Nat /\ Cardinality(l) \in Nat
        <5>1. IsFiniteSet(l) BY <2>3, <4>2, FS_Subset
        <5>2. Cardinality(l) \in Nat /\ Cardinality(m) \in Nat
              BY <4>2, <5>1, FS_CardinalityType
        <5>3. Cardinality(l) <= Cardinality(m)
              /\ (Cardinality(l) = Cardinality(m) => l = m)
              BY <2>3, <4>2, FS_Subset
        <5> QED BY <4>1, <5>2, <5>3
      <4>4. Cardinality(l) >= n + 1 BY <2>1, <3>2
      <4> QED BY <4>3, <4>4
    <3> QED BY <3>1, <3>2
  <2> QED BY <2>1, <2>3, <2>4, <2>5 DEF m
<1> HIDE DEF S
<1>11. Nat \subseteq S BY <1>9, <1>10, NumberInduction
<1> DEFINE R == level[size]
<1>12. /\ from \subseteq R /\ R \subseteq Entity
       /\ \A D \in SUBSET Entity : from \subseteq D /\ Closed(C, D) => R \subseteq D
       /\ Closed(C, R) \/ Cardinality(R) >= size + 1
  <2>1. size \in S /\ size <= size BY <1>1, <1>11
  <2> QED BY <2>1 DEF S
<1>13. Cardinality(R) <= size /\ Cardinality(R) \in Nat
  <2>1. IsFiniteSet(R) /\ Cardinality(R) <= Cardinality(Entity) BY <1>1, <1>12, FS_Subset
  <2> QED BY <2>1, FS_CardinalityType DEF size
<1>14. Closed(C, R) BY <1>1, <1>12, <1>13
<1> QED BY <1>2, <1>12, <1>14 DEF IsReach

\* The tree of the abstract specification is the same.
LEMMA BelowIsReach == ASSUME NEW e PROVE ST!Below(e) = Reach(Forest(registry), {e})
<1> DEFINE C == Forest(registry)
<1>1. ST!Cardinality(Entity) = Cardinality(Entity) BY DEF ST!Cardinality, Cardinality
<1>2. ST!Below(e) = (CHOOSE l : IsLevels(C, {e}, l, Cardinality(Entity)))[Cardinality(Entity)]
      BY <1>1 DEF ST!Below, IsLevels, ST!Members, ToSet
<1>3. Reach(C, {e}) = (CHOOSE l : IsLevels(C, {e}, l, Cardinality(Entity)))[Cardinality(Entity)]
      BY DEF Reach, IsLevels
<1> QED BY <1>2, <1>3

\* What is below an entity.
LEMMA TreeFacts ==
    ASSUME NEW r, NEW C, Rep(r, C, {}), Ranked(C), NEW e \in r.valid, NEW D, D = Reach(C, {e})
    PROVE  /\ e \in D /\ D \subseteq r.valid /\ D \subseteq Entity /\ IsFiniteSet(D) /\ Closed(C, D)
           /\ \A y \in D : y # e => \E z \in D : y \in ToSet(C[z])
           /\ \A x \in D : e \notin ToSet(C[x])
<1>1. r.valid \subseteq Entity /\ e \in Entity /\ C \in [Entity -> Seq(Entity)] BY DEF Rep, Registry
<1>2. IsReach(D, C, {e}) BY <1>1, ReachFacts
<1>3. e \in D /\ D \subseteq Entity /\ Closed(C, D) BY <1>2 DEF IsReach
<1>4. D \subseteq r.valid
  <2>1. Closed(C, r.valid) BY <1>1, RepFacts DEF Closed, Has
  <2> QED BY <1>1, <1>2, <2>1 DEF IsReach
<1>5. \A y \in D : y # e => \E z \in D : y \in ToSet(C[z])
  <2> DEFINE E == {y \in D : y # e => \E z \in D : y \in ToSet(C[z])}
  <2>1. E \in SUBSET Entity /\ {e} \subseteq E BY <1>3
  <2>2. Closed(C, E) BY <1>3 DEF Closed
  <2> HIDE DEF E
  <2>3. D \subseteq E BY <1>2, <2>1, <2>2 DEF IsReach
  <2> QED BY <2>3 DEF E
<1>6. ASSUME NEW x \in D PROVE e \notin ToSet(C[x])
  <2>1. PICK rank : Ranks(C, rank) BY DEF Ranked
  <2>2. rank \in [Entity -> Nat] /\ \A p \in Entity : \A c \in ToSet(C[p]) : rank[p] < rank[c]
        BY <2>1 DEF Ranks
  <2> DEFINE E == {y \in Entity : rank[y] >= rank[e]}
  <2>3. E \in SUBSET Entity /\ {e} \subseteq E BY <1>1, <2>2
  <2>4. Closed(C, E)
    <3> SUFFICES ASSUME NEW y \in E, NEW c \in ToSet(C[y]) PROVE c \in E BY DEF Closed
    <3>1. c \in Entity BY RepFacts
    <3>2. rank[y] < rank[c] /\ rank[y] >= rank[e] /\ rank[y] \in Nat /\ rank[c] \in Nat
          /\ rank[e] \in Nat
          BY <1>1, <2>2, <3>1
    <3> QED BY <3>1, <3>2
  <2> HIDE DEF E
  <2>5. x \in E BY <1>2, <2>3, <2>4 DEF IsReach
  <2>6. rank[x] >= rank[e] /\ rank[x] \in Nat /\ rank[e] \in Nat /\ x \in Entity
        BY <1>1, <2>2, <2>5 DEF E
  <2>7. e \in ToSet(C[x]) => rank[x] < rank[e] BY <2>2, <2>6
  <2> QED BY <2>6, <2>7
<1>7. IsFiniteSet(D) BY <1>3, HierarchyAssumption, FS_Subset
<1> QED BY <1>3, <1>4, <1>5, <1>6, <1>7

LEMMA TreesAreTrees ==
    ASSUME NEW r, NEW C, Rep(r, C, {}), Ranked(C), NEW e \in r.valid
    PROVE  IsTree(r, e)
<1> DEFINE D == Reach(C, {e})
<1>1. D \subseteq Entity /\ \A x \in D : e \notin ToSet(C[x]) BY TreeFacts
<1>2. Forest(r) = C /\ Subtree(r, e) = D BY ForestIs DEF Subtree
<1> HIDE DEF D
<1>3. ASSUME NEW x \in D PROVE WalkEnds(r, C[x])
  <2>1. C[x] \in Seq(Entity) /\ IsInjective(C[x]) /\ \A y \in ToSet(C[x]) : Has(r, y)
        BY <1>1, RepFacts
  <2>2. Len(C[x]) < WalkBound BY <2>1, ListsAreShort
  <2> QED BY <2>1, <2>2 DEF WalkEnds, Has
<1>4. ASSUME NEW x \in D, NEW y \in D, ToSet(C[x]) \cap ToSet(C[y]) # {} PROVE x = y
  <2>1. PICK c : c \in ToSet(C[x]) /\ c \in ToSet(C[y]) BY <1>4
  <2>2. To(r, c, "parent") = x /\ To(r, c, "parent") = y BY <1>1, <2>1, RepFacts
  <2> QED BY <2>2
<1> QED BY <1>1, <1>2, <1>3, <1>4 DEF IsTree

\* Where Update comes to: the entities whose root it starts from.
RootIsIn(r, T, x) ==
    IF To(r, x, "parent") = NoEntity THEN Has(r, x) /\ x \in T
    ELSE \A a \in ToSet(Ancestors(r, x)) : To(r, a, "parent") = NoEntity => a \in T

LEMMA ReachedFromRoots ==
    ASSUME NEW r, NEW C, Rep(r, C, {}), Ranked(C), NEW T \in SUBSET r.valid,
           NEW R, IsReach(R, C, {e \in T : Has(r, e) /\ r.hier[e].parent = NoEntity}),
           NEW x \in r.valid
    PROVE  x \in R <=> RootIsIn(r, T, x)
<1> DEFINE roots == {e \in T : Has(r, e) /\ r.hier[e].parent = NoEntity}
<1>1. r.valid \subseteq Entity /\ C \in [Entity -> Seq(Entity)] BY DEF Rep, Registry
<1>2. roots \subseteq R /\ R \subseteq Entity /\ Closed(C, R) BY DEF IsReach
<1>3. \A y \in r.valid : To(r, y, "parent") = NoEntity => (RootIsIn(r, T, y) <=> y \in roots)
      BY DEF RootIsIn, To
<1>4. \A y \in R : y \in roots \/ To(r, y, "parent") \in R
  <2> DEFINE E == {y \in R : y \in roots \/ To(r, y, "parent") \in R}
  <2>1. E \in SUBSET Entity /\ roots \subseteq E BY <1>2
  <2>2. Closed(C, E)
    <3> SUFFICES ASSUME NEW y \in E, NEW c \in ToSet(C[y]) PROVE c \in E BY DEF Closed
    <3>1. y \in R /\ y \in Entity BY <1>2
    <3>2. c \in R BY <1>2, <3>1 DEF Closed
    <3>3. To(r, c, "parent") = y BY <3>1, RepFacts
    <3> QED BY <3>1, <3>2, <3>3
  <2> HIDE DEF E, roots
  <2>3. R \subseteq E BY <2>1, <2>2 DEF IsReach, roots
  <2> QED BY <2>3 DEF E
<1>5. ASSUME NEW y \in r.valid, To(r, y, "parent") = NoEntity
      PROVE  y \in R <=> RootIsIn(r, T, y)
  <2>1. NoEntity \notin R BY <1>2, HierarchyAssumption
  <2>2. y \in R <=> y \in roots BY <1>2, <1>4, <1>5, <2>1
  <2> QED BY <1>3, <1>5, <2>2
<1>6. ASSUME NEW y \in r.valid, To(r, y, "parent") # NoEntity
      PROVE  /\ To(r, y, "parent") \in r.valid /\ y \in ToSet(C[To(r, y, "parent")])
             /\ y \in R <=> To(r, y, "parent") \in R
             /\ RootIsIn(r, T, y) <=> RootIsIn(r, T, To(r, y, "parent"))
  <2> DEFINE p == To(r, y, "parent")
  <2>1. p \in r.valid /\ y \in ToSet(C[p]) BY <1>1, <1>6, ParentFacts
  <2>2. y \notin roots BY <1>6 DEF To
  <2>3. y \in R <=> p \in R BY <1>2, <1>4, <2>1, <2>2 DEF Closed
  <2>4. ToSet(Ancestors(r, y)) = {p} \cup ToSet(Ancestors(r, p))
        BY <1>1, <1>6, AncestorsGrow
  <2>5. Has(r, p) BY <1>1, <2>1, RepFacts
  <2>6. To(r, p, "parent") = NoEntity => ToSet(Ancestors(r, p)) = {}
        BY <1>1, <2>1, AncestorsGrow
  <2> HIDE DEF p
  <2>7. RootIsIn(r, T, y) <=>
          \A a \in {p} \cup ToSet(Ancestors(r, p)) : To(r, a, "parent") = NoEntity => a \in T
        BY <1>6, <2>4 DEF RootIsIn
  <2>8. CASE To(r, p, "parent") = NoEntity
        BY <2>1, <2>3, <2>5, <2>6, <2>7, <2>8 DEF RootIsIn, p
  <2>9. CASE To(r, p, "parent") # NoEntity
        BY <2>1, <2>3, <2>7, <2>9 DEF RootIsIn, p
  <2> QED BY <2>8, <2>9
<1> HIDE DEF roots
<1>7. PICK rank : Ranks(C, rank) BY DEF Ranked
<1>8. rank \in [Entity -> Nat] /\ \A p \in Entity : \A c \in ToSet(C[p]) : rank[p] < rank[c]
      BY <1>7 DEF Ranks
<1> DEFINE S == {n \in Nat : \A y \in r.valid :
                    rank[y] < n => (y \in R <=> RootIsIn(r, T, y))}
<1>9. 0 \in S BY <1>1, <1>8
<1>10. ASSUME NEW n \in Nat, n \in S PROVE n + 1 \in S
  <2> SUFFICES ASSUME NEW y \in r.valid, rank[y] < n + 1
               PROVE  y \in R <=> RootIsIn(r, T, y)
      OBVIOUS
  <2>1. CASE To(r, y, "parent") = NoEntity BY <1>5, <2>1
  <2>2. CASE To(r, y, "parent") # NoEntity
    <3> DEFINE p == To(r, y, "parent")
    <3>1. p \in r.valid /\ y \in ToSet(C[p]) BY <1>6, <2>2
    <3>2. rank[p] < rank[y] /\ rank[p] \in Nat /\ rank[y] \in Nat BY <1>1, <1>8, <3>1
    <3>3. p \in R <=> RootIsIn(r, T, p) BY <1>10, <3>1, <3>2
    <3> QED BY <1>6, <2>2, <3>3
  <2> QED BY <2>1, <2>2
<1> HIDE DEF S
<1>11. Nat \subseteq S BY <1>9, <1>10, NumberInduction
<1>12. rank[x] \in Nat /\ rank[x] < rank[x] + 1 BY <1>1, <1>8
<1>13. rank[x] + 1 \in S BY <1>11, <1>12
<1> QED BY <1>12, <1>13 DEF S

\* Whichever entities have a Transform, Update goes down from the roots that do.
LEMMA UpdatedFacts ==
    ASSUME NEW r, NEW C, Rep(r, C, {}), Ranked(C), NEW T \in SUBSET r.valid
    PROVE  Updated(r, T) =
             {e \in T : /\ To(r, e, "parent") \in T \cup {NoEntity}
                        /\ \A a \in ToSet(Ancestors(r, e)) :
                              To(r, a, "parent") = NoEntity => a \in T}
<1> DEFINE roots == {e \in T : Has(r, e) /\ r.hier[e].parent = NoEntity}
           R == Reach(C, roots)
<1>1. r.valid \subseteq Entity /\ C \in [Entity -> Seq(Entity)] BY DEF Rep, Registry
<1>2. IsReach(R, C, roots)
  <2>1. roots \subseteq Entity BY <1>1
  <2> HIDE DEF roots
  <2> QED BY <1>1, <2>1, ReachFacts
<1>3. Updated(r, T) = {e \in T : ~Has(r, e)}
        \cup {e \in T \cap R : Has(r, e) /\ r.hier[e].parent \in T \cup {NoEntity}}
      BY ForestIs DEF Updated
<1> HIDE DEF R
<1>4. ASSUME NEW e \in T PROVE e \in R <=> RootIsIn(r, T, e) BY <1>2, ReachedFromRoots
<1> HIDE DEF roots
<1>5. ASSUME NEW e \in T
      PROVE  e \in Updated(r, T) <=>
                /\ To(r, e, "parent") \in T \cup {NoEntity}
                /\ \A a \in ToSet(Ancestors(r, e)) : To(r, a, "parent") = NoEntity => a \in T
  <2>1. To(r, e, "parent") = NoEntity => ToSet(Ancestors(r, e)) = {} BY <1>1, AncestorsGrow
  <2>2. CASE ~Has(r, e)
    <3>1. To(r, e, "parent") = NoEntity BY <2>2 DEF To
    <3> QED BY <1>3, <2>1, <2>2, <3>1
  <2>3. CASE Has(r, e)
    <3>1. To(r, e, "parent") = r.hier[e].parent BY <2>3 DEF To
    <3>2. e \in Updated(r, T) <=> RootIsIn(r, T, e) /\ To(r, e, "parent") \in T \cup {NoEntity}
          BY <1>3, <1>4, <2>3, <3>1
    <3>3. CASE To(r, e, "parent") = NoEntity BY <2>1, <2>3, <3>2, <3>3 DEF RootIsIn
    <3>4. CASE To(r, e, "parent") # NoEntity BY <3>2, <3>4 DEF RootIsIn
    <3> QED BY <3>3, <3>4
  <2> QED BY <2>2, <2>3
<1>6. Updated(r, T) \subseteq T BY <1>3
<1> QED BY <1>5, <1>6

-----------------------------------------------------------------------------
(* One entity after the other is destroyed. *)

IsRun(r, hooks1, order, after, size) ==
    after = [i \in 0 .. size |-> IF i = 0 THEN r ELSE Destroy(after[i - 1], hooks1, order[i])]

LEMMA RunExists ==
    ASSUME NEW r, NEW hooks1, NEW order, NEW size \in Nat
    PROVE  \E after : IsRun(r, hooks1, order, after, size)
<1> DEFINE S == {n \in Nat : \E after : IsRun(r, hooks1, order, after, n)}
<1>1. 0 \in S
  <2> DEFINE after == [i \in 0 .. 0 |-> r]
  <2>1. after = [i \in 0 .. 0 |-> IF i = 0 THEN r ELSE Destroy(after[i - 1], hooks1, order[i])]
        OBVIOUS
  <2> HIDE DEF after
  <2>2. IsRun(r, hooks1, order, after, 0) BY <2>1 DEF IsRun
  <2> QED BY <2>2
<1>2. ASSUME NEW n \in Nat, n \in S PROVE n + 1 \in S
  <2>1. PICK after : IsRun(r, hooks1, order, after, n) BY <1>2
  <2>2. after = [i \in 0 .. n |-> IF i = 0 THEN r ELSE Destroy(after[i - 1], hooks1, order[i])]
        BY <2>1 DEF IsRun
  <2> DEFINE more == [i \in 0 .. n + 1 |->
                        IF i <= n THEN after[i] ELSE Destroy(after[i - 1], hooks1, order[i])]
  <2>3. ASSUME NEW i \in 0 .. n + 1
        PROVE  more[i] = IF i = 0 THEN r ELSE Destroy(more[i - 1], hooks1, order[i])
    <3>1. CASE i = 0 BY <2>2, <3>1
    <3>2. CASE i # 0
      <4>1. i - 1 \in 0 .. n + 1 /\ i - 1 <= n BY <3>2
      <4>2. more[i - 1] = after[i - 1] BY <4>1
      <4>3. CASE i <= n
        <5>1. i \in 0 .. n BY <4>3
        <5>2. after[i] = Destroy(after[i - 1], hooks1, order[i]) BY <2>2, <3>2, <5>1
        <5> QED BY <3>2, <4>2, <4>3, <5>2
      <4>4. CASE i = n + 1 BY <3>2, <4>2, <4>4
      <4> QED BY <4>3, <4>4
    <3> QED BY <3>1, <3>2
  <2>4. more = [i \in 0 .. n + 1 |-> more[i]] OBVIOUS
  <2> HIDE DEF more
  <2>5. more = [i \in 0 .. n + 1 |-> IF i = 0 THEN r ELSE Destroy(more[i - 1], hooks1, order[i])]
        BY <2>3, <2>4
  <2>6. IsRun(r, hooks1, order, more, n + 1) BY <2>5 DEF IsRun
  <2> QED BY <2>6
<1> HIDE DEF S
<1>3. Nat \subseteq S BY <1>1, <1>2, NumberInduction
<1> QED BY <1>3 DEF S

\* The registries between the first and the last.
LEMMA DestroyAllFacts ==
    ASSUME NEW r, NEW hooks1, NEW order, Len(order) \in Nat
    PROVE  \E after : /\ after[0] = r /\ after[Len(order)] = DestroyAll(r, hooks1, order)
                      /\ \A i \in 1 .. Len(order) :
                            after[i] = Destroy(after[i - 1], hooks1, order[i])
<1> DEFINE size == Len(order)
           after == CHOOSE after : IsRun(r, hooks1, order, after, size)
<1>1. DestroyAll(r, hooks1, order) = after[size] BY DEF DestroyAll, IsRun
<1>2. IsRun(r, hooks1, order, after, size) BY RunExists
<1> HIDE DEF after, size
<1>3. after = [i \in 0 .. size |-> IF i = 0 THEN r ELSE Destroy(after[i - 1], hooks1, order[i])]
      BY <1>2 DEF IsRun
<1>4. size \in Nat BY DEF size
<1>5. after[0] = r /\ \A i \in 1 .. size : after[i] = Destroy(after[i - 1], hooks1, order[i])
      BY <1>3, <1>4
<1> QED BY <1>1, <1>5 DEF size

\* An order of a set names each member once.
LEMMA OrderFacts ==
    ASSUME NEW S, IsFiniteSet(S), NEW order \in SetToSeqs(S)
    PROVE  /\ Len(order) \in Nat /\ DOMAIN order = 1 .. Len(order)
           /\ \A i \in 1 .. Len(order) : order[i] \in S
           /\ \A i, j \in 1 .. Len(order) : order[i] = order[j] => i = j
           /\ \A x \in S : \E i \in 1 .. Len(order) : order[i] = x
<1> DEFINE size == Cardinality(S)
<1>1. size \in Nat BY FS_CardinalityType
<1>2. order \in [1 .. size -> S] /\ \A i, j \in 1 .. size : i # j => order[i] # order[j]
      BY DEF SetToSeqs
<1> HIDE DEF size
<1>3. order \in Seq(S) /\ Len(order) = size BY <1>1, <1>2
<1>4. order \in Injection(1 .. size, S) BY <1>2 DEF Injection, IsInjective
<1>5. Cardinality(1 .. size) = size
  <2>1. CASE size = 0
    <3>1. 1 .. size = {} BY <2>1
    <3> QED BY <2>1, <3>1, FS_EmptySet
  <2>2. CASE size # 0
    <3>1. 1 \in Int /\ size \in Int /\ ~(1 > size) /\ size - 1 + 1 = size BY <1>1, <2>2
    <3> QED BY <3>1, FS_Interval
  <2> QED BY <2>1, <2>2
<1>6. order \in Surjection(1 .. size, S) BY <1>4, <1>5, FS_Injection DEF size
<1>7. \A x \in S : \E i \in 1 .. size : order[i] = x BY <1>6 DEF Surjection
<1> QED BY <1>1, <1>2, <1>3, <1>7

-----------------------------------------------------------------------------
(* An entity is destroyed with everything below it. *)

LEMMA NoMembers == ASSUME NEW s \in Seq(Entity), ToSet(s) = {} PROVE s = <<>>
<1>1. Len(s) \in Nat /\ DOMAIN s = 1 .. Len(s) BY LenProperties
<1>2. ASSUME Len(s) # 0 PROVE FALSE
  <2>1. 1 \in DOMAIN s BY <1>1, <1>2
  <2>2. s[1] \in ToSet(s) BY <2>1 DEF ToSet
  <2> QED BY <2>2
<1> QED BY <1>2, EmptySeq

\* D are the entities below e: an entity of D is a child of another one, or e.
IsBelow(C, D, e) ==
    /\ e \in D /\ D \subseteq Entity /\ Closed(C, D)
    /\ \A y \in D : y # e => \E z \in D : y \in ToSet(C[z])

\* Of these, the entities "gone" were destroyed.
Partly(r, C, D, e, gone, q, B) ==
    /\ Rep(q, B, {}) /\ q.valid = r.valid \ gone
    /\ \A x \in Entity : ToSet(B[x]) = ToSet(C[x]) \ gone
    /\ \A x \in Entity \ D : B[x] = IF e \in gone THEN ST!Without(C[x], e) ELSE C[x]

LEMMA PartlyStep ==
    ASSUME NEW r, NEW C, Rep(r, C, {}), NEW e, NEW D, D \subseteq r.valid, IsBelow(C, D, e),
           NEW gone, NEW q, NEW B, Partly(r, C, D, e, gone, q, B),
           NEW y \in D \ gone, ToSet(C[y]) \subseteq gone
    PROVE  Partly(r, C, D, e, gone \cup {y}, Destroy(q, AllHooks, y), Rest(B, y))
<1> DEFINE s == Destroy(q, AllHooks, y)
           A == Rest(B, y)
<1>1. /\ Rep(q, B, {}) /\ q.valid = r.valid \ gone
      /\ \A x \in Entity : ToSet(B[x]) = ToSet(C[x]) \ gone
      /\ \A x \in Entity \ D : B[x] = IF e \in gone THEN ST!Without(C[x], e) ELSE C[x]
      BY DEF Partly
<1>2. y \in q.valid /\ y \in Entity /\ y \in D BY <1>1 DEF IsBelow
<1>3. B[y] = <<>>
  <2>1. ToSet(B[y]) = {} BY <1>1, <1>2
  <2>2. B[y] \in Seq(Entity) BY <1>1, <1>2, RepFacts
  <2> QED BY <2>1, <2>2, NoMembers
<1>4. Rep(s, A, {}) /\ s.valid = q.valid \ {y} BY <1>1, <1>2, <1>3, DestroyFacts
<1>5. ASSUME NEW x \in Entity
      PROVE  /\ A[x] = ST!Without(B[x], y) /\ ToSet(A[x]) = ToSet(B[x]) \ {y}
             /\ y \notin ToSet(B[x]) => A[x] = B[x]
      BY <1>1, RestFacts
<1> HIDE DEF s, A
<1>6. \A x \in Entity : ToSet(A[x]) = ToSet(C[x]) \ (gone \cup {y}) BY <1>1, <1>5
<1>7. ASSUME NEW x \in Entity \ D
      PROVE  A[x] = IF e \in gone \cup {y} THEN ST!Without(C[x], e) ELSE C[x]
  <2>1. CASE y = e BY <1>1, <1>5, <2>1
  <2>2. CASE y # e
    <3>1. PICK z \in D : y \in ToSet(C[z]) BY <1>2, <2>2 DEF IsBelow
    <3>2. z \in Entity /\ x # z BY <3>1 DEF IsBelow
    <3>3. To(r, y, "parent") = z BY <3>1, <3>2, RepFacts
    <3>4. y \notin ToSet(C[x]) BY <3>2, <3>3, InOneList
    <3>5. y \notin ToSet(B[x]) BY <1>1, <3>4
    <3> QED BY <1>1, <1>5, <2>2, <3>5
  <2> QED BY <2>1, <2>2
<1>8. s.valid = r.valid \ (gone \cup {y}) BY <1>1, <1>4
<1>9. Partly(r, C, D, e, gone \cup {y}, s, A) BY <1>4, <1>6, <1>7, <1>8 DEF Partly
<1> QED BY <1>9 DEF s, A

Pruned(C, D, e) == [x \in Entity |-> IF x \in D THEN <<>> ELSE ST!Without(C[x], e)]

IsPruned(q, r, C, D, e) == Rep(q, Pruned(C, D, e), {}) /\ q.valid = r.valid \ D

\* When all of them are, nothing of the tree is left, and the rest is as it was.
LEMMA PartlyAll ==
    ASSUME NEW r, NEW C, Rep(r, C, {}), NEW e, NEW D, IsBelow(C, D, e),
           NEW q, NEW B, Partly(r, C, D, e, D, q, B)
    PROVE  Rep(q, Pruned(C, D, e), {}) /\ q.valid = r.valid \ D
<1>1. /\ Rep(q, B, {}) /\ q.valid = r.valid \ D
      /\ \A x \in Entity : ToSet(B[x]) = ToSet(C[x]) \ D
      /\ \A x \in Entity \ D : B[x] = ST!Without(C[x], e)
      /\ B \in [Entity -> Seq(Entity)]
      BY DEF Partly, IsBelow, Rep
<1>2. ASSUME NEW x \in D, x \in Entity PROVE B[x] = <<>>
  <2>1. ToSet(B[x]) = {} BY <1>1, <1>2 DEF IsBelow, Closed
  <2>2. B[x] \in Seq(Entity) BY <1>1, <1>2, RepFacts
  <2> QED BY <2>1, <2>2, NoMembers
<1>3. B = [x \in Entity |-> B[x]] BY <1>1
<1>4. B = Pruned(C, D, e) BY <1>1, <1>2, <1>3 DEF Pruned
<1> QED BY <1>1, <1>4

LEMMA DestroyTreeFacts ==
    ASSUME NEW r, NEW C, Rep(r, C, {}), Ranked(C), NEW e \in r.valid,
           NEW q \in DestroyTree(r, AllHooks, e), NEW D, D = Reach(C, {e})
    PROVE  IsPruned(q, r, C, D, e)
<1>1. /\ e \in D /\ D \subseteq r.valid /\ D \subseteq Entity /\ IsFiniteSet(D) /\ Closed(C, D)
      /\ \A y \in D : y # e => \E z \in D : y \in ToSet(C[z])
  <2> DEFINE E == Reach(C, {e})
  <2>1. /\ e \in E /\ E \subseteq r.valid /\ E \subseteq Entity /\ IsFiniteSet(E) /\ Closed(C, E)
        /\ \A y \in E : y # e => \E z \in E : y \in ToSet(C[z])
        BY TreeFacts
  <2> QED BY <2>1
<1>2. IsBelow(C, D, e) BY <1>1 DEF IsBelow
<1>3. IsTree(r, e) BY TreesAreTrees
<1>4. Forest(r) = C /\ Subtree(r, e) = D BY ForestIs DEF Subtree
<1>5. PICK order \in ChildrenFirst(r, e) : q = DestroyAll(r, AllHooks, order)
      BY <1>3 DEF DestroyTree
<1>6. /\ order \in SetToSeqs(D)
      /\ \A i, j \in DOMAIN order : order[j] \in ToSet(C[order[i]]) => j < i
      BY <1>4, <1>5 DEF ChildrenFirst
<1> DEFINE size == Len(order)
<1>7. /\ size \in Nat /\ DOMAIN order = 1 .. size
      /\ \A i \in 1 .. size : order[i] \in D
      /\ \A i, j \in 1 .. size : order[i] = order[j] => i = j
      /\ \A x \in D : \E i \in 1 .. size : order[i] = x
      BY <1>1, <1>6, OrderFacts
<1>8. PICK after : /\ after[0] = r /\ after[size] = q
                   /\ \A i \in 1 .. size : after[i] = Destroy(after[i - 1], AllHooks, order[i])
      BY <1>5, <1>7, DestroyAllFacts
<1> HIDE DEF size
<1> DEFINE gone(n) == {order[i] : i \in 1 .. n}
           Done(n) == \E B : Partly(r, C, D, e, gone(n), after[n], B)
           S == {n \in Nat : n <= size => Done(n)}
<1>9. 0 \in S
  <2>1. gone(0) = {} OBVIOUS
  <2>2. Partly(r, C, D, e, {}, r, C) BY DEF Partly
  <2> QED BY <1>8, <2>1, <2>2
<1>10. ASSUME NEW n \in Nat, n \in S PROVE n + 1 \in S
  <2> SUFFICES ASSUME n + 1 <= size PROVE Done(n + 1)
    <3> HIDE DEF Done
    <3> QED OBVIOUS
  <2> DEFINE y == order[n + 1]
             g == gone(n)
  <2>1. n + 1 \in 1 .. size /\ n <= size /\ (n + 1) - 1 = n BY <1>7
  <2>2. PICK B : Partly(r, C, D, e, g, after[n], B) BY <1>10, <2>1
  <2>3. after[n + 1] = Destroy(after[n], AllHooks, y) BY <1>8, <2>1
  <2>4. y \in D \ g
    <3>1. y \in D BY <1>7, <2>1
    <3>2. ASSUME NEW i \in 1 .. n PROVE order[i] # y
      <4>1. i \in 1 .. size /\ i # n + 1 BY <1>7, <2>1
      <4> QED BY <1>7, <2>1, <4>1
    <3> QED BY <3>1, <3>2
  <2>5. ToSet(C[y]) \subseteq g
    <3> SUFFICES ASSUME NEW c \in ToSet(C[y]) PROVE c \in g OBVIOUS
    <3>1. c \in D BY <1>1, <2>4 DEF Closed
    <3>2. PICK j \in 1 .. size : order[j] = c BY <1>7, <3>1
    <3>3. j < n + 1 BY <1>6, <1>7, <2>1, <3>2
    <3>4. j \in 1 .. n BY <1>7, <3>3
    <3> QED BY <3>2, <3>4
  <2>6. gone(n + 1) = g \cup {y}
    <3>1. 1 .. n + 1 = (1 .. n) \cup {n + 1} OBVIOUS
    <3> QED BY <3>1
  <2> HIDE DEF g, y, gone, S
  <2>7. Partly(r, C, D, e, g \cup {y}, Destroy(after[n], AllHooks, y), Rest(B, y))
        BY <1>1, <1>2, <2>2, <2>4, <2>5, PartlyStep
  <2> QED BY <2>3, <2>6, <2>7
<1> HIDE DEF S
<1>11. Nat \subseteq S BY <1>9, <1>10, NumberInduction
<1>12. PICK B : Partly(r, C, D, e, gone(size), q, B)
  <2>1. size \in S /\ size <= size BY <1>7, <1>11
  <2> QED BY <1>8, <2>1 DEF S
<1>13. gone(size) = D
  <2>1. gone(size) \subseteq D
    <3>1. \A i \in 1 .. size : order[i] \in D BY <1>7
    <3> QED BY ONLY <3>1
  <2>2. D \subseteq gone(size) BY <1>7
  <2> QED BY <2>1, <2>2
<1> HIDE DEF gone
<1>14. Partly(r, C, D, e, D, q, B) BY <1>12, <1>13
<1> QED BY <1>2, <1>14, PartlyAll DEF IsPruned

-----------------------------------------------------------------------------
(* Clear destroys in any order: parents before their children too. *)

\* An entity with a next sibling is the previous one of that sibling.
NextIs(r, x) == LET n == To(r, x, "next") IN n # NoEntity => Has(r, n) /\ To(r, n, "prev") = x
Linked(r) == r \in Registry /\ r.ok /\ Dead(r) /\ \A x \in Entity : NextIs(r, x)

LEMMA RepIsLinked == ASSUME NEW r, NEW C, Rep(r, C, {}) PROVE Linked(r)
<1>1. r \in Registry /\ r.ok /\ Dead(r) BY DEF Rep
<1>2. ASSUME NEW x \in Entity, To(r, x, "next") # NoEntity
      PROVE  Has(r, To(r, x, "next")) /\ To(r, To(r, x, "next"), "prev") = x
  <2> DEFINE p == To(r, x, "parent")
  <2>1. p # NoEntity /\ x \in ToSet(C[p]) BY <1>2 DEF Rep
  <2>2. p \in Entity BY <1>1, <2>1, ToType DEF LinkNames
  <2>3. /\ Len(C[p]) \in Nat /\ DOMAIN C[p] = 1 .. Len(C[p])
        /\ \A i \in 1 .. Len(C[p]) : Has(r, C[p][i]) /\ Placed(r, C, p, i)
        BY <2>2, RepFacts
  <2>4. PICK i \in 1 .. Len(C[p]) : x = C[p][i] BY <2>1, <2>3 DEF ToSet
  <2>5. i # Len(C[p]) /\ To(r, x, "next") = C[p][i + 1] BY <1>2, <2>3, <2>4 DEF Placed
  <2>6. i + 1 \in 1 .. Len(C[p]) /\ i + 1 # 1 /\ (i + 1) - 1 = i BY <2>3, <2>5
  <2>7. To(r, C[p][i + 1], "prev") = C[p][i] BY <2>3, <2>6 DEF Placed
  <2> QED BY <2>3, <2>4, <2>5, <2>6, <2>7
<1> QED BY <1>1, <1>2 DEF Linked, NextIs

\* OnDestroy leaves no other entity with e as its next sibling.
LinkedWithout(q, r, e) ==
    /\ q \in Registry /\ q.ok /\ Dead(q) /\ q.valid = r.valid
    /\ \A x \in Entity \ {e} : NextIs(q, x) /\ To(q, x, "next") # e

LEMMA OnDestroyLinked ==
    ASSUME NEW r, Linked(r), NEW e, Has(r, e)
    PROVE  LinkedWithout(OnDestroy(r, e), r, e)
<1> DEFINE h == r.hier[e]
           p == h.parent
           a == h.prev
           n == h.next
           q == OnDestroy(r, e)
<1>1. r \in Registry /\ r.ok /\ Dead(r) /\ e \in Entity BY DEF Linked, Registry, Has
<1>2. p = To(r, e, "parent") /\ a = To(r, e, "prev") /\ n = To(r, e, "next") BY DEF To
<1>3. p \in Link /\ a \in Link /\ n \in Link /\ NoEntity \in Link
      BY <1>1, <1>2, ToType DEF LinkNames, Link
<1>4. n # NoEntity => Has(r, n) /\ To(r, n, "prev") = e BY <1>1, <1>2 DEF Linked, NextIs
<1>5. n \in r.valid \cup {NoEntity} BY <1>4 DEF Has
<1>6. /\ ~Has(r, NoEntity) /\ \A x : Has(r, x) => x # NoEntity
      /\ \A x, m : To(r, x, m) # NoEntity => Has(r, x)
      BY <1>1, NothingIsNoEntity DEF To
<1>7. ASSUME NEW x \in Entity \ {e}, To(r, x, "next") # NoEntity
      PROVE  /\ Has(r, To(r, x, "next")) /\ To(r, To(r, x, "next"), "prev") = x
             /\ To(r, x, "next") # n
             /\ To(r, x, "next") = e => x = a /\ a \in r.valid
  <2>1. Has(r, To(r, x, "next")) /\ To(r, To(r, x, "next"), "prev") = x
        BY <1>7 DEF Linked, NextIs
  <2>2. To(r, x, "next") # n BY <1>4, <1>7, <2>1
  <2>3. Has(r, x) BY <1>6, <1>7
  <2> QED BY <1>2, <2>1, <2>2, <2>3 DEF Has
<1>8. "next" \in LinkNames /\ "first" \in LinkNames /\ "prev" \in LinkNames BY DEF LinkNames
<1>9. CASE a \in r.valid
  <2> DEFINE s == LinkUp(r, a, "next", n, a)
  <2>1. q = FailIf(n \notin r.valid \cup {NoEntity}, s) BY <1>9 DEF OnDestroy, LinkUp
  <2> HIDE DEF p, a, n, h, q
  <2>2. Kept(s, r) BY <1>1, <1>3, <1>8, LinkUpKeeps
  <2>3. \A x : \A m \in LinkNames :
           To(s, x, m) = IF Has(r, n) /\ x = n /\ m = "prev" THEN a
                         ELSE IF Has(r, a) /\ x = a /\ m = "next" THEN n ELSE To(r, x, m)
        BY <1>1, <1>3, <1>8, ToAfterLinkUp
  <2> HIDE DEF s
  <2>4. q = s BY <1>5, <2>1, <2>2, FailIfNot DEF Kept
  <2>5. ASSUME NEW x \in Entity \ {e} PROVE NextIs(q, x) /\ To(q, x, "next") # e
    <3>1. To(q, x, "next") = IF Has(r, a) /\ x = a THEN n ELSE To(r, x, "next")
          BY <1>8, <2>3, <2>4
    <3>2. \A y : Has(q, y) <=> Has(r, y) BY <2>2, <2>4 DEF Kept
    <3>3. \A y : To(q, y, "prev") = IF Has(r, n) /\ y = n THEN a ELSE To(r, y, "prev")
          BY <1>8, <2>3, <2>4
    <3>4. CASE Has(r, a) /\ x = a
      <4>1. n # NoEntity => Has(q, n) /\ To(q, n, "prev") = x BY <1>4, <3>2, <3>3, <3>4
      <4>2. n # e BY <1>2, <1>4, <1>6, <1>1, <3>4
      <4> QED BY <3>1, <3>4, <4>1, <4>2 DEF NextIs
    <3>5. CASE ~(Has(r, a) /\ x = a)
      <4>1. To(q, x, "next") = To(r, x, "next") BY <3>1, <3>5
      <4>2. CASE To(r, x, "next") = NoEntity BY <1>1, <4>1, <4>2, HierarchyAssumption DEF NextIs
      <4>3. CASE To(r, x, "next") # NoEntity
        <5>1. /\ Has(r, To(r, x, "next")) /\ To(r, To(r, x, "next"), "prev") = x
              /\ To(r, x, "next") # n
              /\ To(r, x, "next") = e => x = a
              BY <1>7, <4>3
        <5>2. To(r, x, "next") # e BY <1>6, <3>5, <4>3, <5>1
        <5> QED BY <3>2, <3>3, <4>1, <5>1, <5>2 DEF NextIs
      <4> QED BY <4>2, <4>3
    <3> QED BY <3>4, <3>5
  <2>6. q \in Registry /\ q.ok /\ Dead(q) /\ q.valid = r.valid BY <1>1, <2>2, <2>4 DEF Kept
  <2> QED BY <2>5, <2>6 DEF LinkedWithout, q
<1>10. CASE a \notin r.valid /\ Has(r, p)
  <2> DEFINE s == LinkUp(r, p, "first", n, NoEntity)
  <2>1. q = FailIf(n \notin r.valid \cup {NoEntity}, s) BY <1>10 DEF OnDestroy, LinkUp
  <2> HIDE DEF p, a, n, h, q
  <2>2. Kept(s, r) BY <1>1, <1>3, <1>8, LinkUpKeeps
  <2>3. \A x : \A m \in LinkNames :
           To(s, x, m) = IF Has(r, n) /\ x = n /\ m = "prev" THEN NoEntity
                         ELSE IF Has(r, p) /\ x = p /\ m = "first" THEN n ELSE To(r, x, m)
        BY <1>1, <1>3, <1>8, ToAfterLinkUp
  <2> HIDE DEF s
  <2>4. q = s BY <1>5, <2>1, <2>2, FailIfNot DEF Kept
  <2>5. ASSUME NEW x \in Entity \ {e} PROVE NextIs(q, x) /\ To(q, x, "next") # e
    <3>1. To(q, x, "next") = To(r, x, "next") BY <1>8, <2>3, <2>4
    <3>2. \A y : Has(q, y) <=> Has(r, y) BY <2>2, <2>4 DEF Kept
    <3>3. \A y : To(q, y, "prev") = IF Has(r, n) /\ y = n THEN NoEntity ELSE To(r, y, "prev")
          BY <1>8, <2>3, <2>4
    <3>4. CASE To(r, x, "next") = NoEntity BY <1>1, <3>1, <3>4, HierarchyAssumption DEF NextIs
    <3>5. CASE To(r, x, "next") # NoEntity
      <4>1. /\ Has(r, To(r, x, "next")) /\ To(r, To(r, x, "next"), "prev") = x
            /\ To(r, x, "next") # n
            /\ To(r, x, "next") = e => a \in r.valid
            BY <1>7, <3>5
      <4> QED BY <1>10, <3>1, <3>2, <3>3, <4>1 DEF NextIs
    <3> QED BY <3>4, <3>5
  <2>6. q \in Registry /\ q.ok /\ Dead(q) /\ q.valid = r.valid BY <1>1, <2>2, <2>4 DEF Kept
  <2> QED BY <2>5, <2>6 DEF LinkedWithout, q
<1>11. CASE a \notin r.valid /\ ~Has(r, p)
  <2>1. q = r BY <1>11 DEF OnDestroy
  <2>2. ASSUME NEW x \in Entity \ {e} PROVE NextIs(r, x) /\ To(r, x, "next") # e
    <3>1. NextIs(r, x) BY DEF Linked
    <3> HIDE DEF a, n, p, h
    <3>2. To(r, x, "next") # e BY <1>1, <1>7, <1>11, HierarchyAssumption
    <3> QED BY <3>1, <3>2
  <2> QED BY <1>1, <2>1, <2>2 DEF LinkedWithout
<1> QED BY <1>9, <1>10, <1>11

LEMMA DestroyLinked ==
    ASSUME NEW r, Linked(r), NEW e \in r.valid
    PROVE  Linked(Destroy(r, AllHooks, e)) /\ Destroy(r, AllHooks, e).valid = r.valid \ {e}
<1> DEFINE d == IF Has(r, e) THEN OnDestroy(r, e) ELSE r
           s == [d EXCEPT !.hier[e] = NoHierarchy]
           v == r.valid \ {e}
           q == [s EXCEPT !.valid = s.valid \ {e}]
<1>1. r \in Registry /\ r.ok /\ Dead(r) /\ e \in Entity /\ v \in SUBSET Entity
      BY DEF Linked, Registry
<1>2. Destroy(r, AllHooks, e) = q BY DEF Destroy, RemoveHierarchy, AllHooks
<1>3. LinkedWithout(d, r, e)
  <2>1. CASE Has(r, e) BY <2>1, OnDestroyLinked
  <2>2. CASE ~Has(r, e)
    <3>1. ASSUME NEW x \in Entity PROVE NextIs(r, x) /\ To(r, x, "next") # e
      <4>1. NextIs(r, x) BY DEF Linked
      <4>2. To(r, x, "next") = e => e # NoEntity BY <1>1, HierarchyAssumption
      <4> QED BY <2>2, <4>1, <4>2 DEF NextIs
    <3> QED BY <1>1, <2>2, <3>1 DEF LinkedWithout
  <2> QED BY <2>1, <2>2
<1> HIDE DEF d
<1>4. /\ d \in Registry /\ d.ok /\ Dead(d) /\ d.valid = r.valid
      /\ \A x \in Entity \ {e} : NextIs(d, x) /\ To(d, x, "next") # e
      BY <1>3 DEF LinkedWithout
<1>5. IsDropped(s, d, e) BY <1>1, <1>4, DropFacts
<1> HIDE DEF s
<1>6. /\ s \in Registry /\ s.valid = r.valid /\ s.ok /\ Dead(s) /\ s.hier[e] = NoHierarchy
      /\ \A x : Has(s, x) <=> Has(d, x) /\ x # e
      /\ \A x, m : To(s, x, m) = IF x = e THEN NoEntity ELSE To(d, x, m)
      BY <1>4, <1>5 DEF IsDropped
<1>7. IsRevalued(q, s, v)
  <2>1. \A x \in Entity : x \in s.valid \ v \/ x \in v \ s.valid => s.hier[x] = NoHierarchy BY <1>6
  <2>2. q = [s EXCEPT !.valid = v] BY <1>6
  <2> HIDE DEF q, v
  <2> QED BY <1>1, <1>6, <2>1, <2>2, ValidFacts
<1> HIDE DEF q
<1>8. /\ q \in Registry /\ q.valid = v /\ q.ok /\ Dead(q)
      /\ \A x : Has(q, x) <=> Has(s, x)
      /\ \A x, m : To(q, x, m) = To(s, x, m)
      BY <1>6, <1>7 DEF IsRevalued
<1>9. ASSUME NEW x \in Entity PROVE NextIs(q, x)
  <2>1. CASE x = e BY <1>6, <1>8, <2>1 DEF NextIs
  <2>2. CASE x # e
    <3>1. NextIs(d, x) /\ To(d, x, "next") # e BY <1>4, <2>2
    <3>2. To(q, x, "next") = To(d, x, "next") BY <1>6, <1>8, <2>2
    <3> QED BY <1>6, <1>8, <3>1, <3>2 DEF NextIs
  <2> QED BY <2>1, <2>2
<1>10. Linked(q) BY <1>8, <1>9 DEF Linked
<1> QED BY <1>2, <1>8, <1>10

\* Whatever the order, no destruction fails and no entity is left.
LEMMA ClearFacts ==
    ASSUME NEW r, Linked(r), NEW order \in SetToSeqs(r.valid)
    PROVE  Linked(DestroyAll(r, AllHooks, order)) /\ DestroyAll(r, AllHooks, order).valid = {}
<1> DEFINE q == DestroyAll(r, AllHooks, order)
           size == Len(order)
<1>1. IsFiniteSet(r.valid)
  <2>1. r.valid \subseteq Entity BY DEF Linked, Registry
  <2> QED BY <2>1, HierarchyAssumption, FS_Subset
<1>2. /\ size \in Nat /\ DOMAIN order = 1 .. size
      /\ \A i \in 1 .. size : order[i] \in r.valid
      /\ \A i, j \in 1 .. size : order[i] = order[j] => i = j
      /\ \A x \in r.valid : \E i \in 1 .. size : order[i] = x
      BY <1>1, OrderFacts
<1>3. PICK after : /\ after[0] = r /\ after[size] = q
                   /\ \A i \in 1 .. size : after[i] = Destroy(after[i - 1], AllHooks, order[i])
      BY <1>2, DestroyAllFacts
<1> HIDE DEF size, q
<1> DEFINE gone(n) == {order[i] : i \in 1 .. n}
           Done(n) == Linked(after[n]) /\ after[n].valid = r.valid \ gone(n)
           S == {n \in Nat : n <= size => Done(n)}
<1>4. 0 \in S
  <2>1. gone(0) = {} OBVIOUS
  <2> QED BY <1>3, <2>1
<1>5. ASSUME NEW n \in Nat, n \in S PROVE n + 1 \in S
  <2> SUFFICES ASSUME n + 1 <= size PROVE Done(n + 1)
    <3> HIDE DEF Done
    <3> QED OBVIOUS
  <2> DEFINE y == order[n + 1]
             g == gone(n)
  <2>1. n + 1 \in 1 .. size /\ n <= size /\ (n + 1) - 1 = n BY <1>2
  <2>2. Linked(after[n]) /\ after[n].valid = r.valid \ g BY <1>5, <2>1
  <2>3. after[n + 1] = Destroy(after[n], AllHooks, y) BY <1>3, <2>1
  <2>4. y \in r.valid /\ y \notin g
    <3>1. y \in r.valid BY <1>2, <2>1
    <3>2. ASSUME NEW i \in 1 .. n PROVE order[i] # y
      <4>1. i \in 1 .. size /\ i # n + 1 BY <1>2, <2>1
      <4> QED BY <1>2, <2>1, <4>1
    <3> QED BY <3>1, <3>2
  <2>5. gone(n + 1) = g \cup {y}
    <3>1. 1 .. n + 1 = (1 .. n) \cup {n + 1} OBVIOUS
    <3> QED BY <3>1
  <2> HIDE DEF g, y, gone, S
  <2>6. y \in after[n].valid BY <2>2, <2>4
  <2>7. Linked(after[n + 1]) /\ after[n + 1].valid = after[n].valid \ {y}
        BY <2>2, <2>3, <2>6, DestroyLinked
  <2> QED BY <2>2, <2>5, <2>7
<1> HIDE DEF S
<1>6. Nat \subseteq S BY <1>4, <1>5, NumberInduction
<1>7. Linked(q) /\ q.valid = r.valid \ gone(size)
  <2>1. size \in S /\ size <= size BY <1>2, <1>6
  <2> QED BY <1>3, <2>1 DEF S
<1>8. r.valid \subseteq gone(size) BY <1>2
<1> QED BY <1>7, <1>8 DEF q

-----------------------------------------------------------------------------
(* What the calls make of the forest. *)

\* The links of the registry are those of an ordered forest.
IsForest(r) == Rep(r, Forest(r), {}) /\ Ranked(Forest(r))

Becomes(q, C, v) == IsForest(q) /\ Forest(q) = C /\ q.valid = v

LEMMA RepBecomes ==
    ASSUME NEW q, NEW C, Rep(q, C, {}), Ranked(C)
    PROVE  Becomes(q, C, q.valid)
<1>1. Forest(q) = C BY ForestIs
<1> QED BY <1>1 DEF Becomes, IsForest

\* The forest after e has moved under p.
Moved(C, e, p) == Grown(Rest(C, e), p, e)

LEMMA ForestFacts ==
    ASSUME NEW r, IsForest(r)
    PROVE  /\ r \in Registry /\ r.ok /\ r.valid \subseteq Entity /\ Dead(r) /\ Linked(r)
           /\ Forest(r) \in [Entity -> Seq(Entity)]
           /\ \A x \in Entity : x \notin r.valid => Forest(r)[x] = <<>>
<1>1. Rep(r, Forest(r), {}) BY DEF IsForest
<1>2. Linked(r) BY <1>1, RepIsLinked
<1>3. r \in Registry /\ r.ok /\ Dead(r) /\ Forest(r) \in [Entity -> Seq(Entity)]
      /\ \A x \in Entity : Forest(r)[x] # <<>> => Has(r, x)
      BY <1>1 DEF Rep
<1> QED BY <1>2, <1>3 DEF Registry, Has

LEMMA RestIsRanked ==
    ASSUME NEW r, NEW C, NEW X, Rep(r, C, X), Ranked(C), NEW e
    PROVE  Ranked(Rest(C, e)) /\ Rest(C, e) \in [Entity -> Seq(Entity)]
<1>1. \A p \in Entity : ToSet(Rest(C, e)[p]) \subseteq ToSet(C[p])
  <2> TAKE p \in Entity
  <2>1. ToSet(Rest(C, e)[p]) = ToSet(C[p]) \ {e} BY RestFacts
  <2> QED BY <2>1
<1>2. Ranked(Rest(C, e)) BY <1>1, FewerAreRanked
<1>3. \A p \in Entity : ST!Without(C[p], e) \in Seq(Entity) BY RepFacts, WithoutFacts
<1> QED BY <1>2, <1>3 DEF Rest

\* What p names is outside a set that is closed under the children and has e:
\* e may move under p.
LEMMA MovedIsRanked ==
    ASSUME NEW r, NEW C, Rep(r, C, {}), Ranked(C), NEW p \in Entity, NEW e, NEW D,
           D \subseteq Entity, e \in D, p \notin D, Closed(C, D)
    PROVE  Ranked(Moved(C, e, p)) /\ p \notin Reach(C, {e})
<1> DEFINE B == Rest(C, e)
<1>1. Ranked(B) /\ B \in [Entity -> Seq(Entity)] BY RestIsRanked
<1>2. \A x \in D : ToSet(B[x]) \subseteq D
  <2>1. \A x \in Entity : ToSet(B[x]) \subseteq ToSet(C[x]) BY RestFacts
  <2> QED BY <2>1 DEF Closed
<1> HIDE DEF B
<1>3. D \in SUBSET Entity OBVIOUS
<1>4. Ranked(Grown(B, p, e)) BY <1>1, <1>2, <1>3, GrownIsRanked
<1>5. IsReach(Reach(C, {e}), C, {e})
  <2>1. C \in [Entity -> Seq(Entity)] /\ {e} \subseteq Entity BY DEF Rep
  <2> QED BY <2>1, ReachFacts
<1>6. Reach(C, {e}) \subseteq D BY <1>3, <1>5 DEF IsReach
<1> QED BY <1>4, <1>6 DEF B, Moved

\* An entity without children is alone in its tree.
LEMMA ChildlessFacts ==
    ASSUME NEW C, C \in [Entity -> Seq(Entity)], NEW e \in Entity, C[e] = <<>>
    PROVE  Closed(C, {e}) /\ Reach(C, {e}) = {e}
<1>1. Closed(C, {e}) BY DEF Closed, ToSet
<1>2. IsReach(Reach(C, {e}), C, {e})
  <2>1. {e} \subseteq Entity OBVIOUS
  <2> QED BY <2>1, ReachFacts
<1>3. {e} \in SUBSET Entity OBVIOUS
<1> QED BY <1>1, <1>2, <1>3 DEF IsReach

\* SetParent: e moves under p, which is not below e.
LEMMA SetParentFacts ==
    ASSUME NEW r, NEW C, Rep(r, C, {}), Ranked(C), NEW e \in r.valid, NEW p \in r.valid, e # p,
           Has(r, e) => ~IsParent(r, p, e),
           NEW q, q = IF Has(r, e)
                      THEN FailIf(~WalkEnds(r, Ancestors(r, p)), Reparent(r, e, p))
                      ELSE Emplace(r, AllHooks, e, p)
    PROVE  Becomes(q, Moved(C, e, p), r.valid) /\ p \notin Reach(C, {e})
<1>1. r \in Registry /\ r.valid \subseteq Entity /\ C \in [Entity -> Seq(Entity)]
      BY DEF Rep, Registry
<1>2. CASE Has(r, e)
  <2> DEFINE A == ToSet(Ancestors(r, p))
             D == Entity \ (A \cup {p})
             s == Reparent(r, e, p)
  <2>1. WalkEnds(r, Ancestors(r, p)) /\ IsAbove(r, A, p) BY <1>1, AncestorsFacts
  <2>2. e \notin A BY <1>2 DEF IsParent
  <2> HIDE DEF A
  <2>3. /\ \A y \in A \cup {p} : To(r, y, "parent") # NoEntity => To(r, y, "parent") \in A
        BY <2>1 DEF IsAbove
  <2>4. Closed(C, D)
    <3> SUFFICES ASSUME NEW x \in D, NEW c \in ToSet(C[x]) PROVE c \in D BY DEF Closed
    <3>1. c \in Entity /\ To(r, c, "parent") = x BY RepFacts
    <3>2. x # NoEntity /\ x \notin A BY HierarchyAssumption
    <3> QED BY <2>3, <3>1, <3>2
  <2>5. D \subseteq Entity /\ e \in D /\ p \notin D BY <1>1, <2>2
  <2> HIDE DEF D
  <2>6. Ranked(Moved(C, e, p)) /\ p \notin Reach(C, {e}) BY <1>1, <2>4, <2>5, MovedIsRanked
  <2>7. Rep(s, Moved(C, e, p), {}) /\ s.valid = r.valid
    <3>1. p # NoEntity BY <1>1, HierarchyAssumption
    <3>2. p \in r.valid \cup {NoEntity} OBVIOUS
    <3>3. Rep(s, IF p = NoEntity THEN Rest(C, e) ELSE Grown(Rest(C, e), p, e), {})
          /\ s.valid = r.valid
          BY <1>2, <3>2, ReparentFacts
    <3> HIDE DEF s
    <3> QED BY <3>1, <3>3 DEF Moved
  <2>8. q = FailIf(~WalkEnds(r, Ancestors(r, p)), s) BY <1>2
  <2> HIDE DEF s
  <2>9. q = s
    <3>1. s \in Registry BY <2>7 DEF Rep
    <3>2. FailIf(FALSE, s) = s BY <3>1, FailIfNot
    <3>3. FailIf(~WalkEnds(r, Ancestors(r, p)), s) = FailIf(FALSE, s)
          BY <2>1 DEF FailIf
    <3> QED BY <2>8, <3>2, <3>3
  <2> HIDE DEF Moved
  <2>10. Becomes(q, Moved(C, e, p), q.valid) BY <2>6, <2>7, <2>9, RepBecomes
  <2> QED BY <2>6, <2>7, <2>9, <2>10
<1>3. CASE ~Has(r, e)
  <2>1. q = Emplace(r, AllHooks, e, p) BY <1>3
  <2>2. Rep(q, Grown(C, p, e), {}) /\ q.valid = r.valid /\ Rest(C, e) = C /\ C[e] = <<>>
        BY <1>3, <2>1, EmplaceFacts
  <2>3. Moved(C, e, p) = Grown(C, p, e) BY <2>2 DEF Moved
  <2>4. Closed(C, {e}) BY <1>1, <2>2, ChildlessFacts
  <2>5. {e} \subseteq Entity /\ e \in {e} /\ p \notin {e} BY <1>1
  <2>6. Ranked(Moved(C, e, p)) /\ p \notin Reach(C, {e}) BY <1>1, <2>4, <2>5, MovedIsRanked
  <2>7. Becomes(q, Moved(C, e, p), q.valid) BY <2>2, <2>3, <2>6, RepBecomes
  <2> QED BY <2>2, <2>6, <2>7
<1> QED BY <1>2, <1>3

\* The entity is a root, with what is below it.
LEMMA ToRootFacts ==
    ASSUME NEW r, NEW C, Rep(r, C, {}), Ranked(C), NEW e, Has(r, e),
           NEW q, q = Reparent(r, e, NoEntity)
    PROVE  Becomes(q, Rest(C, e), r.valid)
<1>1. NoEntity \in r.valid \cup {NoEntity} /\ NoEntity # e /\ r \in Registry
      BY NothingIsNoEntity DEF Rep, Has
<1>2. Rep(q, Rest(C, e), {}) /\ q.valid = r.valid
  <2>1. Rep(q, IF NoEntity = NoEntity THEN Rest(C, e) ELSE Grown(Rest(C, e), NoEntity, e), {})
        /\ q.valid = r.valid
        BY <1>1, ReparentFacts
  <2> QED BY <2>1
<1>3. Ranked(Rest(C, e)) BY RestIsRanked
<1> QED BY <1>2, <1>3, RepBecomes

\* A childless entity that is dropped on the panel.
LEMMA UnlinkFacts ==
    ASSUME NEW r, NEW C, Rep(r, C, {}), Ranked(C), NEW e, Has(r, e), C[e] = <<>>,
           NEW q, q = RemoveHierarchy(Reparent(r, e, NoEntity), AllHooks, e)
    PROVE  Becomes(q, Rest(C, e), r.valid)
<1> DEFINE s == Reparent(r, e, NoEntity)
           B == Rest(C, e)
<1>1. Becomes(s, B, r.valid) BY ToRootFacts
<1> HIDE DEF s
<1>2. Rep(s, B, {}) /\ Ranked(B) /\ s.valid = r.valid BY <1>1 DEF Becomes, IsForest
<1>3. e \in Entity BY DEF Rep, Registry, Has
<1>4. B[e] = <<>> /\ \A x \in Entity : e \notin ToSet(B[x]) BY <1>3, RestFacts
<1> HIDE DEF B
<1>5. q = RemoveHierarchy(s, AllHooks, e) BY DEF s
<1>6. Rep(q, Rest(B, e), {}) /\ q.valid = s.valid BY <1>2, <1>3, <1>4, <1>5, RemoveFacts
<1>7. Rest(B, e) = B
  <2>1. B \in [Entity -> Seq(Entity)] BY <1>2 DEF Rep
  <2>2. \A x \in Entity : Rest(B, e)[x] = B[x] BY <1>2, <1>4, RestFacts
  <2>3. Rest(B, e) = [x \in Entity |-> Rest(B, e)[x]] BY DEF Rest
  <2> QED BY <2>1, <2>2, <2>3
<1>8. Becomes(q, B, q.valid) BY <1>2, <1>6, <1>7, RepBecomes
<1> QED BY <1>2, <1>6, <1>8 DEF B

\* A childless entity that is destroyed: its tree is pruned.
LEMMA EntityDestroyFacts ==
    ASSUME NEW r, NEW C, Rep(r, C, {}), Ranked(C), NEW e \in r.valid, C[e] = <<>>,
           NEW q, q = Destroy(r, AllHooks, e), NEW D, D = Reach(C, {e})
    PROVE  Becomes(q, Pruned(C, D, e), r.valid \ D)
<1>1. e \in Entity /\ C \in [Entity -> Seq(Entity)] BY DEF Rep, Registry
<1>2. D = {e} BY <1>1, ChildlessFacts
<1>3. Rep(q, Rest(C, e), {}) /\ q.valid = r.valid \ {e} BY DestroyFacts
<1>4. Ranked(Rest(C, e)) BY RestIsRanked
<1>5. Rest(C, e) = Pruned(C, D, e)
  <2>1. Rest(C, e)[e] = <<>> BY <1>1, RestFacts
  <2>2. \A x \in Entity : Rest(C, e)[x] = IF x \in D THEN <<>> ELSE ST!Without(C[x], e)
        BY <1>2, <2>1 DEF Rest
  <2>3. Rest(C, e) = [x \in Entity |-> Rest(C, e)[x]] BY DEF Rest
  <2> QED BY <2>2, <2>3 DEF Pruned
<1>6. Becomes(q, Rest(C, e), q.valid) BY <1>3, <1>4, RepBecomes
<1> QED BY <1>2, <1>3, <1>5, <1>6

LEMMA PrunedIsRanked ==
    ASSUME NEW r, NEW C, Rep(r, C, {}), Ranked(C), NEW D, NEW e
    PROVE  Ranked(Pruned(C, D, e))
<1>1. \A p \in Entity : ToSet(Pruned(C, D, e)[p]) \subseteq ToSet(C[p])
  <2> TAKE p \in Entity
  <2>1. ToSet(Rest(C, e)[p]) = ToSet(C[p]) \ {e} /\ Rest(C, e)[p] = ST!Without(C[p], e)
        BY RestFacts
  <2>2. CASE p \in D
    <3>1. Pruned(C, D, e)[p] = <<>> BY <2>2 DEF Pruned
    <3>2. ToSet(<<>>) = {} BY DEF ToSet
    <3> QED BY <3>1, <3>2
  <2>3. CASE p \notin D
    <3>1. Pruned(C, D, e)[p] = ST!Without(C[p], e) BY <2>3 DEF Pruned
    <3> QED BY <2>1, <3>1
  <2> QED BY <2>2, <2>3
<1> QED BY <1>1, FewerAreRanked

LEMMA PruneFacts ==
    ASSUME NEW r, NEW C, Rep(r, C, {}), Ranked(C), NEW e \in r.valid,
           NEW q \in DestroyTree(r, AllHooks, e), NEW D, D = Reach(C, {e})
    PROVE  Becomes(q, Pruned(C, D, e), r.valid \ D)
<1>1. Rep(q, Pruned(C, D, e), {}) /\ q.valid = r.valid \ D
  <2>1. IsPruned(q, r, C, D, e) BY DestroyTreeFacts
  <2> QED BY <2>1 DEF IsPruned
<1>2. Ranked(Pruned(C, D, e)) BY PrunedIsRanked
<1>3. Becomes(q, Pruned(C, D, e), q.valid) BY <1>1, <1>2, RepBecomes
<1> QED BY <1>1, <1>3

LEMMA CreateFacts ==
    ASSUME NEW r, NEW C, Rep(r, C, {}), Ranked(C), NEW e \in Entity \ r.valid,
           NEW q, q = New(r, e)
    PROVE  Becomes(q, C, r.valid \cup {e})
<1>1. Rep(q, C, {}) /\ q.valid = r.valid \cup {e} BY NewFacts
<1>2. Becomes(q, C, q.valid) BY <1>1, RepBecomes
<1> QED BY <1>1, <1>2

\* A new entity under p.
LEMMA AddChildFacts ==
    ASSUME NEW r, NEW C, Rep(r, C, {}), Ranked(C), NEW e \in Entity \ r.valid, NEW p \in r.valid,
           NEW q, q = Emplace(New(r, e), AllHooks, e, p)
    PROVE  Becomes(q, Grown(C, p, e), r.valid \cup {e}) /\ C[e] = <<>>
<1> DEFINE s == New(r, e)
<1>1. Rep(s, C, {}) /\ s.valid = r.valid \cup {e} /\ ~Has(s, e) BY NewFacts
<1> HIDE DEF s
<1>2. e \in s.valid /\ p \in s.valid /\ p # e /\ q = Emplace(s, AllHooks, e, p) BY <1>1 DEF s
<1>3. Rep(q, Grown(C, p, e), {}) /\ q.valid = s.valid /\ Rest(C, e) = C /\ C[e] = <<>>
      BY <1>1, <1>2, EmplaceFacts
<1>4. C \in [Entity -> Seq(Entity)] /\ p \in Entity /\ e \in Entity BY DEF Rep, Registry
<1>5. Closed(C, {e}) BY <1>3, <1>4, ChildlessFacts
<1>6. Ranked(Grown(C, p, e))
  <2>1. {e} \subseteq Entity /\ e \in {e} /\ p \notin {e} BY <1>2, <1>4
  <2>2. Ranked(Moved(C, e, p)) BY <1>4, <1>5, <2>1, MovedIsRanked
  <2> QED BY <1>3, <2>2 DEF Moved
<1>7. Becomes(q, Grown(C, p, e), q.valid) BY <1>3, <1>6, RepBecomes
<1> QED BY <1>1, <1>3, <1>7

\* A new entity under p, and then the tree of p: what was there before goes.
LEMMA PasteCutFacts ==
    ASSUME NEW r, NEW C, Rep(r, C, {}), Ranked(C), NEW e \in Entity \ r.valid, NEW p \in r.valid,
           NEW q \in DestroyTree(Emplace(New(r, e), AllHooks, e, p), AllHooks, p),
           NEW D, D = Reach(C, {p})
    PROVE  Becomes(q, Pruned(C, D, p), r.valid \ D)
<1> DEFINE s == Emplace(New(r, e), AllHooks, e, p)
           G == Grown(C, p, e)
           E == Reach(G, {p})
<1>0. C \in [Entity -> Seq(Entity)] /\ p \in Entity /\ e \in Entity /\ p # e BY DEF Rep, Registry
<1>1. Becomes(s, G, r.valid \cup {e}) /\ C[e] = <<>> BY AddChildFacts
<1>2. Rep(s, G, {}) /\ Ranked(G) /\ s.valid = r.valid \cup {e} BY <1>1 DEF Becomes, IsForest
<1>3. \A x \in Entity : \A y : y \in ToSet(G[x]) <=> y \in ToSet(C[x]) \/ (x = p /\ y = e)
      BY <1>0, GrownMembers
<1>4. G[e] = <<>> /\ \A x \in Entity \ {p} : G[x] = C[x] BY <1>0, <1>1 DEF Grown
<1>5. q \in DestroyTree(s, AllHooks, p) OBVIOUS
<1> HIDE DEF s, G
<1>6. Becomes(q, Pruned(G, E, p), s.valid \ E) BY <1>2, <1>5, PruneFacts
<1>7. E = D \cup {e}
  <2>1. IsReach(E, G, {p}) /\ IsReach(D, C, {p})
    <3>1. G \in [Entity -> Seq(Entity)] /\ {p} \subseteq Entity BY <1>0, <1>2 DEF Rep
    <3> DEFINE F == Reach(C, {p})
    <3>2. IsReach(E, G, {p}) /\ IsReach(F, C, {p}) BY <1>0, <3>1, ReachFacts
    <3> QED BY <3>2
  <2> HIDE DEF E
  <2>2. /\ p \in E /\ p \in D /\ E \in SUBSET Entity /\ D \in SUBSET Entity
        /\ Closed(G, E) /\ Closed(C, D)
        BY <2>1 DEF IsReach
  <2>3. Closed(C, E) BY <1>3, <2>2 DEF Closed
  <2>4. D \subseteq E BY <2>1, <2>2, <2>3 DEF IsReach
  <2>5. e \in E BY <1>0, <1>3, <2>2 DEF Closed
  <2>6. Closed(G, D \cup {e})
    <3>1. ToSet(G[e]) = {} BY <1>4 DEF ToSet
    <3> QED BY <1>3, <2>2, <3>1 DEF Closed
  <2>7. D \cup {e} \in SUBSET Entity /\ {p} \subseteq D \cup {e} BY <1>0, <2>2
  <2>8. E \subseteq D \cup {e} BY <2>1, <2>6, <2>7 DEF IsReach
  <2> QED BY <2>4, <2>5, <2>8
<1>8. p \in D
  <2>1. IsReach(Reach(C, {p}), C, {p})
    <3>1. {p} \subseteq Entity BY <1>0
    <3> QED BY <1>0, <3>1, ReachFacts
  <2> QED BY <2>1 DEF IsReach
<1> HIDE DEF E
<1>9. Pruned(G, E, p) = Pruned(C, D, p)
  <2>1. ST!Without(C[e], p) = <<>>
    <3>1. Rest(C, p)[e] = <<>> BY <1>0, <1>1, RestFacts
    <3> QED BY <1>0, <3>1 DEF Rest
  <2>2. ASSUME NEW x \in Entity
        PROVE  (IF x \in E THEN <<>> ELSE ST!Without(G[x], p))
               = (IF x \in D THEN <<>> ELSE ST!Without(C[x], p))
    <3>1. CASE x = e BY <1>7, <2>1, <3>1
    <3>2. CASE x # e
      <4>1. x \notin D => G[x] = C[x] BY <1>4, <1>8
      <4> QED BY <1>7, <3>2, <4>1
    <3> QED BY <3>1, <3>2
  <2> QED BY <2>2 DEF Pruned
<1>10. s.valid \ E = r.valid \ D BY <1>2, <1>7
<1> QED BY <1>6, <1>9, <1>10

-----------------------------------------------------------------------------
(* The scene. *)

\* The forests of the scene and of its file.
SceneOK == /\ hooks = AllHooks /\ created \subseteq Entity
           /\ registry.valid \subseteq created /\ IsForest(registry)
FileOK == file # NoFile =>
              /\ file \in [registry : Registry, created : SUBSET Entity]
              /\ file.registry.valid \subseteq file.created /\ IsForest(file.registry)
IInv == SceneOK /\ FileOK

\* What a call makes of the forest of the scene; the file is as it was.
Changes(C, v) == Becomes(registry', C, v) /\ hooks' = hooks /\ file' = file

LEMMA ChangesKeeps ==
    ASSUME IInv, NEW C, NEW v, Changes(C, v), created' \subseteq Entity, v \subseteq created'
    PROVE  IInv'
<1>1. SceneOK' BY DEF IInv, SceneOK, Changes, Becomes
<1>2. FileOK' BY DEF IInv, FileOK, Changes
<1> QED BY <1>1, <1>2 DEF IInv

\* In terms of the abstract specification.
LEMMA Abstract ==
    ASSUME NEW C, NEW v, Changes(C, v)
    PROVE  /\ (registry.valid)' = v /\ Forest(registry)' = C
           /\ (IF file = NoFile THEN NoFile
               ELSE [nodes |-> file.registry.valid, children |-> Forest(file.registry)])'
              = IF file = NoFile THEN NoFile
                ELSE [nodes |-> file.registry.valid, children |-> Forest(file.registry)]
BY DEF Changes, Becomes

LEMMA SceneFacts ==
    ASSUME IInv
    PROVE  /\ Rep(registry, Forest(registry), {}) /\ Ranked(Forest(registry))
           /\ registry \in Registry /\ registry.ok /\ registry.valid \subseteq Entity
           /\ created \subseteq Entity /\ registry.valid \subseteq created /\ hooks = AllHooks
           /\ Forest(registry) \in [Entity -> Seq(Entity)]
<1>1. IsForest(registry) BY DEF IInv, SceneOK
<1> QED BY <1>1, ForestFacts DEF IInv, SceneOK, IsForest

LEMMA CreateStep ==
    ASSUME IInv, NEW e \in Entity, CreateEntity(e)
    PROVE  IInv' /\ ST!Create(e)
<1> DEFINE C == Forest(registry)
<1>1. e \in Entity \ registry.valid /\ registry' = New(registry, e)
      /\ created' = created \cup {e} /\ hooks' = hooks /\ file' = file
      BY SceneFacts DEF CreateEntity
<1>2. Becomes(registry', C, registry.valid \cup {e}) BY <1>1, SceneFacts, CreateFacts
<1>3. Changes(C, registry.valid \cup {e}) BY <1>1, <1>2 DEF Changes
<1>4. IInv' BY <1>1, <1>3, SceneFacts, ChangesKeeps
<1>5. ST!Create(e) BY <1>1, <1>3, Abstract DEF ST!Create
<1> QED BY <1>4, <1>5

LEMMA SetParentStep ==
    ASSUME IInv, NEW e \in Entity, NEW p \in Entity, SetParent(e, p)
    PROVE  IInv' /\ ST!Attach(e, p)
<1> DEFINE C == Forest(registry)
           M == Moved(C, e, p)
<1>1. /\ e \in registry.valid /\ p \in registry.valid /\ e # p
      /\ created' = created /\ hooks' = hooks /\ file' = file
      BY DEF SetParent
<1>2. /\ Has(registry, e) => ~IsParent(registry, p, e)
      /\ registry' = IF Has(registry, e)
                     THEN FailIf(~WalkEnds(registry, Ancestors(registry, p)), Reparent(registry, e, p))
                     ELSE Emplace(registry, AllHooks, e, p)
      BY SceneFacts DEF SetParent
<1>3. Becomes(registry', M, registry.valid) /\ p \notin Reach(C, {e})
      BY <1>1, <1>2, SceneFacts, SetParentFacts
<1>4. M = [x \in Entity |-> IF x = p THEN Append(ST!Without(C[x], e), e) ELSE ST!Without(C[x], e)]
  <2>1. \A x \in Entity : Rest(C, e)[x] = ST!Without(C[x], e) BY DEF Rest
  <2>2. Rest(C, e) = [x \in Entity |-> Rest(C, e)[x]] BY DEF Rest
  <2> QED BY <2>1, <2>2 DEF Moved, Grown
<1> HIDE DEF M
<1>5. Changes(M, registry.valid) BY <1>1, <1>3 DEF Changes
<1>6. IInv' BY <1>1, <1>5, SceneFacts, ChangesKeeps
<1>7. p \notin ST!Below(e) BY <1>3, BelowIsReach
<1>8. ST!Attach(e, p) BY <1>1, <1>4, <1>5, <1>7, Abstract DEF ST!Attach
<1> QED BY <1>6, <1>8

LEMMA PruneStep ==
    ASSUME IInv, NEW e \in Entity, e \in registry.valid,
           Becomes(registry', Pruned(Forest(registry), Reach(Forest(registry), {e}), e),
                   registry.valid \ Reach(Forest(registry), {e})),
           hooks' = hooks, file' = file, created' \subseteq Entity, created \subseteq created'
    PROVE  IInv' /\ ST!Prune(e)
<1> DEFINE C == Forest(registry)
           D == Reach(C, {e})
           P == Pruned(C, D, e)
           v == registry.valid \ D
<1>1. Changes(P, v) BY DEF Changes
<1>2. ST!Below(e) = D BY BelowIsReach
<1>3. P = [x \in Entity |-> IF x \in ST!Below(e) THEN <<>> ELSE ST!Without(C[x], e)]
      BY <1>2 DEF Pruned
<1>4. v \subseteq created' /\ v = registry.valid \ ST!Below(e) BY <1>2, SceneFacts
<1> HIDE DEF P, v, D
<1>5. IInv' BY <1>1, <1>4, ChangesKeeps
<1>6. ST!Prune(e) BY <1>1, <1>3, <1>4, Abstract DEF ST!Prune
<1> QED BY <1>5, <1>6

LEMMA DetachStep ==
    ASSUME IInv, NEW e \in Entity, e \in registry.valid,
           Becomes(registry', Rest(Forest(registry), e), registry.valid),
           hooks' = hooks, file' = file, created' = created
    PROVE  IInv' /\ ST!Detach(e)
<1> DEFINE B == Rest(Forest(registry), e)
<1>1. Changes(B, registry.valid) BY DEF Changes
<1>2. B = [x \in Entity |-> ST!Without(Forest(registry)[x], e)] BY DEF Rest
<1> HIDE DEF B
<1>3. IInv' BY <1>1, SceneFacts, ChangesKeeps
<1>4. ST!Detach(e) BY <1>1, <1>2, Abstract DEF ST!Detach
<1> QED BY <1>3, <1>4

LEMMA EntityDestroyStep ==
    ASSUME IInv, NEW e \in Entity, Childless(e), EntityDestroy(e)
    PROVE  IInv' /\ ST!Prune(e)
<1> DEFINE C == Forest(registry)
           D == Reach(C, {e})
<1>1. /\ e \in registry.valid /\ registry' = Destroy(registry, AllHooks, e)
      /\ hooks' = hooks /\ file' = file /\ created' = created
      BY SceneFacts DEF EntityDestroy
<1>2. C[e] = <<>> BY DEF Childless, Forest
<1>3. Becomes(registry', Pruned(C, D, e), registry.valid \ D)
      BY <1>1, <1>2, SceneFacts, EntityDestroyFacts
<1>4. created' \subseteq Entity /\ created \subseteq created' BY <1>1, SceneFacts
<1> QED BY <1>1, <1>3, <1>4, PruneStep

LEMMA DestroyEntityStep ==
    ASSUME IInv, NEW e \in Entity, DestroyEntity(e)
    PROVE  IInv' /\ ST!Prune(e)
<1> DEFINE C == Forest(registry)
           D == Reach(C, {e})
<1>1. /\ e \in registry.valid /\ registry' \in DestroyTree(registry, AllHooks, e)
      /\ hooks' = hooks /\ file' = file /\ created' = created
      BY SceneFacts DEF DestroyEntity
<1>2. Becomes(registry', Pruned(C, D, e), registry.valid \ D) BY <1>1, SceneFacts, PruneFacts
<1>3. created' \subseteq Entity /\ created \subseteq created' BY <1>1, SceneFacts
<1> QED BY <1>1, <1>2, <1>3, PruneStep

LEMMA PasteCutStep ==
    ASSUME IInv, NEW p \in Entity, NEW e \in Entity, PasteCut(p, e)
    PROVE  IInv' /\ ST!Prune(p)
<1> DEFINE C == Forest(registry)
           D == Reach(C, {p})
<1>1. /\ p \in registry.valid /\ e \in Entity \ registry.valid
      /\ registry' \in DestroyTree(Emplace(New(registry, e), AllHooks, e, p), AllHooks, p)
      /\ hooks' = hooks /\ file' = file /\ created' = created \cup {e}
      BY SceneFacts DEF PasteCut
<1>2. Becomes(registry', Pruned(C, D, p), registry.valid \ D) BY <1>1, SceneFacts, PasteCutFacts
<1>3. created' \subseteq Entity /\ created \subseteq created' BY <1>1, SceneFacts
<1> QED BY <1>1, <1>2, <1>3, PruneStep

LEMMA AddChildStep ==
    ASSUME IInv, NEW p \in Entity, NEW e \in Entity, AddChild(p, e)
    PROVE  IInv' /\ ST!CreateUnder(p, e)
<1> DEFINE C == Forest(registry)
           G == Grown(C, p, e)
           v == registry.valid \cup {e}
<1>1. /\ p \in registry.valid /\ e \in Entity \ registry.valid
      /\ registry' = Emplace(New(registry, e), AllHooks, e, p)
      /\ hooks' = hooks /\ file' = file /\ created' = created \cup {e}
      BY SceneFacts DEF AddChild
<1>2. Becomes(registry', G, v) BY <1>1, SceneFacts, AddChildFacts
<1>3. Changes(G, v) BY <1>1, <1>2 DEF Changes
<1>4. created' \subseteq Entity /\ v \subseteq created' BY <1>1, SceneFacts
<1>5. G = [C EXCEPT ![p] = Append(@, e)] BY DEF Grown
<1> HIDE DEF G
<1>6. IInv' BY <1>3, <1>4, ChangesKeeps
<1>7. ST!CreateUnder(p, e) BY <1>1, <1>3, <1>5, Abstract DEF ST!CreateUnder
<1> QED BY <1>6, <1>7

LEMMA DropOnFilterStep ==
    ASSUME IInv, NEW e \in Entity, DropOnFilter(e)
    PROVE  IInv' /\ ST!Detach(e)
<1>1. /\ Has(registry, e) /\ registry' = Reparent(registry, e, NoEntity)
      /\ hooks' = hooks /\ file' = file /\ created' = created
      BY DEF DropOnFilter
<1>2. Becomes(registry', Rest(Forest(registry), e), registry.valid)
      BY <1>1, SceneFacts, ToRootFacts
<1>3. e \in registry.valid BY <1>1 DEF Has
<1> QED BY <1>1, <1>2, <1>3, DetachStep

LEMMA DropOnPanelStep ==
    ASSUME IInv, NEW e \in Entity, Childless(e), DropOnPanel(e)
    PROVE  IInv' /\ ST!Detach(e)
<1>1. /\ Has(registry, e)
      /\ registry' = RemoveHierarchy(Reparent(registry, e, NoEntity), AllHooks, e)
      /\ hooks' = hooks /\ file' = file /\ created' = created
      BY SceneFacts DEF DropOnPanel
<1>2. Forest(registry)[e] = <<>> BY DEF Childless, Forest
<1>3. Becomes(registry', Rest(Forest(registry), e), registry.valid)
      BY <1>1, <1>2, SceneFacts, UnlinkFacts
<1>4. e \in registry.valid BY <1>1 DEF Has
<1> QED BY <1>1, <1>3, <1>4, DetachStep

LEMMA SerialiseStep ==
    ASSUME IInv, Serialise
    PROVE  IInv' /\ ST!Save
<1>1. /\ file' = [registry |-> registry, created |-> created]
      /\ registry' = registry /\ hooks' = hooks /\ created' = created
      BY DEF Serialise
<1>2. /\ file' \in [registry : Registry, created : SUBSET Entity]
      /\ file'.registry = registry /\ file'.created = created
      BY <1>1, SceneFacts
<1>3. file' # NoFile BY <1>2, NoFileAssumption
<1>4. SceneOK' BY <1>1 DEF IInv, SceneOK
<1>5. FileOK' BY <1>2 DEF FileOK, IInv, SceneOK
<1>6. IInv' BY <1>4, <1>5 DEF IInv
<1>7. ST!Save BY <1>1, <1>2, <1>3 DEF ST!Save
<1> QED BY <1>6, <1>7

LEMMA DeserialiseStep ==
    ASSUME IInv, Deserialise
    PROVE  IInv' /\ ST!Load
<1>1. file # NoFile /\ created' = file.created /\ file' = file BY DEF Deserialise
<1>2. PICK r \in Clear : registry' = IF r.ok THEN file.registry ELSE r BY DEF Deserialise
<1>3. r.ok
  <2>1. PICK order \in SetToSeqs(registry.valid) : r = DestroyAll(registry, AllHooks, order)
        BY SceneFacts DEF Clear
  <2>2. Linked(registry) BY SceneFacts, RepIsLinked
  <2>3. Linked(DestroyAll(registry, AllHooks, order)) BY <2>2, ClearFacts
  <2> QED BY <2>1, <2>3 DEF Linked
<1>4. registry' = file.registry BY <1>2, <1>3
<1>5. hooks' = AllHooks BY SceneFacts DEF Deserialise, AllHooks
<1>6. /\ file \in [registry : Registry, created : SUBSET Entity]
      /\ file.registry.valid \subseteq file.created /\ IsForest(file.registry)
      BY <1>1 DEF IInv, FileOK
<1>7. SceneOK' BY <1>1, <1>4, <1>5, <1>6 DEF SceneOK
<1>8. FileOK' BY <1>1, <1>6 DEF FileOK
<1>9. IInv' BY <1>7, <1>8 DEF IInv
<1> DEFINE s == [nodes |-> file.registry.valid, children |-> Forest(file.registry)]
<1>10. s # NoFile
  <2>1. s \in [nodes : SUBSET Entity, children : [Entity -> Seq(Entity)]] BY <1>6, ForestFacts
  <2> QED BY <2>1, NoFileAssumption
<1>11. ST!Load BY <1>1, <1>4, <1>10 DEF ST!Load
<1> QED BY <1>9, <1>11

LEMMA TreeStep ==
    ASSUME IInv, [TreeNext]_vars
    PROVE  IInv' /\ [ST!Next]_ST!vars
<1>1. ASSUME NEW e \in Entity, CreateEntity(e) PROVE IInv' /\ ST!Next
      BY <1>1, CreateStep DEF ST!Next
<1>2. ASSUME NEW e \in Entity, DropOnFilter(e) PROVE IInv' /\ ST!Next
      BY <1>2, DropOnFilterStep DEF ST!Next
<1>3. ASSUME NEW e \in Entity, DestroyEntity(e) PROVE IInv' /\ ST!Next
      BY <1>3, DestroyEntityStep DEF ST!Next
<1>4. ASSUME NEW e \in Entity, Childless(e), EntityDestroy(e) PROVE IInv' /\ ST!Next
      BY <1>4, EntityDestroyStep DEF ST!Next
<1>5. ASSUME NEW e \in Entity, Childless(e), DropOnPanel(e) PROVE IInv' /\ ST!Next
      BY <1>5, DropOnPanelStep DEF ST!Next
<1>6. ASSUME NEW e \in Entity, NEW p \in Entity, SetParent(e, p) PROVE IInv' /\ ST!Next
      BY <1>6, SetParentStep DEF ST!Next
<1>7. ASSUME NEW e \in Entity, NEW p \in Entity, Drop(e, p) PROVE IInv' /\ ST!Next
      BY <1>6, <1>7 DEF Drop
<1>8. ASSUME NEW e \in Entity, NEW p \in Entity, AddChild(p, e) PROVE IInv' /\ ST!Next
      BY <1>8, AddChildStep DEF ST!Next
<1>9. ASSUME NEW e \in Entity, NEW p \in Entity, PasteCut(p, e) PROVE IInv' /\ ST!Next
      BY <1>9, PasteCutStep DEF ST!Next
<1>10. ASSUME Serialise PROVE IInv' /\ ST!Next BY <1>10, SerialiseStep DEF ST!Next
<1>11. ASSUME Deserialise PROVE IInv' /\ ST!Next BY <1>11, DeserialiseStep DEF ST!Next
<1>12. ASSUME UNCHANGED vars PROVE IInv' /\ UNCHANGED ST!vars
  <2>1. registry' = registry /\ hooks' = hooks /\ created' = created /\ file' = file
        BY <1>12 DEF vars
  <2>2. IInv' BY <2>1 DEF IInv, SceneOK, FileOK
  <2> QED BY <2>1, <2>2 DEF ST!vars
<1> QED BY <1>1, <1>2, <1>3, <1>4, <1>5, <1>6, <1>7, <1>8, <1>9, <1>10, <1>11, <1>12 DEF TreeNext

\* The empty scene is the empty forest.
LEMMA StartedIsForest ==
    ASSUME StartedInit
    PROVE  IInv /\ ST!Init
<1> DEFINE C == [e \in Entity |-> <<>>]
<1>1. registry = EmptyRegistry /\ hooks = AllHooks /\ created = {} /\ file = NoFile
      BY DEF StartedInit
<1>2. /\ EmptyRegistry \in Registry /\ EmptyRegistry.ok /\ EmptyRegistry.valid = {}
      /\ Dead(EmptyRegistry)
      BY DEF EmptyRegistry, Registry, Dead
<1>3. \A x : ~Has(EmptyRegistry, x) BY <1>2 DEF Has
<1>4. \A x, m : To(EmptyRegistry, x, m) = NoEntity BY <1>3 DEF To
<1>5. /\ C \in [Entity -> Seq(Entity)] /\ \A x \in Entity : C[x] = <<>>
      /\ DOMAIN <<>> = {} /\ IsInjective(<<>>)
      BY DEF IsInjective
<1> HIDE DEF C
<1>6. Rep(EmptyRegistry, C, {}) BY <1>2, <1>4, <1>5 DEF Rep, FirstOf
<1>7. Ranked(C)
  <2> DEFINE rank == [x \in Entity |-> 0]
  <2>1. \A p \in Entity : ToSet(C[p]) = {} BY <1>5 DEF ToSet
  <2>2. rank \in [Entity -> Nat] OBVIOUS
  <2> HIDE DEF rank
  <2>3. Ranks(C, rank) BY <2>1, <2>2 DEF Ranks
  <2> QED BY <2>3 DEF Ranked
<1>8. Becomes(EmptyRegistry, C, {}) BY <1>2, <1>6, <1>7, RepBecomes
<1>9. IInv BY <1>1, <1>8 DEF IInv, SceneOK, FileOK, Becomes
<1>10. ST!Init BY <1>1, <1>8 DEF ST!Init, Becomes, C
<1> QED BY <1>9, <1>10

LEMMA Inductive == TreeSpec => []IInv
BY StartedIsForest, TreeStep, PTL DEF TreeSpec

\* Type correctness: whatever the calls, a component is four links, an entity
\* that was destroyed has none, and no identifier is alive that was not handed
\* out (Entity.h, SceneGraph.cpp).
THEOREM TypeCorrect == TreeSpec => []TypeOK
<1>1. IInv => TypeOK
  <2> SUFFICES ASSUME IInv PROVE TypeOK OBVIOUS
  <2>1. Dead(registry) BY DEF IInv, SceneOK, IsForest, Rep
  <2> QED BY <2>1, SceneFacts DEF TypeOK, Dead, IInv, FileOK
<1> QED BY Inductive, <1>1, PTL

\* No call follows a link to a destroyed entity or goes round a list for ever:
\* not a reparenting, nor a destruction of a tree with the children first, nor
\* Clear, which destroys in any order (SceneGraph.cpp 130-298).
THEOREM CallsSucceed == TreeSpec => []NeverStuck
<1>1. IInv => NeverStuck BY SceneFacts DEF NeverStuck
<1> QED BY Inductive, <1>1, PTL

\* The links of the components agree: what is met from First are the entities
\* that name the parent, and Prev undoes Next (SceneGraph.cpp 144-178, 251-298).
THEOREM ListsAgree == TreeSpec => []ChildListsAgree
<1>1. IInv => ChildListsAgree
  <2> SUFFICES ASSUME IInv, NEW p \in registry.valid
               PROVE  /\ \A e \in Entity : e \in ToSet(Kids(registry, p))
                                           <=> Has(registry, e) /\ registry.hier[e].parent = p
                      /\ IsInjective(Kids(registry, p))
                      /\ \A i \in DOMAIN Kids(registry, p) :
                            registry.hier[Kids(registry, p)[i]].prev
                              = IF i = 1 THEN NoEntity ELSE Kids(registry, p)[i - 1]
      BY DEF ChildListsAgree
  <2> DEFINE C == Forest(registry)
  <2>1. Rep(registry, C, {}) /\ p \in Entity /\ p # NoEntity BY SceneFacts, HierarchyAssumption
  <2>2. Kids(registry, p) = C[p] BY <2>1 DEF Forest
  <2> HIDE DEF C
  <2>3. /\ IsInjective(C[p]) /\ DOMAIN C[p] = 1 .. Len(C[p])
        /\ \A i \in 1 .. Len(C[p]) : Has(registry, C[p][i]) /\ Placed(registry, C, p, i)
        /\ \A e \in ToSet(C[p]) : Has(registry, e) /\ To(registry, e, "parent") = p
        BY <2>1, RepFacts
  <2>4. ASSUME NEW e \in Entity
        PROVE  e \in ToSet(C[p]) <=> Has(registry, e) /\ registry.hier[e].parent = p
    <3>1. Has(registry, e) => To(registry, e, "parent") = registry.hier[e].parent BY DEF To
    <3>2. To(registry, e, "parent") = p => e \in ToSet(C[p]) BY <2>1 DEF Rep
    <3> QED BY <2>3, <3>1, <3>2
  <2>5. ASSUME NEW i \in DOMAIN C[p]
        PROVE  registry.hier[C[p][i]].prev = IF i = 1 THEN NoEntity ELSE C[p][i - 1]
    <3>1. Has(registry, C[p][i]) /\ Placed(registry, C, p, i) BY <2>3
    <3> QED BY <3>1 DEF Placed, To
  <2> QED BY <2>2, <2>3, <2>4, <2>5
<1> QED BY Inductive, <1>1, PTL

\* Update gives a world matrix to the entities with a Transform whose parent and
\* whose root have one, and to no other: it starts from the roots with a Transform,
\* misses nothing below them and meets no entity that is above itself
\* (SceneGraph.cpp 38-92).
THEOREM UpdateGoesDown == TreeSpec => []UpdateFollowsTree
<1>1. IInv => UpdateFollowsTree BY SceneFacts, UpdatedFacts DEF UpdateFollowsTree
<1> QED BY Inductive, <1>1, PTL

\* The lists are the ordered forest of SceneTree: a call moves, removes and brings
\* back what SceneTree says and nothing else (SceneGraph.cpp, Entity.h,
\* HierarchyWindow.cpp, Scene.cpp).
THEOREM ListsAreATree == TreeSpec => ImplementsSceneTree
BY Inductive, StartedIsForest, TreeStep, PTL DEF TreeSpec, ImplementsSceneTree, ST!Spec
=============================================================================
