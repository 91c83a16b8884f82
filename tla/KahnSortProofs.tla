--------------------------- MODULE KahnSortProofs ---------------------------
(***************************************************************************)
(* Proofs about KahnSort, for every pipeline: any list of node ids, any    *)
(* list of edges.                                                          *)
(***************************************************************************)
EXTENDS KahnSort, FiniteSetTheorems, SequenceTheorems, TLAPS

-----------------------------------------------------------------------------
(* The invariant of the loop *)

\* Every variable has its type; what is left of adjacency[nid] are known edges that leave an
\* id already in the result.
TypeOK ==
  /\ nodes \in Seq(EdgeIds) /\ edges \in Seq(EdgeIds \X EdgeIds)
  /\ inDegree \in [Ids -> Nat]
  /\ queue \in Seq(Ids) /\ ordered \in Seq(Ids) /\ neighbors \in Seq(DOMAIN edges)
  /\ IsInjective(neighbors)
  /\ \A k \in DOMAIN neighbors :
       Known(edges[neighbors[k]]) /\ edges[neighbors[k]][1] \in ToSet(ordered)
  /\ outcome \in {"none", "sorted", "cycle"}

\* The edges into n that the loop has not followed yet, ...
Ahead(n) ==
  {i \in DOMAIN edges : /\ edges[i][2] = n /\ edges[i][1] \in Ids
                        /\ edges[i][1] \in ToSet(ordered) => i \in ToSet(neighbors)}

\* ... which in_degree counts.
CountsAreRight == \A n \in Ids : inDegree[n] = Cardinality(Ahead(n))

\* An id is put into the queue once, when no edge into it is left.
Reached == ToSet(queue) \cup ToSet(ordered)
QueuedOnce ==
  /\ IsInjective(queue) /\ IsInjective(ordered) /\ ToSet(queue) \cap ToSet(ordered) = {}
  /\ \A n \in Ids : n \in Reached <=> Ahead(n) = {}

\* What is in the result comes after the sources of all edges into it.
Forwards ==
  \A k \in DOMAIN ordered : \A i \in DOMAIN edges :
    edges[i][2] = ordered[k] /\ edges[i][1] \in Ids =>
      \E l \in DOMAIN ordered : l < k /\ ordered[l] = edges[i][1]

\* The loop does not come to a cycle.
CyclesUntouched == \A S \in SUBSET Ids : Circular(S) => S \cap Reached = {}

OutcomeIsRight ==
  outcome # "none" =>
    /\ queue = << >> /\ neighbors = << >>
    /\ outcome = "sorted" <=> Len(ordered) = Len(nodes)

SortInv == /\ TypeOK /\ CountsAreRight /\ QueuedOnce /\ Forwards /\ CyclesUntouched
           /\ OutcomeIsRight

-----------------------------------------------------------------------------
(* Lists and sets of positions *)

\* A nonempty set of numbers has a least one.
LEMMA Least ==
  ASSUME NEW T \in SUBSET Nat, T # {}
  PROVE  \E x \in T : \A y \in T : x <= y
<1>1. IsWellFoundedOn(StrictSubsetOrdering(Nat), FiniteSubsetsOf(Nat))
  BY FS_StrictSubsetOrderingWellFounded
<1> DEFINE U == {1..x : x \in T}
<1>2. ASSUME NEW x \in T PROVE 1..x \in FiniteSubsetsOf(Nat)
  BY FS_Interval DEF FiniteSubsetsOf
<1>3. U \subseteq FiniteSubsetsOf(Nat) /\ U # {}
  BY <1>2
<1> HIDE DEF U
<1>4. PICK u \in U : \A v \in U : <<v, u>> \notin StrictSubsetOrdering(Nat)
  BY <1>1, <1>3, WFMin
<1>5. PICK x \in T : u = 1..x
  BY <1>4 DEF U
<1>6. ASSUME NEW y \in T, y < x PROVE FALSE
  <2>1. 1..y \subseteq 1..x /\ x \in 1..x /\ x \notin 1..y
    BY <1>6
  <2>2. 1..y \in SUBSET Nat /\ 1..x \in SUBSET Nat
    OBVIOUS
  <2>3. <<1..y, 1..x>> \in StrictSubsetOrdering(Nat)
    BY <2>1, <2>2 DEF StrictSubsetOrdering
  <2>4. 1..y \in U
    BY <1>6 DEF U
  <2> QED  BY <1>4, <1>5, <2>3, <2>4
<1> QED  BY <1>6

\* The list of a set of positions has each of them once.
LEMMA ListOrder ==
  ASSUME NEW S, IsFiniteSet(S), NEW s \in InListOrder(S)
  PROVE  s \in Seq(S) /\ IsInjective(s) /\ ToSet(s) = S
<1>1. /\ s \in [1..Cardinality(S) -> S] /\ Cardinality(S) \in Nat
      /\ \A i, j \in 1..Cardinality(S) : i # j => s[i] # s[j]
  BY FS_CardinalityType DEF InListOrder, SetToSeqs
<1>2. s \in Injection(1..Cardinality(S), S)
  BY <1>1 DEF Injection, IsInjective
<1>3. Cardinality(1..Cardinality(S)) = Cardinality(S)
  BY <1>1, FS_Interval
<1>4. s \in Surjection(1..Cardinality(S), S)
  BY <1>2, <1>3, FS_Injection
<1>5. ToSet(s) = S
  BY <1>1, <1>4 DEF ToSet, Surjection
<1>6. s \in Seq(S)
  BY <1>1
<1> QED  BY <1>1, <1>5, <1>6 DEF IsInjective

\* popleft()
LEMMA TakeHead ==
  ASSUME NEW S, NEW s \in Seq(S), s # << >>, IsInjective(s)
  PROVE  /\ Head(s) \in S /\ Head(s) \in ToSet(s) /\ Tail(s) \in Seq(S)
         /\ IsInjective(Tail(s)) /\ ToSet(Tail(s)) = ToSet(s) \ {Head(s)}
<1>1. /\ Len(s) \in Nat \ {0} /\ DOMAIN s = 1..Len(s) /\ Head(s) = s[1]
      /\ Tail(s) \in Seq(S) /\ Len(Tail(s)) = Len(s) - 1
      /\ \A i \in 1..(Len(s) - 1) : Tail(s)[i] = s[i + 1]
  BY HeadTailProperties, EmptySeq
<1>2. DOMAIN Tail(s) = 1..(Len(s) - 1)
  BY <1>1
<1>3. Head(s) \in S /\ Head(s) \in ToSet(s)
  BY <1>1 DEF ToSet
<1>4. IsInjective(Tail(s))
  <2> SUFFICES ASSUME NEW i \in DOMAIN Tail(s), NEW j \in DOMAIN Tail(s), Tail(s)[i] = Tail(s)[j]
               PROVE  i = j
    BY DEF IsInjective
  <2>1. i + 1 \in DOMAIN s /\ j + 1 \in DOMAIN s /\ s[i + 1] = s[j + 1]
    BY <1>1, <1>2
  <2>2. i + 1 = j + 1
    BY <2>1 DEF IsInjective
  <2> QED  BY <1>2, <2>2
<1>5. ASSUME NEW x \in ToSet(Tail(s)) PROVE x \in ToSet(s) /\ x # Head(s)
  <2>1. PICK i \in 1..(Len(s) - 1) : x = s[i + 1]
    BY <1>1, <1>2 DEF ToSet
  <2>2. i + 1 \in DOMAIN s /\ 1 \in DOMAIN s /\ i + 1 # 1
    BY <1>1
  <2> QED  BY <1>1, <2>1, <2>2 DEF ToSet, IsInjective
<1>6. ASSUME NEW x \in ToSet(s), x # Head(s) PROVE x \in ToSet(Tail(s))
  <2>1. PICK i \in DOMAIN s : x = s[i]
    BY DEF ToSet
  <2>2. i - 1 \in 1..(Len(s) - 1) /\ (i - 1) + 1 = i
    BY <1>1, <1>6, <2>1
  <2> QED  BY <1>1, <1>2, <2>1, <2>2 DEF ToSet
<1> QED  BY <1>1, <1>3, <1>4, <1>5, <1>6

\* append()
LEMMA AppendOne ==
  ASSUME NEW S, NEW s \in Seq(S), NEW x \in S
  PROVE  /\ Append(s, x) \in Seq(S) /\ ToSet(Append(s, x)) = ToSet(s) \cup {x}
         /\ IsInjective(s) /\ x \notin ToSet(s) => IsInjective(Append(s, x))
         /\ Len(Append(s, x)) = Len(s) + 1 /\ Append(s, x)[Len(s) + 1] = x
         /\ \A i \in DOMAIN s : Append(s, x)[i] = s[i]
         /\ DOMAIN Append(s, x) = DOMAIN s \cup {Len(s) + 1} /\ DOMAIN s = 1..Len(s)
<1>1. /\ Append(s, x) \in Seq(S) /\ Len(Append(s, x)) = Len(s) + 1
      /\ Append(s, x)[Len(s) + 1] = x /\ Len(s) \in Nat
      /\ \A i \in DOMAIN s : Append(s, x)[i] = s[i]
      /\ DOMAIN s = 1..Len(s)
  BY AppendProperties
<1>2. DOMAIN Append(s, x) = 1..(Len(s) + 1)
  BY <1>1
<1>3. DOMAIN Append(s, x) = DOMAIN s \cup {Len(s) + 1} /\ Len(s) + 1 \notin DOMAIN s
  BY <1>1, <1>2
<1>4. ToSet(Append(s, x)) = ToSet(s) \cup {x}
  BY <1>1, <1>3 DEF ToSet
<1>5. ASSUME IsInjective(s), x \notin ToSet(s) PROVE IsInjective(Append(s, x))
  BY <1>1, <1>3, <1>5 DEF IsInjective, ToSet
<1> QED  BY <1>1, <1>3, <1>4, <1>5

-----------------------------------------------------------------------------
(* The start *)

\* There are finitely many edges, so in_degree is a number.
LEMMA Finite ==
  ASSUME edges \in Seq(EdgeIds \X EdgeIds), NEW n
  PROVE  /\ IsFiniteSet(DOMAIN edges)
         /\ IsFiniteSet(Ahead(n)) /\ Cardinality(Ahead(n)) \in Nat
         /\ Cardinality(Ahead(n)) = 0 <=> Ahead(n) = {}
         /\ IsFiniteSet(Adjacency(n))
<1>1. IsFiniteSet(DOMAIN edges)
  BY FS_Interval
<1>2. Ahead(n) \subseteq DOMAIN edges /\ Adjacency(n) \subseteq DOMAIN edges
  BY DEF Ahead, Adjacency
<1> QED  BY <1>1, <1>2, FS_Subset, FS_CardinalityType, FS_EmptySet

\* Every id has a first use.
LEMMA FirstUse ==
  ASSUME nodes \in Seq(EdgeIds), NEW n \in Ids
  PROVE  \E i \in NodeMap : nodes[i] = n
<1> DEFINE T == {i \in DOMAIN nodes : nodes[i] = n}
<1>1. T \in SUBSET Nat /\ T # {}
  BY DEF Ids, ToSet
<1>2. PICK i \in T : \A j \in T : i <= j
  BY <1>1, Least
<1>3. \A j \in 1..(i - 1) : nodes[j] # nodes[i]
  BY <1>2
<1> QED  BY <1>2, <1>3 DEF NodeMap

LEMMA SortInit == Init => SortInv
<1> SUFFICES ASSUME Init PROVE SortInv
  OBVIOUS
<1>1. /\ nodes \in Seq(EdgeIds) /\ edges \in Seq(EdgeIds \X EdgeIds)
      /\ neighbors = << >> /\ ordered = << >> /\ outcome = "none"
  BY SortAssumption DEF Init, BoundedSeq, SeqOf
<1>2. \A n \in Ids : inDegree[n] = Cardinality(Ahead(n))
  <2>1. ToSet(ordered) = {}
    BY <1>1 DEF ToSet
  <2>2. \A n \in Ids :
          Ahead(n) = {i \in DOMAIN edges : edges[i][2] = n /\ edges[i][1] \in ToSet(nodes)}
    BY <2>1 DEF Ahead, Ids
  <2> QED  BY <2>2 DEF Init, InDegree, Ids
<1>3. inDegree \in [Ids -> Nat]
  <2>1. inDegree = [n \in Ids |-> inDegree[n]]
    BY DEF Init, InDegree, Ids
  <2>2. \A n \in Ids : inDegree[n] \in Nat
    BY <1>1, <1>2, Finite
  <2> QED  BY <2>1, <2>2
<1> DEFINE S == {i \in NodeMap : inDegree[nodes[i]] = 0}
<1>4. PICK first \in InListOrder(S) : queue = [k \in DOMAIN first |-> nodes[first[k]]]
  BY DEF Init
<1>5. /\ DOMAIN nodes = 1..Len(nodes) /\ Len(nodes) \in Nat
      /\ S \subseteq NodeMap /\ NodeMap \subseteq DOMAIN nodes
      /\ \A i \in S : inDegree[nodes[i]] = 0 /\ nodes[i] \in Ids
  BY <1>1 DEF NodeMap, Ids, ToSet
<1>6. first \in Seq(S) /\ IsInjective(first) /\ ToSet(first) = S
  <2>1. IsFiniteSet(DOMAIN nodes) /\ S \in SUBSET DOMAIN nodes
    BY <1>5, FS_Interval
  <2>2. IsFiniteSet(S)
    BY <2>1, FS_Subset
  <2> QED  BY <1>4, <2>2, ListOrder
<1>7. \A i \in NodeMap : inDegree[nodes[i]] = 0 => i \in S
  OBVIOUS
<1> HIDE DEF S
<1>8. DOMAIN first = 1..Len(first) /\ Len(first) \in Nat /\ \A k \in DOMAIN first : first[k] \in S
  BY <1>6
<1>9. queue \in Seq(Ids) /\ DOMAIN queue = DOMAIN first
  BY <1>4, <1>5, <1>8
<1>10. IsInjective(queue)
  <2> SUFFICES ASSUME NEW k \in DOMAIN first, NEW l \in DOMAIN first,
                      nodes[first[k]] = nodes[first[l]]
               PROVE  k = l
    BY <1>4, <1>9 DEF IsInjective
  <2>1. first[k] \in NodeMap /\ first[l] \in NodeMap
    BY <1>5, <1>8
  <2>2. first[k] \in Nat \ {0} /\ first[l] \in Nat \ {0}
    BY <1>5, <2>1
  <2>3. first[k] \notin 1..(first[l] - 1) /\ first[l] \notin 1..(first[k] - 1)
    BY <2>1 DEF NodeMap
  <2>4. first[k] = first[l]
    BY <2>2, <2>3
  <2> QED  BY <1>6, <2>4 DEF IsInjective
<1>11. \A n \in Ids : n \in Reached <=> Ahead(n) = {}
  <2> SUFFICES ASSUME NEW n \in Ids PROVE n \in Reached <=> inDegree[n] = 0
    BY <1>1, <1>2, Finite
  <2>1. Reached = ToSet(queue)
    BY <1>1 DEF Reached, ToSet
  <2>2. ASSUME n \in ToSet(queue) PROVE inDegree[n] = 0
    BY <1>4, <1>5, <1>8, <2>2 DEF ToSet
  <2>3. ASSUME inDegree[n] = 0 PROVE n \in ToSet(queue)
    <3>1. PICK i \in NodeMap : nodes[i] = n
      BY <1>1, FirstUse
    <3>2. i \in ToSet(first)
      BY <1>6, <1>7, <2>3, <3>1
    <3> QED  BY <1>4, <1>9, <3>1, <3>2 DEF ToSet
  <2> QED  BY <2>1, <2>2, <2>3
<1>12. TypeOK
  BY <1>1, <1>3, <1>9 DEF TypeOK, IsInjective
<1>13. QueuedOnce
  BY <1>1, <1>10, <1>11 DEF QueuedOnce, IsInjective, ToSet
<1>14. CyclesUntouched
  <2> SUFFICES ASSUME NEW C \in SUBSET Ids, Circular(C), NEW n \in C, n \in Reached PROVE FALSE
    BY DEF CyclesUntouched
  <2>1. PICK i \in DOMAIN edges : edges[i][1] \in C /\ edges[i][2] = n
    BY DEF Circular
  <2>2. i \in Ahead(n)
    BY <1>1, <2>1 DEF Ahead, ToSet
  <2> QED  BY <1>11, <2>2
<1> QED  BY <1>1, <1>2, <1>12, <1>13, <1>14 DEF SortInv, CountsAreRight, Forwards, OutcomeIsRight

-----------------------------------------------------------------------------
(* The steps *)

LEMMA TakeStep ==
  ASSUME SortInv, Take
  PROVE  SortInv'
<1>1. /\ nodes \in Seq(EdgeIds) /\ edges \in Seq(EdgeIds \X EdgeIds) /\ inDegree \in [Ids -> Nat]
      /\ queue \in Seq(Ids) /\ ordered \in Seq(Ids) /\ outcome \in {"none", "sorted", "cycle"}
  BY DEF SortInv, TypeOK
<1>2. PICK n : n = Head(queue)
  OBVIOUS
<1>3. /\ neighbors = << >> /\ queue # << >> /\ ordered' = Append(ordered, n)
      /\ neighbors' \in InListOrder(Adjacency(n)) /\ queue' = Tail(queue)
      /\ UNCHANGED <<nodes, edges, inDegree, outcome>>
  BY <1>2 DEF Take
<1>4. /\ IsInjective(queue) /\ IsInjective(ordered) /\ ToSet(queue) \cap ToSet(ordered) = {}
      /\ \A m \in Ids : m \in Reached <=> Ahead(m) = {}
  BY DEF SortInv, QueuedOnce
<1>5. /\ n \in Ids /\ n \in ToSet(queue) /\ queue' \in Seq(Ids) /\ IsInjective(queue')
      /\ ToSet(queue') = ToSet(queue) \ {n} /\ n \notin ToSet(ordered)
  BY <1>1, <1>2, <1>3, <1>4, TakeHead
<1>6. /\ ordered' \in Seq(Ids) /\ IsInjective(ordered') /\ ToSet(ordered') = ToSet(ordered) \cup {n}
      /\ ordered'[Len(ordered) + 1] = n /\ \A k \in DOMAIN ordered : ordered'[k] = ordered[k]
      /\ DOMAIN ordered' = DOMAIN ordered \cup {Len(ordered) + 1} /\ DOMAIN ordered = 1..Len(ordered)
  BY <1>1, <1>3, <1>4, <1>5, AppendOne
<1>7. /\ neighbors' \in Seq(Adjacency(n)) /\ IsInjective(neighbors')
      /\ ToSet(neighbors') = Adjacency(n)
  BY <1>1, <1>3, Finite, ListOrder
<1>8. Ids' = Ids
  BY <1>3 DEF Ids
<1>9. \A m \in Ids : Ahead(m)' = Ahead(m)
  <2> SUFFICES ASSUME NEW m \in Ids, NEW i \in DOMAIN edges
               PROVE  i \in Ahead(m)' <=> i \in Ahead(m)
    BY <1>3 DEF Ahead
  <2>1. ToSet(neighbors) = {}
    BY <1>3 DEF ToSet
  <2>2. i \in ToSet(neighbors') <=> Known(edges[i]) /\ edges[i][1] = n
    BY <1>7 DEF Adjacency
  <2> QED  BY <1>3, <1>5, <1>6, <1>8, <2>1, <2>2 DEF Ahead, Known
<1>10. Reached' = Reached
  BY <1>5, <1>6 DEF Reached
<1>11. TypeOK'
  <2>1. neighbors' \in Seq(DOMAIN edges)
    BY <1>7 DEF Adjacency
  <2>2. ASSUME NEW k \in DOMAIN neighbors'
        PROVE  Known(edges[neighbors'[k]]) /\ edges[neighbors'[k]][1] \in ToSet(ordered')
    BY <1>6, <1>7 DEF Adjacency
  <2> QED  BY <1>1, <1>3, <1>5, <1>6, <1>7, <1>8, <2>1, <2>2 DEF TypeOK, Known
<1>12. CountsAreRight'
  BY <1>3, <1>8, <1>9 DEF CountsAreRight, SortInv
<1>13. QueuedOnce'
  BY <1>4, <1>5, <1>6, <1>8, <1>9, <1>10 DEF QueuedOnce
<1>14. Forwards'
  <2> SUFFICES ASSUME NEW k \in DOMAIN ordered', NEW i \in DOMAIN edges,
                      edges[i][2] = ordered'[k], edges[i][1] \in Ids
               PROVE  \E l \in DOMAIN ordered' : l < k /\ ordered'[l] = edges[i][1]
    BY <1>3, <1>8 DEF Forwards
  <2>1. CASE k \in DOMAIN ordered
    <3>1. PICK l \in DOMAIN ordered : l < k /\ ordered[l] = edges[i][1]
      BY <1>6, <2>1 DEF SortInv, Forwards
    <3> QED  BY <1>6, <3>1
  <2>2. CASE k = Len(ordered) + 1
    <3>1. i \notin Ahead(n)
      BY <1>4, <1>5 DEF Reached
    <3>2. edges[i][1] \in ToSet(ordered)
      BY <1>6, <2>2, <3>1 DEF Ahead
    <3>3. PICK l \in DOMAIN ordered : ordered[l] = edges[i][1]
      BY <3>2 DEF ToSet
    <3>4. l < k
      BY <1>1, <1>6, <2>2
    <3> QED  BY <1>6, <3>3, <3>4
  <2> QED  BY <1>6, <2>1, <2>2
<1>15. CyclesUntouched'
  BY <1>3, <1>8, <1>10 DEF CyclesUntouched, Circular, SortInv
<1>16. OutcomeIsRight'
  BY <1>3 DEF OutcomeIsRight, SortInv
<1> QED  BY <1>11, <1>12, <1>13, <1>14, <1>15, <1>16 DEF SortInv

LEMMA LowerStep ==
  ASSUME SortInv, Lower
  PROVE  SortInv'
<1>1. /\ nodes \in Seq(EdgeIds) /\ edges \in Seq(EdgeIds \X EdgeIds) /\ inDegree \in [Ids -> Nat]
      /\ queue \in Seq(Ids) /\ ordered \in Seq(Ids) /\ outcome \in {"none", "sorted", "cycle"}
      /\ neighbors \in Seq(DOMAIN edges) /\ IsInjective(neighbors)
      /\ \A k \in DOMAIN neighbors :
           Known(edges[neighbors[k]]) /\ edges[neighbors[k]][1] \in ToSet(ordered)
  BY DEF SortInv, TypeOK
<1>2. PICK e, n : e = Head(neighbors) /\ n = edges[e][2]
  OBVIOUS
<1>3. /\ neighbors # << >> /\ neighbors' = Tail(neighbors)
      /\ inDegree' = [inDegree EXCEPT ![n] = @ - 1]
      /\ queue' = IF inDegree[n] = 1 THEN Append(queue, n) ELSE queue
      /\ UNCHANGED <<nodes, edges, ordered, outcome>>
  BY <1>2 DEF Lower
<1>4. /\ IsInjective(queue) /\ IsInjective(ordered) /\ ToSet(queue) \cap ToSet(ordered) = {}
      /\ \A m \in Ids : m \in Reached <=> Ahead(m) = {}
      /\ \A m \in Ids : inDegree[m] = Cardinality(Ahead(m))
  BY DEF SortInv, QueuedOnce, CountsAreRight
<1>5. /\ e \in DOMAIN edges /\ e \in ToSet(neighbors) /\ neighbors' \in Seq(DOMAIN edges)
      /\ IsInjective(neighbors') /\ ToSet(neighbors') = ToSet(neighbors) \ {e}
  BY <1>1, <1>2, <1>3, TakeHead
<1>6. Known(edges[e]) /\ edges[e][1] \in ToSet(ordered) /\ n \in Ids /\ edges[e][1] \in Ids
  BY <1>1, <1>2, <1>5 DEF ToSet, Known
<1>7. Ids' = Ids
  BY <1>3 DEF Ids
<1>8. e \in Ahead(n) /\ n \notin Reached
  BY <1>2, <1>4, <1>5, <1>6 DEF Ahead
<1>9. Ahead(n)' = Ahead(n) \ {e}
  BY <1>3, <1>5, <1>6, <1>7 DEF Ahead
<1>10. ASSUME NEW m \in Ids, m # n PROVE Ahead(m)' = Ahead(m)
  BY <1>2, <1>3, <1>5, <1>7, <1>10 DEF Ahead
<1>11. /\ Cardinality(Ahead(n) \ {e}) = Cardinality(Ahead(n)) - 1
       /\ IsFiniteSet(Ahead(n)) /\ IsFiniteSet(Ahead(n) \ {e})
       /\ Cardinality(Ahead(n)) \in Nat /\ Cardinality(Ahead(n) \ {e}) \in Nat
  BY <1>1, <1>8, Finite, FS_RemoveElement, FS_CardinalityType
<1>12. inDegree' \in [Ids -> Nat] /\ CountsAreRight'
  <2>1. inDegree[n] - 1 \in Nat
    BY <1>4, <1>6, <1>11
  <2>2. inDegree' \in [Ids -> Nat]
    BY <1>1, <1>3, <2>1
  <2>3. inDegree'[n] = Cardinality(Ahead(n) \ {e})
    BY <1>1, <1>3, <1>4, <1>6, <1>11
  <2>4. \A m \in Ids : m # n => inDegree'[m] = Cardinality(Ahead(m))
    BY <1>1, <1>3, <1>4
  <2> QED  BY <1>7, <1>9, <1>10, <2>2, <2>3, <2>4 DEF CountsAreRight
<1>13. inDegree[n] = 1 <=> Ahead(n)' = {}
  <2>1. Ahead(n) \ {e} = {} <=> Cardinality(Ahead(n) \ {e}) = 0
    BY <1>11, FS_EmptySet
  <2> QED  BY <1>4, <1>6, <1>9, <1>11, <2>1
<1>14. /\ queue' \in Seq(Ids) /\ IsInjective(queue')
       /\ ToSet(queue') = IF inDegree[n] = 1 THEN ToSet(queue) \cup {n} ELSE ToSet(queue)
  <2>1. CASE inDegree[n] = 1
    BY <1>1, <1>3, <1>4, <1>6, <1>8, <2>1, AppendOne DEF Reached
  <2>2. CASE inDegree[n] # 1
    BY <1>1, <1>3, <1>4, <2>2
  <2> QED  BY <2>1, <2>2
<1>15. Reached' = IF inDegree[n] = 1 THEN Reached \cup {n} ELSE Reached
  BY <1>3, <1>14 DEF Reached
<1>16. TypeOK'
  <2>1. ASSUME NEW k \in DOMAIN neighbors'
        PROVE  Known(edges[neighbors'[k]]) /\ edges[neighbors'[k]][1] \in ToSet(ordered)
    <3>1. neighbors'[k] \in ToSet(neighbors)
      BY <1>5 DEF ToSet
    <3> QED  BY <1>1, <3>1 DEF ToSet
  <2> QED  BY <1>1, <1>3, <1>5, <1>7, <1>12, <1>14, <2>1 DEF TypeOK, Known
<1>17. QueuedOnce'
  <2>1. ToSet(queue') \cap ToSet(ordered') = {}
    BY <1>3, <1>4, <1>8, <1>14 DEF Reached
  <2>2. \A m \in Ids : m \in Reached' <=> Ahead(m)' = {}
    BY <1>4, <1>8, <1>9, <1>10, <1>13, <1>15
  <2> QED  BY <1>3, <1>4, <1>7, <1>14, <2>1, <2>2 DEF QueuedOnce
<1>18. Forwards'
  BY <1>3, <1>7 DEF Forwards, SortInv
<1>19. CyclesUntouched'
  <2>0. \A C : Circular(C)' <=> Circular(C)
    BY <1>3 DEF Circular
  <2> SUFFICES ASSUME NEW C \in SUBSET Ids, Circular(C), inDegree[n] = 1, n \in C PROVE FALSE
    <3>1. ASSUME NEW C \in SUBSET Ids, Circular(C) PROVE C \cap Reached' = {}
      BY <1>15, <3>1 DEF CyclesUntouched, SortInv
    <3> QED  BY <1>7, <2>0, <3>1 DEF CyclesUntouched
  <2>1. PICK i \in DOMAIN edges : edges[i][1] \in C /\ edges[i][2] = n
    BY DEF Circular
  <2>2. i \notin Ahead(n)'
    BY <1>13
  <2>3. edges[i][1] \in ToSet(ordered)
    BY <1>3, <1>7, <2>1, <2>2 DEF Ahead
  <2> QED  BY <2>1, <2>3 DEF SortInv, CyclesUntouched, Reached
<1>20. OutcomeIsRight'
  BY <1>3 DEF OutcomeIsRight, SortInv
<1> QED  BY <1>12, <1>16, <1>17, <1>18, <1>19, <1>20 DEF SortInv

LEMMA SortNext == SortInv /\ [Next]_vars => SortInv'
<1> SUFFICES ASSUME SortInv, [Next]_vars PROVE SortInv'
  OBVIOUS
\* Nothing but the outcome changes in the other steps.
<1>1. ASSUME UNCHANGED <<nodes, edges, inDegree, queue, neighbors, ordered>>,
             outcome' \in {"none", "sorted", "cycle"}, OutcomeIsRight'
      PROVE  SortInv'
  <2>1. Ids' = Ids /\ Reached' = Reached /\ \A n : Ahead(n)' = Ahead(n)
    BY <1>1 DEF Ids, Reached, Ahead
  <2>2. TypeOK'
    BY <1>1, <2>1 DEF SortInv, TypeOK, Known
  <2>3. CountsAreRight'
    BY <1>1, <2>1 DEF SortInv, CountsAreRight
  <2>4. QueuedOnce'
    BY <1>1, <2>1 DEF SortInv, QueuedOnce
  <2>5. Forwards' /\ CyclesUntouched'
    BY <1>1, <2>1 DEF SortInv, Forwards, CyclesUntouched, Circular
  <2> QED  BY <1>1, <2>2, <2>3, <2>4, <2>5 DEF SortInv
<1>2. CASE Return
  BY <1>1, <1>2 DEF Return, OutcomeIsRight
<1>3. CASE UNCHANGED vars
  BY <1>1, <1>3 DEF vars, OutcomeIsRight, SortInv, TypeOK
<1> QED  BY <1>2, <1>3, TakeStep, LowerStep DEF Next

\* SortInv is an invariant of the sort.
LEMMA SortInvariant == Spec => []SortInv
  BY SortInit, SortNext, PTL DEF Spec

-----------------------------------------------------------------------------
(* The result *)

\* How many ids there are, and how many are in the result.
LEMMA Counts ==
  ASSUME SortInv
  PROVE  /\ IsFiniteSet(Ids) /\ Cardinality(Ids) <= Len(nodes) /\ Cardinality(Ids) \in Nat
         /\ Cardinality(Ids) = Len(nodes) <=> IsInjective(nodes)
         /\ IsFiniteSet(ToSet(ordered)) /\ Cardinality(ToSet(ordered)) = Len(ordered)
         /\ ToSet(ordered) \subseteq Ids /\ Len(ordered) \in Nat /\ Len(nodes) \in Nat
<1>1. /\ nodes \in Seq(EdgeIds) /\ ordered \in Seq(Ids) /\ IsInjective(ordered)
      /\ Len(ordered) \in Nat /\ Len(nodes) \in Nat
      /\ DOMAIN nodes = 1..Len(nodes) /\ DOMAIN ordered = 1..Len(ordered)
  BY DEF SortInv, TypeOK, QueuedOnce
<1>2. nodes \in Surjection(1..Len(nodes), Ids)
  BY <1>1 DEF Surjection, Ids, ToSet
<1>3. /\ IsFiniteSet(1..Len(nodes)) /\ Cardinality(1..Len(nodes)) = Len(nodes)
      /\ IsFiniteSet(1..Len(ordered)) /\ Cardinality(1..Len(ordered)) = Len(ordered)
  <2>1. \A n \in Nat : IsFiniteSet(1..n) /\ Cardinality(1..n) = n
    BY FS_Interval
  <2> QED  BY <1>1, <2>1
<1>4. /\ IsFiniteSet(Ids) /\ Cardinality(Ids) <= Len(nodes)
      /\ Cardinality(Ids) = Len(nodes) <=> nodes \in Injection(1..Len(nodes), Ids)
  BY <1>2, <1>3, FS_Surjection
<1>5. nodes \in Injection(1..Len(nodes), Ids) <=> IsInjective(nodes)
  BY <1>2 DEF Injection, Surjection
<1>6. ordered \in Surjection(1..Len(ordered), ToSet(ordered))
  BY <1>1 DEF Surjection, ToSet
<1>7. ordered \in Injection(1..Len(ordered), ToSet(ordered))
  BY <1>1, <1>6 DEF Injection, Surjection
<1>8. IsFiniteSet(ToSet(ordered)) /\ Cardinality(ToSet(ordered)) = Len(ordered)
  BY <1>3, <1>6, <1>7, FS_Surjection
<1>9. ToSet(ordered) \subseteq Ids
  BY <1>1 DEF ToSet
<1>10. Cardinality(Ids) \in Nat
  BY <1>4, FS_CardinalityType
<1> QED  BY <1>1, <1>4, <1>5, <1>8, <1>9, <1>10

\* A result as long as the list has every id, and the list none twice.
LEMMA SortedIsAll ==
  ASSUME SortInv, outcome = "sorted"
  PROVE  ToSet(ordered) = Ids /\ IsInjective(nodes)
<1>1. Len(ordered) = Len(nodes)
  BY DEF SortInv, OutcomeIsRight
<1>2. Cardinality(ToSet(ordered)) <= Cardinality(Ids)
  BY Counts, FS_Subset
<1>3. Cardinality(ToSet(ordered)) = Cardinality(Ids)
  BY <1>1, <1>2, Counts
<1>4. ToSet(ordered) = Ids
  BY <1>3, Counts, FS_Subset
<1> QED  BY <1>1, <1>3, <1>4, Counts

\* _topological_sort: the list it returns has every node once and every edge forwards.
THEOREM SortIsTopological == Spec => []SortedIsTopological
<1>1. SortInv => SortedIsTopological
  <2> SUFFICES ASSUME SortInv, outcome = "sorted" PROVE SortedIsTopological
    BY DEF SortedIsTopological
  <2>1. ToSet(ordered) = Ids /\ IsInjective(ordered)
    BY SortedIsAll DEF SortInv, QueuedOnce
  <2>2. ASSUME NEW i \in DOMAIN ordered, NEW j \in DOMAIN ordered,
               Contains(edges, <<ordered[i], ordered[j]>>)
        PROVE  i < j
    <3>1. PICK k \in DOMAIN edges : edges[k] = <<ordered[i], ordered[j]>>
      BY <2>2 DEF Contains, SortInv, TypeOK
    <3>2. edges[k][1] = ordered[i] /\ edges[k][2] = ordered[j] /\ ordered[i] \in Ids
      BY <2>1, <3>1 DEF ToSet
    <3>3. PICK l \in DOMAIN ordered : l < j /\ ordered[l] = ordered[i]
      BY <3>2 DEF SortInv, Forwards
    <3>4. l = i
      BY <2>1, <3>3 DEF IsInjective
    <3> QED  BY <3>3, <3>4
  <2> QED  BY <2>1, <2>2 DEF SortedIsTopological
<1> QED  BY <1>1, SortInvariant, PTL

\* _topological_sort: ValueError means that the edges close a cycle or that an id is used
\* twice, and is raised whenever they do.
THEOREM RaisesIfUnsortable == Spec => []RaisesOnlyIfUnsortable
<1>1. SortInv => RaisesOnlyIfUnsortable
  <2> SUFFICES ASSUME SortInv, outcome # "none"
               PROVE  outcome = "cycle" <=> HasCycle \/ ~IsInjective(nodes)
    BY DEF RaisesOnlyIfUnsortable
  <2>1. ASSUME outcome = "sorted" PROVE IsInjective(nodes) /\ ~HasCycle
    <3>1. ToSet(ordered) = Ids /\ IsInjective(nodes)
      BY <2>1, SortedIsAll
    <3> QED  BY <3>1 DEF SortInv, CyclesUntouched, Reached, HasCycle, Circular
  <2>2. ASSUME outcome = "cycle", IsInjective(nodes) PROVE HasCycle
    <3> DEFINE C == Ids \ ToSet(ordered)
    <3>1. queue = << >> /\ neighbors = << >> /\ Len(ordered) # Len(nodes)
      BY <2>2 DEF SortInv, OutcomeIsRight
    <3>2. C # {}
      <4>1. C = {} => ToSet(ordered) = Ids
        BY Counts
      <4> QED  BY <2>2, <3>1, <4>1, Counts
    <3>3. ASSUME NEW n \in C PROVE \E i \in DOMAIN edges : edges[i][1] \in C /\ edges[i][2] = n
      <4>1. n \notin Reached
        BY <3>1 DEF Reached, ToSet
      <4>2. PICK i : i \in Ahead(n)
        BY <4>1 DEF SortInv, QueuedOnce
      <4>3. i \notin ToSet(neighbors)
        BY <3>1 DEF ToSet
      <4> QED  BY <4>2, <4>3 DEF Ahead
    <3> QED  BY <3>2, <3>3 DEF HasCycle, Circular
  <2>3. outcome \in {"sorted", "cycle"}
    BY DEF SortInv, TypeOK
  <2> QED  BY <2>1, <2>2, <2>3
<1> QED  BY <1>1, SortInvariant, PTL
=============================================================================
