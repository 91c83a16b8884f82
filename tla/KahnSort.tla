------------------------------ MODULE KahnSort ------------------------------
(***************************************************************************)
(* _topological_sort of pipelines/executor.py on the node and edge lists   *)
(* of a stored pipeline: node ids may repeat, edges may repeat, close a    *)
(* cycle or name a node that is not there.                                 *)
(***************************************************************************)
EXTENDS Naturals, Sequences, SequencesExt, FiniteSets

CONSTANTS
  NodeLists,  \* the lists of node ids to sort
  EdgeIds,    \* the ids that edges may name
  MaxEdges    \* bound on the edges of a pipeline

ASSUME SortAssumption ==
  /\ MaxEdges \in Nat
  /\ \A l \in NodeLists : l \in Seq(EdgeIds)

VARIABLES
  nodes,     \* the node list
  edges,     \* the edge list: pairs <<source_node_id, target_node_id>>
  inDegree,  \* in_degree
  queue,     \* the ids whose in-degree has come down to 0
  neighbors, \* what is left of adjacency[nid] for the id taken last: positions in edges
  ordered,   \* the result so far
  outcome    \* "none", "sorted", or "cycle" when ValueError is raised

vars == <<nodes, edges, inDegree, queue, neighbors, ordered, outcome>>

Ids == ToSet(nodes)
Known(edge) == edge[1] \in Ids /\ edge[2] \in Ids

\* The elements of a set of positions, in the order of the list.
InListOrder(S) == {s \in SetToSeqs(S) : \A i, j \in DOMAIN s : i < j => s[i] < s[j]}

\* node_map: the positions at which an id is used for the first time.
NodeMap == {i \in DOMAIN nodes : \A j \in 1..(i - 1) : nodes[j] # nodes[i]}

\* Mutant: an edge sets the count to one instead of adding one.
InDegreeAtMostOne(ns, es) ==
  [n \in ToSet(ns) |-> IF \E i \in DOMAIN es : es[i][2] = n /\ es[i][1] \in ToSet(ns)
                       THEN 1 ELSE 0]

InDegree(ns, es) ==
  [n \in ToSet(ns) |->
     Cardinality({i \in DOMAIN es : es[i][2] = n /\ es[i][1] \in ToSet(ns)})]

\* adjacency[id]: the positions of the known edges that leave id.
Adjacency(id) == {i \in DOMAIN edges : Known(edges[i]) /\ edges[i][1] = id}

Init ==
  /\ nodes \in NodeLists
  /\ edges \in BoundedSeq(EdgeIds \X EdgeIds, MaxEdges)
  /\ inDegree = InDegree(nodes, edges)
  /\ \E first \in InListOrder({i \in NodeMap : inDegree[nodes[i]] = 0}) :
       queue = [k \in DOMAIN first |-> nodes[first[k]]]
  /\ neighbors = << >> /\ ordered = << >> /\ outcome = "none"

\* queue.popleft()
Take ==
  /\ neighbors = << >> /\ queue # << >>
  /\ ordered' = Append(ordered, Head(queue))
  /\ neighbors' \in InListOrder(Adjacency(Head(queue)))
  /\ queue' = Tail(queue)
  /\ UNCHANGED <<nodes, edges, inDegree, outcome>>

\* One turn of the loop over the neighbors.
Lower ==
  /\ neighbors # << >>
  /\ LET n == edges[Head(neighbors)][2]
     IN  /\ inDegree' = [inDegree EXCEPT ![n] = @ - 1]
         /\ queue' = IF inDegree[n] = 1 THEN Append(queue, n) ELSE queue
  /\ neighbors' = Tail(neighbors)
  /\ UNCHANGED <<nodes, edges, ordered, outcome>>

\* Mutant: the length of the result is compared with the distinct ids.
ReturnDistinct ==
  /\ neighbors = << >> /\ queue = << >> /\ outcome = "none"
  /\ outcome' = IF Len(ordered) = Cardinality(Ids) THEN "sorted" ELSE "cycle"
  /\ UNCHANGED <<nodes, edges, inDegree, queue, neighbors, ordered>>

Return ==
  /\ neighbors = << >> /\ queue = << >> /\ outcome = "none"
  /\ outcome' = IF Len(ordered) = Len(nodes) THEN "sorted" ELSE "cycle"
  /\ UNCHANGED <<nodes, edges, inDegree, queue, neighbors, ordered>>

Next == Take \/ Lower \/ Return

Spec == Init /\ [][Next]_vars

-----------------------------------------------------------------------------
(* Properties *)

\* Every node of S has a predecessor in S: what a cycle leaves unsorted.
Circular(S) == S # {} /\ \A n \in S : \E i \in DOMAIN edges : edges[i][1] \in S /\ edges[i][2] = n
HasCycle == \E S \in SUBSET Ids : Circular(S)

(***************************************************************************)
(* A sorted result lists every node once and every known edge forwards,    *)
(* which is all PipelineGraph assumes of Order.                            *)
(***************************************************************************)
SortedIsTopological ==
  outcome = "sorted" =>
    /\ ToSet(ordered) = Ids /\ IsInjective(ordered)
    /\ \A i, j \in DOMAIN ordered :
         Contains(edges, <<ordered[i], ordered[j]>>) => i < j

(***************************************************************************)
(* The sort raises exactly for the pipelines it cannot order: those with a *)
(* cycle, and those that use a node id twice.                              *)
(***************************************************************************)
RaisesOnlyIfUnsortable ==
  outcome # "none" => (outcome = "cycle" <=> HasCycle \/ ~IsInjective(nodes))
=============================================================================
