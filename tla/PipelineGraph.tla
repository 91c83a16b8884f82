---------------------------- MODULE PipelineGraph ----------------------------
(***************************************************************************)
(* The pipeline definition an executor walks: the nodes and edges of one   *)
(* row of pipelines, the order in which the executor visits the nodes      *)
(* (the output of _topological_sort, modelled step by step in KahnSort)    *)
(* and the reachability the executor computes over the edges.              *)
(***************************************************************************)
EXTENDS Naturals, Sequences, FiniteSets

CONSTANTS
  Nodes,   \* node ids of the pipeline
  Edges,   \* pairs <<source_node_id, target_node_id>>
  Order    \* the nodes as _topological_sort returns them

Succs(n) == {m \in Nodes : <<n, m>> \in Edges}
Preds(n) == {m \in Nodes : <<m, n>> \in Edges}

Closed(S) == \A m \in S : Succs(m) \subseteq S

(***************************************************************************)
(* What the breadth-first searches of the executor return: the nodes with  *)
(* a path from n, i.e. those of every edge-closed set holding n's targets. *)
(***************************************************************************)
Below == [n \in Nodes |->
            {m \in Nodes : \A S \in SUBSET Nodes :
                              Succs(n) \subseteq S /\ Closed(S) => m \in S}]

(***************************************************************************)
(* The sort lists every node once and every edge forwards; a pipeline with *)
(* a cycle has no order and its run fails before the first node.           *)
(***************************************************************************)
ASSUME GraphAssumption ==
  /\ IsFiniteSet(Nodes)
  /\ Edges \subseteq Nodes \X Nodes
  /\ Order \in Seq(Nodes)
  /\ \A n \in Nodes : \E i \in 1..Len(Order) : Order[i] = n
  /\ \A i, j \in 1..Len(Order) : Order[i] = Order[j] => i = j
  /\ \A i, j \in 1..Len(Order) : <<Order[i], Order[j]>> \in Edges => i < j
=============================================================================
