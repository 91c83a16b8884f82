---------------------------- MODULE MCPipelineRun ----------------------------
EXTENDS PipelineRun, TLC

\* Two gates in parallel and one node below both.
TwinNodes == {"g", "h", "n"}
TwinEdges == {<<"g", "n">>, <<"h", "n">>}
TwinOrder == <<"g", "h", "n">>
TwinGates == {"g", "h"}
TwinOutcomes == [m \in TwinNodes |-> IF m \in TwinGates THEN {"suspended"} ELSE {"succeeded"}]

\* Two gates in parallel, one of them below an optional node that fails, and a node below both.
ForkNodes == {"a", "g", "h", "n"}
ForkEdges == {<<"a", "h">>, <<"g", "n">>, <<"h", "n">>}
ForkOrder == <<"a", "g", "h", "n">>
ForkGates == {"g", "h"}
ForkOutcomes == [m \in ForkNodes |->
  CASE m = "a" -> {"failed"}
    [] m \in ForkGates -> {"suspended"}
    [] m = "n" -> {"succeeded"}]

\* A gate that one upstream would do for, an optional upstream, and a branch beside them.
SideNodes == {"a", "g", "n", "q"}
SideEdges == {<<"a", "g">>, <<"g", "n">>}
SideOrder == <<"a", "g", "q", "n">>
SideGates == {"g"}
SideOutcomes == [m \in SideNodes |->
  CASE m = "a" -> {"succeeded", "failed"}
    [] m = "g" -> {"suspended"}
    [] m = "q" -> {"succeeded", "no_signals"}
    [] m = "n" -> {"succeeded", "failed"}]

\* Executors, and requests, differ in nothing but their names.
MCSymmetry == Permutations(Executors) \cup Permutations(Handlers)

\* The shape of the marketing pipeline: optional scouts, a qualifier, a gate, a draft, a gate.
LineNodes == {"a", "b", "q", "g", "n", "h"}
LineEdges == {<<"a", "q">>, <<"b", "q">>, <<"q", "g">>, <<"g", "n">>, <<"n", "h">>}
LineOrder == <<"a", "b", "q", "g", "n", "h">>
LineGates == {"g", "h"}
LineOutcomes == [m \in LineNodes |->
  CASE m \in {"a", "b"} -> {"succeeded", "failed"}
    [] m = "q" -> {"succeeded", "no_signals"}
    [] m = "n" -> {"succeeded", "failed", "partial_complete"}
    [] m \in LineGates -> {"suspended", "failed"}]
=============================================================================
