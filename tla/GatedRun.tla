------------------------------ MODULE GatedRun ------------------------------
(***************************************************************************)
(* What a run promises whoever looks at its row: one node at a time, in    *)
(* edge order, each at most once, nothing below a gate before a person     *)
(* agreed to it, and an end that says truthfully whether all of it was     *)
(* done.  There is no executor, no session and no lock here.               *)
(***************************************************************************)
EXTENDS PipelineGraph

CONSTANTS Gates

VARIABLES
  mark,    \* mark[n]: how far node n is
  result   \* "open" until the run ends

vars == <<mark, result>>

Mark == {"todo", "started", "done", "failed", "asked", "refused"}

Init ==
  /\ mark = [n \in Nodes |-> "todo"]
  /\ result = "open"

Move(n, from, to) ==
  /\ result = "open"
  /\ mark[n] = from
  /\ mark' = [mark EXCEPT ![n] = to]

\* Nobody else is at work, and everything the node builds on is done.
Start(n) ==
  /\ \A m \in Nodes : mark[m] # "started"
  /\ \A m \in Preds(n) : mark[m] = "done"
  /\ Move(n, "todo", "started")
  /\ UNCHANGED result

Complete(n) == n \notin Gates /\ Move(n, "started", "done") /\ UNCHANGED result
Fail(n)     == Move(n, "started", "failed") /\ result' \in {"failed", "partial_complete"}
Ask(g)      == Move(g, "started", "asked") /\ UNCHANGED result
Agree(g)    == Move(g, "asked", "done") /\ UNCHANGED result
Refuse(g)   == Move(g, "asked", "refused") /\ UNCHANGED result

\* Nothing came of node n: what is below it counts as done, and that is all of the rest.
Empty(n) ==
  /\ result = "open" /\ mark[n] = "started"
  /\ mark' = [m \in Nodes |-> IF m = n \/ m \in Below[n] THEN "done" ELSE mark[m]]
  /\ \A m \in Nodes : mark'[m] = "done"
  /\ result' = "succeeded"

Succeed == result = "open" /\ (\A n \in Nodes : mark[n] = "done") /\ result' = "succeeded"
EndRefused == result = "open" /\ (\E g \in Gates : mark[g] = "refused") /\ result' = "failed"

\* The process that would have walked the run breaks down before the first node.
NeverStarted == result = "open" /\ (\A n \in Nodes : mark[n] = "todo") /\ result' = "failed"

Next ==
  \/ \E n \in Nodes : Start(n) \/ Complete(n) \/ Fail(n) \/ Empty(n)
  \/ \E g \in Gates : Ask(g) \/ Agree(g) \/ Refuse(g)
  \/ (Succeed \/ EndRefused \/ NeverStarted) /\ UNCHANGED mark

Spec == Init /\ [][Next]_vars
=============================================================================
