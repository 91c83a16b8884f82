-------------------------- MODULE PipelineRunProofs --------------------------
(***************************************************************************)
(* Proofs about PipelineRun, for every pipeline, every number of executors *)
(* and requests and every bound; first what its walk rests on: that        *)
(* reachability is transitive, and that a topological order puts a node    *)
(* before everything that is below it; last, from the hypothesis           *)
(* OneAtATime, what holds when one request is served at a time.            *)
(***************************************************************************)
EXTENDS PipelineRun, SequenceTheorems, TLAPS

-----------------------------------------------------------------------------
(* Reachability and order *)

\* The nodes below n are nodes.
LEMMA BelowType == Below \in [Nodes -> SUBSET Nodes]
  BY DEF Below

\* What follows a node below n, or n itself, is below n.
LEMMA BelowClosed ==
  ASSUME NEW n \in Nodes
  PROVE  Succs(n) \subseteq Below[n] /\ Closed(Below[n])
<1>1. Succs(n) \subseteq Below[n]
  BY DEF Below, Succs
<1>2. ASSUME NEW m \in Below[n], NEW l \in Succs(m) PROVE l \in Below[n]
  <2>1. m \in Nodes /\ l \in Nodes
    BY <1>2 DEF Below, Succs
  <2>2. ASSUME NEW S \in SUBSET Nodes, Succs(n) \subseteq S, Closed(S) PROVE l \in S
    <3>1. m \in S
      BY <2>2 DEF Below
    <3> QED  BY <2>2, <3>1, <1>2 DEF Closed
  <2> QED  BY <2>1, <2>2 DEF Below
<1> QED  BY <1>1, <1>2 DEF Closed

\* Below is transitive: the executor's search from a gate finds what a search from any
\* node it found would find.
LEMMA BelowTransitive ==
  ASSUME NEW n \in Nodes, NEW m \in Below[n]
  PROVE  m \in Nodes /\ Below[m] \subseteq Below[n]
<1>1. m \in Nodes /\ Below[n] \in SUBSET Nodes
  BY BelowType
<1>2. Succs(m) \subseteq Below[n] /\ Closed(Below[n])
  BY BelowClosed DEF Closed
<1> QED  BY <1>1, <1>2 DEF Below

\* The order lists nodes.
LEMMA OrderType == ASSUME NEW i \in 1..Len(Order) PROVE Order[i] \in Nodes
<1>1. Order \in Seq(Nodes)
  BY GraphAssumption
<1> QED  BY <1>1

\* A node comes before everything below it in the order of _topological_sort.
LEMMA BelowComesLater ==
  ASSUME NEW i \in 1..Len(Order), NEW j \in 1..Len(Order), Order[j] \in Below[Order[i]]
  PROVE  i < j
<1> DEFINE Later == {m \in Nodes : \E k \in 1..Len(Order) : Order[k] = m /\ i < k}
<1>1. Order[i] \in Nodes /\ Order[j] \in Nodes
  BY OrderType
<1>2. Succs(Order[i]) \subseteq Later
  <2> SUFFICES ASSUME NEW m \in Succs(Order[i]) PROVE m \in Later
    OBVIOUS
  <2>1. m \in Nodes /\ <<Order[i], m>> \in Edges
    BY DEF Succs
  <2>2. PICK k \in 1..Len(Order) : Order[k] = m
    BY <2>1, GraphAssumption
  <2> QED  BY <2>1, <2>2, GraphAssumption
<1>3. Closed(Later)
  <2> SUFFICES ASSUME NEW l \in Later, NEW m \in Succs(l) PROVE m \in Later
    BY DEF Closed
  <2>1. PICK k \in 1..Len(Order) : Order[k] = l /\ i < k
    OBVIOUS
  <2>2. m \in Nodes /\ <<l, m>> \in Edges
    BY DEF Succs
  <2>3. PICK p \in 1..Len(Order) : Order[p] = m
    BY <2>2, GraphAssumption
  <2>4. k < p
    BY <2>1, <2>2, <2>3, GraphAssumption
  <2>5. i < p
    BY <2>1, <2>4, GraphAssumption
  <2> QED  BY <2>2, <2>3, <2>5
<1>4. Order[j] \in Later
  <2>1. Later \in SUBSET Nodes
    OBVIOUS
  <2> HIDE DEF Later
  <2> QED  BY <1>1, <1>2, <1>3, <2>1 DEF Below
<1> QED  BY <1>4, GraphAssumption

-----------------------------------------------------------------------------
(* Type correctness *)

\* An entry of node_states is one of NodeState.
LEMMA EntryType == \A s \in NodeStatus : Entry(s) \in NodeState
  BY DEF Entry, NodeState, Decision

\* A process at work on a node holds a copy of the row.
LEMMA CopyType ==
  ASSUME TypeOK, NEW e \in Executors, exec[e].pc \in Running
  PROVE  /\ exec[e].at \in 1..(Len(Order) + 1)
         /\ exec[e].ns \in [Nodes -> NodeState]
         /\ exec[e].status \in RunStatus
         /\ exec[e].sawRow \in BOOLEAN
         /\ exec[e] \in [pc : {"loaded", "walk", "held", "work"}, at : 1..(Len(Order) + 1),
                         ns : [Nodes -> NodeState], status : RunStatus, sawRow : BOOLEAN]
  BY DEF TypeOK, Process, Running

\* A process that goes on walking is a process again.
LEMMA WalkType ==
  ASSUME TypeOK, NEW e \in Executors, NEW i \in 1..(Len(Order) + 2),
         NEW pc \in {"loaded", "walk", "held"}, NEW ns \in [Nodes -> NodeState],
         NEW s \in RunStatus, WalkFrom(e, i, pc, ns, s)
  PROVE  exec' \in [Executors -> Process]
<1>1. PICK j \in i..(Len(Order) + 1) :
        exec' = [exec EXCEPT ![e] = [pc |-> pc, at |-> j, ns |-> ns, status |-> s,
                                     sawRow |-> FALSE]]
  BY DEF WalkFrom
<1>2. j \in 1..(Len(Order) + 1)
  BY GraphAssumption
<1>3. [pc |-> pc, at |-> j, ns |-> ns, status |-> s, sawRow |-> FALSE] \in Process
  BY <1>2 DEF Process
<1> QED  BY <1>1, <1>3 DEF TypeOK

\* What follows a node keeps the types.
LEMMA ContinueType ==
  ASSUME TypeOK, NEW e \in Executors, exec[e].pc \in Running,
         NEW pc \in {"walk", "held"}, NEW ns \in [Nodes -> NodeState],
         NEW s \in RunStatus, Continue(e, pc, ns, s)
  PROVE  exec' \in [Executors -> Process]
<1>1. exec[e].at + 1 \in 1..(Len(Order) + 2)
  BY CopyType, GraphAssumption
<1>2. WalkFrom(e, exec[e].at + 1, pc, ns, s)
  BY DEF Continue
<1> QED  BY <1>1, <1>2, WalkType

\* The node a walk stands at.
LEMMA NodeType ==
  ASSUME TypeOK, NEW e \in Executors, exec[e].pc \in Running, exec[e].at <= Len(Order)
  PROVE  exec[e].at \in 1..Len(Order) /\ Node(e) \in Nodes
<1>1. exec[e].at \in 1..Len(Order)
  BY CopyType, GraphAssumption
<1> QED  BY <1>1, GraphAssumption DEF Node

\* The copy of the row with the node's new entry.
LEMMA EndedType ==
  ASSUME TypeOK, NEW e \in Executors, exec[e].pc \in Running, NEW s \in NodeStatus
  PROVE  Ended(e, s) \in [Nodes -> NodeState]
  BY CopyType, EntryType DEF Ended

\* The steps of an executor keep the types.
LEMMA TypeExecute ==
  ASSUME TypeOK, NEW e \in Executors, Execute(e)
  PROVE  TypeOK'
<1> USE DEF Terminal, NodeStatus
<1>1. CASE Load(e)
  <2> DEFINE pc == IF status = "queued" THEN "loaded" ELSE "walk"
  <2>a. /\ pc \in {"loaded", "walk", "held"} /\ 1 \in 1..(Len(Order) + 2)
        /\ nodeStates \in [Nodes -> NodeState] /\ status \in RunStatus
        /\ WalkFrom(e, 1, pc, nodeStates, status)
    BY <1>1, GraphAssumption DEF Load, TypeOK
  <2> HIDE DEF pc
  <2>1. exec' \in [Executors -> Process]
    BY <2>a, WalkType
  <2> QED  BY <1>1, <2>1 DEF Load, TypeOK
<1>2. CASE Begin(e)
  <2>1. exec'[e] \in Process
    BY <1>2, CopyType, ZenonT(60) DEF Begin, Process, Running, RunStatus, TypeOK
  <2>2. exec' \in [Executors -> Process]
    BY <1>2, <2>1 DEF Begin, TypeOK
  <2> QED  BY <1>2, <2>2 DEF Begin, TypeOK, RunStatus
<1>3. CASE PassGate(e)
  <2>1. exec[e].pc \in {"walk", "held"} /\ exec[e].pc \in Running
    BY <1>3 DEF PassGate, AtGate, Walking, Running
  <2> DEFINE ns == [exec[e].ns EXCEPT ![Node(e)].st = "succeeded"]
  <2>2. ns \in [Nodes -> NodeState]
    <3>1. exec[e].ns \in [Nodes -> NodeState]
      BY <2>1, CopyType
    <3>2. ASSUME NEW x \in NodeState PROVE [x EXCEPT !.st = "succeeded"] \in NodeState
      BY DEF NodeState
    <3> QED  BY <3>1, <3>2
  <2>3. Continue(e, exec[e].pc, ns, exec[e].status) /\ exec[e].status \in RunStatus
    BY <1>3, <2>1, CopyType DEF PassGate
  <2> HIDE DEF ns
  <2>4. exec' \in [Executors -> Process]
    BY <2>1, <2>2, <2>3, ContinueType
  <2> QED  BY <1>3, <2>4 DEF PassGate, TypeOK
<1>4. CASE StopRejected(e)
  BY <1>4 DEF StopRejected, SetStatus, Leave, TypeOK, Process, RunStatus, Idle, At
<1>5. CASE StopUndecided(e)
  BY <1>5 DEF StopUndecided, SetStatus, Leave, TypeOK, Process, RunStatus, Idle, At
<1>6. CASE Dispatch(e)
  <2>1. exec[e].pc \in Running
    BY <1>6 DEF Dispatch, Walking, Running
  <2>2. [exec[e].ns EXCEPT ![Node(e)] = Entry("running")] \in [Nodes -> NodeState]
    BY <2>1, CopyType, EntryType
  <2>3. exec'[e] \in Process
    BY <1>6, <2>1, <2>2, CopyType, ZenonT(60) DEF Dispatch, Process, TypeOK
  <2>4. exec' \in [Executors -> Process]
    BY <1>6, <2>3 DEF Dispatch, TypeOK
  <2> QED  BY <1>6, <2>2, <2>4 DEF Dispatch, TypeOK
<1>7. CASE NodeDone(e)
  <2>1. exec[e].pc \in Running
    BY <1>7 DEF NodeDone, Running
  <2>2. PICK s \in {"succeeded", "failed"} :
          nodeStates' = Ended(e, s) /\ Continue(e, "held", Ended(e, s), exec[e].status)
    BY <1>7 DEF NodeDone
  <2>3. exec' \in [Executors -> Process]
    <3>1. Ended(e, s) \in [Nodes -> NodeState] /\ exec[e].status \in RunStatus
      BY <2>1, CopyType, EndedType
    <3> QED  BY <2>1, <2>2, <3>1, ContinueType
  <2> QED  BY <1>7, <2>1, <2>2, <2>3, EndedType DEF NodeDone, TypeOK
<1>8. CASE NodeEndsRun(e)
  <2>1. exec[e].pc \in Running
    BY <1>8 DEF NodeEndsRun, Running
  <2>2. PICK s \in {"failed", "partial_complete"} :
          nodeStates' = Ended(e, s) /\ SetStatus(e, s)
    BY <1>8 DEF NodeEndsRun
  <2>3. nodeStates' \in [Nodes -> NodeState] /\ status' \in RunStatus
    BY <2>1, <2>2, EndedType DEF SetStatus, TypeOK, RunStatus
  <2> QED  BY <1>8, <2>3 DEF NodeEndsRun, Leave, TypeOK, Process, Idle, At
<1>9. CASE NoSignals(e)
  <2>1. exec[e].pc \in Running
    BY <1>9 DEF NoSignals, Running
  <2>2. nodeStates' \in [Nodes -> NodeState]
    BY <1>9, <2>1, CopyType, EntryType DEF NoSignals
  <2> QED  BY <1>9, <2>2 DEF NoSignals, SetStatus, Leave, TypeOK, Process, RunStatus, Idle, At
<1>10. CASE GateSuspends(e)
  <2>1. exec[e].pc \in Running
    BY <1>10 DEF GateSuspends, Running
  <2>2. exec' \in [Executors -> Process]
    <3>1. Ended(e, "suspended") \in [Nodes -> NodeState] /\ "awaiting_approval" \in RunStatus
      BY <2>1, EndedType DEF RunStatus
    <3>2. Continue(e, "held", Ended(e, "suspended"), "awaiting_approval")
      BY <1>10 DEF GateSuspends
    <3> QED  BY <2>1, <3>1, <3>2, ContinueType
  <2>3. approvals' \in [Gates -> Seq({"pending", "approved", "rejected"})]
    <3> DEFINE Rows == Seq({"pending", "approved", "rejected"})
    <3>1. \A rows \in Rows : Append(rows, "pending") \in Rows
      OBVIOUS
    <3>2. approvals \in [Gates -> Rows]
      BY DEF TypeOK
    <3>3. approvals' = approvals
          \/ approvals' = [approvals EXCEPT ![Node(e)] = Append(approvals[Node(e)], "pending")]
      BY <1>10 DEF GateSuspends
    <3> HIDE DEF Rows
    <3>4. approvals' \in [Gates -> Rows]
      BY <3>1, <3>2, <3>3
    <3> QED  BY <3>4 DEF Rows
  <2>4. nodeStates' \in [Nodes -> NodeState] /\ status' \in RunStatus
    BY <1>10, <2>1, EndedType DEF GateSuspends, SetStatus, TypeOK, RunStatus
  <2> QED  BY <1>10, <2>2, <2>3, <2>4 DEF GateSuspends, TypeOK
<1>11. CASE GateWaits(e)
  <2>1. exec[e].pc \in Running
    BY <1>11 DEF GateWaits, Running
  <2>2. exec' \in [Executors -> Process]
    <3>1. Ended(e, "waiting_for_upstream") \in [Nodes -> NodeState]
          /\ exec[e].status \in RunStatus
      BY <2>1, CopyType, EndedType
    <3>2. Continue(e, "held", Ended(e, "waiting_for_upstream"), exec[e].status)
      BY <1>11 DEF GateWaits
    <3> QED  BY <2>1, <3>1, <3>2, ContinueType
  <2>3. nodeStates' \in [Nodes -> NodeState]
    BY <1>11, <2>1, EndedType DEF GateWaits
  <2> QED  BY <1>11, <2>2, <2>3 DEF GateWaits, TypeOK
<1>12. CASE Finish(e)
  BY <1>12 DEF Finish, SetStatus, Leave, TypeOK, Process, RunStatus, Idle, At
<1> QED  BY <1>1, <1>2, <1>3, <1>4, <1>5, <1>6, <1>7, <1>8, <1>9, <1>10, <1>11, <1>12 DEF Execute

\* The steps of a request keep the types.
LEMMA TypeServe ==
  ASSUME TypeOK, NEW h \in Handlers, Serve(h)
  PROVE  TypeOK'
<1>1. CASE ReadApproval(h)
  <2>1. PICK g \in Gates, d \in {"approved", "rejected"}, i \in Nat :
          req' = [req EXCEPT ![h] = [pc |-> "chosen", gate |-> g, dec |-> d, row |-> i]]
    <3>1. \A g \in Gates : Len(approvals[g]) \in Nat
      BY DEF TypeOK
    <3>2. PICK c \in Channels, g \in Gates, d \in {"approved", "rejected"} :
            \E i \in 0..Len(approvals[g]) :
              req' = [req EXCEPT ![h] = [pc |-> "chosen", gate |-> g, dec |-> d, row |-> i]]
      BY <1>1 DEF ReadApproval
    <3>3. PICK i \in 0..Len(approvals[g]) :
            req' = [req EXCEPT ![h] = [pc |-> "chosen", gate |-> g, dec |-> d, row |-> i]]
      BY <3>2
    <3>4. i \in Nat
      BY <3>1
    <3> QED  BY <3>3, <3>4
  <2>2. req' \in [Handlers -> Request]
    BY <2>1 DEF TypeOK, Request
  <2>3. begun' \in 0..MaxRequests
    BY <1>1, RunAssumption DEF ReadApproval, TypeOK
  <2> QED  BY <1>1, <2>2, <2>3 DEF ReadApproval, TypeOK
<1>2. CASE ReadRun(h)
  <2>1. req'[h] \in Request
    BY <1>2 DEF ReadRun, TypeOK, Request
  <2>2. req' \in [Handlers -> Request]
    BY <1>2, <2>1 DEF ReadRun, TypeOK
  <2> QED  BY <1>2, <2>2 DEF ReadRun, TypeOK
<1>3. CASE Refuse(h)
  BY <1>3 DEF Refuse, TypeOK, Request, Idle, At
<1>4. CASE WriteDecision(h)
  <2> DEFINE r == req[h]
  <2>1. /\ r.gate \in Gates /\ r.dec \in {"approved", "rejected"}
        /\ r.row \in Nat /\ r.ns \in [Nodes -> NodeState]
    BY <1>4 DEF WriteDecision, TypeOK, Request
  <2>2. approvals' \in [Gates -> Seq({"pending", "approved", "rejected"})]
    <3> DEFINE Rows == Seq({"pending", "approved", "rejected"})
    <3>1. ASSUME NEW rows \in Rows PROVE [rows EXCEPT ![r.row] = r.dec] \in Rows
      <4>1. CASE r.row \in 1..Len(rows)
        BY <2>1, <4>1, ExceptSeq
      <4>2. CASE r.row \notin 1..Len(rows)
        <5>1. DOMAIN rows = 1..Len(rows)
          OBVIOUS
        <5>2. [rows EXCEPT ![r.row] = r.dec] = rows
          BY <4>2, <5>1
        <5> QED  BY <5>2
      <4> QED  BY <4>1, <4>2
    <3>2. approvals \in [Gates -> Rows]
      BY DEF TypeOK
    <3>3. approvals' = approvals
          \/ approvals' = [approvals EXCEPT ![r.gate] = [approvals[r.gate] EXCEPT ![r.row] = r.dec]]
      BY <1>4 DEF WriteDecision
    <3> HIDE DEF Rows
    <3>4. approvals' \in [Gates -> Rows]
      BY <2>1, <3>1, <3>2, <3>3
    <3> QED  BY <3>4 DEF Rows
  <2>3. nodeStates' \in [Nodes -> NodeState]
    <3>1. nodeStates' = [r.ns EXCEPT ![r.gate].dec = r.dec]
      BY <1>4 DEF WriteDecision
    <3>2. ASSUME NEW x \in NodeState PROVE [x EXCEPT !.dec = r.dec] \in NodeState
      BY <2>1 DEF NodeState, Decision
    <3> QED  BY <2>1, <3>1, <3>2
  <2>4. req' \in [Handlers -> Request]
    BY <1>4 DEF WriteDecision, TypeOK, Request, At
  <2>5. approved' \subseteq Gates /\ status' \in RunStatus
    BY <1>4, <2>1 DEF WriteDecision, TypeOK, RunStatus
  <2> QED  BY <1>4, <2>2, <2>3, <2>4, <2>5 DEF WriteDecision, TypeOK
<1>5. CASE Spawn(h)
  BY <1>5 DEF Spawn, TypeOK, Process, Request, Idle, At
<1>6. CASE SpawnFails(h)
  BY <1>6, RunAssumption DEF SpawnFails, Fails, TypeOK, Request, Idle, At
<1>7. CASE ReadCancel(h)
  BY <1>7, RunAssumption DEF ReadCancel, TypeOK, Request, At
<1>8. CASE WriteCancel(h)
  BY <1>8 DEF WriteCancel, TypeOK, Request, RunStatus, Idle, At
<1> QED  BY <1>1, <1>2, <1>3, <1>4, <1>5, <1>6, <1>7, <1>8 DEF Serve

\* The first state has the types.
LEMMA TypeInit == Init => TypeOK
<1> SUFFICES ASSUME Init PROVE TypeOK
  OBVIOUS
<1>1. nodeStates \in [Nodes -> NodeState]
  BY EntryType DEF Init, NodeStatus
<1>2. req \in [Handlers -> Request] /\ exec \in [Executors -> Process]
  BY DEF Init, Request, Process, Idle, At
<1>3. approvals \in [Gates -> Seq({"pending", "approved", "rejected"})]
  BY DEF Init
<1>4. begun \in 0..MaxRequests /\ faults \in 0..MaxFaults
  BY RunAssumption DEF Init
<1> QED  BY <1>1, <1>2, <1>3, <1>4 DEF Init, TypeOK, RunStatus

\* Every step keeps the types.
LEMMA TypeNext == TypeOK /\ [Next]_vars => TypeOK'
<1> SUFFICES ASSUME TypeOK, [Next]_vars PROVE TypeOK'
  OBVIOUS
<1>1. CASE \E e \in Executors : Execute(e)
  BY <1>1, TypeExecute
<1>2. CASE \E h \in Handlers : Serve(h)
  BY <1>2, TypeServe
<1>3. ASSUME NEW e \in Executors, Kill(e) PROVE TypeOK'
  BY <1>3, RunAssumption DEF Kill, Fails, Leave, TypeOK, Process, Idle, At
<1>4. ASSUME NEW e \in Executors, Raise(e) PROVE TypeOK'
  BY <1>4, RunAssumption DEF Raise, Fails, Leave, TypeOK, Process, RunStatus, Idle, At
<1>5. CASE Restart
  <2>1. exec' \in [Executors -> Process]
    BY <1>5 DEF Restart, TypeOK, Process, Idle, At
  <2>2. faults' \in 0..MaxFaults /\ lost' = TRUE
    BY <1>5, RunAssumption DEF Restart, Fails, TypeOK
  <2> QED  BY <1>5, <2>1, <2>2 DEF Restart, TypeOK, Request, Idle, At
<1>6. CASE Sweep
  BY <1>6 DEF Sweep, TypeOK, RunStatus
<1>7. CASE Recover
  <2>1. exec' \in [Executors -> Process]
    BY <1>7 DEF Recover, TypeOK, Process, At
  <2> QED  BY <1>7, <2>1 DEF Recover, TypeOK
<1>8. CASE UNCHANGED vars
  BY <1>8 DEF vars, TypeOK
<1> QED  BY <1>1, <1>2, <1>3, <1>4, <1>5, <1>6, <1>7, <1>8 DEF Next

\* The row, every copy of it in an executor or a request, and every approval row keep
\* the shape the tables and the code give them, for every pipeline and every bound.
THEOREM TypeCorrect == Spec => []TypeOK
  BY TypeInit, TypeNext, PTL DEF Spec

-----------------------------------------------------------------------------
(* No run is left alone *)

\* A process that goes on walking is one whose copy has the status given.
LEMMA WalkStatus ==
  ASSUME TypeOK, NEW e \in Executors, NEW i, NEW pc \in {"loaded", "walk", "held"}, NEW ns,
         NEW s, WalkFrom(e, i, pc, ns, s)
  PROVE  exec'[e].pc \in Running /\ exec'[e].status = s
<1>1. PICK j : exec' = [exec EXCEPT ![e] = [pc |-> pc, at |-> j, ns |-> ns, status |-> s,
                                            sawRow |-> FALSE]]
  BY DEF WalkFrom
<1>2. exec'[e] = [pc |-> pc, at |-> j, ns |-> ns, status |-> s, sawRow |-> FALSE]
  BY <1>1 DEF TypeOK
<1> QED  BY <1>2 DEF Running

\* A step that changes one executor leaves the run attended if that executor attends it,
\* or if it did not attend it before, or if the run is now at rest.
LEMMA OthersAttend ==
  ASSUME TypeOK, RunIsAttended, NEW e \in Executors, NEW x, exec' = [exec EXCEPT ![e] = x],
         req' = req, lost' = lost,
         \/ status' \notin {"queued", "running"}
         \/ exec'[e].pc \in Running /\ exec'[e].status \in {"queued", "running"}
         \/ /\ exec[e].pc \in Running /\ exec[e].status \notin {"queued", "running"}
            /\ status' = status
  PROVE  RunIsAttended'
<1> SUFFICES ASSUME status' \in {"queued", "running"}, ~lost,
                    \A h \in Handlers : req[h].pc # "dispatch"
             PROVE  \E f \in Executors :
                      \/ exec'[f].pc = "spawned"
                      \/ exec'[f].pc \in Running /\ exec'[f].status \in {"queued", "running"}
  BY DEF RunIsAttended, Running
<1>1. CASE exec'[e].pc \in Running /\ exec'[e].status \in {"queued", "running"}
  BY <1>1
<1>2. CASE /\ exec[e].pc \in Running /\ exec[e].status \notin {"queued", "running"}
           /\ status' = status
  <2>1. PICK f \in Executors :
          \/ exec[f].pc = "spawned"
          \/ exec[f].pc \in Running /\ exec[f].status \in {"queued", "running"}
    BY <1>2 DEF RunIsAttended
  <2>2. f # e
    BY <1>2, <2>1 DEF Running
  <2>3. exec'[f] = exec[f]
    BY <2>2 DEF TypeOK
  <2> QED  BY <2>1, <2>3
<1> QED  BY <1>1, <1>2

\* A step of an executor at work that sets no status, or one in which the run rests, leaves
\* the run attended.
LEMMA StepAttends ==
  ASSUME TypeOK, RunIsAttended, NEW e \in Executors, exec[e].pc \in Running,
         NEW x, exec' = [exec EXCEPT ![e] = x], req' = req, lost' = lost,
         \/ status' = status /\ exec'[e].pc \in Running /\ exec'[e].status = exec[e].status
         \/ \E s \in {"awaiting_approval", "succeeded", "failed", "partial_complete"} :
              SetStatus(e, s)
         \/ status' = status /\ exec[e].status \in Terminal
  PROVE  RunIsAttended'
<1>1. CASE status' = status /\ exec'[e].pc \in Running /\ exec'[e].status = exec[e].status
  BY <1>1, OthersAttend
<1>2. CASE \E s \in {"awaiting_approval", "succeeded", "failed", "partial_complete"} :
             SetStatus(e, s)
  BY <1>2, OthersAttend DEF SetStatus
<1>3. CASE status' = status /\ exec[e].status \in Terminal
  BY <1>3, OthersAttend DEF Terminal
<1> QED  BY <1>1, <1>2, <1>3

\* The steps of an executor leave the run attended.
LEMMA ExecuteAttends ==
  ASSUME TypeOK, RunIsAttended, NEW e \in Executors, Execute(e)
  PROVE  RunIsAttended'
<1> USE DEF Running
<1>1. CASE Load(e)
  <2>1. PICK pc \in {"loaded", "walk", "held"} : WalkFrom(e, 1, pc, nodeStates, status)
    BY <1>1 DEF Load
  <2>2. exec'[e].pc \in Running /\ exec'[e].status = status
    BY <2>1, WalkStatus
  <2>3. PICK x : exec' = [exec EXCEPT ![e] = x]
    BY <2>1 DEF WalkFrom
  <2> QED  BY <1>1, <2>2, <2>3, OthersAttend DEF Load
<1>2. CASE Begin(e)
  <2>1. exec'[e].pc = "held" /\ exec'[e].status = "running"
    <3>1. exec[e] \in [pc : {"loaded", "walk", "held", "work"}, at : 1..(Len(Order) + 1),
                       ns : [Nodes -> NodeState], status : RunStatus, sawRow : BOOLEAN]
      BY <1>2, CopyType DEF Begin
    <3>2. exec' = [exec EXCEPT ![e].pc = "held", ![e].status = "running"]
          /\ exec \in [Executors -> Process]
      BY <1>2 DEF Begin, TypeOK
    <3> HIDE DEF Running
    <3> QED  BY <3>1, <3>2
  <2>2. PICK x : exec' = [exec EXCEPT ![e] = x]
    BY <1>2 DEF Begin, TypeOK
  <2> QED  BY <1>2, <2>1, <2>2, OthersAttend DEF Begin
<1>3. CASE PassGate(e) \/ NodeDone(e) \/ GateWaits(e)
  <2>1. PICK pc, ns : /\ pc \in {"loaded", "walk", "held"}
                      /\ WalkFrom(e, exec[e].at + 1, pc, ns, exec[e].status)
    BY <1>3 DEF PassGate, AtGate, Walking, NodeDone, GateWaits, Continue
  <2>2. exec'[e].pc \in Running /\ exec'[e].status = exec[e].status
    BY <2>1, WalkStatus
  <2>3. PICK x : exec' = [exec EXCEPT ![e] = x]
    BY <2>1 DEF WalkFrom
  <2>4. exec[e].pc \in Running /\ status' = status /\ req' = req /\ lost' = lost
    BY <1>3 DEF PassGate, AtGate, Walking, NodeDone, GateWaits
  <2> QED  BY <2>2, <2>3, <2>4, StepAttends
<1>4. CASE StopRejected(e) \/ StopUndecided(e)
  BY <1>4, StepAttends DEF StopRejected, StopUndecided, Leave, AtGate, Walking
<1>5. CASE Dispatch(e)
  <2>1. exec[e].pc \in Running
    BY <1>5 DEF Dispatch, Walking
  <2>2. exec'[e].pc \in Running /\ exec'[e].status = exec[e].status
    BY <1>5, <2>1, CopyType DEF Dispatch, TypeOK
  <2>3. PICK x : exec' = [exec EXCEPT ![e] = x]
    BY <1>5 DEF Dispatch, TypeOK
  <2> QED  BY <1>5, <2>1, <2>2, <2>3, StepAttends DEF Dispatch
<1>6. CASE NodeEndsRun(e)
  <2>1. PICK s \in {"failed", "partial_complete"} : SetStatus(e, s)
    BY <1>6 DEF NodeEndsRun
  <2> QED  BY <1>6, <2>1, StepAttends DEF NodeEndsRun, Leave
<1>7. CASE NoSignals(e)
  BY <1>7, StepAttends DEF NoSignals, Leave
<1>8. CASE GateSuspends(e)
  <2>1. PICK x : exec' = [exec EXCEPT ![e] = x]
    BY <1>8 DEF GateSuspends, Continue, WalkFrom
  <2>2. exec[e].pc \in Running /\ SetStatus(e, "awaiting_approval") /\ req' = req /\ lost' = lost
    BY <1>8 DEF GateSuspends
  <2> QED  BY <2>1, <2>2, StepAttends
<1>9. CASE Finish(e)
  <2>1. exec' = [exec EXCEPT ![e] = Idle] /\ exec[e].pc \in Running /\ req' = req /\ lost' = lost
    BY <1>9 DEF Finish, Leave
  <2>2. \/ \E s \in {"awaiting_approval", "succeeded"} : SetStatus(e, s)
        \/ status' = status /\ exec[e].status \in Terminal
    BY <1>9 DEF Finish
  <2> QED  BY <2>1, <2>2, StepAttends
<1> QED  BY <1>1, <1>2, <1>3, <1>4, <1>5, <1>6, <1>7, <1>8, <1>9 DEF Execute

\* The steps of a request leave the run attended.
LEMMA ServeAttends ==
  ASSUME TypeOK, RunIsAttended, NEW h \in Handlers, Serve(h)
  PROVE  RunIsAttended'
<1>1. CASE ReadApproval(h) \/ ReadRun(h) \/ Refuse(h) \/ ReadCancel(h) \/ WriteCancel(h)
  <2>1. /\ exec' = exec /\ lost' = lost /\ req[h].pc # "dispatch"
        /\ status' \in {status, "cancelled"}
        /\ \E x : req' = [req EXCEPT ![h] = x]
    BY <1>1 DEF ReadApproval, ReadRun, Refuse, ReadCancel, WriteCancel
  <2>2. \A i \in Handlers : req[i].pc = "dispatch" => req'[i] = req[i]
    BY <2>1 DEF TypeOK
  <2> QED  BY <2>1, <2>2 DEF RunIsAttended, Running
<1>2. CASE WriteDecision(h)
  <2>1. req'[h].pc = "dispatch"
    BY <1>2 DEF WriteDecision, TypeOK, At
  <2> QED  BY <2>1 DEF RunIsAttended
<1>3. CASE Spawn(h)
  <2>1. PICK e \in Executors : exec'[e].pc = "spawned"
    BY <1>3 DEF Spawn, TypeOK, At
  <2> QED  BY <2>1 DEF RunIsAttended
<1>4. CASE SpawnFails(h)
  BY <1>4 DEF SpawnFails, Fails, RunIsAttended
<1> QED  BY <1>1, <1>2, <1>3, <1>4 DEF Serve

\* Every step leaves the run attended: an executor that attends it ends only when the run
\* comes to rest, when its own death is recorded, or in a restart.
LEMMA AttendedNext == TypeOK /\ RunIsAttended /\ [Next]_vars => RunIsAttended'
<1> SUFFICES ASSUME TypeOK, RunIsAttended, [Next]_vars PROVE RunIsAttended'
  OBVIOUS
<1>1. CASE \E e \in Executors : Execute(e)
  BY <1>1, ExecuteAttends
<1>2. CASE \E h \in Handlers : Serve(h)
  BY <1>2, ServeAttends
<1>3. ASSUME NEW e \in Executors, Kill(e) \/ Raise(e) PROVE RunIsAttended'
  BY <1>3 DEF Kill, Raise, Fails, RunIsAttended
<1>4. CASE Restart
  BY <1>4 DEF Restart, Fails, RunIsAttended
<1>5. CASE Sweep
  BY <1>5 DEF Sweep, RunIsAttended, Running
<1>6. CASE Recover
  <2>1. CASE status \in {"queued", "running"}
    <3>1. PICK e \in Executors : exec'[e].pc = "spawned"
      BY <1>6, <2>1 DEF Recover, TypeOK, At
    <3> QED  BY <3>1 DEF RunIsAttended
  <2>2. CASE status \notin {"queued", "running"}
    BY <1>6, <2>2 DEF Recover, RunIsAttended
  <2> QED  BY <2>1, <2>2
<1>7. CASE UNCHANGED vars
  BY <1>7 DEF vars, RunIsAttended, Running
<1> QED  BY <1>1, <1>2, <1>3, <1>4, <1>5, <1>6, <1>7 DEF Next

\* A run that is queued or running has an executor or a dispatch to move it, unless one was
\* lost since the last recovery: whatever the pipeline, the requests and the processes.
THEOREM RunAttended == Spec => []RunIsAttended
<1>1. Init => RunIsAttended
  <2> SUFFICES ASSUME Init PROVE RunIsAttended
    OBVIOUS
  <2>1. PICK h \in Handlers : req = [i \in Handlers |-> IF i = h THEN At("dispatch") ELSE Idle]
    BY DEF Init
  <2>2. req[h].pc = "dispatch"
    BY <2>1 DEF At
  <2> QED  BY <2>2 DEF RunIsAttended
<1> QED  BY <1>1, TypeInit, TypeNext, AttendedNext, PTL DEF Spec

-----------------------------------------------------------------------------
(***************************************************************************)
(* No work below a gate before its approval, in every pipeline of          *)
(* OnlyOptionalWorkFails.                                                  *)
(*                                                                         *)
(* The argument: an executor never looks at the row again, so it is the    *)
(* copy it holds that must be right.  CopiesAreSound says that a copy can  *)
(* only hold approvals that were given; WalkIsSettled says that what the   *)
(* walk has left behind is done, suspended or below something suspended.   *)
(* A gate above the node at work is behind the walk, because the order is  *)
(* topological; it is not suspended, and not below a suspended gate, for   *)
(* the node would be below that one too; so it is done, hence approved.    *)
(***************************************************************************)

IInv == TypeOK /\ CopiesAreSound /\ WalkIsSettled

-----------------------------------------------------------------------------
(* The suspended gates of a copy and what is below them *)

\* An entry that is not, and does not become, suspended blocks what it blocked.
LEMMA BlockedSame ==
  ASSUME NEW ns \in [Nodes -> NodeState], NEW n \in Nodes, NEW x \in NodeState,
         ns[n].st # "suspended", x.st # "suspended"
  PROVE  Blocked([ns EXCEPT ![n] = x]) = Blocked(ns)
<1>1. Suspended([ns EXCEPT ![n] = x]) = Suspended(ns)
  BY DEF Suspended
<1> QED  BY <1>1 DEF Blocked

\* A gate that becomes suspended blocks what is below it, and all that was blocked before.
LEMMA BlockedMore ==
  ASSUME NEW ns \in [Nodes -> NodeState], NEW n \in Nodes, NEW x \in NodeState,
         x.st = "suspended"
  PROVE  Blocked(ns) \subseteq Blocked([ns EXCEPT ![n] = x])
<1>1. Suspended(ns) \subseteq Suspended([ns EXCEPT ![n] = x])
  BY DEF Suspended
<1> QED  BY <1>1 DEF Blocked

\* A gate that is passed unblocks only nodes that are below it.
LEMMA BlockedLess ==
  ASSUME NEW ns \in [Nodes -> NodeState], NEW n \in Nodes, NEW m \in Blocked(ns) \ Below[n],
         NEW x \in NodeState
  PROVE  m \in Blocked([ns EXCEPT ![n] = x])
<1>1. PICK g \in Suspended(ns) : m \in Below[g]
  BY DEF Blocked
<1>2. g # n /\ g \in Suspended([ns EXCEPT ![n] = x])
  BY <1>1 DEF Suspended
<1> QED  BY <1>1, <1>2 DEF Blocked

\* What is below a suspended or blocked node is blocked.
LEMMA BlockedBelow ==
  ASSUME NEW ns \in [Nodes -> NodeState], NEW n \in Nodes,
         n \in Blocked(ns) \/ ns[n].st = "suspended"
  PROVE  Below[n] \subseteq Blocked(ns)
<1>1. CASE ns[n].st = "suspended"
  BY <1>1 DEF Blocked, Suspended
<1>2. CASE n \in Blocked(ns)
  <2>1. PICK g \in Suspended(ns) : n \in Below[g]
    BY <1>2 DEF Blocked
  <2>2. Below[n] \subseteq Below[g]
    BY <2>1, BelowTransitive DEF Suspended
  <2> QED  BY <2>1, <2>2 DEF Blocked
<1> QED  BY <1>1, <1>2

-----------------------------------------------------------------------------
(* What the walk leaves behind *)

\* Of a sound copy, what the walk passes over is settled.
LEMMA PassedOverSettled ==
  ASSUME NEW ns, CopyIsSound(ns), NEW n \in Nodes, PassedOver(ns, n)
  PROVE  Settled(ns, n)
  BY DEF CopyIsSound, PassedOver, Settled, Terminal

\* A walk over a sound copy that has settled everything before i stops with everything
\* before it settled, at a node that is not blocked.
LEMMA WalkSettles ==
  ASSUME TypeOK, NEW e \in Executors, NEW i \in 1..(Len(Order) + 2),
         NEW pc \in {"loaded", "walk", "held"}, NEW ns \in [Nodes -> NodeState],
         NEW s \in RunStatus, WalkFrom(e, i, pc, ns, s), CopyIsSound(ns),
         \A k \in 1..(i - 1) : k <= Len(Order) => Settled(ns, Order[k])
  PROVE  /\ exec'[e].pc = pc /\ exec'[e].ns = ns
         /\ \A k \in 1..(exec'[e].at - 1) : Settled(ns, Order[k])
         /\ exec'[e].at <= Len(Order) => Order[exec'[e].at] \notin Blocked(ns)
<1>1. PICK j \in i..(Len(Order) + 1) :
        /\ IsStop(ns, i, j)
        /\ exec' = [exec EXCEPT ![e] = [pc |-> pc, at |-> j, ns |-> ns, status |-> s,
                                        sawRow |-> FALSE]]
  BY DEF WalkFrom
<1>2. exec'[e] = [pc |-> pc, at |-> j, ns |-> ns, status |-> s, sawRow |-> FALSE]
  BY <1>1 DEF TypeOK
<1>3. Len(Order) \in Nat /\ j \in Nat
  BY GraphAssumption, <1>1
<1>4. ASSUME NEW k \in 1..(j - 1) PROVE Settled(ns, Order[k])
  <2>1. k \in 1..Len(Order) /\ Order[k] \in Nodes
    BY <1>1, <1>3, GraphAssumption
  <2>2. CASE k < i
    BY <2>1, <2>2, <1>3
  <2>3. CASE k >= i
    <3>1. PassedOver(ns, Order[k])
      BY <1>1, <1>3, <2>3 DEF IsStop
    <3> QED  BY <2>1, <3>1, PassedOverSettled
  <2> QED  BY <2>1, <2>2, <2>3
<1>5. j <= Len(Order) => Order[j] \notin Blocked(ns)
  BY <1>1 DEF IsStop, PassedOver
<1> QED  BY <1>2, <1>4, <1>5

\* A change of one executor keeps WalkIsSettled if it holds of that executor.
LEMMA OthersSettled ==
  ASSUME WalkIsSettled, NEW e \in Executors, exec \in [Executors -> Process],
         NEW x, exec' = [exec EXCEPT ![e] = x],
         exec'[e].pc \in Running =>
           /\ \A k \in 1..(exec'[e].at - 1) : Settled(exec'[e].ns, Order[k])
           /\ exec'[e].at <= Len(Order) => Order[exec'[e].at] \notin Blocked(exec'[e].ns)
           /\ exec'[e].pc = "work" => exec'[e].at <= Len(Order)
                                      /\ exec'[e].ns[Order[exec'[e].at]].st = "running"
  PROVE  WalkIsSettled'
<1> SUFFICES ASSUME NEW f \in Executors, exec'[f].pc \in Running
             PROVE  /\ \A k \in 1..(exec'[f].at - 1) : Settled(exec'[f].ns, Order[k])
                    /\ exec'[f].at <= Len(Order) =>
                         Order[exec'[f].at] \notin Blocked(exec'[f].ns)
                    /\ exec'[f].pc = "work" => exec'[f].at <= Len(Order)
                                               /\ exec'[f].ns[Order[exec'[f].at]].st = "running"
  BY DEF WalkIsSettled, Node, Settled, Blocked, Suspended
<1>1. CASE f = e
  BY <1>1
<1>2. CASE f # e
  <2>1. exec'[f] = exec[f]
    BY <1>2
  <2> QED  BY <2>1 DEF WalkIsSettled, Node
<1> QED  BY <1>1, <1>2

\* The executor that works on a node changes the node's entry and nothing else: what it
\* left behind stays settled, if the entry blocks no less.
LEMMA EntrySettled ==
  ASSUME TypeOK, NEW ns \in [Nodes -> NodeState], NEW n \in Nodes, NEW x \in NodeState,
         NEW m \in Nodes \ {n}, Settled(ns, m), Blocked(ns) \subseteq Blocked([ns EXCEPT ![n] = x])
  PROVE  Settled([ns EXCEPT ![n] = x], m)
  BY DEF Settled

\* A gate is dispatched only when its upstream is done.
LEMMA FanInHolds ==
  ASSUME IInv, OnlyOptionalWorkFails, NEW e \in Executors, exec[e].pc = "work"
  PROVE  FanIn(exec[e].ns, Node(e))
<1> DEFINE ns == exec[e].ns
           n == Node(e)
<1>1. exec[e].pc \in Running /\ exec[e].at <= Len(Order) /\ n \notin Blocked(ns)
      /\ \A k \in 1..(exec[e].at - 1) : Settled(ns, Order[k])
  BY DEF IInv, WalkIsSettled, Running
<1>2. exec[e].at \in 1..Len(Order) /\ n \in Nodes /\ ns \in [Nodes -> NodeState]
  BY <1>1, NodeType, CopyType DEF IInv
<1>3. ASSUME NEW p \in Preds(n)
      PROVE  ns[p].st = "succeeded" \/ (ns[p].st = "failed" /\ p \in Optional)
  <2>1. p \in Nodes /\ <<p, n>> \in Edges
    BY DEF Preds
  <2>2. n \in Below[p]
    BY <1>2, <2>1, BelowClosed DEF Succs
  <2>3. PICK k \in 1..Len(Order) : Order[k] = p
    BY <2>1, GraphAssumption
  <2>4. Settled(ns, p)
    <3>1. k < exec[e].at
      BY <1>2, <2>1, <2>3, GraphAssumption DEF Node
    <3> QED  BY <1>1, <1>2, <2>3, <3>1
  <2>5. p \notin Blocked(ns) /\ ns[p].st # "suspended"
    BY <1>1, <1>2, <2>1, <2>2, BlockedBelow
  <2> QED  BY <2>4, <2>5 DEF Settled
<1>4. CASE n \in AnyUpstream /\ Preds(n) # {}
  <2>1. PICK p \in Preds(n) : p \notin Optional
    BY <1>2, <1>4 DEF OnlyOptionalWorkFails
  <2> QED  BY <1>3, <1>4, <2>1 DEF FanIn
<1> QED  BY <1>3, <1>4 DEF FanIn

-----------------------------------------------------------------------------
(* The steps *)

\* The row and one executor's copy change, to sound copies.
LEMMA OthersSound ==
  ASSUME CopiesAreSound, NEW e \in Executors, exec \in [Executors -> Process],
         NEW x, exec' = [exec EXCEPT ![e] = x],
         req' = req, approved' = approved, CopyIsSound(nodeStates'),
         exec'[e].pc \in Running => CopyIsSound(exec'[e].ns)
  PROVE  CopiesAreSound'
<1>1. \A f \in Executors : exec'[f].pc \in Running => CopyIsSound(exec'[f].ns)
  <2> SUFFICES ASSUME NEW f \in Executors, exec'[f].pc \in Running
               PROVE  CopyIsSound(exec'[f].ns)
    OBVIOUS
  <2>1. CASE f # e
    <3>1. exec'[f] = exec[f]
      BY <2>1
    <3> QED  BY <3>1 DEF CopiesAreSound
  <2> QED  BY <2>1
<1> QED  BY <1>1 DEF CopiesAreSound, CopyIsSound

\* A walk that goes on over a sound copy, with everything behind it settled.
LEMMA WalkKeeps ==
  ASSUME IInv, NEW e \in Executors, NEW i \in 1..(Len(Order) + 2),
         NEW pc \in {"loaded", "walk", "held"}, NEW ns \in [Nodes -> NodeState],
         NEW s \in RunStatus, WalkFrom(e, i, pc, ns, s), CopyIsSound(ns),
         \A k \in 1..(i - 1) : k <= Len(Order) => Settled(ns, Order[k]),
         nodeStates' \in {nodeStates, ns}, req' = req, approved' = approved
  PROVE  CopiesAreSound' /\ WalkIsSettled'
<1>1. /\ exec'[e].pc = pc /\ exec'[e].ns = ns
      /\ \A k \in 1..(exec'[e].at - 1) : Settled(ns, Order[k])
      /\ exec'[e].at <= Len(Order) => Order[exec'[e].at] \notin Blocked(ns)
  BY WalkSettles DEF IInv
<1>2. PICK x : exec' = [exec EXCEPT ![e] = x]
  BY DEF WalkFrom
<1>3. CopyIsSound(nodeStates') /\ exec \in [Executors -> Process]
  BY DEF IInv, CopiesAreSound, TypeOK
<1>4. CopiesAreSound'
  BY <1>1, <1>2, <1>3, OthersSound DEF IInv
<1>5. WalkIsSettled'
  BY <1>1, <1>2, <1>3, OthersSettled DEF IInv
<1> QED  BY <1>4, <1>5

\* An executor ends.
LEMMA LeaveKeeps ==
  ASSUME IInv, NEW e \in Executors, Leave(e),
         nodeStates' = nodeStates, req' = req, approved' = approved
  PROVE  CopiesAreSound' /\ WalkIsSettled'
<1>1. exec' = [exec EXCEPT ![e] = Idle] /\ exec \in [Executors -> Process]
  BY DEF Leave, IInv, TypeOK
<1>2. exec'[e].pc \notin Running
  BY <1>1 DEF Idle, At, Running
<1>3. CopyIsSound(nodeStates')
  BY DEF IInv, CopiesAreSound
<1>4. CopiesAreSound'
  BY <1>1, <1>2, <1>3, OthersSound DEF IInv
<1>5. WalkIsSettled'
  BY <1>1, <1>2, OthersSettled DEF IInv
<1> QED  BY <1>4, <1>5

\* What the invariant says of an executor that holds a copy.
LEMMA OwnCopy ==
  ASSUME IInv, NEW e \in Executors, exec[e].pc \in Running
  PROVE  /\ exec[e].ns \in [Nodes -> NodeState] /\ exec[e].status \in RunStatus
         /\ exec[e].at \in 1..(Len(Order) + 1)
         /\ CopyIsSound(exec[e].ns)
         /\ \A k \in 1..(exec[e].at - 1) : Settled(exec[e].ns, Order[k])
         /\ exec[e].at <= Len(Order) =>
              /\ exec[e].at \in 1..Len(Order) /\ Node(e) = Order[exec[e].at] /\ Node(e) \in Nodes
              /\ Node(e) \notin Blocked(exec[e].ns)
         /\ exec[e].pc = "work" =>
              exec[e].at <= Len(Order) /\ exec[e].ns[Node(e)].st = "running"
<1>1. exec[e].ns \in [Nodes -> NodeState] /\ exec[e].status \in RunStatus
      /\ exec[e].at \in 1..(Len(Order) + 1)
  BY CopyType DEF IInv
<1>2. exec[e].at <= Len(Order) => exec[e].at \in 1..Len(Order) /\ Node(e) \in Nodes
  BY NodeType DEF IInv
<1> QED  BY <1>1, <1>2 DEF IInv, CopiesAreSound, WalkIsSettled, Node

\* The entry of the node at hand gets a settled status: the walk goes on.
LEMMA EntryKeeps ==
  ASSUME IInv, NEW e \in Executors, exec[e].pc \in Running, exec[e].at <= Len(Order),
         NEW x \in NodeState, NEW pc \in {"walk", "held"}, NEW s \in RunStatus,
         Continue(e, pc, [exec[e].ns EXCEPT ![Node(e)] = x], s),
         x.st \in {"succeeded", "suspended"}
           \/ (x.st = "failed" /\ Node(e) \in Optional \ Gates),
         Node(e) \in Gates /\ (x.st = "succeeded" \/ x.dec = "approved") => Node(e) \in approved,
         nodeStates' \in {nodeStates, [exec[e].ns EXCEPT ![Node(e)] = x]},
         req' = req, approved' = approved
  PROVE  CopiesAreSound' /\ WalkIsSettled'
<1> DEFINE old == exec[e].ns
           n == Node(e)
           ns == [old EXCEPT ![n] = x]
<1>1. /\ old \in [Nodes -> NodeState] /\ CopyIsSound(old) /\ n \in Nodes
      /\ exec[e].at \in 1..Len(Order) /\ n = Order[exec[e].at]
      /\ \A k \in 1..(exec[e].at - 1) : Settled(old, Order[k])
  BY OwnCopy
<1> HIDE DEF n, old
<1>2. ns \in [Nodes -> NodeState] /\ CopyIsSound(ns)
  BY <1>1 DEF CopyIsSound, n, old
<1>3. Settled(ns, n)
  BY <1>1 DEF Settled, n, old
<1>4. PICK at \in 1..Len(Order) : at = exec[e].at
  BY <1>1
<1>5. Len(Order) \in Nat /\ at \in Nat
  BY <1>4, GraphAssumption
<1>6. ASSUME NEW k \in 1..(at - 1) PROVE Settled(ns, Order[k])
  <2>1. k \in 1..Len(Order) /\ ~(at < k) /\ k # at
    BY <1>4, <1>5
  <2>2. Order[k] \in Nodes /\ Order[k] # n
    <3>1. Order[k] \in Nodes
      BY <2>1, GraphAssumption
    <3>2. Order[k] # Order[at]
      BY <1>4, <2>1, GraphAssumption
    <3> QED  BY <1>1, <1>4, <3>1, <3>2
  <2>3. Settled(old, Order[k])
    BY <1>1, <1>4
  <2>4. Order[k] \in Blocked(old) => Order[k] \in Blocked(ns)
    <3>1. Order[k] \notin Below[n]
      BY <1>1, <1>4, <2>1, BelowComesLater
    <3> QED  BY <1>1, <2>2, <3>1, BlockedLess
  <2>5. ns[Order[k]] = old[Order[k]]
    BY <1>1, <2>2
  <2> QED  BY <2>3, <2>4, <2>5 DEF Settled
<1>7. ASSUME NEW k \in 1..((at + 1) - 1), k <= Len(Order) PROVE Settled(ns, Order[k])
  <2>1. k \in 1..(at - 1) \/ k = at
    BY <1>5
  <2> QED  BY <1>1, <1>3, <1>4, <1>6, <2>1
<1>8. at + 1 \in 1..(Len(Order) + 2) /\ WalkFrom(e, at + 1, pc, ns, s)
  BY <1>4, <1>5 DEF Continue, n, old
<1>9. nodeStates' \in {nodeStates, ns} /\ pc \in {"loaded", "walk", "held"}
  BY DEF n, old
<1> HIDE DEF ns
<1> QED  BY <1>2, <1>7, <1>8, <1>9, WalkKeeps

\* The steps of an executor keep the invariant.
LEMMA ExecuteKeeps ==
  ASSUME IInv, OnlyOptionalWorkFails, NEW e \in Executors, Execute(e)
  PROVE  CopiesAreSound' /\ WalkIsSettled'
<1>1. CASE Load(e)
  <2> DEFINE pc == IF status = "queued" THEN "loaded" ELSE "walk"
  <2>1. /\ pc \in {"loaded", "walk", "held"} /\ 1 \in 1..(Len(Order) + 2)
        /\ nodeStates \in [Nodes -> NodeState] /\ status \in RunStatus
        /\ WalkFrom(e, 1, pc, nodeStates, status) /\ CopyIsSound(nodeStates)
        /\ nodeStates' \in {nodeStates} /\ req' = req /\ approved' = approved
    BY <1>1, GraphAssumption DEF Load, IInv, TypeOK, CopiesAreSound
  <2> HIDE DEF pc
  <2>2. \A k \in 1..(1 - 1) : k <= Len(Order) => Settled(nodeStates, Order[k])
    OBVIOUS
  <2> QED  BY <2>1, <2>2, WalkKeeps
<1>2. CASE Begin(e)
  <2>1. exec[e].pc \in Running
    BY <1>2 DEF Begin, Running
  <2> DEFINE x == [exec[e] EXCEPT !.pc = "held", !.status = "running"]
  <2>2. exec \in [Executors -> Process] /\ exec' = [exec EXCEPT ![e] = x]
    BY <1>2 DEF Begin, IInv, TypeOK
  <2>3. exec'[e].at = exec[e].at /\ exec'[e].ns = exec[e].ns /\ exec'[e].pc = "held"
    BY <2>1, <2>2, CopyType DEF IInv
  <2>4. CopyIsSound(nodeStates') /\ req' = req /\ approved' = approved
    BY <1>2 DEF Begin, IInv, CopiesAreSound
  <2> HIDE DEF x
  <2>5. CopiesAreSound'
    BY <2>1, <2>2, <2>3, <2>4, OwnCopy, OthersSound DEF IInv
  <2>6. WalkIsSettled'
    BY <2>1, <2>2, <2>3, OwnCopy, OthersSettled DEF IInv, Node
  <2> QED  BY <2>5, <2>6
<1>3. CASE PassGate(e)
  <2> DEFINE x == [exec[e].ns[Node(e)] EXCEPT !.st = "succeeded"]
             pc == exec[e].pc
             s == exec[e].status
  <2>1. /\ pc \in Running /\ exec[e].at <= Len(Order) /\ pc \in {"walk", "held"}
        /\ exec[e].ns[Node(e)].st = "suspended" /\ exec[e].ns[Node(e)].dec = "approved"
        /\ Continue(e, pc, [exec[e].ns EXCEPT ![Node(e)] = x], s)
        /\ nodeStates' \in {nodeStates} /\ req' = req /\ approved' = approved
    BY <1>3 DEF PassGate, AtGate, Walking, Running
  <2>2. s \in RunStatus /\ exec[e].ns[Node(e)] \in NodeState /\ Node(e) \in Nodes
        /\ CopyIsSound(exec[e].ns)
    BY <2>1, OwnCopy
  <2>3. x \in NodeState /\ x.st = "succeeded"
    BY <2>2 DEF NodeState, NodeStatus
  <2>4. Node(e) \in Gates => Node(e) \in approved
    BY <2>1, <2>2 DEF CopyIsSound
  <2> HIDE DEF x, pc, s
  <2>5. exec[e].pc \in Running
    BY <2>1 DEF pc
  <2> QED  BY <2>1, <2>2, <2>3, <2>4, <2>5, EntryKeeps
<1>4. CASE StopRejected(e)
  BY <1>4, LeaveKeeps DEF StopRejected
<1>5. CASE StopUndecided(e)
  BY <1>5, LeaveKeeps DEF StopUndecided
<1>6. CASE Dispatch(e)
  <2> DEFINE n == Node(e)
             old == exec[e].ns
             ns == [old EXCEPT ![n] = Entry("running")]
             x == [exec[e] EXCEPT !.pc = "work", !.ns = ns,
                                  !.sawRow = n \in Gates /\ approvals[n] # << >>]
  <2>1. /\ exec[e].pc \in Running /\ exec[e].at <= Len(Order)
        /\ old[n].st # "suspended" /\ nodeStates' = ns
        /\ req' = req /\ approved' = approved
        /\ exec' = [exec EXCEPT ![e] = x] /\ exec \in [Executors -> Process]
    BY <1>6 DEF Dispatch, Walking, Running, IInv, TypeOK
  <2>2. /\ old \in [Nodes -> NodeState] /\ n \in Nodes /\ CopyIsSound(old)
        /\ exec[e].at \in 1..Len(Order) /\ n = Order[exec[e].at] /\ n \notin Blocked(old)
        /\ \A k \in 1..(exec[e].at - 1) : Settled(old, Order[k])
    BY <2>1, OwnCopy
  <2>3. exec'[e].at = exec[e].at /\ exec'[e].ns = ns /\ exec'[e].pc = "work"
    BY <2>1, CopyType DEF IInv
  <2> HIDE DEF x, n, old
  <2>4. ns[n].st = "running" /\ CopyIsSound(ns)
    BY <2>2 DEF CopyIsSound, Entry
  <2>5. Blocked(ns) = Blocked(old)
    BY <2>1, <2>2, BlockedSame, EntryType DEF Entry, NodeStatus
  <2>6. ASSUME NEW k \in 1..(exec[e].at - 1) PROVE Settled(ns, Order[k])
    <3>1. PICK at \in 1..Len(Order) : at = exec[e].at
      BY <2>2
    <3> HIDE DEF ns
    <3>2. Len(Order) \in Nat
      BY GraphAssumption
    <3>3. k \in 1..Len(Order) /\ k # at
      BY <3>1, <3>2
    <3>4. Order[k] # Order[at] /\ Order[k] \in Nodes
      <4>1. Order[k] # Order[at]
        BY <3>1, <3>3, GraphAssumption
      <4>2. Order[k] \in Nodes
        BY <3>3, GraphAssumption
      <4> QED  BY <4>1, <4>2
    <3> USE DEF ns
    <3>5. ns[Order[k]] = old[Order[k]] /\ Settled(old, Order[k])
      BY <2>2, <3>1, <3>4
    <3> QED  BY <2>5, <3>5 DEF Settled
  <2>7. Order[exec'[e].at] = n
    BY <2>2, <2>3
  <2> HIDE DEF ns
  <2>8. CopiesAreSound'
    BY <2>1, <2>3, <2>4, OthersSound DEF IInv
  <2>9. WalkIsSettled'
    BY <2>1, <2>2, <2>3, <2>4, <2>5, <2>6, <2>7, OthersSettled DEF IInv
  <2> QED  BY <2>8, <2>9
<1>7. CASE NodeDone(e)
  <2>1. exec[e].pc \in Running /\ exec[e].pc = "work"
    BY <1>7 DEF NodeDone, Running
  <2>2. PICK s \in Outcomes[Node(e)] \cap {"succeeded", "failed"} :
          /\ s = "failed" => Node(e) \in Optional
          /\ nodeStates' = Ended(e, s)
          /\ Continue(e, "held", Ended(e, s), exec[e].status)
    BY <1>7 DEF NodeDone
  <2>3. exec[e].at <= Len(Order) /\ Node(e) \in Nodes /\ exec[e].status \in RunStatus
    BY <2>1, OwnCopy
  <2>4. Node(e) \notin Gates
    BY <2>2, <2>3 DEF OnlyOptionalWorkFails
  <2>5. Entry(s) \in NodeState /\ Entry(s).st = s
    BY <2>2, EntryType DEF NodeStatus, Entry
  <2>6. /\ Continue(e, "held", [exec[e].ns EXCEPT ![Node(e)] = Entry(s)], exec[e].status)
        /\ nodeStates' \in {[exec[e].ns EXCEPT ![Node(e)] = Entry(s)]}
        /\ req' = req /\ approved' = approved
    BY <1>7, <2>2 DEF NodeDone, Ended
  <2> QED  BY <2>1, <2>2, <2>3, <2>4, <2>5, <2>6, EntryKeeps
<1>8. CASE NodeEndsRun(e)
  <2>1. exec[e].pc \in Running /\ exec[e].pc = "work"
    BY <1>8 DEF NodeEndsRun, Running
  <2>2. Node(e) \in Nodes
    BY <2>1, OwnCopy
  <2>3. PICK s \in Outcomes[Node(e)] \cap {"failed", "partial_complete"} :
          s = "failed" => Node(e) \notin Optional
    BY <1>8 DEF NodeEndsRun
  <2> QED  BY <2>2, <2>3 DEF OnlyOptionalWorkFails
<1>9. CASE NoSignals(e)
  <2>1. exec[e].pc \in Running /\ exec[e].pc = "work" /\ "no_signals" \in Outcomes[Node(e)]
    BY <1>9 DEF NoSignals, Running
  <2>2. Node(e) \in Nodes
    BY <2>1, OwnCopy
  <2> QED  BY <2>1, <2>2 DEF OnlyOptionalWorkFails
<1>10. CASE GateSuspends(e)
  <2>1. exec[e].pc \in Running /\ exec[e].pc = "work"
    BY <1>10 DEF GateSuspends, Running
  <2>2. exec[e].at <= Len(Order)
    BY <2>1, OwnCopy
  <2>3. Entry("suspended") \in NodeState /\ Entry("suspended").st = "suspended"
        /\ Entry("suspended").dec = "none" /\ "awaiting_approval" \in RunStatus
    BY EntryType DEF NodeStatus, Entry, RunStatus
  <2>4. /\ Continue(e, "held", [exec[e].ns EXCEPT ![Node(e)] = Entry("suspended")],
                    "awaiting_approval")
        /\ nodeStates' \in {[exec[e].ns EXCEPT ![Node(e)] = Entry("suspended")]}
        /\ req' = req /\ approved' = approved
    BY <1>10 DEF GateSuspends, Ended
  <2> QED  BY <2>1, <2>2, <2>3, <2>4, EntryKeeps
<1>11. CASE GateWaits(e)
  BY <1>11, FanInHolds DEF GateWaits
<1>12. CASE Finish(e)
  BY <1>12, LeaveKeeps DEF Finish
<1> QED  BY <1>1, <1>2, <1>3, <1>4, <1>5, <1>6, <1>7, <1>8, <1>9, <1>10, <1>11, <1>12 DEF Execute

\* A request changes no executor's copy, and writes only what somebody decided.
LEMMA ServeKeeps ==
  ASSUME IInv, NEW h \in Handlers, Serve(h)
  PROVE  CopiesAreSound' /\ WalkIsSettled'
<1> USE DEF CopiesAreSound, CopyIsSound
<1>1. CASE ReadApproval(h)
  <2>1. \A i \in Handlers : req'[i].pc = "deciding" => req'[i] = req[i]
    BY <1>1 DEF ReadApproval, IInv, TypeOK
  <2> QED  BY <1>1, <2>1 DEF ReadApproval, IInv, WalkIsSettled, Node
<1>2. CASE ReadRun(h)
  <2>1. /\ exec' = exec /\ nodeStates' = nodeStates /\ approved' = approved
        /\ \A i \in Handlers : i # h => req'[i] = req[i]
        /\ req'[h].ns = nodeStates
    BY <1>2 DEF ReadRun, IInv, TypeOK
  <2>2. \A i \in Handlers : (req[i].pc = "deciding" => CopyIsSound(req[i].ns))'
    BY <2>1 DEF IInv
  <2> QED  BY <2>1, <2>2 DEF IInv, WalkIsSettled, Node
<1>3. CASE Refuse(h)
  BY <1>3, SMTT(30) DEF Refuse, IInv, TypeOK, Idle, At, WalkIsSettled, Node
<1>4. CASE WriteDecision(h)
  <2> DEFINE r == req[h]
  <2>1. /\ r.gate \in Gates /\ r.dec \in {"approved", "rejected"}
        /\ r.ns \in [Nodes -> NodeState] /\ CopyIsSound(r.ns)
    BY <1>4 DEF WriteDecision, IInv, TypeOK, Request
  <2>2. /\ exec' = exec /\ nodeStates' = [r.ns EXCEPT ![r.gate].dec = r.dec]
        /\ approved' = IF r.dec = "approved" THEN approved \cup {r.gate} ELSE approved
        /\ req' = [req EXCEPT ![h] = At("dispatch")]
    BY <1>4 DEF WriteDecision
  <2>3. CopyIsSound(nodeStates)'
    <3>1. \A n \in Nodes : /\ nodeStates'[n].st = r.ns[n].st
                           /\ n # r.gate => nodeStates'[n].dec = r.ns[n].dec
      BY <2>1, <2>2 DEF NodeState
    <3>2. r.gate \in Nodes => nodeStates'[r.gate].dec = r.dec
      BY <2>1, <2>2 DEF NodeState
    <3> QED  BY <2>1, <2>2, <3>1, <3>2
  <2>4. \A e \in Executors : (exec[e].pc \in Running => CopyIsSound(exec[e].ns))'
    BY <2>2 DEF IInv
  <2>5. \A i \in Handlers : (req[i].pc = "deciding" => CopyIsSound(req[i].ns))'
    BY <2>2 DEF IInv, TypeOK, At
  <2> QED  BY <2>2, <2>3, <2>4, <2>5 DEF IInv, WalkIsSettled, Node
<1>5. CASE Spawn(h)
  <2>1. PICK e \in Executors : exec' = [exec EXCEPT ![e] = At("spawned")]
    BY <1>5 DEF Spawn
  <2>2. exec \in [Executors -> Process] /\ exec'[e].pc \notin Running
    BY <2>1 DEF IInv, TypeOK, At, Running
  <2>3. WalkIsSettled'
    BY <2>1, <2>2, OthersSettled DEF IInv
  <2>4. \A f \in Executors : exec'[f].pc \in Running => exec'[f] = exec[f]
    BY <2>1, <2>2
  <2> QED  BY <1>5, <2>3, <2>4 DEF Spawn, IInv, TypeOK, Idle, At
<1>6. CASE SpawnFails(h)
  BY <1>6 DEF SpawnFails, IInv, TypeOK, Idle, At, WalkIsSettled, Node
<1>7. CASE ReadCancel(h)
  BY <1>7 DEF ReadCancel, IInv, TypeOK, At, WalkIsSettled, Node
<1>8. CASE WriteCancel(h)
  BY <1>8 DEF WriteCancel, IInv, TypeOK, Idle, At, WalkIsSettled, Node
<1> QED  BY <1>1, <1>2, <1>3, <1>4, <1>5, <1>6, <1>7, <1>8 DEF Serve

-----------------------------------------------------------------------------
(* The theorems *)

\* The first state has the invariant.
LEMMA IInvInit == Init => IInv
<1> SUFFICES ASSUME Init PROVE IInv
  OBVIOUS
<1>1. TypeOK
  BY TypeInit
<1>2. CopiesAreSound
  BY DEF Init, CopiesAreSound, CopyIsSound, Entry, Idle, At, Running
<1>3. WalkIsSettled
  BY DEF Init, WalkIsSettled, Idle, At, Running
<1> QED  BY <1>1, <1>2, <1>3 DEF IInv

\* Every step keeps the invariant.
LEMMA IInvNext ==
  ASSUME OnlyOptionalWorkFails, IInv, [Next]_vars
  PROVE  IInv'
<1>0. TypeOK'
  BY TypeNext DEF IInv
<1>1. CASE \E e \in Executors : Execute(e)
  BY <1>0, <1>1, ExecuteKeeps DEF IInv
<1>2. CASE \E h \in Handlers : Serve(h)
  BY <1>0, <1>2, ServeKeeps DEF IInv
<1>3. ASSUME NEW e \in Executors, Kill(e) \/ Raise(e) PROVE IInv'
  <2>1. Leave(e) /\ nodeStates' = nodeStates /\ req' = req /\ approved' = approved
    BY <1>3 DEF Kill, Raise
  <2> QED  BY <1>0, <2>1, LeaveKeeps DEF IInv
<1>4. CASE Restart
  <2>1. \A f \in Executors : exec'[f].pc \in Running => exec'[f] = exec[f]
    BY <1>4 DEF Restart, Idle, At, Running
  <2>2. \A h \in Handlers : req'[h].pc # "deciding"
    BY <1>4 DEF Restart, Idle, At
  <2>3. nodeStates' = nodeStates /\ approved' = approved
    BY <1>4 DEF Restart
  <2>4. CopiesAreSound'
    BY <2>1, <2>2, <2>3 DEF IInv, CopiesAreSound, CopyIsSound
  <2>5. WalkIsSettled'
    BY <2>1 DEF IInv, WalkIsSettled, Node
  <2> QED  BY <1>0, <2>4, <2>5 DEF IInv
<1>5. CASE Sweep
  BY <1>0, <1>5 DEF Sweep, IInv, CopiesAreSound, CopyIsSound, WalkIsSettled, Node
<1>6. CASE Recover
  <2>1. PICK x \in Executors : exec' = exec \/ exec' = [exec EXCEPT ![x] = At("spawned")]
    BY <1>6, RunAssumption DEF Recover
  <2>2. \A f \in Executors : exec'[f].pc \in Running => exec'[f] = exec[f]
    BY <2>1 DEF IInv, TypeOK, At, Running
  <2>3. nodeStates' = nodeStates /\ approved' = approved /\ req' = req
    BY <1>6 DEF Recover
  <2>4. CopiesAreSound'
    BY <2>2, <2>3 DEF IInv, CopiesAreSound, CopyIsSound
  <2>5. WalkIsSettled'
    BY <2>2 DEF IInv, WalkIsSettled, Node
  <2> QED  BY <1>0, <2>4, <2>5 DEF IInv
<1>7. CASE UNCHANGED vars
  BY <1>0, <1>7 DEF vars, IInv, CopiesAreSound, CopyIsSound, WalkIsSettled, Node
<1> QED  BY <1>1, <1>2, <1>3, <1>4, <1>5, <1>6, <1>7 DEF Next

\* A gate above a node that is at work is behind the walk and settled: it was approved.
LEMMA IInvImplies == IInv => WorkIsApproved
<1> SUFFICES ASSUME IInv, NEW e \in Executors, exec[e].pc = "work",
                    NEW g \in Gates, Node(e) \in Below[g]
             PROVE  g \in approved
  BY DEF WorkIsApproved
<1> DEFINE ns == exec[e].ns
<1>1. /\ ns \in [Nodes -> NodeState] /\ CopyIsSound(ns) /\ exec[e].at \in 1..Len(Order)
      /\ Node(e) = Order[exec[e].at] /\ Node(e) \notin Blocked(ns)
      /\ \A k \in 1..(exec[e].at - 1) : Settled(ns, Order[k])
  BY OwnCopy DEF Running
<1>2. g \in Nodes
  BY RunAssumption
<1>3. PICK k \in 1..Len(Order) : Order[k] = g
  BY <1>2, GraphAssumption
<1>4. Settled(ns, g)
  <2>1. k < exec[e].at
    BY <1>1, <1>3, BelowComesLater
  <2> QED  BY <1>1, <1>3, <2>1
<1>5. g \notin Blocked(ns) /\ ns[g].st # "suspended"
  BY <1>1, <1>2, BlockedBelow
<1>6. ns[g].st = "succeeded"
  BY <1>4, <1>5 DEF Settled
<1> QED  BY <1>1, <1>2, <1>6 DEF CopyIsSound

\* In the row and in every copy, a gate is approved or succeeded only if a person approved
\* it, and what an executor has walked past is settled in its copy.
THEOREM CopiesCorrect ==
  ASSUME OnlyOptionalWorkFails
  PROVE  Spec => [](CopiesAreSound /\ WalkIsSettled)
<1>1. IInv /\ [Next]_vars => IInv'
  BY IInvNext
<1>2. IInv => CopiesAreSound /\ WalkIsSettled
  BY DEF IInv
<1> QED  BY IInvInit, <1>1, <1>2, PTL DEF Spec

\* No executor dispatches a node below a gate that nobody approved: whatever the pipeline,
\* the executors that run at once, the requests and the faults, if only optional work fails.
THEOREM WorkNeedsApproval ==
  ASSUME OnlyOptionalWorkFails
  PROVE  Spec => []WorkIsApproved
<1>1. IInv /\ [Next]_vars => IInv'
  BY IInvNext
<1> QED  BY IInvInit, <1>1, IInvImplies, PTL DEF Spec

-----------------------------------------------------------------------------
(***************************************************************************)
(* What PipelineRun promises when one request is served at a time, each of *)
(* which decides an approval row it names, and the web process does not    *)
(* restart: the deployment that run_sequential checks on one pipeline,     *)
(* here for every pipeline that waits at one gate at a time, however many  *)
(* executors and requests there are, and with every other fault.           *)
(*                                                                         *)
(* The argument: whoever may move the run next is one, an executor, a      *)
(* request or the pending row that somebody may decide, and hands the turn *)
(* on with each commit.  So no copy is ever older than the row.            *)
(***************************************************************************)

\* One request at a time, by the generic route, and no restart of the web process.
OneAtATime ==
  /\ \A h, i \in Handlers : h = i
  /\ Channels \subseteq {"api"}
  /\ Faults \subseteq {"kill", "raise", "spawn"}

\* All that the sort lists after node n is below it.
Commands(n) == \A i, j \in 1..Len(Order) : Order[i] = n /\ i < j => Order[j] \in Below[n]

\* Nothing is left to do beside a gate that waits.
GatesCommand == \A g \in Gates : Commands(g)

(***************************************************************************)
(* Nor beside a node whose result ends the run early; a gate that fails    *)
(* ends the run; and a gate that one upstream would do for has one that    *)
(* must succeed.  The seeded marketing pipeline is of this kind.           *)
(***************************************************************************)
Straight ==
  /\ GatesCommand
  /\ \A n \in Nodes : "no_signals" \in Outcomes[n] => Commands(n)
  /\ \A g \in Gates : g \in Optional => "failed" \notin Outcomes[g]
  /\ \A g \in AnyUpstream : Preds(g) = {} \/ ~(Preds(g) \subseteq Optional)

-----------------------------------------------------------------------------
(* Whose turn it is *)

NothingPending == \A g \in Gates : Pending(g) = {}

\* An executor that is alive is the only one, no request is in progress, and no row can be
\* decided until it is done but for committing that it has asked.
ExecutorTurn ==
  /\ SingleExecutor
  /\ \A e \in Alive : NothingPending \/ (exec[e].pc = "held" /\ exec[e].at > Len(Order))
  /\ \A e \in Executors : exec[e].pc = "work" => exec[e].at <= Len(Order)

\* A request in progress is the only one to move the run, and decides a pending row.
RequestTurn ==
  \A h \in Handlers :
    /\ req[h].pc \in {"idle", "chosen", "deciding", "dispatch"}
    /\ req[h].pc # "idle" => Alive = {}
    /\ req[h].pc = "dispatch" => NothingPending
    /\ req[h].pc \in {"chosen", "deciding"} => req[h].row \in Pending(req[h].gate)

OnePending ==
  \A f, g \in Gates : \A i \in Pending(f), j \in Pending(g) : f = g /\ i = j

TurnInv == ExecutorTurn /\ RequestTurn /\ OnePending /\ web = "up"

\* While an executor is alive the others are not, and no request is in progress.
LEMMA OthersIdle ==
  ASSUME TypeOK, TurnInv, NEW e \in Alive
  PROVE  /\ e \in Executors
         /\ \A f \in Executors : f # e => exec[f].pc = "idle"
         /\ \A h \in Handlers : req[h].pc = "idle"
  BY DEF TurnInv, ExecutorTurn, RequestTurn, SingleExecutor, Alive

\* An executor that is at work on the graph, or about to, finds nothing pending.
LEMMA NothingAsked ==
  ASSUME TypeOK, TurnInv, NEW e \in Executors, exec[e].pc # "idle",
         exec[e].pc # "held" \/ exec[e].at <= Len(Order)
  PROVE  NothingPending /\ e \in Alive
<1>1. e \in Alive
  BY DEF Alive
<1>2. CASE exec[e].pc # "held"
  BY <1>1, <1>2 DEF TurnInv, ExecutorTurn
<1>3. CASE exec[e].pc = "held" /\ exec[e].at <= Len(Order)
  <2>1. exec[e].at \in Nat /\ Len(Order) \in Nat
    BY <1>3, CopyType, GraphAssumption DEF Running
  <2> QED  BY <1>1, <1>3, <2>1 DEF TurnInv, ExecutorTurn
<1> QED  BY <1>1, <1>2, <1>3

\* A step of an executor that decides and asks nothing keeps the turn.
LEMMA ExecutorKeepsTurn ==
  ASSUME TypeOK, TurnInv, NEW e \in Alive, NEW x, exec' = [exec EXCEPT ![e] = x],
         req' = req, web' = web, approvals' = approvals,
         x.pc = "idle" \/ NothingPending,
         x.pc = "work" => x.at <= Len(Order)
  PROVE  TurnInv'
<1>1. e \in Executors /\ exec'[e] = x /\ \A f \in Executors : f # e => exec'[f] = exec[f]
  BY DEF Alive, TypeOK
<1>2. Alive' \subseteq {e} /\ \A h \in Handlers : req[h].pc = "idle"
  BY <1>1, OthersIdle DEF Alive
<1>3. \A g \in Gates : Pending(g)' = Pending(g)
  BY DEF Pending
<1>4. ExecutorTurn'
  <2>1. SingleExecutor'
    BY <1>2 DEF SingleExecutor
  <2>2. \A f \in Alive' : NothingPending'
    <3>1. x.pc = "idle" => Alive' = {}
      BY <1>1, <1>2 DEF Alive
    <3> QED  BY <1>3, <3>1 DEF NothingPending
  <2>3. \A f \in Executors : exec'[f].pc = "work" => exec'[f].at <= Len(Order)
    BY <1>1 DEF TurnInv, ExecutorTurn
  <2> QED  BY <2>1, <2>2, <2>3 DEF ExecutorTurn
<1>5. RequestTurn'
  BY <1>2 DEF RequestTurn
<1>6. OnePending'
  BY <1>3 DEF TurnInv, OnePending
<1> QED  BY <1>4, <1>5, <1>6 DEF TurnInv

\* Where nothing is pending, one more row makes one pending row.
LEMMA PendingAppended ==
  ASSUME TypeOK, NothingPending, NEW n \in Gates,
         approvals' = [approvals EXCEPT ![n] = Append(approvals[n], "pending")]
  PROVE  /\ Pending(n)' = {Len(approvals[n]) + 1}
         /\ \A g \in Gates : g # n => Pending(g)' = {}
<1> DEFINE rows == approvals[n]
<1>1. approvals'[n] = Append(rows, "pending") /\ \A g \in Gates : g # n => approvals'[g] = approvals[g]
  BY DEF TypeOK
<1>2. rows \in Seq({"pending", "approved", "rejected"}) /\ Len(rows) \in Nat
  BY DEF TypeOK
<1>3. /\ DOMAIN Append(rows, "pending") = 1..(Len(rows) + 1)
      /\ Append(rows, "pending")[Len(rows) + 1] = "pending"
      /\ \A i \in 1..Len(rows) : Append(rows, "pending")[i] = rows[i]
  BY <1>2
<1>4. \A i \in 1..Len(rows) : rows[i] # "pending"
  BY <1>2 DEF NothingPending, Pending
<1>5. \A i \in 1..(Len(rows) + 1) : i \in 1..Len(rows) \/ i = Len(rows) + 1
  BY <1>2
<1>6. Pending(n)' = {i \in 1..(Len(rows) + 1) : Append(rows, "pending")[i] = "pending"}
  BY <1>1, <1>3 DEF Pending
<1>7. Len(rows) + 1 \in 1..(Len(rows) + 1)
  BY <1>2
<1>8. Pending(n)' = {Len(rows) + 1}
  BY <1>3, <1>4, <1>5, <1>6, <1>7
<1> QED  BY <1>1, <1>8 DEF NothingPending, Pending

\* The walk of an executor that has asked stops after the last node.
LEMMA AskedIsLast ==
  ASSUME TypeOK, GatesCommand, NEW e \in Executors, exec[e].pc = "work",
         exec[e].at <= Len(Order), NEW s, Node(e) \in Gates,
         Continue(e, "held", Ended(e, "suspended"), s)
  PROVE  exec'[e] = [pc |-> "held", at |-> Len(Order) + 1, ns |-> Ended(e, "suspended"),
                     status |-> s, sawRow |-> FALSE]
<1> DEFINE ns == Ended(e, "suspended")
<1>1. exec[e].at \in 1..Len(Order) /\ Node(e) \in Nodes /\ exec[e].ns \in [Nodes -> NodeState]
  BY NodeType, CopyType DEF Running
<1>2. Node(e) \in Suspended(ns)
  BY <1>1 DEF Suspended, Ended, Entry
<1>3. Below[Node(e)] \subseteq Blocked(ns)
  BY <1>2 DEF Blocked
<1> HIDE DEF ns
<1>4. PICK j \in (exec[e].at + 1)..(Len(Order) + 1) :
        /\ IsStop(ns, exec[e].at + 1, j)
        /\ exec' = [exec EXCEPT ![e] = [pc |-> "held", at |-> j, ns |-> ns, status |-> s,
                                        sawRow |-> FALSE]]
  BY DEF Continue, WalkFrom, ns
<1>5. Len(Order) \in Nat /\ exec[e].at \in Nat
  BY <1>1, GraphAssumption
<1>6. ~(j <= Len(Order))
  <2> SUFFICES ASSUME j <= Len(Order) PROVE FALSE
    OBVIOUS
  <2>1. j \in 1..Len(Order) /\ exec[e].at < j
    BY <1>4, <1>5
  <2>2. Order[j] \in Below[Node(e)]
    BY <1>1, <2>1 DEF GatesCommand, Commands, Node
  <2> QED  BY <1>3, <1>4, <2>2 DEF IsStop, PassedOver
<1>7. j = Len(Order) + 1
  BY <1>4, <1>5, <1>6
<1> QED  BY <1>4, <1>7 DEF TypeOK, ns

\* The steps of an executor keep the turn.
LEMMA TurnExecute ==
  ASSUME TypeOK, TurnInv, GatesCommand, NEW e \in Executors, Execute(e)
  PROVE  TurnInv'
<1>1. CASE Load(e) \/ PassGate(e) \/ NodeDone(e) \/ GateWaits(e)
  <2>1. \E i, pc, ns, s : pc \in {"loaded", "walk", "held"} /\ WalkFrom(e, i, pc, ns, s)
    <3>1. CASE Load(e)
      BY <3>1 DEF Load
    <3>2. CASE PassGate(e)
      BY <3>2 DEF PassGate, AtGate, Walking, Continue
    <3>3. CASE NodeDone(e)
      BY <3>3 DEF NodeDone, Continue
    <3>4. CASE GateWaits(e)
      BY <3>4 DEF GateWaits, Continue
    <3> QED  BY <1>1, <3>1, <3>2, <3>3, <3>4
  <2>2. PICK x : exec' = [exec EXCEPT ![e] = x] /\ x.pc \in {"loaded", "walk", "held"}
    <3>1. PICK i, pc, ns, s : pc \in {"loaded", "walk", "held"} /\ WalkFrom(e, i, pc, ns, s)
      BY <2>1
    <3>2. PICK j : exec' = [exec EXCEPT ![e] = [pc |-> pc, at |-> j, ns |-> ns, status |-> s,
                                                sawRow |-> FALSE]]
      BY <3>1 DEF WalkFrom
    <3> DEFINE y == [pc |-> pc, at |-> j, ns |-> ns, status |-> s, sawRow |-> FALSE]
    <3>3. exec' = [exec EXCEPT ![e] = y] /\ y.pc = pc
      BY <3>2
    <3> HIDE DEF y
    <3> QED  BY <3>1, <3>3
  <2>3. /\ exec[e].pc # "idle" /\ (exec[e].pc # "held" \/ exec[e].at <= Len(Order))
        /\ req' = req /\ web' = web /\ approvals' = approvals
    BY <1>1 DEF Load, PassGate, AtGate, Walking, NodeDone, GateWaits
  <2> QED  BY <2>1, <2>2, <2>3, NothingAsked, ExecutorKeepsTurn
<1>2. CASE Begin(e)
  <2>1. NothingPending /\ e \in Alive
    BY <1>2, NothingAsked DEF Begin
  <2>2. PICK x : exec' = [exec EXCEPT ![e] = x] /\ x = [exec[e] EXCEPT !.pc = "held", !.status = "running"]
    BY <1>2 DEF Begin, TypeOK
  <2>3. x.pc = "held"
    BY <1>2, <2>2, CopyType DEF Begin, Running
  <2> QED  BY <1>2, <2>1, <2>2, <2>3, ExecutorKeepsTurn DEF Begin
<1>3. CASE StopRejected(e) \/ StopUndecided(e) \/ NodeEndsRun(e) \/ NoSignals(e) \/ Finish(e)
  <2>1. e \in Alive /\ exec' = [exec EXCEPT ![e] = Idle]
        /\ req' = req /\ web' = web /\ approvals' = approvals
    BY <1>3 DEF StopRejected, StopUndecided, NodeEndsRun, NoSignals, Finish, AtGate, Walking,
                Leave, Alive
  <2>2. Idle.pc = "idle"
    BY DEF Idle, At
  <2> QED  BY <2>1, <2>2, ExecutorKeepsTurn
<1>4. CASE Dispatch(e)
  <2>1. /\ exec[e].pc \in {"walk", "held"} /\ exec[e].at <= Len(Order)
        /\ req' = req /\ web' = web /\ approvals' = approvals
    BY <1>4 DEF Dispatch, Walking
  <2>2. PICK ns, b : exec' = [exec EXCEPT ![e] = [exec[e] EXCEPT !.pc = "work", !.ns = ns, !.sawRow = b]]
    BY <1>4 DEF Dispatch, TypeOK
  <2>3. NothingPending /\ e \in Alive
    BY <2>1, NothingAsked
  <2>4. [exec[e] EXCEPT !.pc = "work", !.ns = ns, !.sawRow = b].at <= Len(Order)
    BY <2>1, CopyType DEF Running
  <2> QED  BY <2>1, <2>2, <2>3, <2>4, ExecutorKeepsTurn
<1>5. CASE GateSuspends(e)
  <2>1. exec[e].pc = "work" /\ exec[e].at <= Len(Order) /\ NothingPending /\ e \in Alive
    BY <1>5, NothingAsked DEF GateSuspends, TurnInv, ExecutorTurn
  <2>2. Node(e) \in Gates
    <3>1. Node(e) \in Nodes
      BY <2>1, NodeType DEF Running
    <3> QED  BY <1>5, <3>1, RunAssumption DEF GateSuspends
  <2>3. PICK x : exec' = [exec EXCEPT ![e] = x] /\ x.pc = "held"
    <3>1. PICK j : exec' = [exec EXCEPT ![e] =
                     [pc |-> "held", at |-> j, ns |-> Ended(e, "suspended"),
                      status |-> "awaiting_approval", sawRow |-> FALSE]]
      BY <1>5 DEF GateSuspends, Continue, WalkFrom
    <3> DEFINE y == [pc |-> "held", at |-> j, ns |-> Ended(e, "suspended"),
                     status |-> "awaiting_approval", sawRow |-> FALSE]
    <3>2. exec' = [exec EXCEPT ![e] = y] /\ y.pc = "held"
      BY <3>1
    <3> HIDE DEF y
    <3> QED  BY <3>2
  <2>4. exec'[e].pc = "held" /\ exec'[e].at > Len(Order)
    <3>1. exec'[e] = [pc |-> "held", at |-> Len(Order) + 1, ns |-> Ended(e, "suspended"),
                      status |-> "awaiting_approval", sawRow |-> FALSE]
      BY <1>5, <2>1, <2>2, AskedIsLast DEF GateSuspends
    <3>2. Len(Order) + 1 > Len(Order)
      BY GraphAssumption
    <3> QED  BY <3>1, <3>2
  <2>5. req' = req /\ web' = web
    BY <1>5 DEF GateSuspends
  <2>6. CASE approvals' = approvals
    BY <2>1, <2>3, <2>5, <2>6, ExecutorKeepsTurn
  <2>7. CASE approvals' = [approvals EXCEPT ![Node(e)] = Append(approvals[Node(e)], "pending")]
    <3>0. PICK n \in Gates : n = Node(e)
      BY <2>2
    <3>1. /\ Pending(n)' = {Len(approvals[n]) + 1}
          /\ \A g \in Gates : g # n => Pending(g)' = {}
      BY <2>1, <2>7, <3>0, PendingAppended
    <3>2. OnePending'
      BY <3>1 DEF OnePending
    <3>3. /\ \A f \in Executors : f # e => exec'[f].pc = "idle"
          /\ \A h \in Handlers : req[h].pc = "idle"
      BY <2>1, <2>3, OthersIdle DEF TypeOK
    <3>4. ExecutorTurn' /\ RequestTurn'
      BY <2>4, <2>5, <3>3 DEF ExecutorTurn, RequestTurn, SingleExecutor, Alive
    <3> QED  BY <2>5, <3>2, <3>4 DEF TurnInv
  <2> QED  BY <1>5, <2>6, <2>7 DEF GateSuspends
<1> QED  BY <1>1, <1>2, <1>3, <1>4, <1>5 DEF Execute

\* The decision of the one pending row leaves none.
LEMMA PendingDecided ==
  ASSUME TypeOK, OnePending, NEW g \in Gates, NEW i \in Pending(g),
         NEW d \in {"approved", "rejected"},
         approvals' = [approvals EXCEPT ![g][i] = d]
  PROVE  NothingPending'
<1>1. approvals[g] \in Seq({"pending", "approved", "rejected"})
  BY DEF TypeOK
<1>2. /\ approvals'[g] = [approvals[g] EXCEPT ![i] = d]
      /\ \A f \in Gates : f # g => approvals'[f] = approvals[f]
  BY DEF TypeOK
<1>3. \A j \in DOMAIN approvals'[g] : approvals'[g][j] # "pending"
  BY <1>1, <1>2 DEF OnePending, Pending
<1>4. \A f \in Gates : f # g => Pending(f) = {}
  BY DEF OnePending
<1>5. \A f \in Gates : f # g => Pending(f)' = {}
  BY <1>2, <1>4 DEF Pending
<1> QED  BY <1>3, <1>5 DEF NothingPending, Pending

\* The steps of a request keep the turn.
LEMMA TurnServe ==
  ASSUME TypeOK, TurnInv, OneAtATime, NEW h \in Handlers, Serve(h)
  PROVE  TurnInv'
<1>0. \A i \in Handlers : i = h
  BY DEF OneAtATime
<1>1. CASE ReadApproval(h)
  <2>0. PICK g \in Gates, d \in {"approved", "rejected"} : \E i \in Pending(g) :
          req' = [req EXCEPT ![h] = [pc |-> "chosen", gate |-> g, dec |-> d, row |-> i]]
    <3>1. PICK c \in Channels, g \in Gates, d \in {"approved", "rejected"} :
            /\ Accepts(c, g)
            /\ \E i \in 0..Len(approvals[g]) :
                 /\ IsTarget(c, g, i)
                 /\ req' = [req EXCEPT ![h] = [pc |-> "chosen", gate |-> g, dec |-> d, row |-> i]]
      BY <1>1 DEF ReadApproval
    <3>2. c = "api"
      BY <3>1 DEF OneAtATime
    <3>3. Pending(g) # {}
      BY <3>1, <3>2 DEF Accepts
    <3> QED  BY <3>1, <3>3 DEF IsTarget
  <2>1. PICK i \in Pending(g) :
          req' = [req EXCEPT ![h] = [pc |-> "chosen", gate |-> g, dec |-> d, row |-> i]]
    BY <2>0
  <2>2. Alive = {}
    BY <1>1, <2>1 DEF ReadApproval, RowFree, TurnInv, ExecutorTurn, NothingPending, Alive
  <2>3. req'[h] = [pc |-> "chosen", gate |-> g, dec |-> d, row |-> i]
    BY <2>1 DEF TypeOK
  <2>4. exec' = exec /\ approvals' = approvals /\ web' = web
    BY <1>1 DEF ReadApproval
  <2>5. RequestTurn'
    BY <1>0, <2>1, <2>2, <2>3, <2>4 DEF RequestTurn, Alive, Pending
  <2> QED  BY <2>4, <2>5 DEF TurnInv, ExecutorTurn, SingleExecutor, Alive, OnePending,
                             NothingPending, Pending
<1>2. CASE ReadRun(h)
  <2>1. /\ req'[h].pc = "deciding" /\ req'[h].gate = req[h].gate /\ req'[h].row = req[h].row
        /\ req[h].pc = "chosen"
        /\ exec' = exec /\ approvals' = approvals /\ web' = web
    BY <1>2 DEF ReadRun, TypeOK
  <2>2. RequestTurn'
    BY <1>0, <2>1 DEF TurnInv, RequestTurn, Alive, Pending
  <2> QED  BY <2>1, <2>2 DEF TurnInv, ExecutorTurn, SingleExecutor, Alive, OnePending,
                             NothingPending, Pending
<1>3. CASE Refuse(h) \/ SpawnFails(h)
  <2>1. /\ req'[h].pc = "idle"
        /\ exec' = exec /\ approvals' = approvals /\ web' = web
    BY <1>3 DEF Refuse, SpawnFails, TypeOK, Idle, At
  <2>2. RequestTurn'
    BY <1>0, <2>1 DEF RequestTurn
  <2> QED  BY <2>1, <2>2 DEF TurnInv, ExecutorTurn, SingleExecutor, Alive, OnePending,
                             NothingPending, Pending
<1>4. CASE WriteDecision(h)
  <2> DEFINE r == req[h]
  <2>1. /\ r.gate \in Gates /\ r.dec \in {"approved", "rejected"}
        /\ r.row \in Pending(r.gate) /\ Alive = {}
    BY <1>4 DEF WriteDecision, TypeOK, Request, TurnInv, RequestTurn
  <2>2. r.row # 0
    <3>1. approvals[r.gate] \in Seq({"pending", "approved", "rejected"})
      BY <2>1 DEF TypeOK
    <3>2. r.row \in 1..Len(approvals[r.gate])
      BY <2>1, <3>1 DEF Pending
    <3> QED  BY <3>1, <3>2
  <2>3. approvals' = [approvals EXCEPT ![r.gate][r.row] = r.dec]
    BY <1>4, <2>2 DEF WriteDecision
  <2>4. NothingPending'
    BY <2>1, <2>3, PendingDecided DEF TurnInv
  <2>5. req'[h].pc = "dispatch" /\ exec' = exec /\ web' = web
    BY <1>4 DEF WriteDecision, TypeOK, At
  <2>6. Alive' = {}
    BY <2>1, <2>5 DEF Alive
  <2>7. RequestTurn' /\ OnePending'
    BY <1>0, <2>4, <2>5, <2>6 DEF RequestTurn, OnePending, NothingPending
  <2>8. ExecutorTurn'
    BY <2>5, <2>6 DEF TurnInv, ExecutorTurn, SingleExecutor
  <2> QED  BY <2>5, <2>7, <2>8 DEF TurnInv
<1>5. CASE Spawn(h)
  <2>1. PICK e \in Executors : exec' = [exec EXCEPT ![e] = At("spawned")]
    BY <1>5 DEF Spawn
  <2>2. Alive = {} /\ NothingPending
    BY <1>5 DEF Spawn, TurnInv, RequestTurn
  <2>3. req'[h].pc = "idle" /\ approvals' = approvals /\ web' = web
    BY <1>5 DEF Spawn, TypeOK, Idle, At
  <2>4. exec'[e].pc = "spawned" /\ \A f \in Executors : f # e => exec'[f].pc = "idle"
    BY <2>1, <2>2 DEF TypeOK, Alive, At
  <2>5. Alive' \subseteq {e} /\ NothingPending' /\ \A f \in Executors : exec'[f].pc # "work"
    BY <2>2, <2>3, <2>4 DEF Alive, NothingPending, Pending
  <2>6. ExecutorTurn'
    BY <2>5 DEF ExecutorTurn, SingleExecutor
  <2>7. RequestTurn' /\ OnePending'
    BY <1>0, <2>3, <2>5 DEF RequestTurn, OnePending, NothingPending
  <2> QED  BY <2>3, <2>6, <2>7 DEF TurnInv
<1>6. CASE ReadCancel(h) \/ WriteCancel(h)
  BY <1>6 DEF ReadCancel, WriteCancel, OneAtATime, TurnInv, RequestTurn
<1> QED  BY <1>1, <1>2, <1>3, <1>4, <1>5, <1>6 DEF Serve

\* Neither a kill nor a crash gives anybody else the turn, and the web process stays up.
LEMMA TurnNext ==
  ASSUME TypeOK, TurnInv, OneAtATime, GatesCommand, [Next]_vars
  PROVE  TurnInv'
<1>1. CASE \E e \in Executors : Execute(e)
  BY <1>1, TurnExecute
<1>2. CASE \E h \in Handlers : Serve(h)
  BY <1>2, TurnServe
<1>3. ASSUME NEW e \in Executors, Kill(e) \/ Raise(e) PROVE TurnInv'
  <2>1. e \in Alive /\ exec' = [exec EXCEPT ![e] = Idle]
        /\ req' = req /\ web' = web /\ approvals' = approvals
    BY <1>3 DEF Kill, Raise, Leave
  <2>2. Idle.pc = "idle"
    BY DEF Idle, At
  <2> QED  BY <2>1, <2>2, ExecutorKeepsTurn
<1>4. CASE Restart
  BY <1>4 DEF Restart, Fails, OneAtATime
<1>5. CASE Sweep \/ Recover
  BY <1>5 DEF Sweep, Recover, TurnInv
<1>6. CASE UNCHANGED vars
  <2>1. exec' = exec /\ req' = req /\ approvals' = approvals /\ web' = web
    BY <1>6 DEF vars
  <2> QED  BY <2>1 DEF TurnInv, ExecutorTurn, RequestTurn, OnePending, SingleExecutor, Alive,
                       NothingPending, Pending
<1> QED  BY <1>1, <1>2, <1>3, <1>4, <1>5, <1>6 DEF Next

\* The request that created the run is the first to have the turn.
LEMMA TurnInit == ASSUME OneAtATime, Init PROVE TurnInv
<1>1. Alive = {} /\ \A e \in Executors : exec[e].pc = "idle"
  BY DEF Init, Alive, Idle, At
<1>2. \A g \in Gates : Pending(g) = {}
  BY DEF Init, Pending
<1>3. \A h \in Handlers : req[h].pc \in {"idle", "dispatch"}
  BY DEF Init, Idle, At
<1> QED  BY <1>1, <1>2, <1>3 DEF Init, TurnInv, ExecutorTurn, RequestTurn, OnePending,
                                 SingleExecutor, NothingPending

\* With one request at a time, each of which decides a row it names, and no restart of the
\* web process, a second executor is never started while one is alive, in every pipeline
\* in which nothing is left to do beside a gate.
THEOREM OneExecutor ==
  ASSUME OneAtATime, GatesCommand
  PROVE  Spec => []SingleExecutor
<1> DEFINE Inv == TypeOK /\ TurnInv
<1>1. Init => Inv
  BY TypeInit, TurnInit
<1>2. Inv /\ [Next]_vars => Inv'
  BY TypeNext, TurnNext
<1>3. Inv => SingleExecutor
  BY DEF TurnInv, ExecutorTurn
<1> QED  BY <1>1, <1>2, <1>3, PTL DEF Spec

-----------------------------------------------------------------------------
(* The row and its copies *)

Open == status \in {"queued", "running", "awaiting_approval"}

Done(ns, n) == ns[n].st = "succeeded" \/ (ns[n].st = "failed" /\ n \in Optional)

\* The nodes are done up to some place in the order, and nothing is done after it.
Front(ns) ==
  /\ \A n \in Nodes : ns[n].st \in {"absent", "running", "suspended"} \/ Done(ns, n)
  /\ \A i, j \in 1..Len(Order) : i < j /\ ns[Order[j]].st # "absent" => Done(ns, Order[i])

\* Gates alone are suspended; the undecided ones are those with a pending row; and a gate
\* that has a row was reached.
AskedInv ==
  /\ \A n \in Nodes : nodeStates[n].st = "suspended" => n \in Gates
  /\ \A g \in Gates : Pending(g) # {} <=> nodeStates[g] = Entry("suspended")
  /\ \A g \in Gates : approvals[g] # << >> => nodeStates[g].st \in {"suspended", "succeeded"}

RowInv ==
  /\ status = "awaiting_approval" <=> ~NothingPending
  /\ status = "queued" => \A n \in Nodes : nodeStates[n] = Entry("absent")
  /\ Open => Front(nodeStates)

\* A copy is the row, but for the gates that were passed since the last node was dispatched.
Agrees(ns, row) ==
  \A n \in Nodes :
    \/ ns[n] = row[n]
    \/ /\ n \in Gates
       /\ row[n] = [st |-> "suspended", dec |-> "approved"]
       /\ ns[n] = [st |-> "succeeded", dec |-> "approved"]

\* An executor's copy agrees with the row; and all that it walked past is done, until it asks.
Walker(p) ==
  /\ p.status = status
  /\ p.pc = "loaded" <=> status = "queued"
  /\ Agrees(p.ns, nodeStates)
  /\ NothingPending => \A k \in 1..(p.at - 1) : Done(p.ns, Order[k])
  /\ p.at <= Len(Order) => p.ns[Order[p.at]].st \notin Terminal
  /\ p.pc = "work" => p.at <= Len(Order) /\ p.ns[Order[p.at]].st = "running"

\* Nobody moves a run that is over; a node that is running is the one somebody works on;
\* and the copies are right.
ActorInv ==
  /\ ~Open => Alive = {} /\ \A h \in Handlers : req[h].pc = "idle"
  /\ \A n \in Nodes : nodeStates[n].st = "running" =>
       /\ NothingPending /\ \A h \in Handlers : req[h].pc = "idle"
       /\ \A e \in Alive : exec[e].pc = "work" /\ Node(e) = n
  /\ \A h \in Handlers :
       req[h].pc = "deciding" => req[h].ns = nodeStates /\ req[h].status = status
  /\ \A e \in Executors : exec[e].pc \in Running => Walker(exec[e])

SInv == TypeOK /\ TurnInv /\ AskedInv /\ RowInv /\ ActorInv

-----------------------------------------------------------------------------
(* What a walk leaves behind it *)

\* A copy of a row that is done up to some place is, too.
LEMMA FrontAgrees == ASSUME NEW row, Front(row), NEW ns, Agrees(ns, row) PROVE Front(ns)
<1>1. \A n \in Nodes : Done(row, n) => Done(ns, n)
  BY DEF Agrees, Done
<1>2. \A n \in Nodes : row[n].st = "absent" <=> ns[n].st = "absent"
  BY DEF Agrees
<1>3. \A n \in Nodes : ns[n].st \in {"absent", "running", "suspended"} \/ Done(ns, n)
  BY <1>1 DEF Front, Agrees, Done
<1>4. ASSUME NEW i \in 1..Len(Order), NEW j \in 1..Len(Order), i < j,
             ns[Order[j]].st # "absent"
      PROVE  Done(ns, Order[i])
  BY <1>1, <1>2, <1>4, OrderType DEF Front
<1> QED  BY <1>3, <1>4 DEF Front

\* A node that is not done has nothing but untouched nodes after it.
LEMMA AfterUndone ==
  ASSUME NEW ns, Front(ns), NEW i \in 1..Len(Order), ~Done(ns, Order[i]),
         NEW j \in 1..Len(Order), i < j
  PROVE  ns[Order[j]].st = "absent"
  BY DEF Front

\* The entry of the first node that is not done may become anything that is open or done.
LEMMA FrontEntry ==
  ASSUME NEW ns \in [Nodes -> NodeState], Front(ns), NEW i \in 1..Len(Order),
         \A k \in 1..(i - 1) : Done(ns, Order[k]), ~Done(ns, Order[i]),
         NEW x \in NodeState,
         \/ x.st \in {"running", "suspended", "succeeded"}
         \/ x.st = "failed" /\ Order[i] \in Optional
  PROVE  Front([ns EXCEPT ![Order[i]] = x])
<1> DEFINE n == Order[i]
           new == [ns EXCEPT ![n] = x]
<1>1. n \in Nodes /\ Len(Order) \in Nat
  BY OrderType, GraphAssumption
<1>2. new[n] = x /\ \A m \in Nodes : m # n => new[m] = ns[m]
  BY <1>1
<1>3. \A m \in Nodes : new[m].st \in {"absent", "running", "suspended"} \/ Done(new, m)
  BY <1>2 DEF Front, Done
<1>4. ASSUME NEW j \in 1..Len(Order), NEW l \in 1..Len(Order), j < l, new[Order[l]].st # "absent"
      PROVE  Done(new, Order[j])
  <2>1. Order[j] \in Nodes /\ Order[l] \in Nodes
    BY OrderType
  <2>2. CASE l = i
    <3>1. j \in 1..(i - 1)
      BY <1>1, <1>4, <2>2
    <3>2. Done(ns, Order[j])
      BY <3>1
    <3>3. Order[j] # n
      BY <1>4, <2>2, GraphAssumption
    <3> QED  BY <1>2, <2>1, <3>2, <3>3 DEF Done
  <2>3. CASE l # i
    <3>1. Order[l] # n
      BY <2>3, GraphAssumption
    <3>2. Done(ns, Order[j])
      BY <1>2, <1>4, <2>1, <3>1 DEF Front
    <3>3. Order[j] # n
      BY <3>2
    <3> QED  BY <1>2, <2>1, <3>2, <3>3 DEF Done
  <2> QED  BY <2>2, <2>3
<1> HIDE DEF new
<1>5. Front(new)
  BY <1>3, <1>4 DEF Front
<1> QED  BY <1>5 DEF new

\* A walk that starts with everything before it done passes over nothing that is not: the
\* gate that would block a node would have stopped it.
LEMMA WalkDone ==
  ASSUME NEW ns \in [Nodes -> NodeState], Front(ns), NEW i \in Nat, NEW j \in Nat,
         \A k \in 1..(i - 1) : k <= Len(Order) => Done(ns, Order[k]),
         IsStop(ns, i, j), j <= Len(Order) + 1
  PROVE  \A k \in 1..(j - 1) : Done(ns, Order[k])
<1>0. Len(Order) \in Nat
  BY GraphAssumption
<1>1. ASSUME NEW k \in 1..Len(Order), i <= k, k < j, ~Done(ns, Order[k])
      PROVE  \E p \in 1..Len(Order) : i <= p /\ p < k /\ ns[Order[p]].st = "suspended"
  <2>1. Order[k] \in Nodes /\ PassedOver(ns, Order[k])
    BY <1>0, <1>1, OrderType DEF IsStop
  <2>2. ns[Order[k]].st \notin Terminal
    BY <1>1, <2>1 DEF Front, Terminal
  <2>3. PICK g \in Suspended(ns) : Order[k] \in Below[g]
    BY <2>1, <2>2 DEF PassedOver, Blocked
  <2>4. g \in Nodes /\ ns[g].st = "suspended"
    BY DEF Suspended
  <2>5. PICK p \in 1..Len(Order) : Order[p] = g
    BY <2>4, GraphAssumption
  <2>6. p < k
    BY <2>3, <2>5, BelowComesLater
  <2>7. ~(p < i)
    <3>1. ~Done(ns, Order[p])
      BY <2>4, <2>5 DEF Done
    <3>2. p < i => p \in 1..(i - 1)
      BY <1>0
    <3> QED  BY <3>1, <3>2
  <2>8. i <= p
    BY <1>0, <2>7
  <2> QED  BY <2>4, <2>5, <2>6, <2>8
<1>2. ASSUME NEW k \in 1..Len(Order), i <= k, k < j PROVE Done(ns, Order[k])
  <2> SUFFICES ASSUME ~Done(ns, Order[k]) PROVE FALSE
    OBVIOUS
  <2>1. PICK p \in 1..Len(Order) : i <= p /\ p < k /\ ns[Order[p]].st = "suspended"
    BY <1>1, <1>2
  <2>2. p < j /\ ~Done(ns, Order[p])
    BY <1>0, <1>2, <2>1 DEF Done
  <2>3. PICK q \in 1..Len(Order) : q < p /\ ns[Order[q]].st = "suspended"
    BY <1>1, <2>1, <2>2
  <2>4. Done(ns, Order[q])
    BY <2>1, <2>3 DEF Front
  <2> QED  BY <2>3, <2>4 DEF Done
<1> SUFFICES ASSUME NEW k \in 1..(j - 1) PROVE Done(ns, Order[k])
  OBVIOUS
<1>3. k \in 1..Len(Order) /\ k < j
  BY <1>0
<1>4. CASE k < i
  <2>1. k \in 1..(i - 1) /\ k <= Len(Order)
    BY <1>0, <1>3, <1>4
  <2> QED  BY <2>1
<1>5. CASE i <= k
  BY <1>2, <1>3, <1>5
<1> QED  BY <1>0, <1>3, <1>4, <1>5

-----------------------------------------------------------------------------
(* What a step leaves the others *)

\* The walk of an executor goes on, over a copy that agrees with the row it leaves.
LEMMA WalkerContinues ==
  ASSUME TypeOK, NEW e \in Executors, NEW i \in 1..(Len(Order) + 2),
         NEW pc \in {"loaded", "walk", "held"}, NEW ns \in [Nodes -> NodeState], NEW s,
         WalkFrom(e, i, pc, ns, s), Front(ns),
         \A k \in 1..(i - 1) : k <= Len(Order) => Done(ns, Order[k]),
         Agrees(ns, nodeStates'), s = status', pc = "loaded" <=> s = "queued"
  PROVE  /\ \E x : x.pc = pc /\ exec' = [exec EXCEPT ![e] = x]
         /\ exec'[e].pc = pc
         /\ Walker(exec[e])'
<1>1. PICK j \in i..(Len(Order) + 1) :
        /\ IsStop(ns, i, j)
        /\ exec' = [exec EXCEPT ![e] = [pc |-> pc, at |-> j, ns |-> ns, status |-> s,
                                        sawRow |-> FALSE]]
  BY DEF WalkFrom
<1> DEFINE x == [pc |-> pc, at |-> j, ns |-> ns, status |-> s, sawRow |-> FALSE]
<1>2. exec'[e] = x /\ exec' = [exec EXCEPT ![e] = x]
  BY <1>1 DEF TypeOK
<1>3. /\ x.pc = pc /\ x.at = j /\ x.ns = ns /\ x.status = s
  OBVIOUS
<1> HIDE DEF x
<1>4. i \in Nat /\ j \in Nat /\ j <= Len(Order) + 1
  BY <1>1, GraphAssumption
<1>5. \A k \in 1..(j - 1) : Done(ns, Order[k])
  BY <1>1, <1>4, WalkDone
<1>6. j <= Len(Order) => ns[Order[j]].st \notin Terminal
  BY <1>1 DEF IsStop, PassedOver
<1>7. Walker(exec[e])'
  BY <1>2, <1>3, <1>5, <1>6 DEF Walker, Agrees, Done
<1> QED  BY <1>2, <1>3, <1>7

\* A step of the executor that has the turn keeps ActorInv, if it does its part.
LEMMA ActorStep ==
  ASSUME TypeOK, TurnInv, NEW e \in Alive, NEW x, exec' = [exec EXCEPT ![e] = x], req' = req,
         Open' \/ exec'[e].pc = "idle",
         \A n \in Nodes : nodeStates'[n].st = "running" =>
           /\ NothingPending'
           /\ exec'[e].pc = "idle" \/ (exec'[e].pc = "work" /\ Node(e)' = n),
         exec'[e].pc \in Running => Walker(exec[e])'
  PROVE  ActorInv'
<1>1. /\ e \in Executors
      /\ \A f \in Executors : f # e => exec[f].pc = "idle"
      /\ \A h \in Handlers : req'[h].pc = "idle"
  BY OthersIdle
<1>2. \A f \in Executors : f # e => exec'[f].pc = "idle"
  BY <1>1 DEF TypeOK
<1>3. Alive' \subseteq {e} /\ (exec'[e].pc = "idle" => Alive' = {})
  BY <1>2 DEF Alive
<1>4. \A f \in Executors : (exec[f].pc \in Running => Walker(exec[f]))'
  <2> SUFFICES ASSUME NEW f \in Executors, (exec[f].pc \in Running)' PROVE Walker(exec[f])'
    OBVIOUS
  <2>1. f = e
    BY <1>2 DEF Running
  <2>2. (exec'[e].pc \in Running)
    BY <2>1 DEF Running
  <2> QED  BY <2>1, <2>2
<1> QED  BY <1>1, <1>3, <1>4 DEF ActorInv

\* What is written from a copy, when nothing is pending, asks nobody and forgets no gate.
LEMMA AskedFromCopy ==
  ASSUME AskedInv, NothingPending, NEW ns, Agrees(ns, nodeStates), approvals' = approvals,
         \A m \in Nodes : \/ nodeStates'[m] = ns[m]
                          \/ /\ ns[m].st \notin {"suspended", "succeeded"}
                             /\ nodeStates'[m].st # "suspended"
  PROVE  AskedInv' /\ NothingPending'
<1>1. \A g \in Gates : Pending(g)' = Pending(g) /\ Pending(g) = {} /\ g \in Nodes
  BY RunAssumption DEF Pending, NothingPending
<1>2. ASSUME NEW n \in Nodes, nodeStates'[n].st = "suspended" PROVE n \in Gates
  BY <1>2 DEF AskedInv, Agrees
<1>3. ASSUME NEW g \in Gates PROVE nodeStates'[g] # Entry("suspended")
  <2>1. nodeStates[g] # Entry("suspended") /\ g \in Nodes
    BY <1>1 DEF AskedInv
  <2>2. Entry("suspended").st = "suspended"
    BY DEF Entry
  <2> QED  BY <2>1, <2>2 DEF Agrees
<1>4. ASSUME NEW g \in Gates, approvals'[g] # << >>
      PROVE  nodeStates'[g].st \in {"suspended", "succeeded"}
  BY <1>1, <1>4 DEF AskedInv, Agrees
<1>5. NothingPending'
  BY <1>1 DEF NothingPending
<1> QED  BY <1>1, <1>2, <1>3, <1>4, <1>5 DEF AskedInv

\* What the invariant says of the executor that has the turn.
LEMMA Turn ==
  ASSUME SInv, NEW e \in Executors, exec[e].pc \in Running
  PROVE  /\ e \in Alive /\ Open
         /\ exec[e].ns \in [Nodes -> NodeState] /\ exec[e].status = status
         /\ exec[e].at \in 1..(Len(Order) + 1) /\ Len(Order) \in Nat
         /\ Agrees(exec[e].ns, nodeStates) /\ Front(nodeStates) /\ Front(exec[e].ns)
         /\ exec[e].pc = "loaded" <=> status = "queued"
         /\ \A n \in Nodes : nodeStates[n].st = "running" => exec[e].pc = "work" /\ Node(e) = n
         /\ NothingPending => \A k \in 1..(exec[e].at - 1) : Done(exec[e].ns, Order[k])
         /\ exec[e].at <= Len(Order) =>
              /\ exec[e].at \in 1..Len(Order)
              /\ Node(e) = Order[exec[e].at] /\ Node(e) \in Nodes
              /\ exec[e].ns[Node(e)].st \notin Terminal
         /\ exec[e].pc = "work" => exec[e].at <= Len(Order) /\ exec[e].ns[Node(e)].st = "running"
<1>1. e \in Alive
  BY DEF Running, Alive
<1>2. Walker(exec[e]) /\ Open
  BY <1>1 DEF SInv, ActorInv
<1>3. /\ exec[e].ns \in [Nodes -> NodeState]
      /\ exec[e].at \in 1..(Len(Order) + 1) /\ Len(Order) \in Nat
  BY CopyType, GraphAssumption DEF SInv
<1>4. Front(nodeStates) /\ Front(exec[e].ns)
  BY <1>2, FrontAgrees DEF SInv, RowInv, Walker
<1>5. exec[e].at <= Len(Order) => exec[e].at \in 1..Len(Order) /\ Node(e) \in Nodes
  BY NodeType DEF SInv
<1>6. \A n \in Nodes : nodeStates[n].st = "running" => exec[e].pc = "work" /\ Node(e) = n
  BY <1>1 DEF SInv, ActorInv
<1> QED  BY <1>1, <1>2, <1>3, <1>4, <1>5, <1>6 DEF Walker, Node

-----------------------------------------------------------------------------
(* The steps of an executor *)

\* A step that leaves the row alone.
LEMMA RowSame ==
  ASSUME AskedInv, RowInv, status' = status, nodeStates' = nodeStates, approvals' = approvals
  PROVE  AskedInv' /\ RowInv' /\ (NothingPending' <=> NothingPending) /\ (Open' <=> Open)
  BY DEF AskedInv, RowInv, Pending, NothingPending, Open, Front, Done

\* An executor that loads the row has the row.
LEMMA LoadKeeps ==
  ASSUME SInv, NEW e \in Executors, Load(e)
  PROVE  AskedInv' /\ RowInv' /\ ActorInv'
<1> DEFINE pc == IF status = "queued" THEN "loaded" ELSE "walk"
<1>1. /\ exec[e].pc = "spawned" /\ WalkFrom(e, 1, pc, nodeStates, status)
      /\ status' = status /\ nodeStates' = nodeStates /\ approvals' = approvals /\ req' = req
  BY DEF Load
<1>2. pc \in {"loaded", "walk", "held"} /\ (pc = "loaded" <=> status = "queued")
  OBVIOUS
<1>3. e \in Alive /\ Open
  BY <1>1 DEF Alive, SInv, ActorInv
<1>4. Front(nodeStates) /\ nodeStates \in [Nodes -> NodeState] /\ Agrees(nodeStates, nodeStates')
      /\ 1 \in 1..(Len(Order) + 2) /\ \A k \in 1..(1 - 1) : FALSE
  BY <1>1, <1>3, GraphAssumption DEF SInv, RowInv, TypeOK, Agrees
<1> HIDE DEF pc
<1>5. /\ \E x : x.pc = pc /\ exec' = [exec EXCEPT ![e] = x]
      /\ Walker(exec[e])'
  BY <1>1, <1>2, <1>4, WalkerContinues DEF SInv
<1>6. \A n \in Nodes : nodeStates'[n].st # "running"
  BY <1>1, <1>3 DEF SInv, ActorInv
<1>7. Open' /\ AskedInv' /\ RowInv'
  BY <1>1, <1>3, RowSame DEF SInv
<1>8. ActorInv'
  BY <1>1, <1>3, <1>5, <1>6, <1>7, ActorStep DEF SInv
<1> QED  BY <1>7, <1>8

\* The first executor marks the run running.
LEMMA BeginKeeps ==
  ASSUME SInv, NEW e \in Executors, Begin(e)
  PROVE  AskedInv' /\ RowInv' /\ ActorInv'
<1>1. /\ exec[e].pc = "loaded" /\ status' = "running"
      /\ nodeStates' = nodeStates /\ approvals' = approvals /\ req' = req
      /\ exec' = [exec EXCEPT ![e] = [exec[e] EXCEPT !.pc = "held", !.status = "running"]]
  BY DEF Begin, SInv, TypeOK
<1>2. exec[e].pc \in Running
  BY <1>1 DEF Running
<1>3. status = "queued" /\ e \in Alive /\ Walker(exec[e]) /\ NothingPending
  BY <1>1, <1>2, Turn, NothingAsked DEF SInv, ActorInv
<1>4. /\ exec'[e].pc = "held" /\ exec'[e].status = "running" /\ exec'[e].at = exec[e].at
      /\ exec'[e].ns = exec[e].ns
  <2>1. exec[e] \in [pc : {"loaded", "walk", "held", "work"}, at : 1..(Len(Order) + 1),
                     ns : [Nodes -> NodeState], status : RunStatus, sawRow : BOOLEAN]
    BY <1>2, CopyType DEF SInv
  <2>2. exec'[e] = [exec[e] EXCEPT !.pc = "held", !.status = "running"]
    BY <1>1 DEF SInv, TypeOK
  <2> QED  BY <2>1, <2>2
<1>5. \A g \in Gates : Pending(g)' = Pending(g)
  BY <1>1 DEF Pending
<1>6. NothingPending'
  BY <1>3, <1>5 DEF NothingPending
<1>7. AskedInv' /\ RowInv'
  BY <1>1, <1>2, <1>5, <1>6, Turn DEF SInv, AskedInv, RowInv, Front, Done
<1>8. Walker(exec[e])'
  BY <1>1, <1>3, <1>4 DEF Walker, Agrees, Done
<1>9. \A n \in Nodes : nodeStates'[n].st # "running"
  BY <1>1, <1>2, Turn
<1> DEFINE x == [exec[e] EXCEPT !.pc = "held", !.status = "running"]
<1>10. exec' = [exec EXCEPT ![e] = x] /\ Open'
  BY <1>1 DEF Open
<1> HIDE DEF x
<1>11. ActorInv'
  BY <1>1, <1>3, <1>8, <1>9, <1>10, ActorStep DEF SInv
<1> QED  BY <1>7, <1>11

\* A gate that was approved is passed in the copy.
LEMMA PassGateKeeps ==
  ASSUME SInv, NEW e \in Executors, PassGate(e)
  PROVE  AskedInv' /\ RowInv' /\ ActorInv'
<1> DEFINE n == Node(e)
           old == exec[e].ns
           ns == [old EXCEPT ![n].st = "succeeded"]
<1>1. /\ exec[e].pc \in {"walk", "held"} /\ exec[e].pc \in Running /\ exec[e].at <= Len(Order)
      /\ old[n].st = "suspended" /\ old[n].dec = "approved"
      /\ Continue(e, exec[e].pc, ns, exec[e].status)
      /\ status' = status /\ nodeStates' = nodeStates /\ approvals' = approvals /\ req' = req
  BY DEF PassGate, AtGate, Walking, Running
<1>2. NothingPending /\ e \in Alive
  BY <1>1, NothingAsked DEF Running, SInv
<1>3. /\ Open /\ old \in [Nodes -> NodeState] /\ exec[e].status = status
      /\ Agrees(old, nodeStates) /\ Front(nodeStates)
      /\ exec[e].at \in 1..Len(Order) /\ n = Order[exec[e].at] /\ n \in Nodes /\ Len(Order) \in Nat
      /\ \A k \in 1..(exec[e].at - 1) : Done(old, Order[k])
      /\ \A m \in Nodes : nodeStates[m].st # "running"
      /\ status # "queued"
  BY <1>1, <1>2, Turn
<1> HIDE DEF n, old
<1>4. old[n] = [st |-> "suspended", dec |-> "approved"]
  BY <1>1, <1>3 DEF NodeState
<1>5. nodeStates[n] = old[n] /\ n \in Gates
  BY <1>1, <1>3 DEF Agrees, SInv, AskedInv
<1>6. ns[n] = [st |-> "succeeded", dec |-> "approved"] /\ \A m \in Nodes : m # n => ns[m] = old[m]
  BY <1>3, <1>4
<1>7. ns \in [Nodes -> NodeState]
  <2>1. [st |-> "succeeded", dec |-> "approved"] \in NodeState
    BY DEF NodeState, NodeStatus, Decision
  <2>0. [[st |-> "suspended", dec |-> "approved"] EXCEPT !.st = "succeeded"]
          = [st |-> "succeeded", dec |-> "approved"]
    OBVIOUS
  <2>2. ns = [old EXCEPT ![n] = [st |-> "succeeded", dec |-> "approved"]]
    BY <1>4, <2>0
  <2> QED  BY <1>3, <2>1, <2>2
<1>8. Agrees(ns, nodeStates)
  BY <1>3, <1>4, <1>5, <1>6 DEF Agrees
<1>9. Front(ns)
  BY <1>3, <1>8, FrontAgrees
<1>10. ASSUME NEW k \in 1..((exec[e].at + 1) - 1), k <= Len(Order) PROVE Done(ns, Order[k])
  <2>1. k \in 1..(exec[e].at - 1) \/ k = exec[e].at
    BY <1>3
  <2>2. Order[k] \in Nodes
    BY <1>3, <1>10, OrderType
  <2> QED  BY <1>3, <1>6, <2>1, <2>2 DEF Done
<1>11. WalkFrom(e, exec[e].at + 1, exec[e].pc, ns, status) /\ exec[e].at + 1 \in 1..(Len(Order) + 2)
  BY <1>1, <1>3 DEF Continue, n, old
<1> HIDE DEF ns
<1>12. /\ \E x : x.pc = exec[e].pc /\ exec' = [exec EXCEPT ![e] = x]
       /\ Walker(exec[e])'
  BY <1>1, <1>3, <1>7, <1>8, <1>9, <1>10, <1>11, WalkerContinues, SMTT(30) DEF SInv
<1>13. AskedInv' /\ RowInv' /\ Open'
  BY <1>1, <1>3, RowSame DEF SInv
<1>14. ActorInv'
  BY <1>1, <1>2, <1>3, <1>12, <1>13, ActorStep DEF SInv
<1> QED  BY <1>13, <1>14

\* An executor that stops at a rejected gate ends the run.
LEMMA StopRejectedKeeps ==
  ASSUME SInv, NEW e \in Executors, StopRejected(e)
  PROVE  AskedInv' /\ RowInv' /\ ActorInv' /\ status' = "failed"
<1>1. /\ exec[e].pc \in Running /\ exec[e].at <= Len(Order) /\ exec[e].pc \in {"walk", "held"}
      /\ SetStatus(e, "failed") /\ exec' = [exec EXCEPT ![e] = Idle]
      /\ nodeStates' = nodeStates /\ approvals' = approvals /\ req' = req
  BY DEF StopRejected, AtGate, Walking, Running, Leave
<1>2. e \in Alive /\ NothingPending
  BY <1>1, NothingAsked DEF SInv, Running
<1>3. status' = "failed" /\ ~Open'
  BY <1>1, Turn DEF SetStatus, Open
<1>4. AskedInv' /\ RowInv' /\ NothingPending'
  BY <1>1, <1>2, <1>3 DEF SInv, AskedInv, RowInv, Pending, NothingPending
<1>5. exec'[e].pc = "idle"
  BY <1>1 DEF SInv, TypeOK, Idle, At
<1>6. ActorInv'
  BY <1>1, <1>2, <1>4, <1>5, ActorStep DEF SInv, Running
<1> QED  BY <1>3, <1>4, <1>6

\* No executor meets a gate that is undecided: who has asked stops, and nobody starts until
\* the row is decided.
LEMMA StopUndecidedNever ==
  ASSUME SInv, NEW e \in Executors
  PROVE  ~StopUndecided(e)
<1> SUFFICES ASSUME StopUndecided(e) PROVE FALSE
  OBVIOUS
<1> DEFINE n == Node(e)
<1>1. /\ exec[e].pc \in Running /\ exec[e].at <= Len(Order)
      /\ exec[e].ns[n].st = "suspended" /\ exec[e].ns[n].dec = "none"
  BY DEF StopUndecided, AtGate, Walking, Running
<1>2. NothingPending
  BY <1>1, NothingAsked DEF SInv, Running
<1>3. n \in Nodes /\ Agrees(exec[e].ns, nodeStates) /\ exec[e].ns \in [Nodes -> NodeState]
  BY <1>1, Turn
<1>4. nodeStates[n] = Entry("suspended") /\ n \in Gates
  BY <1>1, <1>3 DEF Agrees, NodeState, Entry, SInv, AskedInv
<1> QED  BY <1>2, <1>4 DEF SInv, AskedInv, NothingPending

\* A node is dispatched when all before it is done, and it is untouched itself.
LEMMA DispatchKeeps ==
  ASSUME SInv, NEW e \in Executors, Dispatch(e)
  PROVE  AskedInv' /\ RowInv' /\ ActorInv'
<1> DEFINE n == Node(e)
           old == exec[e].ns
           ns == [old EXCEPT ![n] = Entry("running")]
           x == [exec[e] EXCEPT !.pc = "work", !.ns = ns,
                                !.sawRow = n \in Gates /\ approvals[n] # << >>]
<1>1. /\ exec[e].pc \in {"walk", "held"} /\ exec[e].pc \in Running /\ exec[e].at <= Len(Order)
      /\ old[n].st # "suspended"
      /\ nodeStates' = ns /\ exec' = [exec EXCEPT ![e] = x]
      /\ status' = status /\ approvals' = approvals /\ req' = req
  BY DEF Dispatch, Walking, Running, SInv, TypeOK
<1>2. NothingPending /\ e \in Alive
  BY <1>1, NothingAsked DEF Running, SInv
<1>3. /\ Open /\ old \in [Nodes -> NodeState] /\ exec[e].status = status
      /\ Agrees(old, nodeStates) /\ Front(old)
      /\ exec[e].at \in 1..Len(Order) /\ n = Order[exec[e].at] /\ n \in Nodes /\ Len(Order) \in Nat
      /\ \A k \in 1..(exec[e].at - 1) : Done(old, Order[k])
      /\ \A m \in Nodes : nodeStates[m].st # "running"
      /\ status # "queued" /\ old[n].st \notin Terminal
  BY <1>1, <1>2, Turn
<1>4. /\ exec'[e].pc = "work" /\ exec'[e].at = exec[e].at /\ exec'[e].ns = ns
      /\ exec'[e].status = exec[e].status
  <2>1. exec[e] \in [pc : {"loaded", "walk", "held", "work"}, at : 1..(Len(Order) + 1),
                     ns : [Nodes -> NodeState], status : RunStatus, sawRow : BOOLEAN]
    BY <1>1, CopyType DEF SInv
  <2>2. exec'[e] = x
    BY <1>1 DEF SInv, TypeOK
  <2> HIDE DEF ns
  <2> QED  BY <2>1, <2>2
<1>5. Node(e)' = n
  BY <1>4 DEF Node
<1> HIDE DEF n, old, x
<1>6. Entry("running") \in NodeState /\ Entry("running").st = "running"
  BY EntryType DEF NodeStatus, Entry
<1>7. ns[n] = Entry("running") /\ \A m \in Nodes : m # n => ns[m] = old[m]
  BY <1>3
<1>8. ~Done(old, n)
  BY <1>3 DEF Done, Terminal
<1>9. Front(ns)
  BY <1>3, <1>6, <1>8, FrontEntry
<1>10. AskedInv' /\ NothingPending'
  <2>1. \A m \in Nodes : \/ nodeStates'[m] = old[m]
                         \/ /\ old[m].st \notin {"suspended", "succeeded"}
                            /\ nodeStates'[m].st # "suspended"
    BY <1>1, <1>3, <1>6, <1>7 DEF Terminal
  <2> QED  BY <1>1, <1>2, <1>3, <2>1, AskedFromCopy DEF SInv
<1>11. RowInv' /\ Open'
  BY <1>1, <1>2, <1>3, <1>9, <1>10 DEF SInv, RowInv, Open, Front, Done
<1>12. \A k \in 1..(exec[e].at - 1) : Done(ns, Order[k])
  <2> SUFFICES ASSUME NEW k \in 1..(exec[e].at - 1) PROVE Done(ns, Order[k])
    OBVIOUS
  <2>1. Done(old, Order[k]) /\ Order[k] \in Nodes
    BY <1>3, OrderType
  <2>2. Order[k] # n
    BY <1>8, <2>1
  <2> QED  BY <1>7, <2>1, <2>2 DEF Done
<1>13. \A m \in Nodes : nodeStates'[m].st = "running" => m = n
  BY <1>1, <1>3, <1>7 DEF Agrees
<1> HIDE DEF ns
<1>14. Walker(exec[e])'
  <2>1. Agrees(exec'[e].ns, nodeStates')
    BY <1>1, <1>4 DEF Agrees
  <2>2. exec'[e].ns[Order[exec'[e].at]].st = "running"
    BY <1>3, <1>4, <1>6, <1>7
  <2>3. \A k \in 1..(exec'[e].at - 1) : Done(exec'[e].ns, Order[k])
    BY <1>4, <1>12
  <2>4. exec'[e].status = status' /\ exec'[e].pc = "work" /\ exec'[e].at <= Len(Order)
        /\ status' # "queued"
    BY <1>1, <1>3, <1>4
  <2> QED  BY <2>1, <2>2, <2>3, <2>4 DEF Walker, Agrees, Done, Terminal
<1>15. ActorInv'
  BY <1>1, <1>2, <1>4, <1>5, <1>10, <1>11, <1>13, <1>14, ActorStep DEF SInv
<1> QED  BY <1>10, <1>11, <1>15

\* What is known while an executor waits for the work on a node.
LEMMA AtWork ==
  ASSUME SInv, NEW e \in Executors, exec[e].pc = "work"
  PROVE  /\ exec[e].pc \in Running /\ e \in Alive /\ NothingPending
         /\ Open /\ status # "queued" /\ exec[e].status = status
         /\ exec[e].ns \in [Nodes -> NodeState] /\ Agrees(exec[e].ns, nodeStates)
         /\ Front(exec[e].ns)
         /\ exec[e].at \in 1..Len(Order) /\ Node(e) = Order[exec[e].at] /\ Node(e) \in Nodes
         /\ Len(Order) \in Nat
         /\ exec[e].ns[Node(e)].st = "running" /\ nodeStates[Node(e)] = exec[e].ns[Node(e)]
         /\ \A m \in Nodes : exec[e].ns[m].st = "running" => m = Node(e)
         /\ \A k \in 1..(exec[e].at - 1) : Done(exec[e].ns, Order[k])
         /\ \A j \in 1..Len(Order) : exec[e].at < j => exec[e].ns[Order[j]].st = "absent"
         /\ Node(e) \in Gates => approvals[Node(e)] = << >>
<1> DEFINE n == Node(e)
           ns == exec[e].ns
<1>1. exec[e].pc \in Running
  BY DEF Running
<1>2. e \in Alive /\ NothingPending
  BY <1>1, NothingAsked DEF SInv
<1>3. /\ Open /\ status # "queued" /\ exec[e].status = status
      /\ ns \in [Nodes -> NodeState] /\ Agrees(ns, nodeStates) /\ Front(ns)
      /\ exec[e].at \in 1..Len(Order) /\ n = Order[exec[e].at] /\ n \in Nodes
      /\ Len(Order) \in Nat /\ ns[n].st = "running"
      /\ \A k \in 1..(exec[e].at - 1) : Done(ns, Order[k])
      /\ \A m \in Nodes : nodeStates[m].st = "running" => m = n
  BY <1>1, <1>2, Turn
<1> HIDE DEF n, ns
<1>4. ~Done(ns, n)
  BY <1>3 DEF Done
<1>5. \A j \in 1..Len(Order) : exec[e].at < j => ns[Order[j]].st = "absent"
  BY <1>3, <1>4, AfterUndone
<1>6. nodeStates[n] = ns[n] /\ \A m \in Nodes : ns[m].st = "running" => m = n
  BY <1>3 DEF Agrees
<1>7. n \in Gates => approvals[n] = << >>
  BY <1>3, <1>6 DEF SInv, AskedInv
<1> QED  BY <1>1, <1>2, <1>3, <1>5, <1>6, <1>7 DEF n, ns

\* The work on a node ends well, or it was optional: the walk goes on.
LEMMA NodeDoneKeeps ==
  ASSUME SInv, NEW e \in Executors, NodeDone(e)
  PROVE  AskedInv' /\ RowInv' /\ ActorInv'
<1> DEFINE n == Node(e)
           old == exec[e].ns
<1>1. PICK s \in {"succeeded", "failed"} :
        /\ s = "failed" => n \in Optional
        /\ nodeStates' = [old EXCEPT ![n] = Entry(s)]
        /\ Continue(e, "held", [old EXCEPT ![n] = Entry(s)], exec[e].status)
  BY DEF NodeDone, Ended
<1>2. exec[e].pc = "work" /\ status' = status /\ approvals' = approvals /\ req' = req
  BY DEF NodeDone
<1>3. /\ exec[e].pc \in Running /\ e \in Alive /\ NothingPending
      /\ Open /\ status # "queued" /\ exec[e].status = status
      /\ old \in [Nodes -> NodeState] /\ Agrees(old, nodeStates) /\ Front(old)
      /\ exec[e].at \in 1..Len(Order) /\ n = Order[exec[e].at] /\ n \in Nodes
      /\ Len(Order) \in Nat /\ old[n].st = "running"
      /\ \A m \in Nodes : old[m].st = "running" => m = n
      /\ \A k \in 1..(exec[e].at - 1) : Done(old, Order[k])
  BY <1>2, AtWork
<1> DEFINE ns == [old EXCEPT ![n] = Entry(s)]
<1>4. WalkFrom(e, exec[e].at + 1, "held", ns, status) /\ exec[e].at + 1 \in 1..(Len(Order) + 2)
  BY <1>1, <1>3 DEF Continue
<1> HIDE DEF n, old
<1>5. Entry(s) \in NodeState /\ Entry(s).st = s
  BY EntryType DEF NodeStatus, Entry
<1>6. ns[n] = Entry(s) /\ (\A m \in Nodes : m # n => ns[m] = old[m]) /\ ns \in [Nodes -> NodeState]
  BY <1>3, <1>5
<1>7. ~Done(old, n)
  BY <1>3 DEF Done
<1>8. Front(ns)
  BY <1>1, <1>3, <1>5, <1>7, FrontEntry
<1>9. nodeStates' = ns
  BY <1>1 DEF n, old
<1> HIDE DEF ns
<1>10. AskedInv' /\ NothingPending'
  <2>1. \A m \in Nodes : \/ nodeStates'[m] = old[m]
                         \/ /\ old[m].st \notin {"suspended", "succeeded"}
                            /\ nodeStates'[m].st # "suspended"
    BY <1>3, <1>5, <1>6, <1>9
  <2> QED  BY <1>2, <1>3, <2>1, AskedFromCopy DEF SInv
<1>11. RowInv' /\ Open'
  BY <1>2, <1>3, <1>8, <1>9, <1>10 DEF SInv, RowInv, Open, Front, Done
<1>12. ASSUME NEW k \in 1..((exec[e].at + 1) - 1), k <= Len(Order) PROVE Done(ns, Order[k])
  <2>1. k \in 1..(exec[e].at - 1) \/ k = exec[e].at
    BY <1>3
  <2>2. Order[k] \in Nodes
    BY <1>3, <1>12, OrderType
  <2>3. Done(ns, n)
    BY <1>1, <1>5, <1>6 DEF Done, n
  <2> QED  BY <1>3, <1>6, <1>7, <2>1, <2>2, <2>3 DEF Done
<1>13. Agrees(ns, nodeStates') /\ \A m \in Nodes : nodeStates'[m].st # "running"
  BY <1>3, <1>5, <1>6, <1>9 DEF Agrees
<1>14. "held" \in {"loaded", "walk", "held"} /\ ("held" = "loaded" <=> status = "queued")
  BY <1>3
<1>15. /\ \E x : x.pc = "held" /\ exec' = [exec EXCEPT ![e] = x]
       /\ Walker(exec[e])'
  BY <1>2, <1>4, <1>6, <1>8, <1>12, <1>13, <1>14, WalkerContinues DEF SInv
<1>16. ActorInv'
  BY <1>2, <1>3, <1>11, <1>13, <1>15, ActorStep, ZenonT(60) DEF SInv
<1> QED  BY <1>10, <1>11, <1>16

\* What ends the run with the work on a node leaves nobody, and nothing pending.
LEMMA RunEnds ==
  ASSUME SInv, NEW e \in Executors, exec[e].pc = "work", NEW s \in {"succeeded", "failed", "partial_complete"},
         SetStatus(e, s), Leave(e), req' = req, approvals' = approvals,
         \A m \in Nodes : \/ nodeStates'[m] = exec[e].ns[m]
                          \/ /\ exec[e].ns[m].st \notin {"suspended", "succeeded"}
                             /\ nodeStates'[m].st # "suspended",
         nodeStates'[Node(e)].st # "running",
         \A m \in Nodes : nodeStates'[m].st = "running" => exec[e].ns[m].st = "running"
  PROVE  AskedInv' /\ RowInv' /\ ActorInv' /\ status' = s
<1>1. status' = s /\ ~Open'
  BY AtWork DEF SetStatus, Open
<1>2. AskedInv' /\ NothingPending'
  BY AtWork, AskedFromCopy DEF SInv
<1>3. RowInv'
  BY <1>1, <1>2 DEF RowInv
<1>4. exec' = [exec EXCEPT ![e] = Idle] /\ exec'[e].pc = "idle"
  BY DEF Leave, SInv, TypeOK, Idle, At
<1>5. ActorInv'
  BY <1>2, <1>4, AtWork, ActorStep DEF SInv, Running
<1> QED  BY <1>1, <1>2, <1>3, <1>5

\* A node fails, or hits its cost cap.
LEMMA NodeEndsRunKeeps ==
  ASSUME SInv, NEW e \in Executors, NodeEndsRun(e)
  PROVE  AskedInv' /\ RowInv' /\ ActorInv' /\ status' \in {"failed", "partial_complete"}
<1>1. PICK s \in {"failed", "partial_complete"} :
        nodeStates' = [exec[e].ns EXCEPT ![Node(e)] = Entry(s)] /\ SetStatus(e, s)
  BY DEF NodeEndsRun, Ended
<1>2. exec[e].pc = "work" /\ Leave(e) /\ req' = req /\ approvals' = approvals
  BY DEF NodeEndsRun
<1>3. Entry(s).st = s
  BY DEF Entry
<1>4. exec[e].ns \in [Nodes -> NodeState] /\ Node(e) \in Nodes /\ exec[e].ns[Node(e)].st = "running"
  BY <1>2, AtWork
<1>5. \A m \in Nodes : \/ m = Node(e) /\ nodeStates'[m].st = s
                       \/ m # Node(e) /\ nodeStates'[m] = exec[e].ns[m]
  BY <1>1, <1>3, <1>4
<1> QED  BY <1>1, <1>2, <1>4, <1>5, RunEnds

\* Nothing came of a node: what is below it is skipped.
LEMMA NoSignalsKeeps ==
  ASSUME SInv, NEW e \in Executors, NoSignals(e)
  PROVE  AskedInv' /\ RowInv' /\ ActorInv' /\ status' = "succeeded"
<1>1. /\ exec[e].pc = "work" /\ Leave(e) /\ req' = req /\ approvals' = approvals
      /\ SetStatus(e, "succeeded")
      /\ nodeStates' = [m \in Nodes |->
           IF m = Node(e) THEN Entry("succeeded")
           ELSE IF m \in Below[Node(e)] /\ exec[e].ns[m].st = "absent" THEN Entry("skipped")
           ELSE exec[e].ns[m]]
  BY DEF NoSignals
<1>2. exec[e].ns \in [Nodes -> NodeState] /\ Node(e) \in Nodes /\ exec[e].ns[Node(e)].st = "running"
  BY <1>1, AtWork
<1>3. Entry("succeeded").st = "succeeded" /\ Entry("skipped").st = "skipped"
  BY DEF Entry
<1>4. \A m \in Nodes : \/ m = Node(e) /\ nodeStates'[m].st = "succeeded"
                       \/ m # Node(e) /\ exec[e].ns[m].st = "absent" /\ nodeStates'[m].st = "skipped"
                       \/ m # Node(e) /\ nodeStates'[m] = exec[e].ns[m]
  BY <1>1, <1>3
<1> QED  BY <1>1, <1>2, <1>4, RunEnds

\* A gate asks, with a row of its own, and its executor has nothing else to do.
LEMMA GateSuspendsKeeps ==
  ASSUME SInv, GatesCommand, NEW e \in Executors, GateSuspends(e)
  PROVE  AskedInv' /\ RowInv' /\ ActorInv'
<1>1. exec[e].pc = "work" /\ req' = req /\ SetStatus(e, "awaiting_approval")
      /\ nodeStates' = Ended(e, "suspended")
      /\ Continue(e, "held", Ended(e, "suspended"), "awaiting_approval")
  BY DEF GateSuspends
<1> DEFINE old == exec[e].ns
<1>2. PICK n \in Nodes : n = Node(e)
  BY <1>1, AtWork
<1>3. n \in Gates
  BY <1>2, RunAssumption DEF GateSuspends
<1>4. /\ exec[e].pc \in Running /\ e \in Alive /\ NothingPending
      /\ Open /\ status # "queued" /\ exec[e].status = status
      /\ old \in [Nodes -> NodeState] /\ Agrees(old, nodeStates) /\ Front(old)
      /\ exec[e].at \in 1..Len(Order) /\ n = Order[exec[e].at]
      /\ Len(Order) \in Nat /\ old[n].st = "running"
      /\ \A m \in Nodes : old[m].st = "running" => m = n
      /\ \A k \in 1..(exec[e].at - 1) : Done(old, Order[k])
      /\ approvals[n] = << >>
  BY <1>1, <1>2, <1>3, AtWork
<1>5. approvals' = [approvals EXCEPT ![n] = Append(approvals[n], "pending")]
  BY <1>2, <1>4 DEF GateSuspends
<1>6. Pending(n)' # {} /\ \A g \in Gates : g # n => Pending(g)' = {}
  BY <1>3, <1>4, <1>5, PendingAppended DEF SInv
<1>7. ~NothingPending' /\ status' = "awaiting_approval" /\ Open'
  BY <1>1, <1>3, <1>4, <1>6 DEF NothingPending, SetStatus, Open
<1> DEFINE ns == [old EXCEPT ![n] = Entry("suspended")]
<1>8. nodeStates' = ns /\ Ended(e, "suspended") = ns
  BY <1>1, <1>2 DEF Ended
<1>9. exec'[e] = [pc |-> "held", at |-> Len(Order) + 1, ns |-> ns,
                  status |-> "awaiting_approval", sawRow |-> FALSE]
  <2>1. TypeOK /\ exec[e].at <= Len(Order) /\ Node(e) \in Gates
    BY <1>2, <1>3, <1>4 DEF SInv
  <2>2. exec'[e] = [pc |-> "held", at |-> Len(Order) + 1, ns |-> Ended(e, "suspended"),
                    status |-> "awaiting_approval", sawRow |-> FALSE]
    BY <1>1, <2>1, AskedIsLast
  <2> QED  BY <1>8, <2>2
<1> HIDE DEF old
<1>10. Entry("suspended") \in NodeState /\ Entry("suspended").st = "suspended"
  BY EntryType DEF NodeStatus, Entry
<1>11. ns[n] = Entry("suspended") /\ \A m \in Nodes : m # n => ns[m] = old[m]
  BY <1>4
<1>12. ~Done(old, n)
  BY <1>4 DEF Done
<1>13. Front(ns)
  BY <1>4, <1>10, <1>12, FrontEntry
<1> HIDE DEF ns
<1>14. AskedInv'
  <2>1. ASSUME NEW m \in Nodes, nodeStates'[m].st = "suspended" PROVE m \in Gates
    BY <1>3, <1>4, <1>8, <1>11, <2>1 DEF SInv, AskedInv, Agrees
  <2>2. ASSUME NEW g \in Gates PROVE Pending(g)' # {} <=> nodeStates'[g] = Entry("suspended")
    <3>1. CASE g = n
      BY <1>6, <1>8, <1>11, <3>1
    <3>2. CASE g # n
      <4>1. Pending(g)' = {} /\ g \in Nodes /\ nodeStates'[g] = old[g]
        BY <1>6, <1>8, <1>11, <3>2, RunAssumption
      <4>2. nodeStates[g] # Entry("suspended")
        BY <1>4 DEF SInv, AskedInv, NothingPending
      <4> QED  BY <1>4, <1>10, <4>1, <4>2 DEF Agrees
    <3> QED  BY <3>1, <3>2
  <2>3. ASSUME NEW g \in Gates, approvals'[g] # << >>
        PROVE  nodeStates'[g].st \in {"suspended", "succeeded"}
    <3>1. CASE g = n
      BY <1>8, <1>10, <1>11, <3>1
    <3>2. CASE g # n
      <4>1. approvals'[g] = approvals[g] /\ g \in Nodes /\ nodeStates'[g] = old[g]
        BY <1>5, <1>8, <1>11, <3>2, RunAssumption DEF SInv, TypeOK
      <4> QED  BY <1>4, <2>3, <4>1 DEF SInv, AskedInv, Agrees
    <3> QED  BY <3>1, <3>2
  <2> QED  BY <2>1, <2>2, <2>3 DEF AskedInv
<1>15. RowInv'
  BY <1>7, <1>8, <1>13 DEF RowInv, Front, Done
<1>16. Walker(exec[e])'
  <2>1. ~(Len(Order) + 1 <= Len(Order))
    BY <1>4
  <2>2. Agrees(ns, nodeStates')
    BY <1>8 DEF Agrees
  <2> QED  BY <1>7, <1>9, <2>1, <2>2 DEF Walker, Agrees, Done, NothingPending
<1>17. \A m \in Nodes : nodeStates'[m].st # "running"
  BY <1>4, <1>8, <1>10, <1>11
<1>18. PICK x : exec' = [exec EXCEPT ![e] = x]
  BY <1>1 DEF Continue, WalkFrom
<1>19. ActorInv'
  BY <1>1, <1>4, <1>7, <1>16, <1>17, <1>18, ActorStep DEF SInv
<1> QED  BY <1>14, <1>15, <1>19

\* No gate waits for its upstream: the walk has done all of it.
LEMMA GateWaitsNever ==
  ASSUME SInv, Straight, NEW e \in Executors
  PROVE  ~GateWaits(e)
<1> SUFFICES ASSUME GateWaits(e) PROVE FALSE
  OBVIOUS
<1> DEFINE n == Node(e)
           ns == exec[e].ns
<1>1. exec[e].pc = "work" /\ n \in Gates /\ ~FanIn(ns, n)
  BY DEF GateWaits
<1>2. ASSUME NEW p \in Preds(n) PROVE Done(ns, p)
  <2>1. p \in Nodes /\ <<p, n>> \in Edges
    BY DEF Preds
  <2>2. PICK k \in 1..Len(Order) : Order[k] = p
    BY <2>1, GraphAssumption
  <2>3. /\ exec[e].at \in 1..Len(Order) /\ n = Order[exec[e].at] /\ Len(Order) \in Nat
        /\ \A j \in 1..(exec[e].at - 1) : Done(ns, Order[j])
    BY <1>1, AtWork
  <2>4. k < exec[e].at
    BY <2>1, <2>2, <2>3, GraphAssumption, ZenonT(60)
  <2>5. k \in 1..(exec[e].at - 1)
    BY <2>3, <2>4
  <2> QED  BY <2>2, <2>3, <2>5
<1>3. CASE n \in AnyUpstream /\ Preds(n) # {}
  <2>1. PICK p \in Preds(n) : p \notin Optional
    BY <1>3 DEF Straight
  <2> QED  BY <1>1, <1>2, <1>3, <2>1 DEF FanIn, Done
<1>4. CASE n \notin AnyUpstream \/ Preds(n) = {}
  BY <1>1, <1>2, <1>4 DEF FanIn, Done
<1> QED  BY <1>3, <1>4

\* A walk that ends has asked, and leaves the run waiting, or has done everything.
LEMMA FinishKeeps ==
  ASSUME SInv, NEW e \in Executors, Finish(e)
  PROVE  /\ AskedInv' /\ RowInv' /\ ActorInv'
         /\ nodeStates' = nodeStates
         /\ \/ status' = status
            \/ status' = "succeeded" /\ \A k \in 1..Len(Order) : Done(exec[e].ns, Order[k])
<1> DEFINE ns == exec[e].ns
<1>1. /\ exec[e].pc \in {"walk", "held"} /\ exec[e].pc \in Running /\ exec[e].at > Len(Order)
      /\ exec' = [exec EXCEPT ![e] = Idle]
      /\ nodeStates' = nodeStates /\ approvals' = approvals /\ req' = req
  BY DEF Finish, Running, Leave
<1>2. /\ e \in Alive /\ Open /\ status # "queued"
      /\ ns \in [Nodes -> NodeState] /\ exec[e].status = status /\ Agrees(ns, nodeStates)
      /\ exec[e].at \in 1..(Len(Order) + 1) /\ Len(Order) \in Nat
      /\ \A m \in Nodes : nodeStates[m].st # "running"
      /\ NothingPending => \A k \in 1..(exec[e].at - 1) : Done(ns, Order[k])
  BY <1>1, Turn
<1>3. exec[e].at = Len(Order) + 1 /\ (exec[e].at - 1) = Len(Order)
  BY <1>1, <1>2
<1>4. exec'[e].pc = "idle"
  BY <1>1 DEF SInv, TypeOK, Idle, At
<1>5. CASE NothingPending
  <2>1. \A k \in 1..Len(Order) : Done(ns, Order[k])
    BY <1>2, <1>3, <1>5
  <2>2. Suspended(ns) = {}
    <3> SUFFICES ASSUME NEW m \in Suspended(ns) PROVE FALSE
      OBVIOUS
    <3>1. m \in Nodes /\ ns[m].st = "suspended"
      BY DEF Suspended
    <3>2. PICK k \in 1..Len(Order) : Order[k] = m
      BY <3>1, GraphAssumption
    <3> QED  BY <2>1, <3>1, <3>2 DEF Done
  <2>3. status' = "succeeded"
    <3>1. status \notin Terminal /\ status # "succeeded"
      BY <1>2 DEF Open, Terminal
    <3> QED  BY <1>2, <2>2, <3>1 DEF Finish, SetStatus
  <2>4. AskedInv' /\ RowInv' /\ NothingPending'
    BY <1>1, <1>5, <2>3 DEF SInv, AskedInv, RowInv, Pending, NothingPending, Open
  <2>5. ActorInv'
    BY <1>1, <1>2, <1>4, <2>4, ActorStep DEF SInv, Running
  <2> QED  BY <1>1, <2>1, <2>3, <2>4, <2>5
<1>6. CASE ~NothingPending
  <2>1. PICK g \in Gates : nodeStates[g] = Entry("suspended")
    BY <1>6 DEF NothingPending, SInv, AskedInv
  <2>2. g \in Suspended(ns)
    BY <1>2, <2>1, RunAssumption DEF Agrees, Suspended, Entry
  <2>3. status = "awaiting_approval"
    BY <1>6 DEF SInv, RowInv
  <2>4. status' = status
    BY <1>2, <2>2, <2>3 DEF Finish, SetStatus
  <2>5. AskedInv' /\ RowInv' /\ Open'
    BY <1>1, <1>2, <2>4, RowSame DEF SInv
  <2>6. ActorInv'
    BY <1>1, <1>2, <1>4, <2>5, ActorStep DEF SInv, Running
  <2> QED  BY <1>1, <2>4, <2>5, <2>6
<1> QED  BY <1>5, <1>6

-----------------------------------------------------------------------------
(* The steps of the others *)

\* The steps of an executor keep the invariant.
LEMMA ExecuteKeepsRow ==
  ASSUME SInv, Straight, NEW e \in Executors, Execute(e)
  PROVE  AskedInv' /\ RowInv' /\ ActorInv'
<1>1. ~StopUndecided(e) /\ ~GateWaits(e)
  BY StopUndecidedNever, GateWaitsNever
<1>2. CASE Load(e) \/ Begin(e) \/ PassGate(e) \/ StopRejected(e) \/ Dispatch(e)
  BY <1>2, LoadKeeps, BeginKeeps, PassGateKeeps, StopRejectedKeeps, DispatchKeeps
<1>3. CASE NodeDone(e) \/ NodeEndsRun(e) \/ NoSignals(e)
  BY <1>3, NodeDoneKeeps, NodeEndsRunKeeps, NoSignalsKeeps
<1>4. CASE GateSuspends(e) \/ Finish(e)
  BY <1>4, GateSuspendsKeeps, FinishKeeps DEF Straight
<1> QED  BY <1>1, <1>2, <1>3, <1>4 DEF Execute

\* A decision is written over the row that the request has read.
LEMMA WriteDecisionKeeps ==
  ASSUME SInv, OneAtATime, NEW h \in Handlers, WriteDecision(h)
  PROVE  /\ AskedInv' /\ RowInv' /\ ActorInv'
         /\ req[h].gate \in Gates /\ req[h].dec \in {"approved", "rejected"}
         /\ nodeStates[req[h].gate] = Entry("suspended")
         /\ nodeStates' = [nodeStates EXCEPT ![req[h].gate].dec = req[h].dec]
         /\ status \in {"running", "awaiting_approval"} /\ status' = "running"
<1> DEFINE g == req[h].gate
           d == req[h].dec
<1>1. /\ req[h].pc = "deciding" /\ g \in Gates /\ d \in {"approved", "rejected"} /\ g \in Nodes
      /\ req[h].row \in Pending(g) /\ Alive = {}
      /\ req[h].ns = nodeStates /\ req[h].status = status
  BY RunAssumption DEF WriteDecision, SInv, TypeOK, Request, TurnInv, RequestTurn, ActorInv
<1>2. /\ nodeStates' = [nodeStates EXCEPT ![g].dec = d] /\ status' = "running"
      /\ exec' = exec /\ req' = [req EXCEPT ![h] = At("dispatch")]
  BY <1>1 DEF WriteDecision
<1>3. nodeStates[g] = Entry("suspended") /\ status = "awaiting_approval"
  BY <1>1 DEF SInv, AskedInv, RowInv, NothingPending
<1>4. nodeStates'[g] = [st |-> "suspended", dec |-> d]
      /\ \A m \in Nodes : m # g => nodeStates'[m] = nodeStates[m]
  <2>1. [Entry("suspended") EXCEPT !.dec = d] = [st |-> "suspended", dec |-> d]
    BY DEF Entry
  <2>2. nodeStates'[g] = [nodeStates[g] EXCEPT !.dec = d]
    BY <1>1, <1>2 DEF SInv, TypeOK
  <2> QED  BY <1>2, <1>3, <2>1, <2>2 DEF SInv, TypeOK
<1>5. /\ req[h].row # 0 /\ approvals' = [approvals EXCEPT ![g][req[h].row] = d]
      /\ NothingPending'
  <2>1. approvals[g] \in Seq({"pending", "approved", "rejected"})
    BY <1>1 DEF SInv, TypeOK
  <2>2. req[h].row \in 1..Len(approvals[g])
    BY <1>1, <2>1 DEF Pending
  <2>3. req[h].row # 0
    BY <2>1, <2>2
  <2>4. approvals' = [approvals EXCEPT ![g][req[h].row] = d]
    BY <2>3 DEF WriteDecision
  <2> QED  BY <1>1, <2>3, <2>4, PendingDecided DEF SInv, TurnInv
<1>6. AskedInv'
  <2>1. ASSUME NEW m \in Nodes, nodeStates'[m].st = "suspended" PROVE m \in Gates
    BY <1>1, <1>4, <2>1 DEF SInv, AskedInv
  <2>2. ASSUME NEW f \in Gates PROVE Pending(f)' = {} /\ nodeStates'[f] # Entry("suspended")
    <3>1. f = g => nodeStates'[f] # Entry("suspended")
      BY <1>1, <1>4 DEF Entry
    <3>2. ASSUME f # g PROVE nodeStates'[f] # Entry("suspended")
      <4>1. Pending(f) = {}
        BY <1>1, <3>2 DEF SInv, TurnInv, OnePending
      <4> QED  BY <1>4, <3>2, <4>1, RunAssumption DEF SInv, AskedInv
    <3> QED  BY <1>5, <3>1, <3>2 DEF NothingPending
  <2>3. ASSUME NEW f \in Gates, approvals'[f] # << >>
        PROVE  nodeStates'[f].st \in {"suspended", "succeeded"}
    <3>1. CASE f = g
      BY <1>4, <3>1
    <3>2. CASE f # g
      <4>1. approvals'[f] = approvals[f] /\ nodeStates'[f] = nodeStates[f]
        BY <1>4, <1>5, <3>2, RunAssumption DEF SInv, TypeOK
      <4> QED  BY <2>3, <4>1 DEF SInv, AskedInv
    <3> QED  BY <3>1, <3>2
  <2> QED  BY <2>1, <2>2, <2>3 DEF AskedInv
<1>7. \A m \in Nodes : nodeStates'[m].st = nodeStates[m].st
  BY <1>3, <1>4 DEF Entry
<1>8. RowInv'
  <2>1. Front(nodeStates)
    BY <1>3 DEF SInv, RowInv, Open
  <2>2. Front(nodeStates)'
    BY <1>7, <2>1, OrderType DEF Front, Done
  <2> QED  BY <1>2, <1>5, <2>2 DEF RowInv
<1>9. ActorInv'
  <2>1. \A m \in Nodes : nodeStates[m].st # "running"
    BY <1>1 DEF SInv, ActorInv
  <2>2. req'[h].pc = "dispatch" /\ \A i \in Handlers : i = h
    BY <1>2 DEF OneAtATime, SInv, TypeOK, At
  <2>3. \A e \in Executors : exec'[e].pc = "idle"
    BY <1>1, <1>2 DEF Alive
  <2> QED  BY <1>2, <1>7, <2>1, <2>2, <2>3 DEF ActorInv, Open, Running
<1> QED  BY <1>1, <1>2, <1>3, <1>6, <1>8, <1>9

\* The steps of a request keep the invariant.
LEMMA ServeKeepsRow ==
  ASSUME SInv, OneAtATime, NEW h \in Handlers, Serve(h)
  PROVE  AskedInv' /\ RowInv' /\ ActorInv'
<1>0. \A i \in Handlers : i = h
  BY DEF OneAtATime
<1>1. CASE WriteDecision(h)
  BY <1>1, WriteDecisionKeeps
<1>2. CASE ReadCancel(h) \/ WriteCancel(h)
  BY <1>2 DEF ReadCancel, WriteCancel, OneAtATime, SInv, TurnInv, RequestTurn
<1>3. CASE ReadApproval(h) \/ ReadRun(h) \/ Refuse(h) \/ SpawnFails(h)
  <2>1. /\ exec' = exec /\ status' = status /\ nodeStates' = nodeStates /\ approvals' = approvals
    BY <1>3 DEF ReadApproval, ReadRun, Refuse, SpawnFails
  <2>2. AskedInv' /\ RowInv' /\ (NothingPending' <=> NothingPending) /\ (Open' <=> Open)
    BY <2>1, RowSame DEF SInv
  <2>3. /\ Alive' = Alive
        /\ \A e \in Executors : exec'[e].pc \in Running => Walker(exec[e])'
    BY <2>1, <2>2 DEF SInv, ActorInv, Alive, Walker, Agrees, Done
  <2>4. CASE ReadApproval(h)
    <3>1. PICK g \in Gates : Pending(g) # {}
      <4>1. PICK c \in Channels, g \in Gates : Accepts(c, g)
        BY <2>4 DEF ReadApproval
      <4> QED  BY <4>1 DEF OneAtATime, Accepts
    <3>2. ~NothingPending /\ Open
      BY <3>1 DEF NothingPending, SInv, RowInv, Open
    <3>3. \A n \in Nodes : nodeStates[n].st # "running"
      BY <3>2 DEF SInv, ActorInv
    <3>4. req'[h].pc = "chosen"
      BY <2>4 DEF ReadApproval, SInv, TypeOK
    <3> QED  BY <1>0, <2>1, <2>2, <2>3, <3>2, <3>3, <3>4 DEF ActorInv, Running
  <2>5. CASE ReadRun(h)
    <3>1. req'[h].ns = nodeStates /\ req'[h].status = status /\ req[h].pc = "chosen"
      BY <2>5 DEF ReadRun, SInv, TypeOK
    <3>2. Open /\ \A n \in Nodes : nodeStates[n].st # "running"
      BY <3>1 DEF SInv, ActorInv
    <3> QED  BY <1>0, <2>1, <2>2, <2>3, <3>1, <3>2 DEF ActorInv, Running
  <2>6. CASE Refuse(h) \/ SpawnFails(h)
    <3>1. req'[h].pc = "idle" /\ req[h].pc # "idle"
      BY <2>6 DEF Refuse, SpawnFails, SInv, TypeOK, Idle, At
    <3>2. Open /\ \A n \in Nodes : nodeStates[n].st # "running"
      BY <3>1 DEF SInv, ActorInv
    <3> QED  BY <1>0, <2>1, <2>2, <2>3, <3>1, <3>2 DEF ActorInv, Running
  <2> QED  BY <1>3, <2>2, <2>4, <2>5, <2>6
<1>4. CASE Spawn(h)
  <2>1. /\ status' = status /\ nodeStates' = nodeStates /\ approvals' = approvals
        /\ req[h].pc = "dispatch" /\ req'[h].pc = "idle"
    BY <1>4 DEF Spawn, SInv, TypeOK, Idle, At
  <2>2. AskedInv' /\ RowInv' /\ (Open' <=> Open)
    BY <2>1, RowSame DEF SInv
  <2>3. Open /\ Alive = {} /\ \A n \in Nodes : nodeStates[n].st # "running"
    BY <2>1 DEF SInv, ActorInv, TurnInv, RequestTurn
  <2>4. PICK e \in Executors : exec' = [exec EXCEPT ![e] = At("spawned")]
    BY <1>4 DEF Spawn
  <2>5. \A f \in Executors : exec'[f].pc \in {"idle", "spawned"}
    BY <2>3, <2>4 DEF SInv, TypeOK, Alive, At
  <2> QED  BY <1>0, <2>1, <2>2, <2>3, <2>5 DEF ActorInv, Running
<1> QED  BY <1>1, <1>2, <1>3, <1>4 DEF Serve

\* An executor that dies leaves the row as it was; a run it had not begun has failed.
LEMMA DeathKeeps ==
  ASSUME SInv, NEW e \in Executors, Kill(e) \/ Raise(e)
  PROVE  AskedInv' /\ RowInv' /\ ActorInv'
<1>1. /\ e \in Alive /\ exec' = [exec EXCEPT ![e] = Idle]
      /\ nodeStates' = nodeStates /\ approvals' = approvals /\ req' = req
      /\ status' = status \/ (status = "queued" /\ status' = "failed")
  BY DEF Kill, Raise, Leave
<1>2. exec'[e].pc = "idle" /\ exec'[e].pc \notin Running
  BY <1>1 DEF Alive, SInv, TypeOK, Idle, At, Running
<1>3. AskedInv' /\ RowInv' /\ (NothingPending' <=> NothingPending)
  <2>1. CASE status' = status
    BY <1>1, <2>1, RowSame DEF SInv
  <2>2. CASE status = "queued" /\ status' = "failed"
    BY <1>1, <2>2 DEF SInv, AskedInv, RowInv, Pending, NothingPending, Open
  <2> QED  BY <1>1, <2>1, <2>2
<1>4. \A n \in Nodes : nodeStates'[n].st = "running" => NothingPending'
  BY <1>1, <1>3 DEF SInv, ActorInv
<1> QED  BY <1>1, <1>2, <1>3, <1>4, ActorStep DEF SInv

\* Every step keeps the invariant.
LEMMA SInvNext ==
  ASSUME SInv, OneAtATime, Straight, [Next]_vars
  PROVE  SInv'
<1>0. TypeOK' /\ TurnInv'
  BY TypeNext, TurnNext DEF SInv, Straight
<1>1. CASE \E e \in Executors : Execute(e)
  BY <1>0, <1>1, ExecuteKeepsRow DEF SInv
<1>2. CASE \E h \in Handlers : Serve(h)
  BY <1>0, <1>2, ServeKeepsRow DEF SInv
<1>3. CASE \E e \in Executors : Kill(e) \/ Raise(e)
  BY <1>0, <1>3, DeathKeeps DEF SInv
<1>4. CASE Restart
  BY <1>4 DEF Restart, Fails, OneAtATime
<1>5. CASE Sweep \/ Recover
  BY <1>5 DEF Sweep, Recover, SInv, TurnInv
<1>6. CASE UNCHANGED vars
  <2>1. /\ exec' = exec /\ req' = req /\ status' = status /\ nodeStates' = nodeStates
        /\ approvals' = approvals
    BY <1>6 DEF vars
  <2>2. AskedInv' /\ RowInv' /\ (NothingPending' <=> NothingPending) /\ (Open' <=> Open)
    BY <2>1, RowSame DEF SInv
  <2>3. ActorInv'
    BY <2>1, <2>2 DEF SInv, ActorInv, Alive, Walker, Agrees, Done, Node
  <2> QED  BY <1>0, <2>2, <2>3 DEF SInv
<1> QED  BY <1>1, <1>2, <1>3, <1>4, <1>5, <1>6 DEF Next

\* The first state has the invariant.
LEMMA SInvInit == ASSUME OneAtATime, Init PROVE SInv
<1>1. TypeOK /\ TurnInv
  BY TypeInit, TurnInit
<1>2. /\ \A n \in Nodes : nodeStates[n] = Entry("absent") /\ nodeStates[n].st = "absent"
      /\ \A g \in Gates : approvals[g] = << >> /\ g \in Nodes
      /\ status = "queued"
  BY RunAssumption DEF Init, Entry
<1>3. NothingPending /\ \A g \in Gates : Pending(g) = {}
  BY <1>2 DEF NothingPending, Pending
<1>4. Entry("suspended").st = "suspended"
  BY DEF Entry
<1>5. AskedInv
  BY <1>2, <1>3, <1>4 DEF AskedInv
<1>6. RowInv
  BY <1>2, <1>3, OrderType DEF RowInv, Open, Front
<1>7. ActorInv
  <2>1. \A e \in Executors : exec[e].pc = "idle"
    BY DEF Init, Idle, At
  <2>2. \A h \in Handlers : req[h].pc \in {"idle", "dispatch"}
    BY DEF Init, Idle, At
  <2> QED  BY <1>2, <2>1, <2>2 DEF ActorInv, Open, Running
<1> QED  BY <1>1, <1>5, <1>6, <1>7 DEF SInv

-----------------------------------------------------------------------------
(* The theorems *)

\* A run at rest in awaiting_approval has an undecided gate with a pending row, so that
\* somebody can still decide it; one request at a time, in every straight pipeline.
THEOREM WaitingIsDecidable ==
  ASSUME OneAtATime, Straight
  PROVE  Spec => []WaitingCanBeDecided
<1>1. Init => SInv
  BY SInvInit
<1>2. SInv /\ [Next]_vars => SInv'
  BY SInvNext
<1>3. SInv => WaitingCanBeDecided
  <2> SUFFICES ASSUME SInv, status = "awaiting_approval"
               PROVE  \E g \in Gates : nodeStates[g] = Entry("suspended") /\ Pending(g) # {}
    BY DEF WaitingCanBeDecided
  <2>1. PICK g \in Gates : Pending(g) # {}
    BY DEF SInv, RowInv, NothingPending
  <2> QED  BY <2>1 DEF SInv, AskedInv
<1> QED  BY <1>1, <1>2, <1>3, PTL DEF Spec

\* What a copy says of a gate that is decided: what the row says, or that it was passed.
LEMMA DecidedInCopy ==
  ASSUME SInv, NEW e \in Executors, exec[e].pc \in Running, NEW g \in Gates,
         nodeStates[g].st = "suspended", nodeStates'[g] = exec[e].ns[g]
  PROVE  nodeStates'[g] = nodeStates[g] \/ nodeStates'[g].st = "succeeded"
  BY Turn, RunAssumption DEF Agrees

\* A committed decision stays on the row until the executor has passed the gate: no writer
\* of node_states puts back a copy without it.
THEOREM DecisionsStay ==
  ASSUME OneAtATime, Straight
  PROVE  Spec => DecisionIsKept
<1> DEFINE Kept(g) == nodeStates'[g] = nodeStates[g] \/ nodeStates'[g].st = "succeeded"
<1>1. Init => SInv
  BY SInvInit
<1>2. SInv /\ [Next]_vars => SInv'
  BY SInvNext
<1>3. ASSUME SInv, [Next]_vars, NEW g \in Gates, nodeStates[g].st = "suspended",
             nodeStates[g].dec # "none"
      PROVE  Kept(g)
  <2>0. g \in Nodes /\ nodeStates[g] # Entry("suspended")
    BY <1>3, RunAssumption DEF Entry
  <2>1. ASSUME NEW e \in Executors, Execute(e) PROVE Kept(g)
    <3>1. CASE Dispatch(e)
      <4>1. /\ exec[e].pc \in Running /\ exec[e].at <= Len(Order)
            /\ exec[e].ns[Node(e)].st # "suspended"
            /\ nodeStates' = [exec[e].ns EXCEPT ![Node(e)] = Entry("running")]
        BY <3>1 DEF Dispatch, Walking, Running
      <4>2. exec[e].ns \in [Nodes -> NodeState] /\ Agrees(exec[e].ns, nodeStates)
            /\ exec[e].ns[Node(e)].st \notin Terminal
        BY <1>3, <4>1, Turn
      <4>3. g # Node(e)
        BY <1>3, <2>0, <4>1, <4>2 DEF Agrees, Terminal
      <4> QED  BY <1>3, <2>0, <4>1, <4>2, <4>3, DecidedInCopy
    <3>2. CASE NodeDone(e) \/ NodeEndsRun(e) \/ NoSignals(e) \/ GateSuspends(e)
      <4>1. exec[e].pc = "work" /\ exec[e].pc \in Running
        BY <3>2 DEF NodeDone, NodeEndsRun, NoSignals, GateSuspends, Running
      <4>2. /\ exec[e].ns \in [Nodes -> NodeState] /\ Agrees(exec[e].ns, nodeStates)
            /\ nodeStates[Node(e)].st = "running"
        BY <1>3, <4>1, AtWork
      <4>3. g # Node(e) /\ exec[e].ns[g].st # "absent"
        BY <1>3, <2>0, <4>2 DEF Agrees
      <4>4. nodeStates'[g] = exec[e].ns[g]
        BY <2>0, <3>2, <4>2, <4>3 DEF NodeDone, NodeEndsRun, NoSignals, GateSuspends, Ended
      <4> QED  BY <1>3, <4>1, <4>4, DecidedInCopy
    <3>3. ~GateWaits(e)
      BY <1>3, GateWaitsNever
    <3> QED  BY <2>1, <3>1, <3>2, <3>3 DEF Execute, Load, Begin, PassGate, StopRejected,
                                           StopUndecided, Finish
  <2>2. ASSUME NEW h \in Handlers, Serve(h) PROVE Kept(g)
    <3>1. CASE WriteDecision(h)
      <4>1. /\ nodeStates[req[h].gate] = Entry("suspended")
            /\ nodeStates' = [nodeStates EXCEPT ![req[h].gate].dec = req[h].dec]
        BY <1>3, <3>1, WriteDecisionKeeps
      <4>2. g # req[h].gate
        BY <2>0, <4>1
      <4> QED  BY <2>0, <4>1, <4>2 DEF SInv, TypeOK
    <3> QED  BY <2>2, <3>1 DEF Serve, ReadApproval, ReadRun, Refuse, Spawn, SpawnFails,
                               ReadCancel, WriteCancel
  <2> QED  BY <1>3, <2>1, <2>2 DEF Next, Kill, Raise, Restart, Sweep, Recover, vars
<1>4. SInv /\ [Next]_vars =>
        [\A g \in Gates :
           nodeStates[g].st = "suspended" /\ nodeStates[g].dec # "none"
             => nodeStates'[g] = nodeStates[g] \/ nodeStates'[g].st = "succeeded"]_vars
  BY <1>3
<1> QED  BY <1>1, <1>2, <1>4, PTL DEF Spec, DecisionIsKept

-----------------------------------------------------------------------------
(***************************************************************************)
(* The row implements GatedRun: each step of a process is a step of the    *)
(* promise, or one that its readers do not see.                            *)
(***************************************************************************)
Marks == [n \in Nodes |-> MarkOf(n)]
Result == IF Open THEN "open" ELSE status

\* How the entries of a row in use are read.
LEMMA MarkIs ==
  \A n \in Nodes :
    /\ nodeStates[n].st = "absent" => MarkOf(n) = "todo"
    /\ nodeStates[n].st = "running" => MarkOf(n) = "started"
    /\ Done(nodeStates, n) \/ nodeStates[n].st = "skipped" => MarkOf(n) = "done"
    /\ nodeStates[n].st = "partial_complete" => MarkOf(n) = "failed"
    /\ nodeStates[n].st = "failed" /\ n \notin Optional => MarkOf(n) = "failed"
    /\ nodeStates[n] = Entry("suspended") => MarkOf(n) = "asked"
    /\ nodeStates[n] = [st |-> "suspended", dec |-> "approved"] => MarkOf(n) = "done"
    /\ nodeStates[n] = [st |-> "suspended", dec |-> "rejected"] => MarkOf(n) = "refused"
  BY DEF MarkOf, Done, Entry

\* The same of the row that a step leaves.
LEMMA MarkWillBe ==
  \A n \in Nodes :
    /\ nodeStates'[n].st = "absent" => MarkOf(n)' = "todo"
    /\ nodeStates'[n].st = "running" => MarkOf(n)' = "started"
    /\ Done(nodeStates', n) \/ nodeStates'[n].st = "skipped" => MarkOf(n)' = "done"
    /\ nodeStates'[n].st = "partial_complete" => MarkOf(n)' = "failed"
    /\ nodeStates'[n].st = "failed" /\ n \notin Optional => MarkOf(n)' = "failed"
    /\ nodeStates'[n] = Entry("suspended") => MarkOf(n)' = "asked"
    /\ nodeStates'[n] = [st |-> "suspended", dec |-> "approved"] => MarkOf(n)' = "done"
    /\ nodeStates'[n] = [st |-> "suspended", dec |-> "rejected"] => MarkOf(n)' = "refused"
  BY DEF MarkOf, Done, Entry

\* A row with the same entry at n is read the same there.
LEMMA MarkSame == \A n \in Nodes : nodeStates'[n] = nodeStates[n] => MarkOf(n)' = MarkOf(n)
  BY DEF MarkOf

\* What is written from a copy reads as before, but for the node at hand.
LEMMA MarksFromCopy ==
  ASSUME SInv, NEW e \in Executors, exec[e].pc \in Running, NEW n \in Nodes,
         \A m \in Nodes : m # n => nodeStates'[m] = exec[e].ns[m]
  PROVE  Marks' = [Marks EXCEPT ![n] = MarkOf(n)']
<1>1. ASSUME NEW m \in Nodes, m # n PROVE MarkOf(m)' = MarkOf(m)
  <2>1. CASE nodeStates'[m] = nodeStates[m]
    BY <2>1, MarkSame
  <2>2. CASE /\ nodeStates[m] = [st |-> "suspended", dec |-> "approved"]
             /\ nodeStates'[m] = [st |-> "succeeded", dec |-> "approved"]
    <3>1. MarkOf(m) = "done"
      BY <2>2, MarkIs
    <3>2. Done(nodeStates', m)
      BY <2>2 DEF Done
    <3> QED  BY <3>1, <3>2, MarkWillBe
  <2> QED  BY <1>1, <2>1, <2>2, Turn DEF Agrees
<1> QED  BY <1>1 DEF Marks

\* A node that is done in a copy is done for the readers of the row.
LEMMA DoneIsDone ==
  ASSUME SInv, NEW e \in Executors, exec[e].pc \in Running, NEW m \in Nodes,
         Done(exec[e].ns, m)
  PROVE  MarkOf(m) = "done"
<1>1. Agrees(exec[e].ns, nodeStates)
  BY Turn
<1>2. Done(nodeStates, m) \/ nodeStates[m] = [st |-> "suspended", dec |-> "approved"]
  BY <1>1 DEF Agrees, Done
<1> QED  BY <1>2, MarkIs

\* The reachability of the promise is that of the run.
LEMMA PromiseGraph == Promise!Below = Below /\ \A n : Promise!Preds(n) = Preds(n)
  BY DEF Promise!Below, Promise!Succs, Promise!Closed, Promise!Preds, Below, Succs, Closed, Preds

\* What the readers see of the first state.
LEMMA PromiseInit == Init => Promise!Init
<1> SUFFICES ASSUME Init PROVE Promise!Init
  OBVIOUS
<1>1. \A n \in Nodes : MarkOf(n) = "todo"
  BY MarkIs DEF Init, Entry
<1> QED  BY <1>1 DEF Init, Promise!Init

\* A step that leaves the row alone, and does not end the run, is not seen.
LEMMA Unseen ==
  ASSUME nodeStates' = nodeStates, (Open /\ Open') \/ status' = status
  PROVE  UNCHANGED Promise!vars
<1>1. Marks' = Marks
  BY MarkSame DEF Marks
<1>2. Result' = Result
  BY DEF Result, Open
<1> QED  BY <1>1, <1>2 DEF Promise!vars, Marks, Result, Open

\* A node is dispatched: the promise starts it.
LEMMA DispatchStarts ==
  ASSUME SInv, NEW e \in Executors, Dispatch(e)
  PROVE  Promise!Next
<1>1. /\ exec[e].pc \in {"walk", "held"} /\ exec[e].pc \in Running /\ exec[e].at <= Len(Order)
      /\ exec[e].ns[Node(e)].st # "suspended"
      /\ nodeStates' = [exec[e].ns EXCEPT ![Node(e)] = Entry("running")] /\ status' = status
  BY DEF Dispatch, Walking, Running
<1>2. NothingPending
  BY <1>1, NothingAsked DEF SInv, Running
<1>3. PICK n \in Nodes : n = Node(e)
  BY <1>1, Turn
<1> DEFINE old == exec[e].ns
<1>4. /\ Open /\ old \in [Nodes -> NodeState] /\ Agrees(old, nodeStates) /\ Front(old)
      /\ exec[e].at \in 1..Len(Order) /\ n = Order[exec[e].at] /\ Len(Order) \in Nat
      /\ \A k \in 1..(exec[e].at - 1) : Done(old, Order[k])
      /\ \A m \in Nodes : nodeStates[m].st # "running"
      /\ old[n].st \notin Terminal
  BY <1>1, <1>2, <1>3, Turn
<1>5. nodeStates[n].st = "absent"
  <2>1. old[n].st \in {"absent", "running"}
    BY <1>1, <1>3, <1>4 DEF Front, Done, Terminal
  <2> QED  BY <1>4, <2>1 DEF Agrees
<1>6. nodeStates'[n].st = "running" /\ \A m \in Nodes : m # n => nodeStates'[m] = old[m]
  BY <1>1, <1>3, <1>4 DEF Entry
<1>7. Marks[n] = "todo" /\ Marks' = [Marks EXCEPT ![n] = "started"]
  BY <1>1, <1>5, <1>6, MarkIs, MarkWillBe, MarksFromCopy DEF Marks
<1>8. ASSUME NEW m \in Nodes PROVE Marks[m] # "started"
  <2>1. nodeStates[m].st \in {"absent", "suspended"} \/ Done(nodeStates, m)
    BY <1>4 DEF SInv, RowInv, Front
  <2>2. nodeStates[m].st = "suspended" =>
          /\ nodeStates[m] \in NodeState
          /\ nodeStates[m] \in {Entry("suspended"), [st |-> "suspended", dec |-> "approved"],
                                [st |-> "suspended", dec |-> "rejected"]}
    BY DEF SInv, TypeOK, NodeState, Decision, Entry
  <2> QED  BY <2>1, <2>2, MarkIs DEF Marks
<1>9. ASSUME NEW m \in Preds(n) PROVE Marks[m] = "done"
  <2>1. m \in Nodes /\ <<m, n>> \in Edges
    BY DEF Preds
  <2>2. PICK k \in 1..Len(Order) : Order[k] = m
    BY <2>1, GraphAssumption
  <2>3. k < exec[e].at
    BY <1>4, <2>1, <2>2, GraphAssumption
  <2>4. Done(old, m)
    BY <1>4, <2>2, <2>3
  <2> QED  BY <1>1, <2>1, <2>4, DoneIsDone DEF Marks
<1>10. Result = "open" /\ Result' = "open"
  BY <1>1, <1>4 DEF Result, Open
<1>11. Promise!Start(n)
  BY <1>7, <1>8, <1>9, <1>10, PromiseGraph DEF Promise!Start, Promise!Move, Marks, Result, Open
<1> QED  BY <1>11 DEF Promise!Next

\* The marks after the work on a node, and its entry.
LEMMA WorkMarks ==
  ASSUME SInv, NEW e \in Executors, exec[e].pc = "work", NEW n \in Nodes, n = Node(e),
         NEW s \in NodeStatus, nodeStates' = Ended(e, s)
  PROVE  /\ Marks[n] = "started" /\ Result = "open"
         /\ nodeStates'[n] = Entry(s)
         /\ Marks' = [Marks EXCEPT ![n] = MarkOf(n)']
<1>1. /\ exec[e].pc \in Running /\ Open /\ exec[e].ns \in [Nodes -> NodeState]
      /\ nodeStates[n].st = "running"
  BY AtWork
<1>2. nodeStates'[n] = Entry(s) /\ \A m \in Nodes : m # n => nodeStates'[m] = exec[e].ns[m]
  BY <1>1 DEF Ended
<1>3. Marks' = [Marks EXCEPT ![n] = MarkOf(n)']
  BY <1>1, <1>2, MarksFromCopy
<1> QED  BY <1>1, <1>2, <1>3, MarkIs DEF Marks, Result

\* The work on a node ends: the promise completes it, fails or asks.
LEMMA NodeDoneCompletes ==
  ASSUME SInv, Straight, NEW e \in Executors, NodeDone(e)
  PROVE  Promise!Next
<1>1. exec[e].pc = "work" /\ status' = status
  BY DEF NodeDone
<1>2. PICK n \in Nodes : n = Node(e)
  BY <1>1, AtWork
<1>3. PICK s \in Outcomes[n] \cap {"succeeded", "failed"} :
        (s = "failed" => n \in Optional) /\ nodeStates' = Ended(e, s)
  BY <1>2 DEF NodeDone
<1>4. n \notin Gates
  BY <1>3, RunAssumption DEF Straight
<1>5. /\ Marks[n] = "started" /\ Result = "open" /\ nodeStates'[n] = Entry(s)
      /\ Marks' = [Marks EXCEPT ![n] = MarkOf(n)']
  BY <1>1, <1>2, <1>3, WorkMarks DEF NodeStatus
<1>6. MarkOf(n)' = "done"
  BY <1>3, <1>5, MarkWillBe DEF Done, Entry
<1>7. Result' = Result
  BY <1>1 DEF Result, Open
<1>8. Promise!Complete(n)
  BY <1>4, <1>5, <1>6, <1>7 DEF Promise!Complete, Promise!Move, Marks, Result, Open
<1> QED  BY <1>8 DEF Promise!Next

\* A node has ended and the run fails: the promise ends the node, and the run with it.
LEMMA NodeEndsRunFails ==
  ASSUME SInv, NEW e \in Executors, NodeEndsRun(e)
  PROVE  Promise!Next
<1>1. exec[e].pc = "work"
  BY DEF NodeEndsRun
<1>2. PICK n \in Nodes : n = Node(e)
  BY <1>1, AtWork
<1>3. PICK s \in {"failed", "partial_complete"} :
        (s = "failed" => n \notin Optional) /\ nodeStates' = Ended(e, s) /\ SetStatus(e, s)
  BY <1>2 DEF NodeEndsRun
<1>4. /\ Marks[n] = "started" /\ Result = "open" /\ nodeStates'[n] = Entry(s)
      /\ Marks' = [Marks EXCEPT ![n] = MarkOf(n)']
  BY <1>1, <1>2, <1>3, WorkMarks DEF NodeStatus
<1>5. MarkOf(n)' = "failed"
  BY <1>3, <1>4, MarkWillBe DEF Entry
<1>6. Result' \in {"failed", "partial_complete"}
  <2>1. status' = s
    BY <1>1, <1>3, AtWork DEF SetStatus, Open
  <2> QED  BY <1>3, <2>1 DEF Result, Open
<1>7. Promise!Fail(n)
  BY <1>4, <1>5, <1>6 DEF Promise!Fail, Promise!Move, Marks, Result, Open
<1> QED  BY <1>7 DEF Promise!Next

\* A gate suspends and asks: the promise parks the gate.
LEMMA GateSuspendsAsks ==
  ASSUME SInv, NEW e \in Executors, GateSuspends(e)
  PROVE  Promise!Next
<1>1. /\ exec[e].pc = "work" /\ nodeStates' = Ended(e, "suspended")
      /\ SetStatus(e, "awaiting_approval")
  BY DEF GateSuspends
<1>2. PICK n \in Nodes : n = Node(e)
  BY <1>1, AtWork
<1>3. n \in Gates
  BY <1>2, RunAssumption DEF GateSuspends
<1>4. /\ Marks[n] = "started" /\ Result = "open" /\ nodeStates'[n] = Entry("suspended")
      /\ Marks' = [Marks EXCEPT ![n] = MarkOf(n)']
  BY <1>1, <1>2, WorkMarks DEF NodeStatus
<1>5. MarkOf(n)' = "asked"
  BY <1>4, MarkWillBe
<1>6. Result' = "open"
  BY <1>1, AtWork DEF SetStatus, Result, Open
<1>7. Promise!Ask(n)
  BY <1>4, <1>5, <1>6 DEF Promise!Ask, Promise!Move, Marks, Result, Open
<1> QED  BY <1>3, <1>7 DEF Promise!Next

\* Nothing came of a node that commands the rest: all of it counts as done.
LEMMA NoSignalsEmpties ==
  ASSUME SInv, Straight, NEW e \in Executors, NoSignals(e)
  PROVE  Promise!Next
<1>1. exec[e].pc = "work" /\ exec[e].pc \in Running
  BY DEF NoSignals, Running
<1>2. PICK n \in Nodes : n = Node(e)
  BY <1>1, AtWork
<1> DEFINE old == exec[e].ns
<1>3. /\ Open /\ old \in [Nodes -> NodeState] /\ Agrees(old, nodeStates)
      /\ exec[e].at \in 1..Len(Order) /\ n = Order[exec[e].at] /\ Len(Order) \in Nat
      /\ \A k \in 1..(exec[e].at - 1) : Done(old, Order[k])
      /\ \A j \in 1..Len(Order) : exec[e].at < j => old[Order[j]].st = "absent"
      /\ nodeStates[n].st = "running"
  BY <1>1, <1>2, AtWork
<1>4. nodeStates' = [m \in Nodes |->
        IF m = n THEN Entry("succeeded")
        ELSE IF m \in Below[n] /\ old[m].st = "absent" THEN Entry("skipped")
        ELSE old[m]]
  BY <1>2 DEF NoSignals
<1>5. Commands(n)
  BY <1>2 DEF NoSignals, Straight
<1>6. \A m \in Below[n] : m \in Nodes /\ m # n /\ old[m].st = "absent"
  <2> SUFFICES ASSUME NEW m \in Below[n] PROVE m \in Nodes /\ m # n /\ old[m].st = "absent"
    OBVIOUS
  <2>1. m \in Nodes
    BY BelowType
  <2>2. PICK j \in 1..Len(Order) : Order[j] = m
    BY <2>1, GraphAssumption
  <2>3. exec[e].at < j
    BY <1>3, <2>2, BelowComesLater
  <2>4. m # n
    <3>1. exec[e].at # j /\ exec[e].at \in 1..Len(Order)
      BY <1>3, <2>3
    <3>2. \A i, k \in 1..Len(Order) : Order[i] = Order[k] => i = k
      BY GraphAssumption
    <3>3. Order[exec[e].at] # Order[j]
      BY <3>1, <3>2, <2>2
    <3> QED  BY <1>3, <2>2, <3>3
  <2> QED  BY <1>3, <2>1, <2>2, <2>3, <2>4
<1>7. ASSUME NEW m \in Nodes, m = n \/ m \in Below[n] PROVE MarkOf(m)' = "done"
  <2>1. nodeStates'[m].st \in {"succeeded", "skipped"}
    BY <1>4, <1>6, <1>7 DEF Entry
  <2> QED  BY <2>1, MarkWillBe DEF Done
<1>8. ASSUME NEW m \in Nodes, m # n, m \notin Below[n]
      PROVE  MarkOf(m)' = "done" /\ MarkOf(m) = "done"
  <2>1. PICK k \in 1..Len(Order) : Order[k] = m
    BY GraphAssumption
  <2>2. k # exec[e].at
    BY <1>3, <1>8, <2>1
  <2>3. ~(exec[e].at < k)
    BY <1>3, <1>5, <1>8, <2>1 DEF Commands
  <2>4. k \in 1..(exec[e].at - 1)
    BY <1>3, <2>2, <2>3
  <2>5. Done(old, m)
    BY <1>3, <2>1, <2>4
  <2>6. nodeStates'[m] = old[m]
    BY <1>4, <1>8
  <2>7. Done(nodeStates', m)
    BY <2>5, <2>6 DEF Done
  <2> QED  BY <1>1, <2>5, <2>7, DoneIsDone, MarkWillBe
<1>9. Marks' = [m \in Nodes |-> IF m = n \/ m \in Below[n] THEN "done" ELSE Marks[m]]
  BY <1>7, <1>8 DEF Marks
<1>10. \A m \in Nodes : Marks'[m] = "done"
  BY <1>7, <1>8 DEF Marks
<1>11. Marks[n] = "started" /\ Result = "open"
  BY <1>3, MarkIs DEF Marks, Result
<1>12. Result' = "succeeded"
  <2>1. status' = "succeeded"
    BY NoSignalsKeeps
  <2> QED  BY <2>1 DEF Result, Open
<1>13. Promise!Empty(n)
  BY <1>9, <1>10, <1>11, <1>12, PromiseGraph DEF Promise!Empty, Marks, Result, Open
<1> QED  BY <1>13 DEF Promise!Next

\* A request decides: the promise agrees or refuses.
LEMMA DecisionSettles ==
  ASSUME SInv, OneAtATime, NEW h \in Handlers, WriteDecision(h)
  PROVE  Promise!Next
<1>1. PICK g \in Gates, d \in {"approved", "rejected"} :
        /\ nodeStates[g] = Entry("suspended")
        /\ nodeStates' = [nodeStates EXCEPT ![g].dec = d]
        /\ Open /\ Open'
  BY WriteDecisionKeeps DEF Open
<1>2. g \in Nodes
  BY RunAssumption
<1>3. nodeStates'[g] = [st |-> "suspended", dec |-> d]
      /\ \A m \in Nodes : m # g => nodeStates'[m] = nodeStates[m]
  <2>1. [Entry("suspended") EXCEPT !.dec = d] = [st |-> "suspended", dec |-> d]
    BY DEF Entry
  <2>2. nodeStates \in [Nodes -> NodeState]
    BY DEF SInv, TypeOK
  <2> QED  BY <1>1, <1>2, <2>1, <2>2
<1>4. Marks[g] = "asked" /\ Marks' = [Marks EXCEPT ![g] = MarkOf(g)']
  BY <1>1, <1>2, <1>3, MarkIs, MarkSame DEF Marks
<1>5. Result = "open" /\ Result' = "open"
  BY <1>1 DEF Result
<1>6. CASE d = "approved"
  <2>1. MarkOf(g)' = "done"
    BY <1>2, <1>3, <1>6, MarkWillBe
  <2>2. Promise!Agree(g)
    BY <1>4, <1>5, <2>1 DEF Promise!Agree, Promise!Move, Marks, Result, Open
  <2> QED  BY <2>2 DEF Promise!Next
<1>7. CASE d = "rejected"
  <2>1. MarkOf(g)' = "refused"
    BY <1>2, <1>3, <1>7, MarkWillBe
  <2>2. Promise!Refuse(g)
    BY <1>4, <1>5, <2>1 DEF Promise!Refuse, Promise!Move, Marks, Result, Open
  <2> QED  BY <2>2 DEF Promise!Next
<1> QED  BY <1>6, <1>7

\* The run ends at a gate that was refused.
LEMMA StopRejectedEnds ==
  ASSUME SInv, NEW e \in Executors, StopRejected(e)
  PROVE  Promise!Next
<1>1. /\ exec[e].pc \in Running /\ exec[e].at <= Len(Order)
      /\ exec[e].ns[Node(e)].st = "suspended" /\ exec[e].ns[Node(e)].dec = "rejected"
      /\ nodeStates' = nodeStates
  BY DEF StopRejected, AtGate, Walking, Running
<1>2. PICK n \in Nodes : n = Node(e)
  BY <1>1, Turn
<1>3. Open /\ Agrees(exec[e].ns, nodeStates) /\ exec[e].ns[n] \in NodeState
  BY <1>1, <1>2, Turn
<1>4. nodeStates[n] = [st |-> "suspended", dec |-> "rejected"] /\ n \in Gates
  BY <1>1, <1>2, <1>3 DEF Agrees, NodeState, SInv, AskedInv
<1>5. Marks[n] = "refused" /\ Marks' = Marks
  BY <1>1, <1>4, MarkIs, MarkSame DEF Marks
<1>6. Result = "open" /\ Result' = "failed"
  <2>1. status' = "failed"
    BY StopRejectedKeeps
  <2> QED  BY <1>3, <2>1 DEF Result, Open
<1>7. Promise!EndRefused /\ UNCHANGED Marks
  BY <1>4, <1>5, <1>6 DEF Promise!EndRefused, Marks, Result, Open
<1> QED  BY <1>7 DEF Promise!Next, Marks

\* The end of the walk is the end of the run, or nothing is seen of it.
LEMMA FinishSucceeds ==
  ASSUME SInv, NEW e \in Executors, Finish(e)
  PROVE  Promise!Next \/ UNCHANGED Promise!vars
<1>1. exec[e].pc \in Running /\ nodeStates' = nodeStates
  BY DEF Finish, Running
<1>2. CASE status' = status
  BY <1>1, <1>2, Unseen
<1>3. CASE status' = "succeeded" /\ \A k \in 1..Len(Order) : Done(exec[e].ns, Order[k])
  <2>1. \A m \in Nodes : Done(exec[e].ns, m)
    BY <1>3, GraphAssumption, SMTT(30)
  <2>2. \A m \in Nodes : Marks[m] = "done"
    BY <1>1, <2>1, DoneIsDone DEF Marks
  <2>3. Result = "open" /\ Result' = "succeeded"
    BY <1>1, <1>3, Turn DEF Result, Open
  <2>4. Marks' = Marks
    BY <1>1, MarkSame DEF Marks
  <2>5. Promise!Succeed /\ UNCHANGED Marks
    BY <2>2, <2>3, <2>4 DEF Promise!Succeed, Marks, Result, Open
  <2> QED  BY <2>5 DEF Promise!Next, Marks
<1> QED  BY <1>2, <1>3, FinishKeeps

\* An executor that breaks down before the run has begun ends it.
LEMMA DeathEnds ==
  ASSUME SInv, NEW e \in Executors, Kill(e) \/ Raise(e)
  PROVE  Promise!Next \/ UNCHANGED Promise!vars
<1>1. nodeStates' = nodeStates /\ (status' = status \/ (status = "queued" /\ status' = "failed"))
  BY DEF Kill, Raise
<1>2. CASE status' = status
  BY <1>1, <1>2, Unseen
<1>3. CASE status = "queued" /\ status' = "failed"
  <2>1. \A m \in Nodes : Marks[m] = "todo"
    BY <1>3, MarkIs DEF Marks, SInv, RowInv, Entry
  <2>2. Result = "open" /\ Result' = "failed"
    BY <1>3 DEF Result, Open
  <2>3. Marks' = Marks
    BY <1>1, MarkSame DEF Marks
  <2>4. Promise!NeverStarted /\ UNCHANGED Marks
    BY <2>1, <2>2, <2>3 DEF Promise!NeverStarted, Marks, Result, Open
  <2> QED  BY <2>4 DEF Promise!Next, Marks
<1> QED  BY <1>1, <1>2, <1>3

\* Every step is a step of the promise or is not seen.
LEMMA PromiseStep ==
  ASSUME SInv, OneAtATime, Straight, [Next]_vars
  PROVE  [Promise!Next]_(Promise!vars)
<1> SUFFICES Promise!Next \/ UNCHANGED Promise!vars
  OBVIOUS
<1>1. ASSUME NEW e \in Executors, Execute(e) PROVE Promise!Next \/ UNCHANGED Promise!vars
  <2>1. CASE Load(e) \/ PassGate(e)
    BY <2>1, Unseen DEF Load, PassGate
  <2>2. CASE Begin(e)
    <3>1. exec[e].pc \in Running /\ exec[e].pc = "loaded"
      BY <2>2 DEF Begin, Running
    <3>2. Open /\ Open' /\ nodeStates' = nodeStates
      BY <2>2, <3>1, Turn DEF Begin, Open
    <3> QED  BY <3>2, Unseen
  <2>3. CASE Dispatch(e) \/ NodeDone(e) \/ NodeEndsRun(e) \/ NoSignals(e) \/ GateSuspends(e)
    BY <2>3, DispatchStarts, NodeDoneCompletes, NodeEndsRunFails, NoSignalsEmpties,
       GateSuspendsAsks
  <2>4. CASE StopRejected(e) \/ Finish(e)
    BY <2>4, StopRejectedEnds, FinishSucceeds
  <2>5. ~StopUndecided(e) /\ ~GateWaits(e)
    BY StopUndecidedNever, GateWaitsNever
  <2> QED  BY <1>1, <2>1, <2>2, <2>3, <2>4, <2>5 DEF Execute
<1>2. ASSUME NEW h \in Handlers, Serve(h) PROVE Promise!Next \/ UNCHANGED Promise!vars
  <2>1. CASE WriteDecision(h)
    BY <2>1, DecisionSettles
  <2>2. CASE ReadApproval(h) \/ ReadRun(h) \/ Refuse(h) \/ Spawn(h) \/ SpawnFails(h)
    BY <2>2, Unseen DEF ReadApproval, ReadRun, Refuse, Spawn, SpawnFails
  <2>3. CASE ReadCancel(h) \/ WriteCancel(h)
    BY <2>3 DEF ReadCancel, WriteCancel, OneAtATime, SInv, TurnInv, RequestTurn
  <2> QED  BY <1>2, <2>1, <2>2, <2>3 DEF Serve
<1>3. ASSUME NEW e \in Executors, Kill(e) \/ Raise(e)
      PROVE  Promise!Next \/ UNCHANGED Promise!vars
  BY <1>3, DeathEnds
<1>4. CASE Restart \/ Sweep \/ Recover
  BY <1>4 DEF Restart, Fails, Sweep, Recover, OneAtATime, SInv, TurnInv
<1>5. CASE UNCHANGED vars
  BY <1>5, Unseen DEF vars
<1> QED  BY <1>1, <1>2, <1>3, <1>4, <1>5 DEF Next

\* The run implements GatedRun: read by its marks, the row moves one node at a time, in edge
\* order, each at most once, nothing below a gate before a person agreed to it, and ends
\* truthfully; one request at a time, in every straight pipeline, whatever dies.
THEOREM PromiseIsKept ==
  ASSUME OneAtATime, Straight
  PROVE  Spec => RunKeepsPromise
<1>1. Init => SInv /\ Promise!Init
  BY SInvInit, PromiseInit
<1>2. SInv /\ [Next]_vars => SInv'
  BY SInvNext
<1>3. SInv /\ [Next]_vars => [Promise!Next]_(Promise!vars)
  BY PromiseStep
<1> QED  BY <1>1, <1>2, <1>3, PTL DEF Spec, RunKeepsPromise, Promise!Spec
=============================================================================
