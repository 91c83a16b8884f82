----------------------------- MODULE PipelineRun -----------------------------
(***************************************************************************)
(* One pipeline run and every process that writes its row: the executor    *)
(* subprocesses that walk the graph (pipelines/executor.py), the requests  *)
(* that decide a gate or cancel the run (pipelines/routes.py,              *)
(* marketing/routes/approvals.py) and the web process that dispatches,     *)
(* dies and recovers (pipelines/scheduler.py).                             *)
(*                                                                         *)
(* Every process works on the copy of the row its database session loaded  *)
(* (expire_on_commit=False, never refreshed), and writes back one column   *)
(* at a time: node_states as a whole map, status only when it differs from *)
(* the value that session holds.                                           *)
(***************************************************************************)
EXTENDS PipelineGraph

CONSTANTS
  Gates,        \* the human_gate nodes
  Optional,     \* nodes with continue_on_failure in their config
  AnyUpstream,  \* gates with wait_for_all_upstream = false
  Outcomes,     \* Outcomes[n]: how a dispatch of node n may end
  Executors,    \* processes that run PipelineExecutor, idle ones included
  Handlers,     \* requests that the web process serves at the same time
  Channels,     \* the requests in use: "api", "resume", "slack", "cancel"
  MaxRequests,  \* bound on the requests begun
  Faults,       \* what may go wrong: "kill", "raise", "spawn", "restart", "web_restart"
  MaxFaults     \* bound on the faults

VARIABLES
  status,      \* pipeline_runs.status
  nodeStates,  \* pipeline_runs.node_states
  approvals,   \* approvals[g]: statuses of the approval rows of g, oldest first
  exec,        \* the executor processes with the copy of the row each holds
  req,         \* the requests in progress, likewise
  web,         \* where the web process is in its startup
  begun,       \* requests begun so far
  faults,      \* faults so far
  approved,    \* history: gates somebody approved
  lost         \* history: an executor or a dispatch died since the last recovery

vars == <<status, nodeStates, approvals, exec, req, web, begun, faults, approved, lost>>

-----------------------------------------------------------------------------
(* Values *)

RunStatus == {"queued", "running", "awaiting_approval", "succeeded", "failed",
              "partial_complete", "cancelled"}

\* "absent": the node has no entry in node_states yet.
NodeStatus == {"absent", "running", "succeeded", "failed", "suspended",
               "partial_complete", "waiting_for_upstream", "skipped"}
Terminal == {"succeeded", "failed", "partial_complete", "skipped"}

Decision == {"none", "approved", "rejected"}
NodeState == [st : NodeStatus, dec : Decision]
Entry(s) == [st |-> s, dec |-> "none"]

Outcome == {"succeeded", "failed", "partial_complete", "no_signals", "suspended"}

ASSUME RunAssumption ==
  /\ Gates \subseteq Nodes
  /\ Optional \subseteq Nodes
  /\ AnyUpstream \subseteq Gates
  /\ Outcomes \in [Nodes -> SUBSET Outcome]
  /\ \A n \in Nodes : IF n \in Gates THEN Outcomes[n] \subseteq {"suspended", "failed"}
                                     ELSE "suspended" \notin Outcomes[n]
  /\ Channels \subseteq {"api", "resume", "slack", "cancel"}
  /\ Faults \subseteq {"kill", "raise", "spawn", "restart", "web_restart"}
  /\ MaxRequests \in Nat /\ MaxFaults \in Nat
  /\ Executors # {} /\ Handlers # {}

\* An executor process, and a request, that holds no copy of the row is just where it is.
At(pc) == [pc |-> pc]
Idle == At("idle")

(***************************************************************************)
(* The row of a new run is committed as queued and its dispatch is next.   *)
(***************************************************************************)
Init ==
  /\ status = "queued"
  /\ nodeStates = [n \in Nodes |-> Entry("absent")]
  /\ approvals = [g \in Gates |-> << >>]
  /\ exec = [e \in Executors |-> Idle]
  /\ \E h \in Handlers :
        req = [i \in Handlers |-> IF i = h THEN At("dispatch") ELSE Idle]
  /\ web = "up"
  /\ begun = 0 /\ faults = 0
  /\ approved = {}
  /\ lost = FALSE

-----------------------------------------------------------------------------
(***************************************************************************)
(* The row lock.  An executor at "held" has updated the row in a           *)
(* transaction it has not committed: PostgreSQL makes the other writers    *)
(* wait and shows the others the old row.  The stretch makes no call       *)
(* outside the database, so it is one step to everybody else, and a crash  *)
(* in it is a crash before it.                                             *)
(***************************************************************************)
RowFree == \A e \in Executors : exec[e].pc # "held"
CanWrite(e) == \A f \in Executors \ {e} : exec[f].pc # "held"

Node(e) == Order[exec[e].at]

Suspended(ns) == {n \in Nodes : ns[n].st = "suspended"}

\* reachable_from_suspended, which the executor keeps equal to this at every change.
Blocked(ns) == UNION {Below[g] : g \in Suspended(ns)}

\* Mutant: the walk does not look at what is below a suspended gate.
PassedOverIfTerminal(ns, n) == ns[n].st \in Terminal

\* Terminal nodes and nodes below a suspended gate are passed over.
PassedOver(ns, n) == ns[n].st \in Terminal \/ n \in Blocked(ns)

\* Where the walk that reaches position i stops: at a node, or after the last one.
IsStop(ns, i, j) ==
  /\ j <= Len(Order) => ~PassedOver(ns, Order[j])
  /\ \A k \in i..(j - 1) : PassedOver(ns, Order[k])

Walking(e) == exec[e].pc \in {"walk", "held"} /\ exec[e].at <= Len(Order)

FanIn(ns, g) ==
  IF g \in AnyUpstream
  THEN Preds(g) = {} \/ \E p \in Preds(g) : ns[p].st = "succeeded"
  ELSE \A p \in Preds(g) : ns[p].st = "succeeded" \/ (ns[p].st = "failed" /\ p \in Optional)

\* run.status = s and a flush: an UPDATE only if the session's value changes.
SetStatus(e, s) == status' = IF exec[e].status = s THEN status ELSE s

Leave(e) == exec' = [exec EXCEPT ![e] = Idle]
WalkFrom(e, i, pc, ns, s) ==
  \E j \in i..(Len(Order) + 1) :
    /\ IsStop(ns, i, j)
    /\ exec' = [exec EXCEPT ![e] = [pc |-> pc, at |-> j, ns |-> ns, status |-> s,
                                    sawRow |-> FALSE]]
Continue(e, pc, ns, s) == WalkFrom(e, exec[e].at + 1, pc, ns, s)

-----------------------------------------------------------------------------
(* The executor: PipelineExecutor.run *)

\* The session loads the row.
Load(e) ==
  /\ exec[e].pc = "spawned" /\ RowFree
  /\ WalkFrom(e, 1, IF status = "queued" THEN "loaded" ELSE "walk", nodeStates, status)
  /\ UNCHANGED <<status, nodeStates, approvals, req, web, begun, faults, approved, lost>>

\* A run loaded as queued is marked running.
Begin(e) ==
  /\ exec[e].pc = "loaded" /\ CanWrite(e)
  /\ status' = "running"
  /\ exec' = [exec EXCEPT ![e].pc = "held", ![e].status = "running"]
  /\ UNCHANGED <<nodeStates, approvals, req, web, begun, faults, approved, lost>>

AtGate(e) ==
  /\ Walking(e)
  /\ exec[e].ns[Node(e)].st = "suspended"

(***************************************************************************)
(* An approved gate becomes succeeded in the executor's copy.  The entry   *)
(* is changed in place, so the value assigned to run.node_states equals    *)
(* the one it replaces and the flush writes nothing.                       *)
(***************************************************************************)
PassGate(e) ==
  /\ AtGate(e) /\ exec[e].ns[Node(e)].dec = "approved"
  /\ Continue(e, exec[e].pc, [exec[e].ns EXCEPT ![Node(e)].st = "succeeded"], exec[e].status)
  /\ UNCHANGED <<status, nodeStates, approvals, req, web, begun, faults, approved, lost>>

StopRejected(e) ==
  /\ AtGate(e) /\ exec[e].ns[Node(e)].dec = "rejected" /\ CanWrite(e)
  /\ SetStatus(e, "failed") /\ Leave(e)
  /\ UNCHANGED <<nodeStates, approvals, req, web, begun, faults, approved, lost>>

StopUndecided(e) ==
  /\ AtGate(e) /\ exec[e].ns[Node(e)].dec = "none" /\ CanWrite(e)
  /\ SetStatus(e, "awaiting_approval") /\ Leave(e)
  /\ UNCHANGED <<nodeStates, approvals, req, web, begun, faults, approved, lost>>

\* Mutant: a gate that waits for a person is dispatched once more.
DispatchAgain(e) ==
  LET n == Node(e)
      ns == [exec[e].ns EXCEPT ![n] = Entry("running")]
  IN  /\ Walking(e) /\ CanWrite(e)
      /\ nodeStates' = ns
      /\ exec' = [exec EXCEPT ![e].pc = "work", ![e].ns = ns,
                              ![e].sawRow = n \in Gates /\ approvals[n] # << >>]
      /\ UNCHANGED <<status, approvals, req, web, begun, faults, approved, lost>>

(***************************************************************************)
(* The node is marked running, the whole map is written and committed, and *)
(* the node's own executor is called.  A gate looks up its approval row    *)
(* before it sends the messages that take time.                            *)
(***************************************************************************)
Dispatch(e) ==
  LET n == Node(e)
      ns == [exec[e].ns EXCEPT ![n] = Entry("running")]
  IN  /\ Walking(e) /\ CanWrite(e)
      /\ exec[e].ns[n].st # "suspended"
      /\ nodeStates' = ns
      /\ exec' = [exec EXCEPT ![e].pc = "work", ![e].ns = ns,
                              ![e].sawRow = n \in Gates /\ approvals[n] # << >>]
      /\ UNCHANGED <<status, approvals, req, web, begun, faults, approved, lost>>

\* The executor's copy once node n has ended with status s; it is written whole.
Ended(e, s) == [exec[e].ns EXCEPT ![Node(e)] = Entry(s)]

\* Mutant: any node may fail and the walk goes on.
NodeDoneAnyhow(e) ==
  /\ exec[e].pc = "work" /\ RowFree
  /\ \E s \in Outcomes[Node(e)] \cap {"succeeded", "failed"} :
       /\ Node(e) \in Gates => FanIn(exec[e].ns, Node(e))
       /\ nodeStates' = Ended(e, s)
       /\ Continue(e, "held", Ended(e, s), exec[e].status)
  /\ UNCHANGED <<status, approvals, req, web, begun, faults, approved, lost>>

\* A node succeeds, or fails and is optional: the walk goes on.
NodeDone(e) ==
  /\ exec[e].pc = "work" /\ RowFree
  /\ \E s \in Outcomes[Node(e)] \cap {"succeeded", "failed"} :
       /\ s = "failed" => Node(e) \in Optional
       /\ Node(e) \in Gates => FanIn(exec[e].ns, Node(e))
       /\ nodeStates' = Ended(e, s)
       /\ Continue(e, "held", Ended(e, s), exec[e].status)
  /\ UNCHANGED <<status, approvals, req, web, begun, faults, approved, lost>>

\* A node fails, or an agent hits its cost cap: the run ends with that status.
NodeEndsRun(e) ==
  /\ exec[e].pc = "work" /\ RowFree
  /\ \E s \in Outcomes[Node(e)] \cap {"failed", "partial_complete"} :
       /\ s = "failed" => Node(e) \notin Optional
       /\ Node(e) \in Gates => FanIn(exec[e].ns, Node(e))
       /\ nodeStates' = Ended(e, s)
       /\ SetStatus(e, s)
  /\ Leave(e)
  /\ UNCHANGED <<approvals, req, web, begun, faults, approved, lost>>

\* qualifier_brief_composer finds no signal: what is below it is skipped, the run succeeds.
NoSignals(e) ==
  /\ exec[e].pc = "work" /\ RowFree
  /\ "no_signals" \in Outcomes[Node(e)]
  /\ nodeStates' = [m \in Nodes |->
       IF m = Node(e) THEN Entry("succeeded")
       ELSE IF m \in Below[Node(e)] /\ exec[e].ns[m].st = "absent" THEN Entry("skipped")
       ELSE exec[e].ns[m]]
  /\ SetStatus(e, "succeeded")
  /\ Leave(e)
  /\ UNCHANGED <<approvals, req, web, begun, faults, approved, lost>>

(***************************************************************************)
(* A gate whose upstream is done asks for approval, with a row of its own  *)
(* unless it found one, there when it was dispatched or put there since;   *)
(* the walk goes on with other branches.                                   *)
(***************************************************************************)
GateSuspends(e) ==
  LET n == Node(e)
  IN  /\ exec[e].pc = "work" /\ RowFree
      /\ "suspended" \in Outcomes[n] /\ FanIn(exec[e].ns, n)
      /\ \/ approvals[n] # << >> /\ UNCHANGED approvals
         \/ ~exec[e].sawRow /\ approvals' = [approvals EXCEPT ![n] = Append(@, "pending")]
      /\ nodeStates' = Ended(e, "suspended")
      /\ SetStatus(e, "awaiting_approval")
      /\ Continue(e, "held", Ended(e, "suspended"), "awaiting_approval")
      /\ UNCHANGED <<req, web, begun, faults, approved, lost>>

\* A gate whose upstream is not done is left waiting; what is below it is not blocked.
GateWaits(e) ==
  /\ exec[e].pc = "work" /\ RowFree
  /\ Node(e) \in Gates /\ ~FanIn(exec[e].ns, Node(e))
  /\ nodeStates' = Ended(e, "waiting_for_upstream")
  /\ Continue(e, "held", Ended(e, "waiting_for_upstream"), exec[e].status)
  /\ UNCHANGED <<status, approvals, req, web, begun, faults, approved, lost>>

\* Mutant: the end of the walk sets no status of its own.
FinishQuietly(e) ==
  /\ exec[e].pc \in {"walk", "held"} /\ exec[e].at > Len(Order) /\ CanWrite(e)
  /\ Leave(e)
  /\ UNCHANGED <<status, nodeStates, approvals, req, web, begun, faults, approved, lost>>

\* After the last node: awaiting_approval if a gate is suspended, else succeeded.
Finish(e) ==
  /\ exec[e].pc \in {"walk", "held"} /\ exec[e].at > Len(Order) /\ CanWrite(e)
  /\ IF Suspended(exec[e].ns) # {} THEN SetStatus(e, "awaiting_approval")
     ELSE IF exec[e].status \in Terminal THEN UNCHANGED status
     ELSE SetStatus(e, "succeeded")
  /\ Leave(e)
  /\ UNCHANGED <<nodeStates, approvals, req, web, begun, faults, approved, lost>>

Execute(e) ==
  \/ Load(e) \/ Begin(e) \/ PassGate(e) \/ StopRejected(e) \/ StopUndecided(e)
  \/ Dispatch(e) \/ NodeDone(e) \/ NodeEndsRun(e) \/ NoSignals(e)
  \/ GateSuspends(e) \/ GateWaits(e) \/ Finish(e)

-----------------------------------------------------------------------------
(* Requests: decisions on gates, and cancel *)

Pending(g) == {i \in DOMAIN approvals[g] : approvals[g][i] = "pending"}

\* The row the request decides: the generic route is given its id, the others take the
\* newest pending one; 0 when there is none and the request only edits node_states.
IsTarget(c, g, i) ==
  \/ i \in Pending(g) /\ (c = "api" \/ \A j \in Pending(g) : j <= i)
  \/ i = 0 /\ Pending(g) = {}

\* Mutant: nobody asks whether the gate was decided before.
AcceptsAlways(c, g) == c \in Channels /\ g \in Gates

\* With no pending row the generic route refuses, and Slack does if a row was decided.
Accepts(c, g) ==
  \/ Pending(g) # {}
  \/ c = "resume"
  \/ c = "slack" /\ approvals[g] = << >>

\* The request looks up the approval row.
ReadApproval(h) ==
  /\ req[h].pc = "idle" /\ RowFree /\ begun < MaxRequests
  /\ \E c \in Channels \ {"cancel"}, g \in Gates, d \in {"approved", "rejected"} :
       /\ Accepts(c, g)
       /\ \E i \in 0..Len(approvals[g]) :
            /\ IsTarget(c, g, i)
            /\ req' = [req EXCEPT ![h] = [pc |-> "chosen", gate |-> g, dec |-> d, row |-> i]]
  /\ begun' = begun + 1
  /\ UNCHANGED <<status, nodeStates, approvals, exec, web, faults, approved, lost>>

Decidable(g) ==
  status \in {"awaiting_approval", "running"} /\ nodeStates[g].st \in {"suspended", "running"}

\* Then it loads the run, whose copy it holds from here on ...
ReadRun(h) ==
  LET r == req[h]
  IN  /\ r.pc = "chosen" /\ RowFree
      /\ Decidable(r.gate)
      /\ req' = [req EXCEPT ![h] = [pc |-> "deciding", gate |-> r.gate, dec |-> r.dec,
                                    row |-> r.row, status |-> status, ns |-> nodeStates]]
      /\ UNCHANGED <<status, nodeStates, approvals, exec, web, begun, faults, approved, lost>>

\* ... or is refused, and what it wrote is rolled back.
Refuse(h) ==
  /\ req[h].pc = "chosen" /\ RowFree
  /\ ~Decidable(req[h].gate)
  /\ req' = [req EXCEPT ![h] = Idle]
  /\ UNCHANGED <<status, nodeStates, approvals, exec, web, begun, faults, approved, lost>>

\* Mutant: the decision is written but nobody is sent to carry it out.
WriteDecisionOnly(h) ==
  LET r == req[h]
  IN  /\ r.pc = "deciding" /\ RowFree
      /\ approvals' = IF r.row = 0 THEN approvals
                      ELSE [approvals EXCEPT ![r.gate][r.row] = r.dec]
      /\ nodeStates' = [r.ns EXCEPT ![r.gate].dec = r.dec]
      /\ status' = IF r.status = "running" THEN status ELSE "running"
      /\ approved' = IF r.dec = "approved" THEN approved \cup {r.gate} ELSE approved
      /\ req' = [req EXCEPT ![h] = Idle]
      /\ UNCHANGED <<exec, web, begun, faults, lost>>

\* Mutant: the entry is edited in place and node_states is not flagged as modified.
WriteDecisionUnflagged(h) ==
  LET r == req[h]
  IN  /\ r.pc = "deciding" /\ RowFree
      /\ approvals' = IF r.row = 0 THEN approvals
                      ELSE [approvals EXCEPT ![r.gate][r.row] = r.dec]
      /\ status' = IF r.status = "running" THEN status ELSE "running"
      /\ approved' = IF r.dec = "approved" THEN approved \cup {r.gate} ELSE approved
      /\ req' = [req EXCEPT ![h] = At("dispatch")]
      /\ UNCHANGED <<nodeStates, exec, web, begun, faults, lost>>

(***************************************************************************)
(* It commits the decision: the approval row, the whole node_states it     *)
(* read with the gate's decision in it, and status running.                *)
(***************************************************************************)
WriteDecision(h) ==
  LET r == req[h]
  IN  /\ r.pc = "deciding" /\ RowFree
      /\ approvals' = IF r.row = 0 THEN approvals
                      ELSE [approvals EXCEPT ![r.gate][r.row] = r.dec]
      /\ nodeStates' = [r.ns EXCEPT ![r.gate].dec = r.dec]
      /\ status' = IF r.status = "running" THEN status ELSE "running"
      /\ approved' = IF r.dec = "approved" THEN approved \cup {r.gate} ELSE approved
      /\ req' = [req EXCEPT ![h] = At("dispatch")]
      /\ UNCHANGED <<exec, web, begun, faults, lost>>

\* ... and dispatches an executor subprocess.
Spawn(h) ==
  /\ req[h].pc = "dispatch"
  /\ \E e \in Executors : exec[e].pc = "idle" /\ exec' = [exec EXCEPT ![e] = At("spawned")]
  /\ req' = [req EXCEPT ![h] = Idle]
  /\ UNCHANGED <<status, nodeStates, approvals, web, begun, faults, approved, lost>>

Fails(f) == f \in Faults /\ faults < MaxFaults /\ faults' = faults + 1 /\ lost' = TRUE

\* The spawn fails with OSError, which is logged and nothing else.
SpawnFails(h) ==
  /\ req[h].pc = "dispatch" /\ Fails("spawn")
  /\ req' = [req EXCEPT ![h] = Idle]
  /\ UNCHANGED <<status, nodeStates, approvals, exec, web, begun, approved>>

ReadCancel(h) ==
  /\ req[h].pc = "idle" /\ RowFree /\ begun < MaxRequests
  /\ "cancel" \in Channels /\ status \notin {"succeeded", "failed", "cancelled"}
  /\ req' = [req EXCEPT ![h] = At("cancelling")]
  /\ begun' = begun + 1
  /\ UNCHANGED <<status, nodeStates, approvals, exec, web, faults, approved, lost>>

\* Mutant: the status is spelt in a way the table does not allow.
WriteCancelMisspelt(h) ==
  /\ req[h].pc = "cancelling" /\ RowFree
  /\ status' = "canceled"
  /\ req' = [req EXCEPT ![h] = Idle]
  /\ UNCHANGED <<nodeStates, approvals, exec, web, begun, faults, approved, lost>>

WriteCancel(h) ==
  /\ req[h].pc = "cancelling" /\ RowFree
  /\ status' = "cancelled"
  /\ req' = [req EXCEPT ![h] = Idle]
  /\ UNCHANGED <<nodeStates, approvals, exec, web, begun, faults, approved, lost>>

Serve(h) ==
  \/ ReadApproval(h) \/ ReadRun(h) \/ Refuse(h) \/ WriteDecision(h) \/ Spawn(h) \/ SpawnFails(h)
  \/ ReadCancel(h) \/ WriteCancel(h)

-----------------------------------------------------------------------------
(* Failures and recovery *)

Alive == {e \in Executors : exec[e].pc # "idle"}

\* An executor process dies; its transaction is rolled back.
Kill(e) ==
  /\ e \in Alive /\ exec[e].pc # "held" /\ Fails("kill")
  /\ Leave(e)
  /\ UNCHANGED <<status, nodeStates, approvals, req, web, begun, approved>>

\* run() raises: rolled back, and a run still queued is marked failed.
Raise(e) ==
  /\ e \in Alive /\ RowFree /\ Fails("raise")
  /\ status' = IF status = "queued" THEN "failed" ELSE status
  /\ Leave(e)
  /\ UNCHANGED <<nodeStates, approvals, req, web, begun, approved>>

(***************************************************************************)
(* The web process restarts and its requests are gone.  launchd kills the  *)
(* subprocesses with it; a kill of uvicorn alone leaves any of them alive. *)
(***************************************************************************)
Restart ==
  /\ RowFree
  /\ \E K \in SUBSET Alive :
       /\ Fails(IF K = Alive THEN "restart" ELSE "web_restart")
       /\ exec' = [e \in Executors |-> IF e \in K THEN Idle ELSE exec[e]]
  /\ req' = [h \in Handlers |-> Idle]
  /\ web' = "sweeping"
  /\ UNCHANGED <<status, nodeStates, approvals, begun, approved>>

\* sweep_orphaned_queued_runs fails the run if it is queued and old enough.
Sweep ==
  /\ web = "sweeping" /\ RowFree
  /\ status' \in IF status = "queued" THEN {"queued", "failed"} ELSE {status}
  /\ web' = "recovering"
  /\ UNCHANGED <<nodeStates, approvals, exec, req, begun, faults, approved, lost>>

\* _recover_interrupted_runs dispatches the run if it is queued or running.
Recover ==
  /\ web = "recovering" /\ RowFree
  /\ IF status \in {"queued", "running"}
     THEN \E e \in Executors : exec[e].pc = "idle" /\ exec' = [exec EXCEPT ![e] = At("spawned")]
     ELSE UNCHANGED exec
  /\ web' = "up" /\ lost' = FALSE
  /\ UNCHANGED <<status, nodeStates, approvals, req, begun, faults, approved>>

Next ==
  \/ \E e \in Executors : Execute(e) \/ Kill(e) \/ Raise(e)
  \/ \E h \in Handlers : Serve(h)
  \/ Restart \/ Sweep \/ Recover

\* Processes run: an executor that is not killed takes its next step, a node's work ends
\* (providers have timeouts), a request goes on once begun, and the startup task completes.
Fairness ==
  /\ \A e \in Executors : WF_vars(Execute(e))
  /\ \A h \in Handlers : WF_vars(ReadRun(h) \/ Refuse(h) \/ WriteDecision(h)
                                 \/ Spawn(h) \/ WriteCancel(h))
  /\ WF_vars(Sweep) /\ WF_vars(Recover)

Spec == Init /\ [][Next]_vars
FairSpec == Spec /\ Fairness

-----------------------------------------------------------------------------
(* Properties *)

Process == [pc : {"idle", "spawned"}] \cup
  [pc : {"loaded", "walk", "held", "work"}, at : 1..(Len(Order) + 1), ns : [Nodes -> NodeState],
   status : RunStatus, sawRow : BOOLEAN]
Request == [pc : {"idle", "dispatch", "cancelling"}] \cup
  [pc : {"chosen"}, gate : Gates, dec : {"approved", "rejected"}, row : Nat] \cup
  [pc : {"deciding"}, gate : Gates, dec : {"approved", "rejected"}, row : Nat,
   status : RunStatus, ns : [Nodes -> NodeState]]

\* The type invariant.
TypeOK ==
  /\ status \in RunStatus
  /\ nodeStates \in [Nodes -> NodeState]
  /\ approvals \in [Gates -> Seq({"pending", "approved", "rejected"})]
  /\ exec \in [Executors -> Process]
  /\ req \in [Handlers -> Request]
  /\ web \in {"up", "sweeping", "recovering"}
  /\ begun \in 0..MaxRequests /\ faults \in 0..MaxFaults
  /\ approved \subseteq Gates
  /\ lost \in BOOLEAN

(***************************************************************************)
(* No node below a human gate is ever dispatched before somebody approved  *)
(* that gate, however many executors walk the run on stale copies of it.   *)
(***************************************************************************)
WorkIsApproved ==
  \A e \in Executors : exec[e].pc = "work" =>
    \A g \in Gates : Node(e) \in Below[g] => g \in approved

Running == {"loaded", "walk", "held", "work"}

(***************************************************************************)
(* The pipelines in which a node that is not optional, or a gate, does not *)
(* fail, and a gate that one upstream would do for has one of those.       *)
(***************************************************************************)
OnlyOptionalWorkFails ==
  \A n \in Nodes :
    /\ n \in Gates => Outcomes[n] \subseteq {"suspended"}
    /\ n \in Optional \ Gates => Outcomes[n] \subseteq {"succeeded", "failed"}
    /\ n \notin Optional \cup Gates => Outcomes[n] \subseteq {"succeeded"}
    /\ n \in AnyUpstream => Preds(n) = {} \/ ~(Preds(n) \subseteq Optional)

CopyIsSound(ns) ==
  \A n \in Nodes :
    /\ ns[n].st \notin {"partial_complete", "skipped"}
    /\ ns[n].st = "failed" => n \in Optional \ Gates
    /\ n \in Gates /\ (ns[n].st = "succeeded" \/ ns[n].dec = "approved") => n \in approved

(***************************************************************************)
(* In the row and in every copy of it, however old, a gate is approved or  *)
(* succeeded only if a person approved it, and failed work is optional     *)
(* (in the pipelines of OnlyOptionalWorkFails).                            *)
(***************************************************************************)
CopiesAreSound ==
  /\ CopyIsSound(nodeStates)
  /\ \A e \in Executors : exec[e].pc \in Running => CopyIsSound(exec[e].ns)
  /\ \A h \in Handlers : req[h].pc = "deciding" => CopyIsSound(req[h].ns)

Settled(ns, n) ==
  \/ n \in Blocked(ns)
  \/ ns[n].st \in {"succeeded", "suspended"}
  \/ ns[n].st = "failed" /\ n \in Optional \ Gates

(***************************************************************************)
(* An executor leaves nothing unfinished behind: every node it has walked  *)
(* past is, in its copy, done, suspended or below a suspended gate; and it *)
(* never stands at a node below one (in the pipelines of                   *)
(* OnlyOptionalWorkFails).                                                 *)
(***************************************************************************)
WalkIsSettled ==
  \A e \in Executors : exec[e].pc \in Running =>
    /\ \A k \in 1..(exec[e].at - 1) : Settled(exec[e].ns, Order[k])
    /\ exec[e].at <= Len(Order) => Node(e) \notin Blocked(exec[e].ns)
    /\ exec[e].pc = "work" => exec[e].at <= Len(Order) /\ exec[e].ns[Node(e)].st = "running"

(***************************************************************************)
(* A run that is queued or running has somebody to move it: an executor    *)
(* that will load it or holds it as queued or running, or a request about  *)
(* to dispatch one; unless a process was lost and no restart followed.     *)
(***************************************************************************)
RunIsAttended ==
  status \in {"queued", "running"} =>
    \/ lost
    \/ \E h \in Handlers : req[h].pc = "dispatch"
    \/ \E e \in Executors :
          \/ exec[e].pc = "spawned"
          \/ exec[e].pc \in Running /\ exec[e].status \in {"queued", "running"}

(***************************************************************************)
(* A decision that was committed stays on the row until the executor has   *)
(* passed the gate: no writer of node_states puts back a copy without it.  *)
(***************************************************************************)
DecisionIsKept ==
  [][\A g \in Gates :
       nodeStates[g].st = "suspended" /\ nodeStates[g].dec # "none"
         => nodeStates'[g] = nodeStates[g] \/ nodeStates'[g].st = "succeeded"]_vars

(***************************************************************************)
(* With one request at a time, each of which decides an approval row it    *)
(* names (decide_approval), and no restart of the web process, a second    *)
(* executor is never started while one is alive.                           *)
(***************************************************************************)
SingleExecutor == \A e, f \in Alive : e = f

(***************************************************************************)
(* A run at rest in awaiting_approval has a gate that somebody can still   *)
(* decide: one that is undecided and has a pending approval row.           *)
(***************************************************************************)
WaitingCanBeDecided ==
  status = "awaiting_approval" /\ Alive = {} /\ (\A h \in Handlers : req[h].pc = "idle")
    => \E g \in Gates : nodeStates[g] = Entry("suspended") /\ Pending(g) # {}

\* A run that is attended does not stay queued or running for ever.
RunSettles == <>[](status \in {"queued", "running"} => lost)

\* The row as its readers may understand it.
MarkOf(n) ==
  LET s == nodeStates[n].st
      d == nodeStates[n].dec
  IN  CASE s = "absent" -> "todo"
        [] s = "running" -> "started"
        [] s \in {"succeeded", "skipped"} -> "done"
        [] s = "failed" -> IF n \in Optional THEN "done" ELSE "failed"
        [] s = "partial_complete" -> "failed"
        [] s = "waiting_for_upstream" -> "todo"
        [] s = "suspended" -> CASE d = "none" -> "asked"
                                [] d = "approved" -> "done"
                                [] d = "rejected" -> "refused"

Promise == INSTANCE GatedRun WITH
  mark <- [n \in Nodes |-> MarkOf(n)],
  result <- IF status \in {"queued", "running", "awaiting_approval"} THEN "open" ELSE status

\* The row, read that way, changes only as GatedRun allows: the run implements it.
RunKeepsPromise == Promise!Spec

\* Once a run is cancelled, no further node is dispatched.
CancelStopsDispatch ==
  [][status = "cancelled" => \A e \in Executors : ~Dispatch(e)]_vars
=============================================================================
