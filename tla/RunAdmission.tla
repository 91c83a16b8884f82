---------------------------- MODULE RunAdmission ----------------------------
(***************************************************************************)
(* Who may start a run of a pipeline, and what becomes of the runs that    *)
(* runs start.                                                             *)
(*                                                                         *)
(* A manual trigger and the scheduler ask acquire_run_lock                 *)
(* (pipelines/repository.py) whether a run is in flight, and create one if *)
(* not.  Initiation of a campaign (marketing/routes/initiation.py) creates *)
(* one without asking, after it has committed the candidate as initiated.  *)
(* A sub_pipeline node (node_executors/sub_pipeline_executor.py) creates   *)
(* one and either walks it in its own process before it goes on, or hands  *)
(* it to the scheduler of that process.                                    *)
(*                                                                         *)
(* PipelineRun is the walk of one run, node by node, with all the ways a   *)
(* decision can meet it.  Here a run is what admission can see of it: it   *)
(* may call one sub-pipeline, then stop at one gate, then end.             *)
(***************************************************************************)
EXTENDS Naturals, Sequences, FiniteSets, SequencesExt

CONSTANTS
  Pipelines,
  Calls,        \* of each pipeline, the one its sub_pipeline node names, and the node's mode
  NoCall,       \* what Calls gives for a pipeline without such a node
  Gated,        \* pipelines with a gate
  Triggered,    \* pipelines a person or the scheduler starts
  Delivery,     \* the pipeline that initiation starts
  Candidates,
  NoCandidate,
  Handlers,     \* requests and callbacks of the web process that run at the same time
  Executors,    \* executor processes alive at the same time
  MaxTriggers,  \* bound on the runs that no run started
  MaxDepth,     \* bound on the runs one process walks inside each other
  MaxFaults     \* bound on kills, exceptions, failed spawns and restarts

ASSUME AdmissionAssumption ==
  /\ Calls \in [Pipelines -> {NoCall} \cup [to : Pipelines, mode : {"inline", "async"}]]
  /\ NoCall \notin [to : Pipelines, mode : {"inline", "async"}]
  /\ Gated \subseteq Pipelines /\ Triggered \subseteq Pipelines /\ Delivery \in Pipelines
  /\ NoCandidate \notin Candidates /\ IsFiniteSet(Handlers)
  /\ MaxTriggers \in Nat /\ MaxDepth \in Nat /\ MaxFaults \in Nat

VARIABLES
  runs,       \* pipeline_runs, in the order of their creation
  candidates, \* campaign_candidates: whether initiated_at is set
  req,        \* what each handler is doing
  exec,       \* of each process, the runs it is walking inside each other
  web,        \* where the startup of the web process is
  disturbed,  \* history: runs that were cancelled or swept, or dispatched when they had ended or
              \* a process was at work on them
  faults      \* faults so far

vars == <<runs, candidates, req, exec, web, disturbed, faults>>

-----------------------------------------------------------------------------
(* Values *)

InFlightStatuses == {"queued", "running", "awaiting_approval"}
\* succeeded stands for partial_complete too.
Ended == {"succeeded", "failed", "cancelled"}
Ids == 1..Len(runs)

\* how it was started, by which run and for which candidate; what node_states say of its
\* sub_pipeline node and of its gate; seen: how many runs there were when the trigger asked.
Run == [of : Pipelines, status : InFlightStatuses \cup Ended,
        how : {"trigger", "initiation", "inline", "async"}, parent : Nat,
        cand : Candidates \cup {NoCandidate}, seen : Nat,
        sub : {"pending", "running", "succeeded", "failed"},
        gate : {"pending", "suspended", "approved", "rejected"}]
NewRun(p, how, parent, c, seen) ==
  [of |-> p, status |-> "queued", how |-> how, parent |-> parent, cand |-> c, seen |-> seen,
   sub |-> "pending", gate |-> "pending"]

SubStatuses == {"pending", "running", "succeeded", "failed"}
\* One run a process is walking, the status its session holds, and what its copy of node_states
\* says of the sub_pipeline node.
Frame == [run : Nat, place : {"load", "begin", "sub", "inside", "gate", "over"},
          status : InFlightStatuses \cup Ended, sub : SubStatuses]
NewFrame(i) == [run |-> i, place |-> "load", status |-> "queued", sub |-> "pending"]

Idle == [pc |-> "idle"]
Request == {Idle} \cup [pc : {"admitted"}, of : Pipelines, seen : Nat]
           \cup [pc : {"initiating", "initiated"}, cand : Candidates]
           \cup [pc : {"dispatch"}, run : Nat]

Init ==
  /\ runs = << >>
  /\ candidates = [c \in Candidates |-> "open"]
  /\ req = [h \in Handlers |-> Idle]
  /\ exec = [e \in Executors |-> << >>]
  /\ web = [pc |-> "up", todo |-> {}]
  /\ disturbed = {} /\ faults = 0

InFlight(i) == runs[i].status \in InFlightStatuses
At(h, pc) == req[h].pc = pc
Fault == faults < MaxFaults /\ faults' = faults + 1
Room == Cardinality({i \in Ids : runs[i].parent = 0}) < MaxTriggers

-----------------------------------------------------------------------------
(* The web process: triggers, initiation, decisions *)

\* Mutant of IsFree: a run whose executor has not started does not count.
IsFreeOfStarted(p) == \A i \in Ids : runs[i].of = p => ~InFlight(i) \/ runs[i].status = "queued"

\* acquire_run_lock: reads, and locks nothing.
IsFree(p) == \A i \in Ids : runs[i].of = p => ~InFlight(i)

\* run_pipeline and _fire_scheduled_pipeline.
Check(h, p) ==
  /\ At(h, "idle") /\ Room /\ p \in Triggered /\ IsFree(p)
  /\ req' = [req EXCEPT ![h] = [pc |-> "admitted", of |-> p, seen |-> Len(runs)]]
  /\ UNCHANGED <<runs, candidates, exec, web, disturbed, faults>>

Create(h) ==
  /\ At(h, "admitted")
  /\ runs' = Append(runs, NewRun(req[h].of, "trigger", 0, NoCandidate, req[h].seen))
  /\ req' = [req EXCEPT ![h] = [pc |-> "dispatch", run |-> Len(runs) + 1]]
  /\ UNCHANGED <<candidates, exec, web, disturbed, faults>>

\* initiate: the candidate, read once, is not initiated.
ReadCandidate(h, c) ==
  /\ At(h, "idle") /\ Room /\ candidates[c] = "open"
  /\ req' = [req EXCEPT ![h] = [pc |-> "initiating", cand |-> c]]
  /\ UNCHANGED <<runs, candidates, exec, web, disturbed, faults>>

Initiate(h) ==
  /\ At(h, "initiating")
  /\ candidates' = [candidates EXCEPT ![req[h].cand] = "initiated"]
  /\ req' = [req EXCEPT ![h].pc = "initiated"]
  /\ UNCHANGED <<runs, exec, web, disturbed, faults>>

\* Mutant of CreateDelivery: the run is created only if none is in flight.
CreateDeliveryIfFree(h) ==
  /\ At(h, "initiated")
  /\ IF IsFree(Delivery)
     THEN /\ runs' = Append(runs, NewRun(Delivery, "initiation", 0, req[h].cand, 0))
          /\ req' = [req EXCEPT ![h] = [pc |-> "dispatch", run |-> Len(runs) + 1]]
     ELSE req' = [req EXCEPT ![h] = Idle] /\ UNCHANGED runs
  /\ UNCHANGED <<candidates, exec, web, disturbed, faults>>

\* The second commit of initiate.
CreateDelivery(h) ==
  /\ At(h, "initiated")
  /\ runs' = Append(runs, NewRun(Delivery, "initiation", 0, req[h].cand, 0))
  /\ req' = [req EXCEPT ![h] = [pc |-> "dispatch", run |-> Len(runs) + 1]]
  /\ UNCHANGED <<candidates, exec, web, disturbed, faults>>

\* A person decides the gate of a run that waits.
Decide(h, i) ==
  /\ At(h, "idle") /\ runs[i].status = "awaiting_approval" /\ runs[i].gate = "suspended"
  /\ \E d \in {"approved", "rejected"} :
       runs' = [runs EXCEPT ![i].gate = d, ![i].status = "running"]
  /\ req' = [req EXCEPT ![h] = [pc |-> "dispatch", run |-> i]]
  /\ UNCHANGED <<candidates, exec, web, disturbed, faults>>

\* cancel_run frees the pipeline at once, and stops nobody.
Cancel(i) ==
  /\ InFlight(i)
  /\ runs' = [runs EXCEPT ![i].status = "cancelled"]
  /\ disturbed' = disturbed \cup {i}
  /\ UNCHANGED <<candidates, req, exec, web, faults>>

Walked(i) == \E e \in Executors : \E k \in DOMAIN exec[e] : exec[e][k].run = i

\* _dispatch_execution: a process that will walk the run.
Dispatched(i) ==
  /\ \E e \in Executors : exec[e] = << >> /\ exec' = [exec EXCEPT ![e] = <<NewFrame(i)>>]
  /\ disturbed' = IF Walked(i) \/ ~InFlight(i) THEN disturbed \cup {i} ELSE disturbed

Spawn(h) ==
  /\ At(h, "dispatch") /\ Dispatched(req[h].run)
  /\ req' = [req EXCEPT ![h] = Idle]
  /\ UNCHANGED <<runs, candidates, web, faults>>

SpawnFails(h) ==
  /\ At(h, "dispatch") /\ Fault
  /\ req' = [req EXCEPT ![h] = Idle]
  /\ UNCHANGED <<runs, candidates, exec, web, disturbed>>

Serve(h) ==
  \/ \E p \in Pipelines : Check(h, p)
  \/ \E c \in Candidates : ReadCandidate(h, c)
  \/ \E i \in Ids : Decide(h, i)
\* What a handler that has begun does next.
Proceed(h) == Create(h) \/ Initiate(h) \/ CreateDelivery(h) \/ Spawn(h)

-----------------------------------------------------------------------------
(* An executor process: PipelineExecutor.run, and execute_sub_pipeline_node *)

Top(e) == Last(exec[e])
AtPlace(e, place) == exec[e] # << >> /\ Top(e).place = place
This(e) == Top(e).run
Call(e) == Calls[runs[This(e)].of]
\* The walk that the top of the stack is inside of.
Parent(e) == exec[e][Len(exec[e]) - 1]
\* The top of a process' stack changes, or leaves it and changes what was below.
Moved(e, f) == [exec EXCEPT ![e] = [@ EXCEPT ![Len(@)] = f]]
Popped(e, f) == [exec EXCEPT ![e] = [Front(@) EXCEPT ![Len(@) - 1] = f]]

\* Mutant of Over: the process ends with the first walk that is over.
OverAtOnce(e, s) == [exec EXCEPT ![e] = << >>]

\* The walk is over with status s.  A run that its process was started for ends the process.
Over(e, s) ==
  IF Len(exec[e]) = 1 THEN [exec EXCEPT ![e] = << >>]
  ELSE Moved(e, [Top(e) EXCEPT !.place = "over", !.status = s])

Load(e) ==
  /\ AtPlace(e, "load")
  /\ exec' = Moved(e, [Top(e) EXCEPT !.place = "begin", !.status = runs[This(e)].status,
                                    !.sub = runs[This(e)].sub])
  /\ UNCHANGED <<runs, candidates, req, web, disturbed, faults>>

\* Mutant of Pending: what node_states say of the node is not looked at.
PendingAlways(e) == Call(e) # NoCall

\* The sub_pipeline node is still to be walked.
Pending(e) == Call(e) # NoCall /\ Top(e).sub \in {"pending", "running"}

\* A run loaded as queued is marked running.  The walk comes to its node, which is marked running
\* in the same commit, or past it.
Begin(e) ==
  LET status == IF Top(e).status = "queued" THEN "running" ELSE Top(e).status IN
  /\ AtPlace(e, "begin")
  /\ runs' = [runs EXCEPT ![This(e)].status = IF Top(e).status = "queued" THEN "running" ELSE @,
                          ![This(e)].sub = IF Pending(e) THEN "running" ELSE @]
  /\ exec' = Moved(e, IF Pending(e)
                      THEN [Top(e) EXCEPT !.place = "sub", !.status = status, !.sub = "running"]
                      ELSE [Top(e) EXCEPT !.place = "gate", !.status = status])
  /\ UNCHANGED <<candidates, req, web, disturbed, faults>>

\* The node fails, and the run with it.
NodeFailed(i) == runs' = [runs EXCEPT ![i].sub = "failed", ![i].status = "failed"]

\* A pipeline that names itself is refused.
CallsItself(e) ==
  /\ AtPlace(e, "sub") /\ Call(e).to = runs[This(e)].of
  /\ NodeFailed(This(e)) /\ exec' = Over(e, "failed")
  /\ UNCHANGED <<candidates, req, web, disturbed, faults>>

IsDue(e, mode) == AtPlace(e, "sub") /\ Call(e).to # runs[This(e)].of /\ Call(e).mode = mode
Child(e) == NewRun(Call(e).to, Call(e).mode, This(e), NoCandidate, 0)

\* The child's row is queued and the node has succeeded: no process walks the child, or not yet.
GoesOn(e) ==
  /\ runs' = Append([runs EXCEPT ![This(e)].sub = "succeeded"], Child(e))
  /\ exec' = Moved(e, [Top(e) EXCEPT !.place = "gate", !.sub = "succeeded"])
  /\ UNCHANGED <<candidates, req, web, disturbed, faults>>

\* Mutant of CallInline: the parent does not wait for its child.
CallWithoutWaiting(e) == IsDue(e, "inline") /\ GoesOn(e)

\* The child's row is committed, and walked in the same process.
CallInline(e) ==
  /\ IsDue(e, "inline") /\ Len(exec[e]) < MaxDepth
  /\ runs' = Append(runs, Child(e))
  /\ exec' = [exec EXCEPT ![e] = Append(Moved(e, [Top(e) EXCEPT !.place = "inside"])[e],
                                        NewFrame(Len(runs) + 1))]
  /\ UNCHANGED <<candidates, req, web, disturbed, faults>>

\* The scheduler of this process was never started, so that no job is added for the child.
Fire(e) == IsDue(e, "async") /\ GoesOn(e)

\* The walk of a child leaves the stack, and its parent's node has failed.
Unwound(e) ==
  IF Len(exec[e]) = 2 THEN [exec EXCEPT ![e] = << >>]
  ELSE Popped(e, [Parent(e) EXCEPT !.place = "over", !.status = "failed"])

CountsAsDone(s) == s = "succeeded"

\* The child's walk is over: the node has succeeded if the child has.
Return(e) ==
  /\ AtPlace(e, "over")
  /\ IF CountsAsDone(Top(e).status)
     THEN /\ runs' = [runs EXCEPT ![Parent(e).run].sub = "succeeded"]
          /\ exec' = Popped(e, [Parent(e) EXCEPT !.place = "gate", !.sub = "succeeded"])
     ELSE /\ NodeFailed(Parent(e).run)
          /\ exec' = Unwound(e)
  /\ UNCHANGED <<candidates, req, web, disturbed, faults>>

\* The gate asks, or still waits.  What is written is the copy.
Suspend(e) ==
  /\ AtPlace(e, "gate") /\ runs[This(e)].of \in Gated
  /\ runs[This(e)].gate \in {"pending", "suspended"}
  /\ runs' = [runs EXCEPT ![This(e)].gate = "suspended", ![This(e)].sub = Top(e).sub,
                          ![This(e)].status = "awaiting_approval"]
  /\ exec' = Over(e, "awaiting_approval")
  /\ UNCHANGED <<candidates, req, web, disturbed, faults>>

\* The walk ends: a node fails or the gate was rejected, or all is done.
Finish(e) ==
  /\ AtPlace(e, "gate")
  /\ runs[This(e)].of \in Gated => runs[This(e)].gate \in {"approved", "rejected"}
  /\ \E s \in IF runs[This(e)].gate = "rejected" THEN {"failed"} ELSE {"succeeded", "failed"} :
       LET keeps == s = "succeeded" /\ Top(e).status \in {"succeeded", "failed"} IN
       /\ runs' = IF keeps THEN runs
                  ELSE [runs EXCEPT ![This(e)].status = s, ![This(e)].sub = Top(e).sub]
       /\ exec' = Over(e, IF keeps THEN Top(e).status ELSE s)
  /\ UNCHANGED <<candidates, req, web, disturbed, faults>>

Walk(e) ==
  \/ Load(e) \/ Begin(e) \/ CallsItself(e) \/ CallInline(e) \/ Fire(e)
  \/ Return(e) \/ Suspend(e) \/ Finish(e)

-----------------------------------------------------------------------------
(* Failures and recovery *)

Kill(e) ==
  /\ exec[e] # << >> /\ Fault
  /\ exec' = [exec EXCEPT ![e] = << >>]
  /\ UNCHANGED <<runs, candidates, req, web, disturbed>>

\* run() raises.  A child leaves its row as it is and fails its parent's node; a run that a
\* process was started for is failed if it is still queued.
Raise(e) ==
  /\ exec[e] # << >> /\ Top(e).place # "over" /\ Fault
  /\ IF Len(exec[e]) = 1
     THEN /\ runs' = IF runs[This(e)].status = "queued"
                     THEN [runs EXCEPT ![This(e)].status = "failed"] ELSE runs
          /\ exec' = [exec EXCEPT ![e] = << >>]
     ELSE NodeFailed(Parent(e).run) /\ exec' = Unwound(e)
  /\ UNCHANGED <<candidates, req, web, disturbed>>

\* The web process restarts; the executors may die with it.
Restart ==
  /\ Fault
  /\ \E K \in SUBSET Executors : exec' = [e \in Executors |-> IF e \in K THEN << >> ELSE exec[e]]
  /\ req' = [h \in Handlers |-> Idle]
  /\ web' = [pc |-> "sweeping", todo |-> {}]
  /\ UNCHANGED <<runs, candidates, disturbed>>

\* sweep_orphaned_queued_runs, of those old enough; then the runs to recover are read.
Sweep ==
  /\ web.pc = "sweeping"
  /\ \E S \in SUBSET {i \in Ids : runs[i].status = "queued"} :
       /\ runs' = [i \in Ids |-> IF i \in S THEN [runs[i] EXCEPT !.status = "failed"] ELSE runs[i]]
       /\ disturbed' = disturbed \cup S
       /\ web' = [pc |-> "recovering",
                  todo |-> {i \in Ids \ S : runs[i].status \in {"queued", "running"}}]
  /\ UNCHANGED <<candidates, req, exec, faults>>

Recover ==
  /\ web.pc = "recovering"
  /\ IF web.todo = {}
     THEN web' = [web EXCEPT !.pc = "up"] /\ UNCHANGED <<exec, disturbed>>
     ELSE \E i \in web.todo : Dispatched(i) /\ web' = [web EXCEPT !.todo = @ \ {i}]
  /\ UNCHANGED <<runs, candidates, req, faults>>

Next ==
  \/ \E h \in Handlers : Serve(h) \/ Proceed(h) \/ SpawnFails(h)
  \/ \E i \in Ids : Cancel(i)
  \/ \E e \in Executors : Walk(e) \/ Kill(e) \/ Raise(e)
  \/ Restart \/ Sweep \/ Recover

\* A handler that has begun goes on, a process that is not killed walks on, and the startup task
\* completes.
Fairness ==
  /\ \A h \in Handlers : WF_vars(Proceed(h))
  /\ \A e \in Executors : WF_vars(Walk(e))
  /\ WF_vars(Sweep) /\ WF_vars(Recover)

Spec == Init /\ [][Next]_vars /\ Fairness

-----------------------------------------------------------------------------
(* Properties *)

TypeOK ==
  /\ runs \in Seq(Run)
  /\ candidates \in [Candidates -> {"open", "initiated"}]
  /\ req \in [Handlers -> Request]
  /\ exec \in [Executors -> Seq(Frame)]
  /\ web \in [pc : {"up", "sweeping", "recovering"}, todo : SUBSET Ids]
  /\ disturbed \subseteq Ids
  /\ faults \in 0..MaxFaults

\* If two runs of a pipeline are in flight and the later one was admitted by the check, then
\* the earlier one was created after the check, or was cancelled or swept, or dispatched when it
\* had ended or a process was at work on it.
TwoOnlyByOverlap ==
  \A i, j \in Ids :
    /\ i < j /\ runs[i].of = runs[j].of /\ InFlight(i) /\ InFlight(j) /\ runs[j].how = "trigger"
    => i > runs[j].seen \/ i \in disturbed

\* A candidate is initiated without a run only if a request was cut between its two commits: a
\* fault strands no more of them than there are requests at a time.
StrandedOnlyByCrash ==
  LET working == {req[h].cand : h \in {h \in Handlers : At(h, "initiated")}}
      served == {runs[i].cand : i \in Ids}
  IN  Cardinality({c \in Candidates \ (working \cup served) : candidates[c] = "initiated"})
        <= faults * Cardinality(Handlers)

\* A node starts one sub-run.  In a pipeline without a gate it starts one more for each fault that
\* made it be walked again; with one, a decision may let it be walked again too after a fault.
ChildrenAreCounted ==
  \A i \in Ids :
    faults = 0 \/ runs[i].of \notin Gated
    => Cardinality({j \in Ids : runs[j].parent = i}) <= 1 + faults

\* When a run has ended, of the runs it walked inline only those that stopped at a gate are not.
ChildrenEndFirst ==
  \A j \in Ids :
    /\ runs[j].how = "inline" /\ InFlight(j) /\ runs[runs[j].parent].status \in Ended
    /\ faults = 0 /\ {runs[j].parent, j} \cap disturbed = {}
    => runs[j].gate # "pending"

Is(i, status) == i \in Ids /\ runs[i].status = status

\* A run that is running ends, or waits for a person, unless something failed.
RunsEnd ==
  \A i \in 1..(2 * MaxTriggers) : Is(i, "running") ~> (faults > 0 \/ ~Is(i, "running"))
=============================================================================
