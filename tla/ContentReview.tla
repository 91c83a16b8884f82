---------------------------- MODULE ContentReview ----------------------------
(***************************************************************************)
(* The drafts of one campaign candidate: their review, the candidate's     *)
(* workspace state, and the sends of what was approved.                    *)
(*                                                                         *)
(* Every status changes through transition (marketing/state_machine.py),   *)
(* which locks the row, checks the change and writes an audit row.  A      *)
(* SELECT ... FOR UPDATE does not refresh an object the session has loaded *)
(* before, so the change is checked against the caller's copy.  Who        *)
(* changes what, and what it has loaded by then, is here: the decision of  *)
(* a content_draft gate (routes/approvals.py), a request for review and    *)
(* the event it publishes (writing_studio/invoke.py, adapter.py), the edit *)
(* of a status (routes/writing_studio.py), a content node (workspace.py)   *)
(* and a send (sends.py).                                                  *)
(***************************************************************************)
EXTENDS Naturals, Sequences, FiniteSets, SequencesExt, FiniteSetsExt

CONSTANTS
  NumDrafts,
  Handlers,     \* requests served at the same time
  SendsEnabled, \* settings.outbound_send_enabled
  Edits,        \* statuses the editor's PUT may ask for
  MaxRequests,  \* bound on requests, decisions and edits
  MaxFaults     \* bound on requests that are cut

ASSUME ReviewAssumption ==
  /\ NumDrafts \in Nat \ {0} /\ SendsEnabled \in BOOLEAN
  /\ MaxRequests \in Nat /\ MaxFaults \in Nat

VARIABLES
  row,      \* the status of the drafts, of the workspace and of the gate's approval
  trail,    \* campaign_state_transitions, of each row
  review,   \* of each draft, its writing_gate_2 approval
  sends,    \* campaign_sends
  req,      \* what each handler is doing
  begun,    \* how many transactions have begun
  met,      \* history: pairs of transactions that were open at the same time
  faults    \* faults so far

vars == <<row, trail, review, sends, req, begun, met, faults>>

-----------------------------------------------------------------------------
(* Rows and their states *)

Workspace == 0
Drafts == 1..NumDrafts
Gate == NumDrafts + 1
SendRow(s) == Gate + s

\* Mutant of DeliverableTransitions: what is queued to be sent can be withdrawn.
TransitionsWithdrawn ==
  [queued |-> {"generating"},
   generating |-> {"draft_ready", "generation_failed"},
   draft_ready |-> {"approved", "revised", "rejected"},
   approved |-> {"queued_for_send"},
   queued_for_send |-> {"sent", "approved"},
   sent |-> {},
   revised |-> {"generating"},
   rejected |-> {"draft_ready"},
   generation_failed |-> {}]

DeliverableTransitions ==
  [queued |-> {"generating"},
   generating |-> {"draft_ready", "generation_failed"},
   draft_ready |-> {"approved", "revised", "rejected"},
   approved |-> {"queued_for_send"},
   queued_for_send |-> {"sent"},
   sent |-> {},
   revised |-> {"generating"},
   rejected |-> {"draft_ready"},
   generation_failed |-> {}]

\* Mutant of WorkspaceTransitions: what is in review can not go back.
WorkspaceForward ==
  [pending_content |-> {"in_content_preparation"},
   in_content_preparation |-> {"sent_to_writing_studio", "content_preparation_failed"},
   sent_to_writing_studio |-> {"content_in_review"},
   content_preparation_failed |-> {},
   content_in_review |-> {"all_content_approved"},
   all_content_approved |-> {},
   revision_needed |-> {"in_content_preparation"}]

WorkspaceTransitions ==
  [pending_content |-> {"in_content_preparation"},
   in_content_preparation |-> {"sent_to_writing_studio", "content_preparation_failed"},
   sent_to_writing_studio |-> {"content_in_review"},
   content_preparation_failed |-> {},
   content_in_review |-> {"all_content_approved", "revision_needed"},
   all_content_approved |-> {},
   revision_needed |-> {"in_content_preparation"}]

Decisions == {"approved", "rejected", "revision_requested"}
\* _CONTENT_DRAFT_STATUS_MAP
DraftStatus == [approved |-> "approved", rejected |-> "rejected", revision_requested |-> "revised"]

\* What transition allows.  The approval of the gate is written without a check.
Legal(o, from, to) ==
  CASE o \in Drafts -> to \in DeliverableTransitions[from]
    [] o = Workspace -> to \in WorkspaceTransitions[from]
    [] o = Gate -> TRUE

\* Every legal path of no more states than there are, with its first state.
Paths ==
  LET States == DOMAIN WorkspaceTransitions
      Legally(p) == \A k \in 1..(Len(p) - 1) : p[k + 1] \in WorkspaceTransitions[p[k]]
  IN  UNION {{p \in [1..n -> States] : Legally(p)} : n \in 1..Cardinality(States)}
Reachable(from, to) == \E p \in Paths : Head(p) = from /\ Last(p) = to
\* The shortest path, without its first state.
workspace_path(from, to) ==
  LET ps == {p \in Paths : Head(p) = from /\ Last(p) = to}
  IN  Tail(CHOOSE p \in ps : \A q \in ps : Len(p) <= Len(q))

\* What the workspace should be, from the statuses of the drafts there are.
Target(statuses) ==
  CASE "rejected" \in statuses -> "revision_needed"
    [] statuses = {"approved"} -> "all_content_approved"
    [] "rejected" \notin statuses /\ "draft_ready" \in statuses -> "content_in_review"
    [] OTHER -> "in_content_preparation"

-----------------------------------------------------------------------------
(* Transactions *)

Idle == [pc |-> "idle"]
Kinds == Decisions \cup {"submit", "resubmit", "event", "node", "send"}
Status(o) == CASE o \in Drafts -> DOMAIN DeliverableTransitions
               [] o = Workspace -> DOMAIN WorkspaceTransitions
               [] o = Gate -> Decisions \cup {"pending"}

\* no: its number.  copy: what its session has loaded of each row, or "none".  path: the states
\* it has moved the row through.  todo: rows to lock and states to move them to, before stage
\* then.  added: sends it has inserted.  subject: the row or the send it is about.
Transaction(kind, subject, no, loaded, todo, then) ==
  [pc |-> IF todo = << >> THEN then ELSE "lock", kind |-> kind, subject |-> subject, no |-> no,
   copy |-> [o \in 0..Gate |-> IF o \in loaded THEN row[o] ELSE "none"],
   path |-> [o \in 0..Gate |-> << >>], todo |-> todo, then |-> then, locks |-> {}, added |-> << >>]

Init ==
  /\ row = [o \in 0..Gate |-> IF o = Workspace THEN "pending_content" ELSE "none"]
  /\ trail = [o \in 0..Gate |-> << >>]
  /\ review = [d \in Drafts |-> "none"]
  /\ sends = << >>
  /\ req = [h \in Handlers |-> Idle]
  /\ begun = 0 /\ met = {} /\ faults = 0

At(h, pc) == req[h].pc = pc
Active == {h \in Handlers : ~At(h, "idle") /\ ~At(h, "publish")}
Locked(h, o) == \E g \in Active \ {h} : o \in req[g].locks
Existing == {d \in Drafts : row[d] # "none"}
Room == begun < MaxRequests

\* A transaction begins, while those of the other handlers are open.
Opened(h) ==
  /\ begun' = begun + 1
  /\ met' = met \cup {{begun + 1, req[g].no} : g \in Active \ {h}}
Open(h, kind, subject, loaded, todo, then) ==
  /\ req' = [req EXCEPT ![h] = Transaction(kind, subject, begun + 1, loaded, todo, then)]
  /\ Opened(h)

\* Of a transaction that wrote nothing, and handed nothing over, the history keeps nothing.
Forgotten(h) ==
  IF \E s \in DOMAIN sends : req[h].no \in ToSet(sends[s].handed) THEN met
  ELSE {m \in met : req[h].no \notin m}

\* What the session of h takes the row's state to be; a row it has not loaded it loads now.
View(h, o) ==
  CASE req[h].path[o] # << >> -> Last(req[h].path[o])
    [] req[h].path[o] = << >> /\ req[h].copy[o] # "none" -> req[h].copy[o]
    [] OTHER -> row[o]

Move(o, to) == [row |-> o, to |-> to]
Entry(from, to, no) == [from |-> from, to |-> to, by |-> no]
-----------------------------------------------------------------------------
(* What begins a transaction *)

\* A draft is created, as a candidate's (generating) or by hand.  The first is published;
\* in a process with no subscriber that comes to a request that is cut.
Create(h, d) ==
  /\ At(h, "idle") /\ row[d] = "none"
  /\ \A c \in Drafts : c < d => row[c] # "none"
  /\ \/ row' = [row EXCEPT ![d] = "draft_ready"] /\ UNCHANGED req
     \/ /\ row' = [row EXCEPT ![d] = "generating"]
        /\ req' = [req EXCEPT ![h] = [pc |-> "publish", draft |-> d, to |-> "draft_ready"]]
  /\ UNCHANGED <<trail, review, sends, begun, met, faults>>

\* Mutant of Put: the status is assigned, not moved.
PutAssigned(h, d) ==
  /\ At(h, "idle") /\ Room /\ row[d] # "none" /\ ~Locked(h, d)
  /\ \E s \in Edits : row' = [row EXCEPT ![d] = s]
  /\ Opened(h)
  /\ UNCHANGED <<trail, review, sends, req, faults>>

\* update_draft: the row is locked when it is loaded.
Put(h, d) ==
  /\ At(h, "idle") /\ Room /\ row[d] # "none" /\ ~Locked(h, d)
  /\ \E s \in Edits :
       /\ Legal(d, row[d], s)
       /\ row' = [row EXCEPT ![d] = s]
       /\ trail' = [trail EXCEPT ![d] = Append(@, Entry(row[d], s, begun + 1))]
  /\ Opened(h)
  /\ UNCHANGED <<review, sends, req, faults>>

\* The gate of a content run asks; once it is decided, that of the candidate's next run does.
Ask ==
  /\ row[Gate] # "pending" /\ Existing # {} /\ begun < MaxRequests
  /\ row' = [row EXCEPT ![Gate] = "pending"]
  /\ UNCHANGED <<trail, review, sends, req, begun, met, faults>>

Ready == {d \in Drafts : row[d] = "draft_ready"}
InIdOrder(S) == {s \in SetToSeqs(S) : \A i, j \in DOMAIN s : i < j => s[i] < s[j]}

\* decide: the drafts that are ready, in order of their ids, then the approval.
Decide(h, decision) ==
  /\ At(h, "idle") /\ Room /\ row[Gate] = "pending" /\ Ready # {}
  /\ \E ready \in InIdOrder(Ready) :
       Open(h, decision, Gate, Existing,
            [k \in DOMAIN ready |-> Move(ready[k], DraftStatus[decision])] \o <<Move(Gate, decision)>>,
            "workspace")
  /\ UNCHANGED <<row, trail, review, sends, faults>>

ToReady(d) == IF row[d] = "draft_ready" THEN << >> ELSE <<Move(d, "draft_ready")>>

\* submit_draft_for_review; a review that is open is returned.
Submit(h, d) ==
  /\ At(h, "idle") /\ Room /\ row[d] # "none" /\ review[d] # "pending"
  /\ Open(h, "submit", d, {d}, ToReady(d), "commit")
  /\ UNCHANGED <<row, trail, review, sends, faults>>

\* submit_review of a campaign deliverable.
Resubmit(h, d) ==
  /\ At(h, "idle") /\ Room /\ row[d] # "none"
  /\ Open(h, "resubmit", d, {d}, <<Move(d, "draft_ready")>>, "commit")
  /\ UNCHANGED <<row, trail, review, sends, faults>>

\* The decision of a writing_gate_2 approval touches nothing else.
DecideReview(h, d) ==
  /\ At(h, "idle") /\ Room /\ review[d] = "pending"
  /\ review' = [review EXCEPT ![d] = "decided"]
  /\ begun' = begun + 1
  /\ UNCHANGED <<row, trail, sends, req, met, faults>>

\* _handle_draft_event, in a session of its own.
Event(h) ==
  /\ At(h, "publish")
  /\ Open(h, "event", req[h].draft, {req[h].draft}, <<Move(req[h].draft, req[h].to)>>, "workspace")
  /\ UNCHANGED <<row, trail, review, sends, faults>>

\* NODE_WORKSPACE_TARGETS, or a node that has none.
NodeTargets == {"in_content_preparation", "sent_to_writing_studio", "none"}

\* advance_workspace_for_node: the candidate was loaded before the agent ran.
Node(h, target) ==
  /\ At(h, "idle") /\ Room
  /\ LET walks == target \notin {"none", row[Workspace]} /\ Reachable(row[Workspace], target)
         path == IF walks THEN workspace_path(row[Workspace], target) ELSE << >>
     IN  Open(h, "node", Workspace, {Workspace},
              [k \in DOMAIN path |-> Move(Workspace, path[k])], "workspace")
  /\ UNCHANGED <<row, trail, review, sends, faults>>

\* execute_send_route: the send is loaded before its row is locked.
Send(h, s) ==
  /\ At(h, "idle") /\ Room /\ sends[s].status = "queued"
  /\ Open(h, "send", s, {}, << >>, "hand")
  /\ UNCHANGED <<row, trail, review, sends, faults>>

-----------------------------------------------------------------------------
(* What a transaction does next *)

\* transition, or the update of the approval: the lock, the check and the new state.
Lock(h) ==
  LET r == req[h]
      m == Head(r.todo)
      from == View(h, m.row)
  IN  /\ At(h, "lock") /\ ~Locked(h, m.row)
      /\ req' = [req EXCEPT ![h] =
           IF Legal(m.row, from, m.to)
           THEN [r EXCEPT !.todo = Tail(@), !.locks = @ \cup {m.row},
                          !.copy[m.row] = IF @ = "none" THEN row[m.row] ELSE @,
                          !.path[m.row] = Append(@, m.to),
                          !.pc = IF Len(r.todo) = 1 THEN r.then ELSE "lock"]
           ELSE Idle]
      /\ met' = IF Legal(m.row, from, m.to) THEN met ELSE Forgotten(h)
      /\ UNCHANGED <<row, trail, review, sends, begun, faults>>

\* Where the workspace has to go: a revision goes there directly, anything else by what the
\* drafts are.
Aim(h) ==
  IF req[h].kind = "revision_requested" THEN "revision_needed"
  ELSE Target({View(h, d) : d \in Existing})
CanWalk(h, from, to) ==
  IF req[h].kind = "revision_requested" THEN Legal(Workspace, from, to) ELSE Reachable(from, to)

\* After the drafts: the workspace.  What can not be reached undoes a decision, and is skipped
\* by the others.
Walk(h) ==
  LET r == req[h]
      from == View(h, Workspace)
      to == Aim(h)
      after == IF r.kind = "approved" /\ SendsEnabled THEN "enqueue" ELSE "commit"
      path == workspace_path(from, to)
      undone == r.kind \in Decisions /\ ~CanWalk(h, from, to)
      stays == Existing = {} \/ from = to \/ (r.kind \notin Decisions /\ ~CanWalk(h, from, to))
  IN  /\ At(h, "workspace")
      /\ req' = [req EXCEPT ![h] =
           CASE undone -> Idle
             [] ~undone /\ stays -> [r EXCEPT !.pc = after]
             [] OTHER -> [r EXCEPT !.pc = "lock", !.then = after,
                                   !.copy[Workspace] = IF @ = "none" THEN row[Workspace] ELSE @,
                                   !.todo = [k \in DOMAIN path |-> Move(Workspace, path[k])]]]
      /\ met' = IF undone THEN Forgotten(h) ELSE met
      /\ UNCHANGED <<row, trail, review, sends, begun, faults>>

NewSend(d, status, no) == [draft |-> d, status |-> status, by |-> no, handed |-> << >>]
ToEnqueue(h) ==
  {d \in Existing : View(h, d) = "approved"} \ {req[h].added[k].draft : k \in DOMAIN req[h].added}

\* Mutant of Enqueue: a draft that is queued stays approved.
EnqueueOnly(h) ==
  LET d == Min(ToEnqueue(h)) IN
  /\ At(h, "enqueue")
  /\ IF ToEnqueue(h) = {} THEN req' = [req EXCEPT ![h].pc = "commit"]
     ELSE req' = [req EXCEPT ![h].added = Append(@, NewSend(d, "queued", req[h].no))]
  /\ UNCHANGED <<row, trail, review, sends, begun, met, faults>>

\* enqueue_send_for_deliverable, of every draft that is approved: queued, or skipped because there
\* is no contact or Salesforce suppresses it.
Enqueue(h) ==
  LET r == req[h]
      d == Min(ToEnqueue(h))
  IN  /\ At(h, "enqueue")
      /\ \/ ToEnqueue(h) = {} /\ req' = [req EXCEPT ![h].pc = "commit"]
         \/ /\ ToEnqueue(h) # {}
            /\ \/ req' = [req EXCEPT ![h].added = Append(@, NewSend(d, "skipped", r.no))]
               \/ req' = [req EXCEPT ![h] =
                    [r EXCEPT !.added = Append(@, NewSend(d, "queued", r.no)),
                              !.todo = <<Move(d, "queued_for_send")>>, !.pc = "lock", !.then = "enqueue"]]
      /\ UNCHANGED <<row, trail, review, sends, begun, met, faults>>

\* Mutant of Outcome: a dry run leaves the send in the queue.
OutcomeQueued(delivered) == IF delivered THEN "sent" ELSE "queued"

\* What the transport's answer makes of the send.
Outcome(delivered) == IF delivered THEN "sent" ELSE "simulated"

\* mark_send_sent: the status is checked on the copy that was loaded before the lock, and the
\* message goes to the transport.
Hand(h) ==
  LET r == req[h]
      s == r.subject
      d == sends[s].draft
  IN  /\ At(h, "hand") /\ ~Locked(h, SendRow(s))
      /\ sends' = [sends EXCEPT ![s].handed = Append(@, r.no)]
      /\ \E delivered \in BOOLEAN :
           req' = [req EXCEPT ![h] =
             [r EXCEPT !.locks = {SendRow(s)}, !.copy[d] = row[d],
                       !.added = <<Outcome(delivered)>>,
                       !.todo = IF delivered THEN <<Move(d, "sent")>> ELSE << >>,
                       !.pc = IF delivered THEN "lock" ELSE "commit", !.then = "commit"]]
      /\ UNCHANGED <<row, trail, review, begun, met, faults>>

Written(r, o) ==
  [k \in DOMAIN r.path[o] |-> Entry(IF k = 1 THEN r.copy[o] ELSE r.path[o][k - 1], r.path[o][k], r.no)]

\* The transaction commits.  A review that was opened is then published, as an approval.
Commit(h) ==
  LET r == req[h] IN
  /\ At(h, "commit")
  /\ row' = [o \in 0..Gate |-> IF r.path[o] = << >> THEN row[o] ELSE Last(r.path[o])]
  /\ trail' = [o \in 0..Gate |-> IF o = Gate THEN << >> ELSE trail[o] \o Written(r, o)]
  /\ review' = IF r.kind = "submit" THEN [review EXCEPT ![r.subject] = "pending"] ELSE review
  /\ sends' = CASE r.kind \in Decisions -> sends \o r.added
                [] r.kind = "send" -> [sends EXCEPT ![r.subject].status = Head(r.added)]
                [] OTHER -> sends
  /\ req' = [req EXCEPT ![h] =
       IF r.kind = "submit" THEN [pc |-> "publish", draft |-> r.subject, to |-> "approved"] ELSE Idle]
  /\ met' = IF \A o \in 0..Gate : r.path[o] = << >> THEN Forgotten(h) ELSE met
  /\ UNCHANGED <<begun, faults>>

\* The row h waits for.
Wanted(h) ==
  CASE At(h, "lock") -> {Head(req[h].todo).row}
    [] At(h, "hand") -> {SendRow(req[h].subject)}
    [] OTHER -> {}
WaitsFor(h, g) == g \in Active /\ Wanted(h) \cap req[g].locks # {}

\* PostgreSQL undoes one of two transactions that wait for each other.
Deadlocked(h) ==
  /\ \E g \in Active \ {h} : WaitsFor(h, g) /\ WaitsFor(g, h)
  /\ req' = [req EXCEPT ![h] = Idle]
  /\ met' = Forgotten(h)
  /\ UNCHANGED <<row, trail, review, sends, begun, faults>>

\* The request is cut: by a crash, a lost connection or an exception.  Before the commit it leaves
\* nothing but what it has handed over, wherever it is cut.
Cut(h) ==
  /\ At(h, "commit") \/ At(h, "publish")
  /\ faults < MaxFaults
  /\ req' = [req EXCEPT ![h] = Idle]
  /\ faults' = faults + 1
  /\ met' = IF h \in Active THEN Forgotten(h) ELSE met
  /\ UNCHANGED <<row, trail, review, sends, begun>>

Serve(h) ==
  \/ \E d \in Drafts : Create(h, d) \/ Put(h, d) \/ Submit(h, d) \/ Resubmit(h, d) \/ DecideReview(h, d)
  \/ \E decision \in Decisions : Decide(h, decision)
  \/ \E target \in NodeTargets : Node(h, target)
  \/ \E s \in DOMAIN sends : Send(h, s)
Work(h) ==
  Event(h) \/ Lock(h) \/ Walk(h) \/ Enqueue(h) \/ Hand(h) \/ Commit(h) \/ Deadlocked(h)
Next ==
  \/ \E h \in Handlers : Serve(h) \/ Work(h) \/ Cut(h)
  \/ Ask

Spec == Init /\ [][Next]_vars

-----------------------------------------------------------------------------
(* Properties *)

Numbers == 1..begun
TypeOK ==
  /\ \A o \in 0..Gate : row[o] \in Status(o) \cup {"none"}
  /\ trail \in [0..Gate -> Seq([from : Status(Workspace) \cup Status(1),
                                to : Status(Workspace) \cup Status(1), by : Numbers])]
  /\ review \in [Drafts -> {"none", "pending", "decided"}]
  /\ sends \in Seq([draft : Drafts, status : {"queued", "skipped", "sent", "simulated"},
                    by : Numbers, handed : Seq(Numbers)])
  /\ \A h \in Active : req[h].no \in Numbers /\ req[h].kind \in Kinds
  /\ faults \in 0..MaxFaults

Met(a, b) == {a, b} \in met
\* No two of the transactions that moved a row were open at the same time.
Clean(o) == \A k, l \in DOMAIN trail[o] : ~Met(trail[o][k].by, trail[o][l].by)

\* The audit rows of a row are one path through its states, up to the state it is in, except
\* where two transactions overlapped.
TrailBreaksByOverlap ==
  \A o \in 0..NumDrafts :
    /\ \A k \in 1..(Len(trail[o]) - 1) :
         trail[o][k].to # trail[o][k + 1].from => Met(trail[o][k].by, trail[o][k + 1].by)
    /\ trail[o] # << >> => Last(trail[o]).to = row[o]

\* A draft is queued to be sent once, unless two transactions that moved it overlapped.
QueuedOnce ==
  \A d \in Drafts :
    Clean(d) => Cardinality({s \in DOMAIN sends : sends[s].draft = d /\ sends[s].status # "skipped"}) <= 1

\* What goes to the transport is a draft that was approved and queued, and not rejected since.
MailedIsQueued ==
  [][\A s \in DOMAIN sends :
       LET d == sends[s].draft IN
       sends'[s].handed # sends[s].handed /\ Clean(d) => row[d] \in {"queued_for_send", "sent"}]_vars

\* A send goes to the transport once, and once more for each fault, unless it was sent by two
\* requests at a time, or its draft was moved on without it.
HandedOnce ==
  \A s \in DOMAIN sends :
    LET by == ToSet(sends[s].handed)
        d == sends[s].draft
        movedOn == \E k \in DOMAIN trail[d] : trail[d][k].to = "sent" /\ trail[d][k].by \notin by
    IN  \/ Len(sends[s].handed) <= 1 + faults
        \/ \E a, b \in by : Met(a, b)
        \/ movedOn \/ ~Clean(d)

\* Unless the workspace is final, a gate can be rejected.
RejectionGoesThrough ==
  \A h \in Handlers :
    At(h, "workspace") /\ req[h].kind = "rejected"
      => CanWalk(h, View(h, Workspace), Aim(h)) \/ row[Workspace] = "all_content_approved"
=============================================================================
