----------------------------- MODULE AgencyGate -----------------------------
(***************************************************************************)
(* The gate in front of actions in other people's systems                  *)
(* (proactivity/agency_gate.py, proposed_actions_repository.py): an action *)
(* is proposed, the user answers in Slack, and a yes executes it at an     *)
(* outside service.                                                        *)
(*                                                                         *)
(* A reply (proactivity/natural_conversation.py) is handled in one         *)
(* database session.  It lists what is pending, asks a model what the user *)
(* meant, and works through the proposals he meant.  Each handler of a     *)
(* Slack message runs beside the others, and meets them only at the locks  *)
(* of the rows: an approval holds its row's until the outside call is over *)
(* and its outcome committed.                                              *)
(***************************************************************************)
EXTENDS Naturals, Sequences, FiniteSets, SequencesExt

CONSTANTS
  Proposals,   \* ids of proposed_actions, all for one user
  Handlers,    \* handlers of replies that run at the same time
  MaxReplies,  \* bound on the replies
  MaxFaults    \* bound on crashes, broken transactions and lost answers

ASSUME GateAssumption == IsFiniteSet(Proposals) /\ MaxReplies \in Nat /\ MaxFaults \in Nat

VARIABLES
  rows,     \* proposed_actions.status, as committed; "absent" before it is inserted
  due,      \* proposals whose expires_at has passed
  tx,       \* uncommitted updates of each handler, whose rows it has locked
  reply,    \* what each handler is doing
  effects,  \* history: how often the outside service carried each action out
  told,     \* history: what the user was told of each action
  replies,  \* replies so far
  faults    \* faults so far

vars == <<rows, due, tx, reply, effects, told, replies, faults>>

-----------------------------------------------------------------------------
(* Values *)

Closed == {"executed", "failed", "rejected", "expired"}
Statuses == {"absent", "proposed", "approved"} \cup Closed
Answers == {"done", "error", "skipped"}

\* Updates: a function from the rows a transaction has updated.
None == [a \in {} |-> "absent"]
Updates == UNION {[S -> Statuses] : S \in SUBSET Proposals}

\* seen: the proposals listed as pending; todo: the ones the reply is about, those still to
\* do; said: the answers to give when all is done.
Idle == [pc |-> "idle"]
Reply == [pc : {"read"}, seen : SUBSET Proposals]
         \cup [pc : {"next", "update", "execute", "mark", "fail"}, verdict : {"yes", "no"},
               todo : Seq(Proposals), said : SUBSET (Proposals \X Answers)]

Init ==
  /\ rows = [a \in Proposals |-> "absent"]
  /\ due = {}
  /\ tx = [k \in Handlers |-> None]
  /\ reply = [k \in Handlers |-> Idle]
  /\ effects = [a \in Proposals |-> 0]
  /\ told = [a \in Proposals |-> {}]
  /\ replies = 0 /\ faults = 0

Locked(a, k) == \E j \in Handlers \ {k} : a \in DOMAIN tx[j]

\* The rows after the updates of a transaction.
After(updates) == [a \in Proposals |-> IF a \in DOMAIN updates THEN updates[a] ELSE rows[a]]
With(updates, a, s) == [b \in DOMAIN updates \cup {a} |-> IF b = a THEN s ELSE updates[b]]

At(k, pc) == reply[k].pc = pc
Goto(k, pc) == reply' = [reply EXCEPT ![k].pc = pc]
This(k) == Head(reply[k].todo)
\* The proposal in hand is dealt with.
Proceed(k, said) ==
  reply' = [reply EXCEPT ![k] = [pc |-> "next", verdict |-> @.verdict, todo |-> Tail(@.todo),
                                 said |-> @.said \cup said]]
Fault == faults < MaxFaults /\ faults' = faults + 1

\* The session is closed without a commit.
Abandon(k) ==
  /\ tx' = [tx EXCEPT ![k] = None]
  /\ reply' = [reply EXCEPT ![k] = Idle]

-----------------------------------------------------------------------------
(* Proposals come and grow old *)

Propose(a) ==
  /\ rows[a] = "absent"
  /\ rows' = [rows EXCEPT ![a] = "proposed"]
  /\ UNCHANGED <<due, tx, reply, effects, told, replies, faults>>

Lapse(a) ==
  /\ rows[a] # "absent" /\ a \notin due
  /\ due' = due \cup {a}
  /\ UNCHANGED <<rows, tx, reply, effects, told, replies, faults>>

-----------------------------------------------------------------------------
(* A reply: route_pending_reply *)

\* Mutant of Assemble: it expires whatever is due, not only what is still proposed.
AssembleAll(k) ==
  LET stale == {a \in due : rows[a] # "absent"} IN
  /\ At(k, "idle") /\ replies < MaxReplies
  /\ \A a \in stale : ~Locked(a, k)
  /\ tx' = [tx EXCEPT ![k] = [a \in stale |-> "expired"]]
  /\ reply' = [reply EXCEPT ![k] = [pc |-> "read",
                                    seen |-> {a \in Proposals \ due : rows[a] = "proposed"}]]
  /\ replies' = replies + 1
  /\ UNCHANGED <<rows, due, effects, told, faults>>

\* expire_stale_proposals, whose updates wait for the rows others have locked, and
\* list_pending_for_user.
Assemble(k) ==
  LET stale == {a \in due : rows[a] = "proposed"} IN
  /\ At(k, "idle") /\ replies < MaxReplies
  /\ \A a \in stale : ~Locked(a, k)
  /\ tx' = [tx EXCEPT ![k] = [a \in stale |-> "expired"]]
  /\ reply' = [reply EXCEPT ![k] = [pc |-> "read",
                                    seen |-> {a \in Proposals \ due : rows[a] = "proposed"}]]
  /\ replies' = replies + 1
  /\ UNCHANGED <<rows, due, effects, told, faults>>

\* The classifier or the model takes the reply for an answer about some of what is pending.
Decide(k) ==
  /\ At(k, "read")
  /\ \E S \in (SUBSET reply[k].seen) \ {{}}, v \in {"yes", "no"} : \E order \in SetToSeqs(S) :
       reply' = [reply EXCEPT ![k] = [pc |-> "next", verdict |-> v, todo |-> order, said |-> {}]]
  /\ UNCHANGED <<rows, due, tx, effects, told, replies, faults>>

\* Nothing is pending, or the reply is about something else, or it is not clear enough.
Converse(k) ==
  /\ At(k, "read")
  /\ Abandon(k)
  /\ UNCHANGED <<rows, due, effects, told, replies, faults>>

\* session.get of approve_proposed_action and reject_proposed_action: it reads what is
\* committed, and gives up a proposal that is no longer proposed.
Get(k) ==
  /\ At(k, "next") /\ reply[k].todo # << >>
  /\ IF rows[This(k)] = "proposed" THEN Goto(k, "update") ELSE Proceed(k, {})
  /\ UNCHANGED <<rows, due, tx, effects, told, replies, faults>>

\* Mutant of Match: the update does not ask for the status again.
MatchAny(k) == ~Locked(This(k), k)

\* UPDATE ... WHERE status = 'proposed', once nobody else has the row locked.  The refreshed
\* row is returned whether or not there was a match.
Match(k) == ~Locked(This(k), k) /\ rows[This(k)] = "proposed"
Miss(k) == ~Locked(This(k), k) /\ rows[This(k)] # "proposed"

\* Mutant of Approve: the approval is committed before the action is executed.
ApproveAtOnce(k) ==
  /\ At(k, "update") /\ reply[k].verdict = "yes" /\ Match(k)
  /\ rows' = After(With(tx[k], This(k), "approved"))
  /\ tx' = [tx EXCEPT ![k] = None]
  /\ Goto(k, "execute")
  /\ UNCHANGED <<due, effects, told, replies, faults>>

Approve(k) ==
  /\ At(k, "update") /\ reply[k].verdict = "yes" /\ Match(k)
  /\ tx' = [tx EXCEPT ![k] = With(@, This(k), "approved")]
  /\ Goto(k, "execute")
  /\ UNCHANGED <<rows, due, effects, told, replies, faults>>

\* Mutant of ApproveTooLate: it tries the update again.
ApproveAgain(k) ==
  /\ At(k, "update") /\ reply[k].verdict = "yes" /\ Miss(k)
  /\ UNCHANGED vars

\* _run_approved_action raises ValueError: the handler logs it and goes on to a normal turn.
ApproveTooLate(k) ==
  /\ At(k, "update") /\ reply[k].verdict = "yes" /\ Miss(k)
  /\ Abandon(k)
  /\ UNCHANGED <<rows, due, effects, told, replies, faults>>

\* Mutant of Reject: the rejection does not ask for the status.
RejectAnyway(k) ==
  /\ At(k, "update") /\ reply[k].verdict = "no" /\ ~Locked(This(k), k)
  /\ tx' = [tx EXCEPT ![k] = With(@, This(k), "rejected")]
  /\ Proceed(k, {<<This(k), "skipped">>})
  /\ UNCHANGED <<rows, due, effects, told, replies, faults>>

Reject(k) ==
  /\ At(k, "update") /\ reply[k].verdict = "no" /\ Match(k)
  /\ tx' = [tx EXCEPT ![k] = With(@, This(k), "rejected")]
  /\ Proceed(k, {<<This(k), "skipped">>})
  /\ UNCHANGED <<rows, due, effects, told, replies, faults>>

\* The caller asks whether there is a row, not what it says.
RejectTooLate(k) ==
  /\ At(k, "update") /\ reply[k].verdict = "no" /\ Miss(k)
  /\ Proceed(k, {<<This(k), "skipped">>})
  /\ UNCHANGED <<rows, due, tx, effects, told, replies, faults>>

\* PostgreSQL ends a circle of transactions that wait for each other by failing one of them.
WaitsFor(k, j) == At(k, "update") /\ This(k) \in DOMAIN tx[j]
Deadlocked(k) ==
  /\ \E j \in Handlers \ {k} : WaitsFor(k, j) /\ WaitsFor(j, k)
  /\ Abandon(k)
  /\ UNCHANGED <<rows, due, effects, told, replies, faults>>

Execute(k) ==
  /\ At(k, "execute")
  /\ effects' = [effects EXCEPT ![This(k)] = @ + 1]
  /\ Goto(k, "mark")
  /\ UNCHANGED <<rows, due, tx, told, replies, faults>>

\* The executor raises: credentials, payload, service, or an action it does not know.
ExecuteFails(k) ==
  /\ At(k, "execute")
  /\ Goto(k, "fail")
  /\ UNCHANGED <<rows, due, tx, effects, told, replies, faults>>

\* The service carries the action out and its answer is lost.
LoseAnswer(k) ==
  /\ At(k, "execute") /\ Fault
  /\ effects' = [effects EXCEPT ![This(k)] = @ + 1]
  /\ Goto(k, "fail")
  /\ UNCHANGED <<rows, due, tx, told, replies>>

\* mark_executed and mark_failed, each with the commit that follows it.
Mark(k, pc, status, answer) ==
  /\ At(k, pc)
  /\ rows' = After(With(tx[k], This(k), status))
  /\ tx' = [tx EXCEPT ![k] = None]
  /\ Proceed(k, {<<This(k), answer>>})
  /\ UNCHANGED <<due, effects, told, replies, faults>>

\* Mutant of MarkFailed: a status the table does not have.
MarkRetry(k) == Mark(k, "fail", "retry", "error")

MarkExecuted(k) == Mark(k, "mark", "executed", "done")
MarkFailed(k) == Mark(k, "fail", "failed", "error")

\* The answer to the reply: rejections are committed before it is given, and a reply with
\* approvals has nothing left to commit.
Finish(k) ==
  /\ At(k, "next") /\ reply[k].todo = << >>
  /\ rows' = IF reply[k].verdict = "no" THEN After(tx[k]) ELSE rows
  /\ told' = [a \in Proposals |-> told[a] \cup {s \in Answers : <<a, s>> \in reply[k].said}]
  /\ Abandon(k)
  /\ UNCHANGED <<due, effects, replies, faults>>

\* The process dies, the connection breaks, or a statement fails and every later one with it
\* (the refresh of the calendar cache swallows its error, not the transaction's).
Abort(k) ==
  /\ ~At(k, "idle") /\ Fault
  /\ Abandon(k)
  /\ UNCHANGED <<rows, due, effects, told, replies>>

-----------------------------------------------------------------------------

Work(k) == \/ Decide(k) \/ Converse(k) \/ Get(k) \/ Approve(k) \/ ApproveTooLate(k)
           \/ Reject(k) \/ RejectTooLate(k) \/ Deadlocked(k) \/ Execute(k) \/ ExecuteFails(k)
           \/ MarkExecuted(k) \/ MarkFailed(k) \/ Finish(k)

Next == \/ \E a \in Proposals : Propose(a) \/ Lapse(a)
        \/ \E k \in Handlers : Assemble(k) \/ Work(k) \/ LoseAnswer(k) \/ Abort(k)

\* A handler that began goes on: the model and the outside services answer or time out.
\* Nobody need propose or reply, and no fault need happen.
Spec == Init /\ [][Next]_vars /\ \A k \in Handlers : WF_vars(Work(k))

-----------------------------------------------------------------------------
(* Properties *)

\* Every variable has its type.
TypeOK ==
  /\ rows \in [Proposals -> Statuses]
  /\ due \subseteq Proposals
  /\ tx \in [Handlers -> Updates]
  /\ reply \in [Handlers -> Reply \cup {Idle}]
  /\ effects \in [Proposals -> Nat]
  /\ told \in [Proposals -> SUBSET Answers]
  /\ replies \in 0..MaxReplies /\ faults \in 0..MaxFaults

\* "A proposal executes at most once", however many replies approve it at the same time; only
\* a fault after the outside call, which takes the approval back with it, can add to it.
CarriedOutOnce == \A a \in Proposals : effects[a] <= 1 + faults

\* Once no transaction has the row, and nothing failed, the table says executed of the actions
\* that were carried out and of no other: none is rejected, expired or failed as well.
RecordAgrees ==
  \A a \in Proposals :
    faults = 0 /\ (\A k \in Handlers : a \notin DOMAIN tx[k])
    => (effects[a] > 0 <=> rows[a] = "executed")

\* An approval never outlives its handler: an action is not left approved with nobody to
\* execute it and no reply that could approve it again.
NothingIsStranded ==
  \A a \in Proposals :
    rows[a] = "approved" => \E k \in Handlers : At(k, "execute") /\ This(k) = a

\* What was decided is not decided again: no late approval, rejection or expiry changes it.
ClosedIsFinal ==
  [][\A a \in Proposals : rows[a] \in Closed => rows'[a] = rows[a]]_vars

\* Every reply comes to its end, also when it waits for the rows of another that executes,
\* comes too late, or meets another that waits for it.
ReplyEnds == \A k \in Handlers : (reply[k] # Idle) ~> (reply[k] = Idle)

\* "Only rows in status='proposed' can be approved or rejected": once the user was told that an
\* action is skipped, it is not carried out.  (It may have been before: a no that comes too late
\* says skipped of an action that another reply executed.)
SkippedIsOver ==
  [][\A a \in Proposals : "skipped" \in told[a] => effects'[a] = effects[a]]_vars
=============================================================================
