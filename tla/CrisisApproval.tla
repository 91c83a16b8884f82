--------------------------- MODULE CrisisApproval ---------------------------
(***************************************************************************)
(* The approval loop of the crisis-content pipeline: a writer edits cards  *)
(* in a shared document, the poller (crisis_content/poller.py) observes    *)
(* them and asks approvers in Slack (crisis_content/transitions.py), and   *)
(* the approvers' clicks become decisions (crisis_content/slack_actions.py *)
(* and decisions.py).                                                      *)
(*                                                                         *)
(* The poller works on one card per database transaction and Slack is not  *)
(* part of it: a request that was posted stays posted when the transaction *)
(* is rolled back.  Clicks are handled concurrently with it, each in a     *)
(* session of its own that reads first and inserts later.                  *)
(***************************************************************************)
EXTENDS Naturals, Sequences, FiniteSets, SequencesExt

CONSTANTS
  Cards,        \* identities of cards: header, platform and ordinal
  Hashes,       \* copy_hash values: texts the writer may give a card
  Clickers,     \* handlers of clicks that run at the same time
  Absent,       \* content of a card the document does not hold, and a row nobody inserted
  FirstDocs,    \* the documents to start with
  MaxEdits,     \* bound on the writer's edits
  MaxDecisions, \* bound on the decisions about one card
  MaxFaults     \* bound on the faults

VARIABLES
  doc,      \* the document: what each card says now
  rows,     \* crisis_content_cards: what was last observed, and committed
  history,  \* history[c]: copy versions, requests and decisions of c in order of their time
  ledger,   \* crisis_content_notifications
  posts,    \* history: how often Slack showed each request
  tick,     \* the poller
  click,    \* the clicks in progress
  edits,    \* edits so far
  faults    \* faults so far

vars == <<doc, rows, history, ledger, posts, tick, click, edits, faults>>

-----------------------------------------------------------------------------
(* Values *)

Routes == {"asset", "copy"}
\* "Draft" stands for every status but Ready: the poller acts on Ready alone.
Content == [status : [Routes -> {"Draft", "Ready"}], visual : BOOLEAN, hash : Hashes]
Row == [status : [Routes -> {"Draft", "Ready"}], hash : Hashes]
Request == [card : Cards, route : Routes, hash : Hashes]
Decisions == {"approved", "changes_requested"}

Version(h) == [kind |-> "version", hash |-> h]
Ask(r, h) == [kind |-> "ask", route |-> r, hash |-> h]
\* basis: how many decisions about the card its handler had read.
Decide(r, d, n) == [kind |-> "decision", route |-> r, decision |-> d, basis |-> n]
Event == {Version(h) : h \in Hashes}
         \cup {Ask(r, h) : r \in Routes, h \in Hashes}
         \cup {Decide(r, d, n) : r \in Routes, d \in Decisions, n \in 0..MaxDecisions}

ASSUME CrisisAssumption ==
  /\ FirstDocs \subseteq [Cards -> Content \cup {Absent}]
  /\ Absent \notin Content \cup Row /\ IsFiniteSet(Clickers)
  /\ MaxEdits \in Nat /\ MaxDecisions \in Nat /\ MaxFaults \in Nat

Idle == [pc |-> "idle"]

Init ==
  /\ doc \in FirstDocs
  /\ rows = [c \in Cards |-> Absent]
  /\ history = [c \in Cards |-> << >>]
  /\ ledger = {}
  /\ posts = [q \in Request |-> 0]
  /\ tick = Idle
  /\ click = [k \in Clickers |-> Idle]
  /\ edits = 0 /\ faults = 0

-----------------------------------------------------------------------------
(* What the tables say *)

DecidedIn(h) == Cardinality({i \in DOMAIN h : h[i].kind = "decision"})

\* Position of the latest decision about the route in a history, 0 without one.
LatestDecision(h, r) ==
  LET at == {i \in DOMAIN h : h[i].kind = "decision" /\ h[i].route = r}
  IN IF at = {} THEN 0 ELSE CHOOSE i \in at : \A j \in at : j <= i

\* Mutant: only a request for changes is reopened by a revision.
ReopenedUnlessApproved(h, r) ==
  LET last == LatestDecision(h, r)
  IN /\ last # 0
     /\ h[last].decision = "changes_requested"
     /\ \E i \in DOMAIN h : i > last /\ h[i].kind = "version"

\* find_reopening_decision: a version was first seen after the latest decision.
Reopened(h, r) ==
  LET last == LatestDecision(h, r)
  IN /\ last # 0
     /\ \E i \in DOMAIN h : i > last /\ h[i].kind = "version"

\* Mutant: an approval is compared with the decision that is attempted.
BlockedIfSame(h, r, attempted) ==
  LET last == LatestDecision(h, r)
  IN last # 0 /\ ~Reopened(h, r) /\ h[last].decision = attempted

\* is_blocked_by_existing_decision, for a route that is not reopened.
Blocked(h, r, attempted) ==
  LET last == LatestDecision(h, r)
  IN /\ last # 0
     /\ ~Reopened(h, r)
     /\ h[last].decision = "approved" \/ attempted = "changes_requested"

HasVersion(h, x) == \E i \in DOMAIN h : h[i].kind = "version" /\ h[i].hash = x

\* _routes_notified_for_same_copy: somebody was asked about another card of this text.
NotifiedForSameCopy(c, x) ==
  {q.route : q \in {n \in ledger : n.card # c /\ rows[n.card].hash = x}}

-----------------------------------------------------------------------------
(* The writer, outside the program *)

\* The writer turns a chip, pastes or removes the visual, or rewrites the copy.
Edit(c) ==
  /\ edits < MaxEdits
  /\ doc[c] # Absent
  /\ \/ \E r \in Routes : \E st \in {"Draft", "Ready"} \ {doc[c].status[r]} :
          doc' = [doc EXCEPT ![c].status[r] = st]
     \/ doc' = [doc EXCEPT ![c].visual = ~@]
     \/ \E x \in Hashes \ {doc[c].hash} : doc' = [doc EXCEPT ![c].hash = x]
  /\ edits' = edits + 1
  /\ UNCHANGED <<rows, history, ledger, posts, tick, click, faults>>

\* A placeholder date is filled in: the same text under another header.
Rename(c, d) ==
  /\ edits < MaxEdits
  /\ doc[c] # Absent /\ doc[d] = Absent
  /\ doc' = [doc EXCEPT ![c] = Absent, ![d] = doc[c]]
  /\ edits' = edits + 1
  /\ UNCHANGED <<rows, history, ledger, posts, tick, click, faults>>

-----------------------------------------------------------------------------
(* The poller *)

Restricted(f, S) == [x \in S |-> f[x]]
Fault == faults < MaxFaults /\ faults' = faults + 1

(***************************************************************************)
(* The export is fetched and parsed, and its tabs are resolved.  Cards     *)
(* that cannot be read, or whose tab is not found, are not looked at in    *)
(* this tick.                                                              *)
(***************************************************************************)
Fetch ==
  /\ tick.pc = "idle"
  /\ LET here == {c \in Cards : doc[c] # Absent}
     IN \E readable \in SUBSET here :
          /\ IF readable = here THEN UNCHANGED faults ELSE Fault
          /\ tick' = [pc |-> "next", export |-> Restricted(doc, readable)]
  /\ UNCHANGED <<doc, rows, history, ledger, posts, click, edits>>

(***************************************************************************)
(* record_observation, its writes: the row takes what was observed and a   *)
(* text not seen before becomes a version, stamped with the time of this   *)
(* step.  They are flushed and not committed; "at" keeps the stamp.        *)
(***************************************************************************)
Observe(c) ==
  /\ tick.pc = "next"
  /\ c \in DOMAIN tick.export
  /\ tick' = [pc |-> "observed", card |-> c, seen |-> tick.export[c],
              at |-> Len(history[c]),
              export |-> Restricted(tick.export, DOMAIN tick.export \ {c})]
  /\ UNCHANGED <<doc, rows, history, ledger, posts, click, edits, faults>>

\* What the poller's own transaction reads: the committed events, and its version.
Stamped(h) ==
  IF HasVersion(h, tick.seen.hash) THEN h
  ELSE InsertAt(h, tick.at + 1, Version(tick.seen.hash))

\* Mutant: whoever renames a card is not asked about any route of it.
WantedUnlessRenamed(c, seen, h) ==
  {r \in Routes :
     /\ ~(rows[c] = Absent /\ \E d \in Cards \ {c} : rows[d] # Absent /\ rows[d].hash = seen.hash)
     /\ seen.status[r] = "Ready"
     /\ r = "asset" => seen.visual
     /\ rows[c] = Absent \/ rows[c].status[r] # "Ready" \/ Reopened(h, r)
     /\ [card |-> c, route |-> r, hash |-> seen.hash] \notin ledger}

\* Mutant: the ledger is not asked whether this text was notified.
WantedAgain(c, seen, h) ==
  {r \in Routes :
     /\ rows[c] = Absent => r \notin NotifiedForSameCopy(c, seen.hash)
     /\ seen.status[r] = "Ready"
     /\ r = "asset" => seen.visual
     /\ rows[c] = Absent \/ rows[c].status[r] # "Ready" \/ Reopened(h, r)}

\* _evaluate_route: the requests this observation calls for.
Wanted(c, seen, h) ==
  {r \in Routes :
     /\ rows[c] = Absent => r \notin NotifiedForSameCopy(c, seen.hash)
     /\ seen.status[r] = "Ready"
     /\ r = "asset" => seen.visual
     /\ \/ rows[c] = Absent \/ rows[c].status[r] # "Ready"
        \/ Reopened(h, r)
     /\ [card |-> c, route |-> r, hash |-> seen.hash] \notin ledger}

Evaluate ==
  /\ tick.pc = "observed"
  /\ tick' = [pc |-> "posting", card |-> tick.card, seen |-> tick.seen, at |-> tick.at,
              export |-> tick.export, failed |-> FALSE, marked |-> {},
              ask |-> Wanted(tick.card, tick.seen, Stamped(history[tick.card]))]
  /\ UNCHANGED <<doc, rows, history, ledger, posts, click, edits, faults>>

\* The asset route comes first.
NextRoute == CHOOSE r \in tick.ask : "asset" \in tick.ask => r = "asset"

\* post_transition_card, then mark_notified in the open transaction.
Post ==
  /\ tick.pc = "posting" /\ tick.ask # {}
  /\ LET r == NextRoute
         q == [card |-> tick.card, route |-> r, hash |-> tick.seen.hash]
     IN /\ posts' = [posts EXCEPT ![q] = @ + 1]
        /\ history' = [history EXCEPT ![q.card] = Append(@, Ask(r, q.hash))]
        /\ tick' = [tick EXCEPT !.ask = @ \ {r}, !.marked = @ \cup {q}]
  /\ UNCHANGED <<doc, rows, ledger, click, edits, faults>>

\* Slack refuses; the other route of the card is still tried.
PostFails ==
  /\ tick.pc = "posting" /\ tick.ask # {}
  /\ Fault
  /\ tick' = [tick EXCEPT !.ask = @ \ {NextRoute}, !.failed = TRUE]
  /\ UNCHANGED <<doc, rows, history, ledger, posts, click, edits>>

\* Mutant: what was observed is committed although a request was refused.
CommitAnyway ==
  /\ tick.pc = "posting" /\ tick.ask = {}
  /\ rows' = [rows EXCEPT ![tick.card] = [status |-> tick.seen.status, hash |-> tick.seen.hash]]
  /\ history' = [history EXCEPT ![tick.card] = Stamped(@)]
  /\ ledger' = ledger \cup tick.marked
  /\ tick' = [pc |-> "next", export |-> tick.export]
  /\ UNCHANGED <<doc, posts, click, edits, faults>>

Commit ==
  /\ tick.pc = "posting" /\ tick.ask = {}
  /\ ~tick.failed
  /\ rows' = [rows EXCEPT ![tick.card] = [status |-> tick.seen.status, hash |-> tick.seen.hash]]
  /\ history' = [history EXCEPT ![tick.card] = Stamped(@)]
  /\ ledger' = ledger \cup tick.marked
  /\ tick' = [pc |-> "next", export |-> tick.export]
  /\ UNCHANGED <<doc, posts, click, edits, faults>>

\* A rollback forgets the row of a new card: the buttons of its requests name no row.
WithoutDeadButtons ==
  IF tick.pc \in {"observed", "posting"} /\ rows[tick.card] = Absent
  THEN [history EXCEPT ![tick.card] = << >>]
  ELSE history

Rollback ==
  /\ tick.pc = "posting" /\ tick.ask = {}
  /\ tick.failed
  /\ history' = WithoutDeadButtons
  /\ tick' = [pc |-> "next", export |-> tick.export]
  /\ UNCHANGED <<doc, rows, ledger, posts, click, edits, faults>>

EndTick ==
  /\ tick.pc = "next"
  /\ DOMAIN tick.export = {}
  /\ tick' = Idle
  /\ UNCHANGED <<doc, rows, history, ledger, posts, click, edits, faults>>

-----------------------------------------------------------------------------
(* The approvers *)

\* A click on a request that Slack shows: what is decided about the route is read.
Click(k, c, r, d) ==
  /\ click[k] = Idle
  /\ rows[c] # Absent
  /\ \E i \in DOMAIN history[c] : history[c][i].kind = "ask" /\ history[c][i].route = r
  /\ DecidedIn(history[c]) + Cardinality({j \in Clickers : click[j] # Idle}) < MaxDecisions
  /\ ~Blocked(history[c], r, d)
  /\ click' = [click EXCEPT ![k] = [pc |-> "deciding", card |-> c, route |-> r,
                                    decision |-> d, basis |-> DecidedIn(history[c])]]
  /\ UNCHANGED <<doc, rows, history, ledger, posts, tick, edits, faults>>

\* record_decision commits the row; nothing is read again before it.
Record(k) ==
  /\ click[k] # Idle
  /\ LET x == click[k]
     IN history' = [history EXCEPT ![x.card] = Append(@, Decide(x.route, x.decision, x.basis))]
  /\ click' = [click EXCEPT ![k] = Idle]
  /\ UNCHANGED <<doc, rows, ledger, posts, tick, edits, faults>>

-----------------------------------------------------------------------------
\* The process dies and is started again: the open transaction and the clicks are gone.
Crash ==
  /\ Fault
  /\ tick.pc # "idle" \/ \E k \in Clickers : click[k] # Idle
  /\ history' = WithoutDeadButtons
  /\ tick' = Idle
  /\ click' = [k \in Clickers |-> Idle]
  /\ UNCHANGED <<doc, rows, ledger, posts, edits>>

Writer == \E c \in Cards : Edit(c) \/ \E d \in Cards : Rename(c, d)

Poller == \/ Fetch \/ \E c \in Cards : Observe(c)
          \/ Evaluate \/ Post \/ PostFails \/ Commit \/ Rollback \/ EndTick

Approvers == \E k \in Clickers :
               \/ \E c \in Cards, r \in Routes, d \in Decisions : Click(k, c, r, d)
               \/ Record(k)

Next == Writer \/ Poller \/ Approvers \/ Crash

(***************************************************************************)
(* The scheduler starts a tick every two minutes and a tick runs to its    *)
(* end.  Nobody promises that the writer writes or that an approver clicks.*)
(***************************************************************************)
Spec == Init /\ [][Next]_vars /\ WF_vars(Poller)

-----------------------------------------------------------------------------
(* Properties *)

Export == UNION {[S -> Content] : S \in SUBSET Cards}
TickType ==
  tick \in {Idle} \cup [pc : {"next"}, export : Export]
     \cup [pc : {"observed"}, card : Cards, seen : Content, at : Nat, export : Export]
     \cup [pc : {"posting"}, card : Cards, seen : Content, at : Nat, export : Export,
           failed : BOOLEAN, marked : SUBSET Request, ask : SUBSET Routes]

ClickType ==
  click \in [Clickers -> {Idle} \cup [pc : {"deciding"}, card : Cards, route : Routes,
                                    decision : Decisions, basis : 0..MaxDecisions]]

\* The shape of every table, of the poller and of the clicks (orm.py, poller.py:365-586).
TypeOK ==
  /\ doc \in [Cards -> Content \cup {Absent}]
  /\ rows \in [Cards -> Row \cup {Absent}]
  /\ history \in [Cards -> Seq(Event)]
  /\ ledger \subseteq Request
  /\ posts \in [Request -> Nat]
  /\ TickType /\ ClickType
  /\ edits \in 0..MaxEdits /\ faults \in 0..MaxFaults

\* Somebody was asked about this route of the card, or of a card of which it took over the text.
Asked(r) == \E q \in Request : q.route = r /\ posts[q] > 0

(***************************************************************************)
(* No request is lost by a refusal or a crash (poller.py:21-38): a row     *)
(* says that the copy is Ready only if Slack showed somebody the request,  *)
(* so the next tick still sees the transition of a request that failed.    *)
(***************************************************************************)
ReadyRowWasAsked ==
  \A c \in Cards : rows[c] # Absent /\ rows[c].status["copy"] = "Ready" => Asked("copy")

(***************************************************************************)
(* A request is repeated only because of a fault: with the ledger          *)
(* committed per card, each refusal or crash repeats a request at most     *)
(* once, whatever the writer and the approvers do meanwhile.               *)
(***************************************************************************)
RepeatedOnlyAfterFault == \A q \in Request : posts[q] <= 1 + faults

\* At j the route is decided for the first time after i, and the text is still the same.
DecidedNext(h, i, j) ==
  /\ i < j
  /\ h[i].kind = "decision" /\ h[j].kind = "decision" /\ h[i].route = h[j].route
  /\ \A x \in (i + 1)..(j - 1) :
       h[x].kind # "version" /\ ~(h[x].kind = "decision" /\ h[x].route = h[i].route)

(***************************************************************************)
(* An approval settles a route (decisions.py:65-89): while the text is the *)
(* same, the first decision that follows it is that of a click which was   *)
(* being handled when the approval was recorded, and so had not read it.   *)
(***************************************************************************)
ApprovalSettles ==
  \A c \in Cards : \A i, j \in DOMAIN history[c] :
    LET h == history[c]
    IN DecidedNext(h, i, j) /\ h[i].decision = "approved"
       => h[j].basis < DecidedIn(SubSeq(h, 1, i))

(***************************************************************************)
(* A copy that becomes Ready is brought before an approver, unless the     *)
(* writer takes it back first: neither a rename in between, nor a refusal, *)
(* nor a crash swallows the transition (transitions.py:309-317).           *)
(***************************************************************************)
ReadyIs(c) == doc[c] # Absent /\ doc[c].status["copy"] = "Ready"
ReadyIsAsked == \A c \in Cards : ReadyIs(c) /\ ~Asked("copy") ~> Asked("copy") \/ ~ReadyIs(c)

(***************************************************************************)
(* A text nobody saw before, given to a Ready card after a decision, is    *)
(* brought before the approvers of that route (transitions.py:26-63),      *)
(* unless they decide once more or the writer changes the card again.      *)
(***************************************************************************)
DecidedAfterSeeing(c, x) ==
  \E i, j \in DOMAIN history[c] :
    /\ i < j
    /\ history[c][i] = Version(x)
    /\ history[c][j].kind = "decision" /\ history[c][j].route = "copy"
Revised(c, x) ==
  /\ ReadyIs(c) /\ doc[c].hash = x
  /\ tick = Idle
  /\ LatestDecision(history[c], "copy") # 0
  /\ ~HasVersion(history[c], x)
RevisionIsAsked ==
  \A c \in Cards, x \in Hashes :
    Revised(c, x) ~> \/ posts[[card |-> c, route |-> "copy", hash |-> x]] > 0
                     \/ DecidedAfterSeeing(c, x)
                     \/ ~(ReadyIs(c) /\ doc[c].hash = x)
=============================================================================
