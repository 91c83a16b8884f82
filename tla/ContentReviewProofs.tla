------------------------- MODULE ContentReviewProofs -------------------------
(***************************************************************************)
(* Proofs about ContentReview, for every number of drafts, of requests     *)
(* served at once and of faults, with or without sends.                    *)
(***************************************************************************)
EXTENDS ContentReview, FiniteSetTheorems, SequenceTheorems, WellFoundedInduction, TLAPS

-----------------------------------------------------------------------------
(* The states and the moves between them *)

DraftStates == DOMAIN DeliverableTransitions
\* No path of the candidate ends in a failed preparation.
WorkspaceStates == DOMAIN WorkspaceTransitions \ {"content_preparation_failed"}
States(o) == IF o \in Drafts THEN DraftStates
             ELSE IF o = Workspace THEN WorkspaceStates ELSE Decisions \cup {"pending"}
AnyState == DraftStates \cup WorkspaceStates \cup Decisions \cup {"pending"}

LEMMA DraftStatesAre ==
  DraftStates = {"queued", "generating", "draft_ready", "approved", "queued_for_send", "sent",
                 "revised", "rejected", "generation_failed"}
  BY DEF DraftStates, DeliverableTransitions

LEMMA WorkspaceStatesAre ==
  /\ DOMAIN WorkspaceTransitions =
       {"pending_content", "in_content_preparation", "sent_to_writing_studio",
        "content_preparation_failed", "content_in_review", "all_content_approved",
        "revision_needed"}
  /\ WorkspaceStates =
       {"pending_content", "in_content_preparation", "sent_to_writing_studio",
        "content_in_review", "all_content_approved", "revision_needed"}
  BY DEF WorkspaceStates, WorkspaceTransitions

\* Drafts, the workspace and the gate are different rows.
LEMMA RowsDiffer ==
  /\ Drafts \subseteq 0..Gate /\ Workspace \in 0..Gate /\ Gate \in 0..Gate /\ Gate \in Nat
  /\ Workspace \notin Drafts /\ Gate \notin Drafts /\ Gate # Workspace
  /\ 0..Gate = Drafts \cup {Workspace, Gate} /\ 0..NumDrafts = Drafts \cup {Workspace}
  /\ NumDrafts \in Nat
  BY ReviewAssumption DEF Drafts, Workspace, Gate

\* A legal move of a draft leads to one of its states; one that is queued to be sent can only
\* be sent, and one that was sent cannot move.
LEMMA DraftMoves ==
  ASSUME NEW d \in Drafts, NEW from \in DraftStates, NEW to, Legal(d, from, to)
  PROVE  /\ to \in DraftStates
         /\ from = "queued_for_send" => to = "sent"
         /\ from # "sent"
<1>1. to \in DeliverableTransitions[from]
  BY RowsDiffer DEF Legal
<1> QED  BY <1>1, DraftStatesAre DEF DeliverableTransitions

LEMMA QueuedCanBeSent == \A d \in Drafts : Legal(d, "queued_for_send", "sent")
  BY RowsDiffer DEF Legal, DeliverableTransitions

LEMMA LegalElsewhere ==
  /\ \A from, to : Legal(Workspace, from, to) <=> to \in WorkspaceTransitions[from]
  /\ \A from, to : Legal(Gate, from, to)
  BY RowsDiffer DEF Legal

LEMMA WorkspaceMoves ==
  ASSUME NEW from \in DOMAIN WorkspaceTransitions, NEW to \in WorkspaceTransitions[from]
  PROVE  /\ to \in DOMAIN WorkspaceTransitions /\ from # to
         /\ from \in WorkspaceStates
  BY WorkspaceStatesAre DEF WorkspaceTransitions

-----------------------------------------------------------------------------
(* The paths of the workspace *)

LEMMA SevenStates ==
  IsFiniteSet(DOMAIN WorkspaceTransitions) /\ Cardinality(DOMAIN WorkspaceTransitions) = 7
<1> DEFINE S1 == {} \cup {"pending_content"}
           S2 == S1 \cup {"in_content_preparation"}
           S3 == S2 \cup {"sent_to_writing_studio"}
           S4 == S3 \cup {"content_preparation_failed"}
           S5 == S4 \cup {"content_in_review"}
           S6 == S5 \cup {"all_content_approved"}
           S7 == S6 \cup {"revision_needed"}
<1>1. IsFiniteSet(S1) /\ Cardinality(S1) = 1
  BY FS_EmptySet, FS_AddElement
<1>2. IsFiniteSet(S2) /\ Cardinality(S2) = 2
  BY <1>1, FS_AddElement
<1>3. IsFiniteSet(S3) /\ Cardinality(S3) = 3
  BY <1>2, FS_AddElement
<1>4. IsFiniteSet(S4) /\ Cardinality(S4) = 4
  BY <1>3, FS_AddElement
<1>5. IsFiniteSet(S5) /\ Cardinality(S5) = 5
  BY <1>4, FS_AddElement
<1>6. IsFiniteSet(S6) /\ Cardinality(S6) = 6
  BY <1>5, FS_AddElement
<1>7. IsFiniteSet(S7) /\ Cardinality(S7) = 7
  BY <1>6, FS_AddElement
<1>8. DOMAIN WorkspaceTransitions = S7
  BY WorkspaceStatesAre
<1> QED  BY <1>7, <1>8

LEMMA PathsAre ==
  ASSUME NEW p
  PROVE  p \in Paths <=>
           \E n \in 1..7 :
             /\ p \in [1..n -> DOMAIN WorkspaceTransitions]
             /\ \A k \in 1..(n - 1) : p[k + 1] \in WorkspaceTransitions[p[k]]
<1>1. ASSUME NEW n \in 1..7, NEW q \in [1..n -> DOMAIN WorkspaceTransitions] PROVE Len(q) = n
  OBVIOUS
<1> DEFINE Legally(q) == \A k \in 1..(Len(q) - 1) : q[k + 1] \in WorkspaceTransitions[q[k]]
           P(n) == {q \in [1..n -> DOMAIN WorkspaceTransitions] : Legally(q)}
<1>2. Paths = UNION {P(n) : n \in 1..7}
  BY SevenStates DEF Paths
<1>3. \A n \in 1..7 : p \in P(n) <=>
        /\ p \in [1..n -> DOMAIN WorkspaceTransitions]
        /\ \A k \in 1..(n - 1) : p[k + 1] \in WorkspaceTransitions[p[k]]
  BY <1>1
<1> HIDE DEF P
<1> QED  BY <1>2, <1>3

\* Of the paths between two states there is a shortest.
LEMMA ShortestPath ==
  ASSUME NEW from, NEW to, Reachable(from, to)
  PROVE  \E p \in Paths : /\ Head(p) = from /\ Last(p) = to
                          /\ workspace_path(from, to) = Tail(p)
<1> DEFINE ps == {p \in Paths : Head(p) = from /\ Last(p) = to}
           L == {n \in 1..7 : \E p \in ps : Len(p) = n}
<1>1. \A p \in ps : Len(p) \in 1..7
  BY PathsAre
<1>2. L # {}
  BY <1>1 DEF Reachable
<1>3. \E n \in L : \A m \in L : n <= m
  <2> HIDE DEF ps
  <2>1. \A n \in L : n \in {1, 2, 3, 4, 5, 6, 7}
    OBVIOUS
  <2> HIDE DEF L
  <2> QED  BY <1>2, <2>1, SMTT(30)
<1>4. \E p \in ps : \A q \in ps : Len(p) <= Len(q)
  <2>1. PICK n \in L : \A m \in L : n <= m
    BY <1>3
  <2>2. PICK p \in ps : Len(p) = n
    BY <2>1
  <2>3. \A q \in ps : Len(q) \in L
    BY <1>1
  <2> QED  BY <2>1, <2>2, <2>3
<1>5. (CHOOSE p \in ps : \A q \in ps : Len(p) <= Len(q)) \in ps
  BY <1>4
<1> QED  BY <1>5 DEF workspace_path

Steps == [row : 0..Gate, to : AnyState]
Moves == {m \in Steps : m.to \in States(m.row)}

\* The way to another state leads through states of the workspace.
LEMMA WayIsTyped ==
  ASSUME NEW from, NEW to \in WorkspaceStates, from # to, Reachable(from, to)
  PROVE  /\ workspace_path(from, to) \in Seq(WorkspaceStates)
         /\ workspace_path(from, to) # << >>
<1>1. PICK p \in Paths : /\ Head(p) = from /\ Last(p) = to
                         /\ workspace_path(from, to) = Tail(p)
  BY ShortestPath
<1>2. PICK n \in 1..7 :
        /\ p \in [1..n -> DOMAIN WorkspaceTransitions]
        /\ \A k \in 1..(n - 1) : p[k + 1] \in WorkspaceTransitions[p[k]]
  BY <1>1, PathsAre
<1>3. p \in Seq(DOMAIN WorkspaceTransitions) /\ Len(p) = n /\ p # << >>
  BY <1>2
<1>4. p[1] = from /\ p[n] = to
  BY <1>1, <1>3 DEF Last
<1>5. n # 1
  BY <1>4
<1>6. \A k \in 1..n : p[k] \in WorkspaceStates
  <2> SUFFICES ASSUME NEW k \in 1..n PROVE p[k] \in WorkspaceStates
    OBVIOUS
  <2>1. CASE k = n
    BY <1>4, <2>1
  <2>2. CASE k # n
    <3>1. k \in 1..(n - 1)
      BY <2>2
    <3>2. p[k + 1] \in WorkspaceTransitions[p[k]] /\ p[k] \in DOMAIN WorkspaceTransitions
      BY <1>2, <3>1
    <3> QED  BY <3>2, WorkspaceMoves
  <2> QED  BY <2>1, <2>2
<1>7. p \in Seq(WorkspaceStates)
  BY <1>2, <1>6
<1>8. Tail(p) \in Seq(WorkspaceStates) /\ Len(Tail(p)) = n - 1
  BY <1>3, <1>7, HeadTailProperties
<1>9. Tail(p) # << >>
  <2>1. Len(Tail(p)) # 0
    BY <1>5, <1>8
  <2>2. Len(<< >>) = 0
    OBVIOUS
  <2> QED  BY <2>1, <2>2
<1> QED  BY <1>1, <1>8, <1>9

\* As a list of moves.
LEMMA WayMoves ==
  ASSUME NEW from, NEW to \in WorkspaceStates, from # to, Reachable(from, to)
  PROVE  LET path == workspace_path(from, to)
             moves == [k \in DOMAIN path |-> Move(Workspace, path[k])]
         IN  /\ moves \in Seq(Moves) /\ moves # << >>
             /\ \A k \in DOMAIN moves : moves[k].row = Workspace
<1> DEFINE path == workspace_path(from, to)
           moves == [k \in DOMAIN path |-> Move(Workspace, path[k])]
<1>1. path \in Seq(WorkspaceStates) /\ path # << >>
  BY WayIsTyped
<1> HIDE DEF path
<1>2. DOMAIN path = 1..Len(path) /\ Len(path) \in Nat /\ Len(path) # 0
  BY <1>1
<1>3. \A k \in DOMAIN path : Move(Workspace, path[k]) \in Moves
  <2> SUFFICES ASSUME NEW k \in DOMAIN path PROVE Move(Workspace, path[k]) \in Moves
    OBVIOUS
  <2>1. path[k] \in WorkspaceStates
    BY <1>1, <1>2
  <2>2. States(Workspace) = WorkspaceStates
    BY RowsDiffer DEF States
  <2> QED  BY <2>1, <2>2, RowsDiffer DEF Move, Moves, Steps, AnyState
<1>4. moves \in [1..Len(path) -> Moves]
  BY <1>2, <1>3
<1>5. moves \in Seq(Moves) /\ Len(moves) = Len(path)
  BY <1>2, <1>4
<1>6. \A k \in DOMAIN moves : moves[k].row = Workspace
  BY DEF Move
<1> QED  BY <1>2, <1>5, <1>6 DEF path

\* One legal move is a path.
LEMMA MoveIsReachable ==
  ASSUME NEW from \in DOMAIN WorkspaceTransitions, NEW to \in WorkspaceTransitions[from]
  PROVE  Reachable(from, to)
<1> DEFINE p == <<from, to>>
<1>1. to \in DOMAIN WorkspaceTransitions
  BY WorkspaceMoves
<1>2. p \in [1..2 -> DOMAIN WorkspaceTransitions]
  BY <1>1
<1>3. \A k \in 1..(2 - 1) : p[k + 1] \in WorkspaceTransitions[p[k]]
  OBVIOUS
<1>4. p \in Paths
  BY <1>2, <1>3, PathsAre
<1>5. Head(p) = from /\ Len(p) = 2 /\ p[2] = to
  OBVIOUS
<1> HIDE DEF p
<1> QED  BY <1>4, <1>5 DEF Reachable, Last

\* Unless all content is approved, the workspace can be sent back for a revision.
LEMMA RevisionIsReachable ==
  ASSUME NEW from \in WorkspaceStates, from # "all_content_approved"
  PROVE  Reachable(from, "revision_needed")
<1> DEFINE p1 == <<"pending_content", "in_content_preparation", "sent_to_writing_studio",
                   "content_in_review", "revision_needed">>
           p2 == <<"in_content_preparation", "sent_to_writing_studio", "content_in_review",
                   "revision_needed">>
           p3 == <<"sent_to_writing_studio", "content_in_review", "revision_needed">>
           p4 == <<"content_in_review", "revision_needed">>
           p5 == <<"revision_needed">>
           S == DOMAIN WorkspaceTransitions
           T(a, b) == b \in WorkspaceTransitions[a]
<1>1. /\ T("pending_content", "in_content_preparation")
      /\ T("in_content_preparation", "sent_to_writing_studio")
      /\ T("sent_to_writing_studio", "content_in_review")
      /\ T("content_in_review", "revision_needed")
  BY DEF WorkspaceTransitions
<1>2. p1 \in Paths
  <2>1. p1 \in [1..5 -> S]
    BY WorkspaceStatesAre
  <2>2. \A k \in 1..(5 - 1) : T(p1[k], p1[k + 1])
    BY <1>1
  <2> QED  BY <2>1, <2>2, PathsAre
<1>3. p2 \in Paths
  <2>1. p2 \in [1..4 -> S]
    BY WorkspaceStatesAre
  <2>2. \A k \in 1..(4 - 1) : T(p2[k], p2[k + 1])
    BY <1>1
  <2> QED  BY <2>1, <2>2, PathsAre
<1>4. p3 \in Paths
  <2>1. p3 \in [1..3 -> S]
    BY WorkspaceStatesAre
  <2>2. \A k \in 1..(3 - 1) : T(p3[k], p3[k + 1])
    BY <1>1
  <2> QED  BY <2>1, <2>2, PathsAre
<1>5. p4 \in Paths
  <2>1. p4 \in [1..2 -> S]
    BY WorkspaceStatesAre
  <2>2. \A k \in 1..(2 - 1) : T(p4[k], p4[k + 1])
    BY <1>1
  <2> QED  BY <2>1, <2>2, PathsAre
<1>6. p5 \in Paths
  <2>1. p5 \in [1..1 -> S]
    BY WorkspaceStatesAre
  <2>2. \A k \in 1..(1 - 1) : T(p5[k], p5[k + 1])
    OBVIOUS
  <2> QED  BY <2>1, <2>2, PathsAre
<1>7. /\ Head(p1) = "pending_content" /\ Last(p1) = "revision_needed"
      /\ Head(p2) = "in_content_preparation" /\ Last(p2) = "revision_needed"
      /\ Head(p3) = "sent_to_writing_studio" /\ Last(p3) = "revision_needed"
      /\ Head(p4) = "content_in_review" /\ Last(p4) = "revision_needed"
      /\ Head(p5) = "revision_needed" /\ Last(p5) = "revision_needed"
  BY DEF Last
<1> HIDE DEF p1, p2, p3, p4, p5
<1> QED  BY <1>2, <1>3, <1>4, <1>5, <1>6, <1>7, WorkspaceStatesAre DEF Reachable

\* What the drafts call for.
LEMMA TargetType ==
  ASSUME NEW statuses
  PROVE  /\ Target(statuses) \in WorkspaceStates
         /\ "rejected" \in statuses => Target(statuses) = "revision_needed"
<1>1. CASE "rejected" \in statuses
  <2>1. Target(statuses) = "revision_needed"
    BY <1>1 DEF Target
  <2> QED  BY <2>1, WorkspaceStatesAre
<1>2. CASE "rejected" \notin statuses
  BY <1>2, WorkspaceStatesAre DEF Target
<1> QED  BY <1>1, <1>2

-----------------------------------------------------------------------------
(* The shape of the state *)

Sends == [draft : Drafts, status : {"queued", "skipped", "sent", "simulated"},
          by : Nat, handed : Seq(Nat)]
Audits == [from : AnyState, to : AnyState, by : Nat]
Stages == {"lock", "workspace", "enqueue", "hand", "commit"}
Tx == [pc : Stages, kind : Kinds, subject : Nat, no : Nat,
       copy : [0..Gate -> AnyState \cup {"none"}], path : [0..Gate -> Seq(AnyState)],
       todo : Seq(Moves), then : Stages \ {"lock"}, locks : SUBSET Nat,
       added : Seq(Sends \cup {"sent", "simulated"})]
Publishing == [pc : {"publish"}, draft : Drafts, to : {"draft_ready", "approved"}]

\* What the copy of row o was before the k-th state that transaction r moves it to.
Was(r, o, k) == IF k = 1 THEN r.copy[o] ELSE r.path[o][k - 1]

\* Of the rows a transaction has loaded, moved or is about to move, each is there; and it
\* moves a draft legally, as its session sees it.
WellFormed(r) ==
  /\ r \in Tx
  /\ \A o \in 0..Gate : r.copy[o] \in States(o) \cup {"none"} /\ r.path[o] \in Seq(States(o))
  /\ \A o \in 0..NumDrafts : r.path[o] # << >> => r.copy[o] # "none"
  /\ \A d \in Drafts : r.copy[d] # "none" => row[d] # "none"
  /\ \A k \in DOMAIN r.todo : row[r.todo[k].row] # "none"
  /\ r.pc = "lock" <=> r.todo # << >>
  /\ \A d \in Drafts : \A k \in DOMAIN r.path[d] : Legal(d, Was(r, d, k), r.path[d][k])

RowsInv ==
  /\ row \in [0..Gate -> AnyState \cup {"none"}]
  /\ \A o \in 0..Gate : row[o] \in States(o) \cup {"none"}
  /\ row[Workspace] # "none"

TrailTyped ==
  /\ trail \in [0..Gate -> Seq(Audits)]
  /\ \A o \in 0..NumDrafts : \A k \in DOMAIN trail[o] : trail[o][k].to \in States(o)
  /\ \A d \in Drafts : \A k \in DOMAIN trail[d] :
       Legal(d, trail[d][k].from, trail[d][k].to) /\ trail[d][k].from \in DraftStates

ReqInv ==
  /\ req \in [Handlers -> Tx \cup Publishing \cup {Idle}]
  /\ \A h \in Handlers :
       \/ req[h] = Idle
       \/ req[h] \in Publishing /\ row[req[h].draft] # "none"
       \/ WellFormed(req[h])

ShapeInv ==
  /\ RowsInv /\ TrailTyped /\ ReqInv
  /\ review \in [Drafts -> {"none", "pending", "decided"}]
  /\ sends \in Seq(Sends) /\ \A s \in DOMAIN sends : row[sends[s].draft] # "none"
  /\ begun \in Nat /\ faults \in 0..MaxFaults

LEMMA TxType ==
  ASSUME NEW pc \in Stages, NEW kind \in Kinds, NEW subject \in Nat, NEW no \in Nat,
         NEW copy \in [0..Gate -> AnyState \cup {"none"}],
         NEW path \in [0..Gate -> Seq(AnyState)], NEW todo \in Seq(Moves),
         NEW then \in Stages \ {"lock"}, NEW locks \in SUBSET Nat,
         NEW added \in Seq(Sends \cup {"sent", "simulated"})
  PROVE  [pc |-> pc, kind |-> kind, subject |-> subject, no |-> no, copy |-> copy, path |-> path,
          todo |-> todo, then |-> then, locks |-> locks, added |-> added] \in Tx
  BY DEF Tx

LEMMA StatesType ==
  /\ \A o \in 0..Gate : States(o) \subseteq AnyState /\ "none" \notin States(o)
  /\ "none" \notin AnyState
  /\ \A d \in Drafts : States(d) = DraftStates
  /\ States(Workspace) = WorkspaceStates /\ States(Gate) = Decisions \cup {"pending"}
<1>1. /\ \A d \in Drafts : States(d) = DraftStates
      /\ States(Workspace) = WorkspaceStates /\ States(Gate) = Decisions \cup {"pending"}
  BY RowsDiffer DEF States
<1>2. "none" \notin AnyState
  BY DraftStatesAre, WorkspaceStatesAre DEF AnyState, Decisions
<1>3. \A o \in 0..Gate : States(o) \subseteq AnyState
  BY DEF States, AnyState
<1> QED  BY <1>1, <1>2, <1>3

LEMMA SendType ==
  ASSUME ShapeInv, NEW s \in DOMAIN sends
  PROVE  /\ sends[s] \in Sends /\ sends[s].draft \in Drafts
         /\ sends[s].draft \in 0..Gate /\ sends[s].draft \in 0..NumDrafts
         /\ row[sends[s].draft] # "none"
         /\ sends[s].by \in Nat /\ sends[s].handed \in Seq(Nat)
         /\ sends[s].status \in {"queued", "skipped", "sent", "simulated"}
<1>1. sends \in Seq(Sends) /\ row[sends[s].draft] # "none"
  BY DEF ShapeInv
<1>2. sends[s] \in Sends
  BY <1>1
<1>3. sends[s].draft \in Drafts /\ sends[s].by \in Nat /\ sends[s].handed \in Seq(Nat)
      /\ sends[s].status \in {"queued", "skipped", "sent", "simulated"}
  BY <1>2 DEF Sends
<1> QED  BY <1>1, <1>2, <1>3, RowsDiffer

\* A handler that is busy with a transaction.
LEMMA ActiveType ==
  ASSUME ReqInv, NEW h \in Active
  PROVE  /\ h \in Handlers /\ WellFormed(req[h]) /\ req[h] \in Tx
         /\ req[h].pc \in Stages /\ req[h].no \in Nat /\ req[h].kind \in Kinds
<1>1. h \in Handlers /\ req[h].pc # "idle" /\ req[h].pc # "publish"
  BY DEF Active, At
<1>2. WellFormed(req[h])
  BY <1>1 DEF ReqInv, Idle, Publishing
<1> QED  BY <1>1, <1>2 DEF WellFormed, Tx

\* And one that is not.
LEMMA ActiveIs ==
  ASSUME ReqInv, NEW h \in Handlers
  PROVE  /\ h \in Active <=> req[h].pc \in Stages
         /\ h \in Active <=> WellFormed(req[h])
         /\ req[h].pc = "idle" <=> req[h] = Idle
         /\ req[h].pc = "publish" <=> req[h] \in Publishing /\ row[req[h].draft] # "none"
<1>1. req[h] = Idle => req[h].pc = "idle"
  BY DEF Idle
<1>2. req[h] \in Publishing => req[h].pc = "publish"
  BY DEF Publishing
<1>3. WellFormed(req[h]) => req[h].pc \in Stages
  BY DEF WellFormed, Tx
<1>4. h \in Active <=> req[h].pc # "idle" /\ req[h].pc # "publish"
  BY DEF Active, At
<1>5. "idle" \notin Stages /\ "publish" \notin Stages
  BY DEF Stages
<1>6. req[h] = Idle \/ (req[h] \in Publishing /\ row[req[h].draft] # "none") \/ WellFormed(req[h])
  BY DEF ReqInv
<1> QED  BY <1>1, <1>2, <1>3, <1>4, <1>5, <1>6

\* What a session takes a row to be, is a state of the row.
LEMMA ViewType ==
  ASSUME RowsInv, ReqInv, NEW h \in Active, NEW o \in 0..Gate, row[o] # "none"
  PROVE  /\ View(h, o) \in States(o)
         /\ o \in 0..NumDrafts /\ req[h].path[o] # << >> =>
              View(h, o) = req[h].path[o][Len(req[h].path[o])]
         /\ req[h].path[o] = << >> /\ req[h].copy[o] # "none" => View(h, o) = req[h].copy[o]
         /\ req[h].path[o] = << >> /\ req[h].copy[o] = "none" => View(h, o) = row[o]
<1>1. WellFormed(req[h])
  BY ActiveType
<1>2. req[h].path[o] \in Seq(States(o)) /\ req[h].copy[o] \in States(o) \cup {"none"}
  BY <1>1 DEF WellFormed
<1>3. row[o] \in States(o)
  BY DEF RowsInv
<1>4. CASE req[h].path[o] # << >>
  <2>1. View(h, o) = req[h].path[o][Len(req[h].path[o])]
    BY <1>4 DEF View, Last
  <2>2. Len(req[h].path[o]) \in 1..Len(req[h].path[o])
    BY <1>2, <1>4, EmptySeq, LenProperties
  <2> QED  BY <1>2, <1>4, <2>1, <2>2, ElementOfSeq
<1>5. CASE req[h].path[o] = << >> /\ req[h].copy[o] # "none"
  BY <1>2, <1>5 DEF View
<1>6. CASE req[h].path[o] = << >> /\ req[h].copy[o] = "none"
  BY <1>3, <1>6 DEF View
<1> QED  BY <1>4, <1>5, <1>6

-----------------------------------------------------------------------------
(* Types are kept *)

\* Rows that are there stay, and numbers are not taken back.
Grows ==
  /\ \A o \in 0..Gate : row[o] # "none" => row'[o] # "none"
  /\ begun \in Nat /\ begun' \in Nat /\ begun <= begun'

LEMMA TxStays ==
  ASSUME Grows, NEW g, req'[g] = req[g], WellFormed(req[g])
  PROVE  WellFormed(req[g])'
<1>2. req[g] \in Tx
  BY DEF WellFormed
<1>3. \A k \in DOMAIN req[g].todo : req[g].todo[k].row \in 0..Gate
  BY <1>2 DEF Tx, Moves, Steps
<1>4. \A d \in Drafts : d \in 0..Gate
  BY RowsDiffer
<1> QED  BY <1>2, <1>3, <1>4 DEF WellFormed, Grows, Was

\* One handler takes a step.
LEMMA ReqStep ==
  ASSUME ReqInv, Grows, NEW h \in Handlers, NEW x, req' = [req EXCEPT ![h] = x],
         \/ x = Idle
         \/ x \in Publishing /\ row'[x.draft] # "none"
         \/ WellFormed(req[h])'
  PROVE  ReqInv'
<1>1. /\ req'[h] = x /\ DOMAIN req' = Handlers
      /\ \A g \in Handlers : g # h => req'[g] = req[g]
  BY DEF ReqInv
<1>2. ASSUME NEW g \in Handlers
      PROVE  \/ req'[g] = Idle
             \/ req'[g] \in Publishing /\ row'[req'[g].draft] # "none"
             \/ WellFormed(req[g])'
  <2>1. CASE g = h
    BY <1>1, <2>1
  <2>2. CASE g # h
    <3>1. req'[g] = req[g]
      BY <1>1, <2>2
    <3>2. CASE req[g] = Idle
      BY <3>1, <3>2
    <3>3. CASE req[g] \in Publishing /\ row[req[g].draft] # "none"
      <4>1. req[g].draft \in 0..Gate
        BY <3>3, RowsDiffer DEF Publishing
      <4> QED  BY <3>1, <3>3, <4>1 DEF Grows
    <3>4. CASE WellFormed(req[g])
      BY <3>1, <3>4, TxStays
    <3> QED  BY <3>2, <3>3, <3>4 DEF ReqInv
  <2> QED  BY <2>1, <2>2
<1>3. \A g \in Handlers : req'[g] \in Tx \cup Publishing \cup {Idle}
  BY <1>2 DEF WellFormed
<1>4. req' \in [Handlers -> Tx \cup Publishing \cup {Idle}]
  <2>1. req' = [g \in Handlers |-> req'[g]]
    BY DEF ReqInv
  <2> QED  BY <1>3, <2>1
<1> QED  BY <1>2, <1>4 DEF ReqInv

\* A transaction begins.
Begins(h) ==
  /\ h \notin Active /\ req[h].pc \in {"idle", "publish"}
  /\ \A g \in Handlers : g # h => req'[g] = req[g]
  /\ req'[h].no = begun + 1 /\ req'[h].locks = {} /\ req'[h].added = << >>
  /\ req'[h].path = [o \in 0..Gate |-> << >>]
  /\ \A o \in 0..Gate : req'[h].copy[o] \in {"none", row[o]}
  /\ Opened(h)
  /\ UNCHANGED <<row, trail, review, sends, faults>>

LEMMA BeginsTyped ==
  ASSUME ShapeInv, NEW h \in Handlers, req[h].pc \in {"idle", "publish"},
         NEW kind \in Kinds, NEW subject \in Nat, NEW loaded, NEW todo \in Seq(Moves),
         NEW then \in Stages \ {"lock"}, \A k \in DOMAIN todo : row[todo[k].row] # "none",
         Open(h, kind, subject, loaded, todo, then),
         UNCHANGED <<row, trail, review, sends, faults>>
  PROVE  /\ ShapeInv' /\ Begins(h) /\ h \in Active'
         /\ req'[h] = Transaction(kind, subject, begun + 1, loaded, todo, then)
<1> DEFINE r == Transaction(kind, subject, begun + 1, loaded, todo, then)
<1>1. req' = [req EXCEPT ![h] = r] /\ begun' = begun + 1
  BY DEF Open, Opened
<1>2. Grows /\ begun + 1 \in Nat
  BY <1>1 DEF ShapeInv, Grows
<1>3. /\ r.pc = (IF todo = << >> THEN then ELSE "lock") /\ r.kind = kind /\ r.subject = subject
      /\ r.no = begun + 1 /\ r.copy = [o \in 0..Gate |-> IF o \in loaded THEN row[o] ELSE "none"]
      /\ r.path = [o \in 0..Gate |-> << >>] /\ r.todo = todo /\ r.then = then
      /\ r.locks = {} /\ r.added = << >>
  BY DEF Transaction
<1> HIDE DEF r
<1>4. r \in Tx
  <2>1. r.copy \in [0..Gate -> AnyState \cup {"none"}]
    BY <1>3 DEF ShapeInv, RowsInv
  <2>2. r.path \in [0..Gate -> Seq(AnyState)]
    BY <1>3
  <2>3. r.pc \in Stages
    BY <1>3 DEF Stages
  <2>4. r = [pc |-> r.pc, kind |-> kind, subject |-> subject, no |-> begun + 1, copy |-> r.copy,
             path |-> r.path, todo |-> todo, then |-> then, locks |-> {}, added |-> << >>]
    BY DEF r, Transaction
  <2>5. << >> \in Seq(Sends \cup {"sent", "simulated"}) /\ {} \in SUBSET Nat
    OBVIOUS
  <2> DEFINE pc == r.pc
             copy == r.copy
             path == r.path
  <2>6. pc \in Stages /\ copy \in [0..Gate -> AnyState \cup {"none"}]
        /\ path \in [0..Gate -> Seq(AnyState)]
    BY <2>1, <2>2, <2>3
  <2>7. r = [pc |-> pc, kind |-> kind, subject |-> subject, no |-> begun + 1, copy |-> copy,
             path |-> path, todo |-> todo, then |-> then, locks |-> {}, added |-> << >>]
    BY <2>4
  <2> HIDE DEF pc, copy, path
  <2> QED  BY <1>2, <2>5, <2>6, <2>7, TxType
<1>5. req'[h] = r
  BY <1>1 DEF ShapeInv, ReqInv
<1>6. WellFormed(req[h])'
  <2>1. \A o \in 0..Gate : r.copy[o] \in States(o) \cup {"none"} /\ r.path[o] \in Seq(States(o))
    BY <1>3 DEF ShapeInv, RowsInv
  <2>2. \A o \in 0..Gate : r.path[o] = << >>
    BY <1>3
  <2>3. \A d \in Drafts : r.copy[d] # "none" => row[d] # "none"
    BY <1>3, RowsDiffer
  <2>4. r.pc = "lock" <=> r.todo # << >>
    BY <1>3
  <2>5. \A d \in Drafts : DOMAIN r.path[d] = {}
    BY <2>2, RowsDiffer
  <2>6. \A k \in DOMAIN r.todo : row[r.todo[k].row] # "none"
    BY <1>3
  <2> QED  BY <1>4, <1>5, <2>1, <2>2, <2>3, <2>4, <2>5, <2>6, RowsDiffer DEF WellFormed
<1>7. ReqInv'
  BY <1>1, <1>2, <1>6, ReqStep DEF ShapeInv
<1>8. TrailTyped' /\ RowsInv'
  BY DEF ShapeInv, TrailTyped, RowsInv
<1>10. h \notin Active
  BY DEF Active, At
<1>11. h \in Active'
  BY <1>5, <1>6 DEF WellFormed, Tx, Stages, Active, At
<1>12. Begins(h)
  <2>1. \A o \in 0..Gate : r.copy[o] \in {"none", row[o]}
    BY <1>3
  <2>2. \A g \in Handlers : g # h => req'[g] = req[g]
    BY <1>1 DEF ShapeInv, ReqInv
  <2> QED  BY <1>3, <1>5, <1>10, <2>1, <2>2 DEF Begins, Open
<1>13. ShapeInv'
  <2>1. begun' \in Nat /\ review' \in [Drafts -> {"none", "pending", "decided"}]
    BY <1>2 DEF ShapeInv, Grows
  <2>2. \A s \in DOMAIN sends' : row'[sends'[s].draft] # "none"
    BY DEF ShapeInv
  <2> QED  BY <1>7, <1>8, <2>1, <2>2 DEF ShapeInv
<1> QED  BY <1>5, <1>11, <1>12, <1>13 DEF r

LEMMA Single ==
  ASSUME NEW S, NEW m \in S
  PROVE  /\ <<m>> \in Seq(S) /\ Len(<<m>>) = 1 /\ <<m>>[1] = m
         /\ DOMAIN <<m>> = {1} /\ <<m>> # << >>
  OBVIOUS

LEMMA NoMoves == << >> \in Seq(Moves) /\ DOMAIN << >> = {}
  OBVIOUS

\* A request about a draft, the event of one, or a content node.
LEMMA OthersBegin ==
  ASSUME ShapeInv, NEW h \in Handlers,
         \/ \E d \in Drafts : Submit(h, d) \/ Resubmit(h, d)
         \/ Event(h)
         \/ \E target \in NodeTargets : Node(h, target)
  PROVE  /\ ShapeInv' /\ Begins(h) /\ h \in Active'
         /\ req'[h].kind \in {"submit", "resubmit", "event", "node"}
<1> USE DEF ShapeInv
<1>1. ASSUME NEW d \in Drafts, NEW s \in {"draft_ready", "approved"}
      PROVE  Move(d, s) \in Moves
  BY DraftStatesAre, StatesType, RowsDiffer DEF Move, Moves, Steps, AnyState
<1>2. ASSUME NEW d \in Drafts, NEW s \in {"draft_ready", "approved"}, row[d] # "none"
      PROVE  /\ <<Move(d, s)>> \in Seq(Moves)
             /\ \A k \in DOMAIN <<Move(d, s)>> : row[<<Move(d, s)>>[k].row] # "none"
  <2> DEFINE m == Move(d, s)
  <2>1. m \in Moves /\ m.row = d
    BY <1>1, <1>2 DEF Move
  <2> HIDE DEF m
  <2>2. <<m>> \in Seq(Moves) /\ DOMAIN <<m>> = {1} /\ <<m>>[1] = m
    BY <2>1, Single
  <2>3. \A k \in DOMAIN <<m>> : row[<<m>>[k].row] # "none"
    BY <1>2, <2>1, <2>2
  <2> QED  BY <2>2, <2>3 DEF m
<1>3. "workspace" \in Stages \ {"lock"} /\ "commit" \in Stages \ {"lock"}
  BY DEF Stages
<1>4. {"submit", "resubmit", "event", "node"} \subseteq Kinds
  BY DEF Kinds
<1>5. CASE \E d \in Drafts : Submit(h, d) \/ Resubmit(h, d)
  <2>1. PICK d \in Drafts : Submit(h, d) \/ Resubmit(h, d)
    BY <1>5
  <2>2. PICK kind \in {"submit", "resubmit"}, todo \in {<< >>, <<Move(d, "draft_ready")>>} :
          Open(h, kind, d, {d}, todo, "commit")
    BY <2>1 DEF Submit, Resubmit, ToReady
  <2>3. /\ row[d] # "none" /\ req[h].pc \in {"idle", "publish"}
        /\ UNCHANGED <<row, trail, review, sends, faults>>
    BY <2>1 DEF Submit, Resubmit, At
  <2>4. todo \in Seq(Moves) /\ \A k \in DOMAIN todo : row[todo[k].row] # "none"
    <3>1. CASE todo = << >>
      BY <3>1, NoMoves
    <3>2. CASE todo = <<Move(d, "draft_ready")>>
      BY <1>2, <2>3, <3>2
    <3> QED  BY <2>2, <3>1, <3>2
  <2>5. d \in Nat /\ kind \in Kinds
    BY <1>4, RowsDiffer DEF Drafts
  <2>6. /\ ShapeInv' /\ Begins(h) /\ h \in Active'
        /\ req'[h] = Transaction(kind, d, begun + 1, {d}, todo, "commit")
    BY <1>3, <2>2, <2>3, <2>4, <2>5, BeginsTyped
  <2> QED  BY <2>6 DEF Transaction
<1>6. CASE Event(h)
  <2>1. /\ Open(h, "event", req[h].draft, {req[h].draft}, <<Move(req[h].draft, req[h].to)>>, "workspace")
        /\ UNCHANGED <<row, trail, review, sends, faults>> /\ req[h].pc = "publish"
    BY <1>6 DEF Event, At
  <2>2. req[h] \in Publishing /\ row[req[h].draft] # "none"
    BY <2>1, ActiveIs
  <2>3. PICK d \in Drafts, s \in {"draft_ready", "approved"} : d = req[h].draft /\ s = req[h].to
    BY <2>2 DEF Publishing
  <2>4. d \in Nat /\ "event" \in Kinds
    BY <1>4, RowsDiffer DEF Drafts
  <2>5. /\ <<Move(d, s)>> \in Seq(Moves)
        /\ \A k \in DOMAIN <<Move(d, s)>> : row[<<Move(d, s)>>[k].row] # "none"
    BY <1>2, <2>2, <2>3
  <2> DEFINE todo == <<Move(d, s)>>
  <2>6. Open(h, "event", d, {d}, todo, "workspace")
    BY <2>1, <2>3
  <2>7. /\ ShapeInv' /\ Begins(h) /\ h \in Active'
        /\ req'[h] = Transaction("event", d, begun + 1, {d}, todo, "workspace")
    <3>1. todo \in Seq(Moves) /\ \A k \in DOMAIN todo : row[todo[k].row] # "none"
      BY <2>5
    <3>2. UNCHANGED <<row, trail, review, sends, faults>> /\ req[h].pc \in {"idle", "publish"}
      BY <2>1
    <3> HIDE DEF todo
    <3> QED  BY <1>3, <2>4, <2>6, <3>1, <3>2, BeginsTyped
  <2> QED  BY <2>7 DEF Transaction
<1>7. CASE \E target \in NodeTargets : Node(h, target)
  <2>1. PICK target \in NodeTargets : Node(h, target)
    BY <1>7
  <2> DEFINE from == row[Workspace]
             walks == target \notin {"none", from} /\ Reachable(from, target)
             path == IF walks THEN workspace_path(from, target) ELSE << >>
             todo == [k \in DOMAIN path |-> Move(Workspace, path[k])]
  <2>2. /\ Open(h, "node", Workspace, {Workspace}, todo, "workspace")
        /\ UNCHANGED <<row, trail, review, sends, faults>> /\ req[h].pc \in {"idle", "publish"}
    BY <2>1 DEF Node, At
  <2>3. todo \in Seq(Moves) /\ \A k \in DOMAIN todo : todo[k].row = Workspace
    <3>1. CASE walks
      <4>1. target \in WorkspaceStates
        BY <2>1, <3>1, WorkspaceStatesAre DEF NodeTargets
      <4> QED  BY <3>1, <4>1, WayMoves
    <3>2. CASE ~walks
      <4>1. path = << >>
        BY <3>2
      <4>2. DOMAIN path = {}
        BY <4>1
      <4> HIDE DEF path
      <4>3. todo = << >>
        BY <4>2
      <4> QED  BY <4>3, NoMoves
    <3> QED  BY <3>1, <3>2
  <2> HIDE DEF todo
  <2>4. \A k \in DOMAIN todo : row[todo[k].row] # "none"
    BY <2>3 DEF RowsInv
  <2>5. Workspace \in Nat /\ "node" \in Kinds
    BY <1>4 DEF Workspace
  <2>6. /\ ShapeInv' /\ Begins(h) /\ h \in Active'
        /\ req'[h] = Transaction("node", Workspace, begun + 1, {Workspace}, todo, "workspace")
    BY <1>3, <2>2, <2>3, <2>4, <2>5, BeginsTyped
  <2> QED  BY <2>6 DEF Transaction
<1> QED  BY <1>5, <1>6, <1>7

\* A decision of the gate: it has the drafts that are ready to move, and then the gate.
LEMMA DecisionBegins ==
  ASSUME ShapeInv, NEW h \in Handlers, NEW decision \in Decisions, Decide(h, decision)
  PROVE  /\ ShapeInv' /\ Begins(h) /\ h \in Active'
         /\ req'[h].kind = decision /\ req'[h].pc = "lock" /\ req'[h].then = "workspace"
         /\ req'[h].copy[Workspace] = "none"
         /\ \A k \in DOMAIN req'[h].todo :
              /\ req'[h].todo[k].row # Workspace
              /\ req'[h].todo[k].row \in Drafts => req'[h].todo[k].to = DraftStatus[decision]
         /\ req'[h].todo[1].row \in Drafts
<1> USE DEF ShapeInv
<1>1. PICK ready \in InIdOrder(Ready) :
        Open(h, decision, Gate, Existing,
             [k \in DOMAIN ready |-> Move(ready[k], DraftStatus[decision])] \o <<Move(Gate, decision)>>,
             "workspace")
  BY DEF Decide
<1> DEFINE drafts == [k \in DOMAIN ready |-> Move(ready[k], DraftStatus[decision])]
           gate == <<Move(Gate, decision)>>
           todo == drafts \o gate
<1>2. UNCHANGED <<row, trail, review, sends, faults>> /\ req[h].pc \in {"idle", "publish"}
      /\ row[Gate] = "pending" /\ Ready # {}
  BY DEF Decide, At
<1>3. ready \in [1..Cardinality(Ready) -> Ready] /\ Cardinality(Ready) \in Nat /\ Cardinality(Ready) # 0
  <2>1. IsFiniteSet(Drafts) /\ Ready \subseteq Drafts
    BY RowsDiffer, FS_Interval DEF Drafts, Ready
  <2>2. IsFiniteSet(Ready)
    BY <2>1, FS_Subset
  <2>3. Cardinality(Ready) \in Nat /\ Cardinality(Ready) # 0
    BY <1>2, <2>2, FS_CardinalityType, FS_EmptySet
  <2>4. ready \in SetToSeqs(Ready)
    BY DEF InIdOrder
  <2> QED  BY <2>3, <2>4 DEF SetToSeqs
<1> DEFINE n == Cardinality(Ready)
<1> HIDE DEF n
<1>4. DraftStatus[decision] \in DraftStates /\ decision \in Decisions
  BY DraftStatesAre DEF DraftStatus, Decisions
<1>5. \A d \in Ready : d \in Drafts /\ row[d] # "none"
  BY DEF Ready
<1>6. /\ drafts \in [1..n -> Moves] /\ n \in Nat /\ n # 0
      /\ \A k \in 1..n : drafts[k].row \in Drafts /\ drafts[k].to = DraftStatus[decision]
                         /\ row[drafts[k].row] # "none"
  <2>1. DOMAIN ready = 1..n /\ n \in Nat /\ n # 0
    BY <1>3 DEF n
  <2>2. ASSUME NEW k \in 1..n
        PROVE  /\ Move(ready[k], DraftStatus[decision]) \in Moves
               /\ ready[k] \in Drafts /\ row[ready[k]] # "none"
    <3>1. ready[k] \in Drafts /\ row[ready[k]] # "none"
      BY <1>3, <1>5, <2>1, <2>2
    <3> QED  BY <1>4, <3>1, StatesType, RowsDiffer DEF Move, Moves, Steps, AnyState
  <2> QED  BY <2>1, <2>2 DEF Move
<1>7. gate \in Seq(Moves) /\ Len(gate) = 1 /\ gate[1].row = Gate
  <2>1. Move(Gate, decision) \in Moves
    BY <1>4, StatesType, RowsDiffer DEF Move, Moves, Steps, AnyState
  <2> QED  BY <2>1 DEF Move
<1> HIDE DEF drafts, gate
<1>8. drafts \in Seq(Moves) /\ Len(drafts) = n
  BY <1>6
<1>9. /\ todo \in Seq(Moves) /\ Len(todo) = n + 1
      /\ \A k \in 1..(n + 1) : todo[k] = IF k <= n THEN drafts[k] ELSE gate[k - n]
  <2>1. /\ drafts \o gate \in Seq(Moves) /\ Len(drafts \o gate) = Len(drafts) + Len(gate)
        /\ \A k \in 1..(Len(drafts) + Len(gate)) :
             (drafts \o gate)[k] = IF k <= Len(drafts) THEN drafts[k] ELSE gate[k - Len(drafts)]
    BY <1>7, <1>8, ConcatProperties
  <2> QED  BY <1>7, <1>8, <2>1
<1> HIDE DEF todo
<1>10. DOMAIN todo = 1..(n + 1)
  BY <1>9
<1>11. \A k \in DOMAIN todo :
         /\ todo[k].row # Workspace /\ row[todo[k].row] # "none"
         /\ todo[k].row \in Drafts => todo[k].to = DraftStatus[decision]
  <2> SUFFICES ASSUME NEW k \in 1..(n + 1)
               PROVE  /\ todo[k].row # Workspace /\ row[todo[k].row] # "none"
                      /\ todo[k].row \in Drafts => todo[k].to = DraftStatus[decision]
    BY <1>10
  <2>1. CASE k <= n
    <3>1. k \in 1..n /\ todo[k] = drafts[k]
      BY <1>6, <1>9, <2>1
    <3> QED  BY <1>6, <3>1, RowsDiffer
  <2>2. CASE ~(k <= n)
    <3>1. k - n = 1 /\ todo[k] = gate[1]
      BY <1>6, <1>9, <2>2
    <3> QED  BY <1>2, <1>7, <3>1, RowsDiffer
  <2> QED  BY <2>1, <2>2
<1>12. todo[1].row \in Drafts /\ todo # << >>
  <2>1. 1 \in 1..n /\ 1 \in 1..(n + 1) /\ Len(todo) # 0
    BY <1>6, <1>9
  <2>2. todo[1] = drafts[1]
    BY <1>9, <2>1
  <2> QED  BY <1>6, <1>9, <2>1, <2>2
<1>13. decision \in Kinds /\ Gate \in Nat /\ "workspace" \in Stages \ {"lock"}
  BY RowsDiffer DEF Kinds, Stages
<1>14. /\ ShapeInv' /\ Begins(h) /\ h \in Active'
       /\ req'[h] = Transaction(decision, Gate, begun + 1, Existing, todo, "workspace")
  <2>1. Open(h, decision, Gate, Existing, todo, "workspace")
    BY <1>1 DEF todo, drafts, gate
  <2> QED  BY <1>2, <1>9, <1>11, <1>13, <2>1, BeginsTyped, SMTT(60)
<1>15. req'[h].copy[Workspace] = "none"
  BY <1>14, RowsDiffer DEF Transaction, Existing
<1> QED  BY <1>11, <1>12, <1>14, <1>15 DEF Transaction

\* A send: it has loaded nothing yet.
LEMMA SendBegins ==
  ASSUME ShapeInv, NEW h \in Handlers, NEW s \in DOMAIN sends, Send(h, s)
  PROVE  /\ ShapeInv' /\ Begins(h) /\ h \in Active'
         /\ req'[h].kind = "send" /\ req'[h].subject = s /\ req'[h].pc = "hand"
         /\ req'[h].todo = << >> /\ sends[s].status = "queued"
<1>1. /\ Open(h, "send", s, {}, << >>, "hand") /\ sends[s].status = "queued"
      /\ UNCHANGED <<row, trail, review, sends, faults>> /\ req[h].pc \in {"idle", "publish"}
  BY DEF Send, At
<1>2. s \in Nat /\ "send" \in Kinds /\ "hand" \in Stages \ {"lock"}
  BY DEF ShapeInv, Kinds, Stages
<1>4. /\ ShapeInv' /\ Begins(h) /\ h \in Active'
      /\ req'[h] = Transaction("send", s, begun + 1, {}, << >>, "hand")
  <2> DEFINE todo == << >>
  <2>1. todo \in Seq(Moves) /\ \A k \in DOMAIN todo : row[todo[k].row] # "none"
    BY NoMoves
  <2> HIDE DEF todo
  <2>2. Open(h, "send", s, {}, todo, "hand")
    BY <1>1 DEF todo
  <2>3. /\ ShapeInv' /\ Begins(h) /\ h \in Active'
        /\ req'[h] = Transaction("send", s, begun + 1, {}, todo, "hand")
    BY <1>1, <1>2, <2>1, <2>2, BeginsTyped
  <2> QED  BY <2>3 DEF todo
<1> QED  BY <1>1, <1>4 DEF Transaction

-----------------------------------------------------------------------------
(* What a step does with a transaction *)

Now(h) == Head(req[h].todo)

\* The transaction of h goes on.
Continues(h) ==
  /\ h \in Active /\ h \in Active'
  /\ \A g \in Handlers : g # h => req'[g] = req[g]
  /\ req'[h].no = req[h].no /\ req'[h].kind = req[h].kind /\ req'[h].subject = req[h].subject
  /\ UNCHANGED <<row, trail, review, sends, begun, met, faults>>

\* It has moved the row it waited for.
Moved(h) ==
  LET m == Now(h)
      r == req[h]
  IN  /\ Continues(h)
      /\ r.pc = "lock" /\ m \in Moves /\ ~Locked(h, m.row) /\ Legal(m.row, View(h, m.row), m.to)
      /\ req'[h].todo = Tail(r.todo) /\ req'[h].then = r.then /\ req'[h].added = r.added
      /\ req'[h].locks = r.locks \cup {m.row}
      /\ req'[h].pc = IF Len(r.todo) = 1 THEN r.then ELSE "lock"
      /\ \A o \in 0..Gate :
           /\ req'[h].path[o] = IF o = m.row THEN Append(r.path[o], m.to) ELSE r.path[o]
           /\ req'[h].copy[o] =
                IF o = m.row /\ r.copy[o] = "none" THEN row[o] ELSE r.copy[o]

\* It is undone: by itself, because of a deadlock, or because it is cut at its end.
Ends(h) ==
  /\ h \in Active /\ req'[h] = Idle /\ h \notin Active'
  /\ \A g \in Handlers : g # h => req'[g] = req[g]
  /\ met' = Forgotten(h) /\ faults' \in {faults, faults + 1} /\ faults' \in 0..MaxFaults
  /\ UNCHANGED <<row, trail, review, sends, begun>>

LEMMA EndsTyped ==
  ASSUME ShapeInv, NEW h \in Active, req' = [req EXCEPT ![h] = Idle],
         met' = Forgotten(h), faults' \in {faults, faults + 1}, faults' \in 0..MaxFaults,
         UNCHANGED <<row, trail, review, sends, begun>>
  PROVE  ShapeInv' /\ Ends(h)
<1>1. h \in Handlers
  BY DEF Active
<1>2. Grows
  BY DEF ShapeInv, Grows
<1>3. ReqInv'
  BY <1>1, <1>2, ReqStep DEF ShapeInv
<1>4. RowsInv' /\ TrailTyped'
  BY DEF ShapeInv, RowsInv, TrailTyped
<1>5. ShapeInv'
  <2>1. begun' \in Nat /\ review' \in [Drafts -> {"none", "pending", "decided"}]
        /\ sends' \in Seq(Sends) /\ \A s \in DOMAIN sends' : row'[sends'[s].draft] # "none"
    BY DEF ShapeInv
  <2> QED  BY <1>3, <1>4, <2>1 DEF ShapeInv
<1>6. req'[h] = Idle /\ \A g \in Handlers : g # h => req'[g] = req[g]
  BY <1>1 DEF ShapeInv, ReqInv
<1>7. h \notin Active'
  BY <1>6 DEF Active, At, Idle
<1> QED  BY <1>5, <1>6, <1>7 DEF Ends

LEMMA ContinuesTyped ==
  ASSUME ShapeInv, NEW h \in Active, NEW x, req' = [req EXCEPT ![h] = x],
         x.no = req[h].no, x.kind = req[h].kind, x.subject = req[h].subject,
         WellFormed(x),
         UNCHANGED <<row, trail, review, sends, begun, met, faults>>
  PROVE  ShapeInv' /\ Continues(h) /\ req'[h] = x
<1>1. h \in Handlers
  BY DEF Active
<1>2. Grows
  BY DEF ShapeInv, Grows
<1>3. req'[h] = x /\ \A g \in Handlers : g # h => req'[g] = req[g]
  BY <1>1 DEF ShapeInv, ReqInv
<1>4. WellFormed(req[h])'
  BY <1>3 DEF WellFormed, Was
<1>5. ReqInv'
  BY <1>1, <1>2, <1>4, ReqStep DEF ShapeInv
<1>6. RowsInv' /\ TrailTyped'
  BY DEF ShapeInv, RowsInv, TrailTyped
<1>7. ShapeInv'
  <2>1. begun' \in Nat /\ review' \in [Drafts -> {"none", "pending", "decided"}]
        /\ sends' \in Seq(Sends) /\ (\A s \in DOMAIN sends' : row'[sends'[s].draft] # "none")
        /\ faults' \in 0..MaxFaults
    BY DEF ShapeInv
  <2> QED  BY <1>5, <1>6, <2>1 DEF ShapeInv
<1>8. h \in Active'
  BY <1>1, <1>4 DEF WellFormed, Tx, Stages, Active, At
<1> QED  BY <1>3, <1>7, <1>8 DEF Continues

\* The same transaction, with other values of some of its parts.
Changed(r, pc, copy, path, todo, then, locks, added) ==
  [r EXCEPT !.pc = pc, !.copy = copy, !.path = path, !.todo = todo, !.then = then,
            !.locks = locks, !.added = added]

LEMMA TxChange ==
  ASSUME NEW r \in Tx,
         NEW pc \in Stages,
         NEW copy \in [0..Gate -> AnyState \cup {"none"}],
         NEW path \in [0..Gate -> Seq(AnyState)], NEW todo \in Seq(Moves),
         NEW then \in Stages \ {"lock"}, NEW locks \in SUBSET Nat,
         NEW added \in Seq(Sends \cup {"sent", "simulated"})
  PROVE  LET x == Changed(r, pc, copy, path, todo, then, locks, added)
         IN  /\ x \in Tx /\ x.pc = pc /\ x.copy = copy /\ x.path = path /\ x.todo = todo
             /\ x.then = then /\ x.locks = locks /\ x.added = added
             /\ x.no = r.no /\ x.kind = r.kind /\ x.subject = r.subject
  BY DEF Tx, Changed

\* transition: the row moves, or the transaction is undone.
LEMMA LockTyped ==
  ASSUME ShapeInv, NEW h \in Handlers, Lock(h)
  PROVE  /\ ShapeInv'
         /\ \/ Moved(h)
            \/ /\ Ends(h) /\ faults' = faults /\ req[h].pc = "lock"
               /\ ~Legal(Now(h).row, View(h, Now(h).row), Now(h).to)
<1> DEFINE r == req[h]
           m == Now(h)
<1>1. req[h].pc = "lock" /\ h \in Active
  <2>1. req[h].pc = "lock"
    BY DEF Lock, At
  <2> QED  BY <2>1 DEF Active, At
<1>2. WellFormed(req[h]) /\ ReqInv /\ RowsInv
  BY <1>1, ActiveType DEF ShapeInv
<1>3. /\ req[h] \in Tx /\ req[h].todo \in Seq(Moves) /\ req[h].todo # << >>
      /\ req[h].then \in Stages \ {"lock"} /\ req[h].locks \in SUBSET Nat
      /\ req[h].added \in Seq(Sends \cup {"sent", "simulated"})
      /\ req[h].copy \in [0..Gate -> AnyState \cup {"none"}]
      /\ req[h].path \in [0..Gate -> Seq(AnyState)]
  BY <1>1, <1>2 DEF WellFormed, Tx
<1>4. /\ m \in Moves /\ m = req[h].todo[1] /\ Tail(req[h].todo) \in Seq(Moves)
      /\ Len(Tail(req[h].todo)) = Len(req[h].todo) - 1 /\ 1 \in DOMAIN req[h].todo
      /\ \A k \in DOMAIN Tail(req[h].todo) :
           k + 1 \in DOMAIN req[h].todo /\ Tail(req[h].todo)[k] = req[h].todo[k + 1]
      /\ Len(req[h].todo) \in Nat \ {0}
  BY <1>3, HeadTailProperties DEF Now
<1>5. m.row \in 0..Gate /\ m.to \in States(m.row) /\ m.to \in AnyState /\ row[m.row] # "none"
  BY <1>2, <1>4 DEF Moves, Steps, WellFormed
<1>6. CASE ~Legal(m.row, View(h, m.row), m.to)
  <2>1. req' = [req EXCEPT ![h] = Idle] /\ met' = Forgotten(h)
    BY <1>6 DEF Lock, Now
  <2>2. UNCHANGED <<row, trail, review, sends, begun>> /\ faults' = faults
    BY DEF Lock
  <2>3. ShapeInv' /\ Ends(h)
    <3>1. faults' \in {faults, faults + 1} /\ faults' \in 0..MaxFaults
      BY <2>2 DEF ShapeInv
    <3> QED  BY <1>1, <2>1, <2>2, <3>1, EndsTyped
  <2> QED  BY <1>1, <1>6, <2>2, <2>3
<1>7. CASE Legal(m.row, View(h, m.row), m.to)
  <2> DEFINE c0 == IF req[h].copy[m.row] = "none" THEN row[m.row] ELSE req[h].copy[m.row]
             copy == [req[h].copy EXCEPT ![m.row] = c0]
             p0 == Append(req[h].path[m.row], m.to)
             path == [req[h].path EXCEPT ![m.row] = p0]
             todo == Tail(req[h].todo)
             locks == req[h].locks \cup {m.row}
             pc == IF Len(req[h].todo) = 1 THEN req[h].then ELSE "lock"
             then == req[h].then
             added == req[h].added
             x == Changed(req[h], pc, copy, path, todo, then, locks, added)
  <2>1. /\ req' = [req EXCEPT ![h] = x]
        /\ UNCHANGED <<row, trail, review, sends, begun, met, faults>> /\ ~Locked(h, m.row)
    <3>1. req' = [req EXCEPT ![h] =
            [req[h] EXCEPT !.todo = Tail(@), !.locks = @ \cup {m.row},
                           !.copy[m.row] = IF @ = "none" THEN row[m.row] ELSE @,
                           !.path[m.row] = Append(@, m.to),
                           !.pc = IF Len(req[h].todo) = 1 THEN req[h].then ELSE "lock"]]
      BY <1>7 DEF Lock, Now
    <3>2. [req[h] EXCEPT !.todo = Tail(@), !.locks = @ \cup {m.row},
                         !.copy[m.row] = IF @ = "none" THEN row[m.row] ELSE @,
                         !.path[m.row] = Append(@, m.to),
                         !.pc = IF Len(req[h].todo) = 1 THEN req[h].then ELSE "lock"] = x
      BY <1>3 DEF Tx, Changed
    <3>3. UNCHANGED <<row, trail, review, sends, begun, met, faults>> /\ ~Locked(h, m.row)
      BY <1>7 DEF Lock, Now
    <3> QED  BY <3>1, <3>2, <3>3
  <2>2. c0 \in States(m.row) /\ c0 \in AnyState
    BY <1>2, <1>5, StatesType DEF WellFormed, RowsInv
  <2>3. /\ copy \in [0..Gate -> AnyState \cup {"none"}]
        /\ \A o \in 0..Gate : copy[o] = IF o = m.row THEN c0 ELSE req[h].copy[o]
    BY <1>3, <1>5, <2>2
  <2>4. p0 \in Seq(States(m.row)) /\ p0 \in Seq(AnyState)
    BY <1>2, <1>3, <1>5, AppendProperties DEF WellFormed
  <2>5. /\ path \in [0..Gate -> Seq(AnyState)]
        /\ \A o \in 0..Gate : path[o] = IF o = m.row THEN p0 ELSE req[h].path[o]
    BY <1>3, <1>5, <2>4
  <2>6. locks \in SUBSET Nat /\ todo \in Seq(Moves) /\ pc \in Stages
    BY <1>3, <1>4, <1>5, RowsDiffer, SMTT(30) DEF Stages
  <2>7. then \in Stages \ {"lock"} /\ added \in Seq(Sends \cup {"sent", "simulated"})
    BY <1>3
  <2> HIDE DEF c0, p0, copy, path, todo, locks, pc, then, added
  <2>8. /\ x \in Tx /\ x.pc = pc /\ x.copy = copy /\ x.path = path /\ x.todo = todo
        /\ x.then = then /\ x.locks = locks /\ x.added = added
        /\ x.no = req[h].no /\ x.kind = req[h].kind /\ x.subject = req[h].subject
    <3> DEFINE r0 == req[h]
    <3>1. x = Changed(r0, pc, copy, path, todo, then, locks, added)
      BY DEF x
    <3> HIDE DEF x
    <3>2. r0 \in Tx /\ pc \in Stages
      BY <1>3, <2>6
    <3>3. copy \in [0..Gate -> AnyState \cup {"none"}] /\ path \in [0..Gate -> Seq(AnyState)]
      BY <2>3, <2>5
    <3>4. todo \in Seq(Moves) /\ then \in Stages \ {"lock"} /\ locks \in SUBSET Nat
          /\ added \in Seq(Sends \cup {"sent", "simulated"})
      BY <2>6, <2>7
    <3> HIDE DEF r0
    <3>5. /\ x \in Tx /\ x.pc = pc /\ x.copy = copy /\ x.path = path /\ x.todo = todo
          /\ x.then = then /\ x.locks = locks /\ x.added = added
          /\ x.no = r0.no /\ x.kind = r0.kind /\ x.subject = r0.subject
      BY <3>1, <3>2, <3>3, <3>4, TxChange
    <3> QED  BY <3>5 DEF r0
  <2> HIDE DEF x
  <2>9. WellFormed(x)
    <3>1. \A o \in 0..Gate : copy[o] \in States(o) \cup {"none"} /\ path[o] \in Seq(States(o))
      BY <1>2, <2>2, <2>3, <2>4, <2>5 DEF WellFormed
    <3>2. \A o \in 0..NumDrafts : path[o] # << >> => copy[o] # "none"
      <4> SUFFICES ASSUME NEW o \in 0..NumDrafts, path[o] # << >> PROVE copy[o] # "none"
        OBVIOUS
      <4>1. o \in 0..Gate
        BY RowsDiffer
      <4>2. CASE o = m.row
        BY <2>2, <2>3, <4>1, <4>2, StatesType
      <4>3. CASE o # m.row
        BY <1>2, <2>3, <2>5, <4>1, <4>3 DEF WellFormed
      <4> QED  BY <4>2, <4>3
    <3>3. \A d \in Drafts : copy[d] # "none" => row[d] # "none"
      BY <1>2, <1>5, <2>3, RowsDiffer DEF WellFormed
    <3>4. \A k \in DOMAIN todo : row[todo[k].row] # "none"
      BY <1>2, <1>4 DEF WellFormed, todo
    <3>5. pc = "lock" <=> todo # << >>
      <4>1. pc = "lock" <=> Len(req[h].todo) # 1
        BY <1>3 DEF pc, then
      <4>2. todo = << >> <=> Len(todo) = 0
        BY <2>6, EmptySeq
      <4> QED  BY <1>4, <4>1, <4>2 DEF todo
    <3>6. ASSUME NEW d \in Drafts, NEW k \in DOMAIN path[d]
          PROVE  Legal(d, IF k = 1 THEN copy[d] ELSE path[d][k - 1], path[d][k])
      <4>1. d \in 0..Gate /\ d \in 0..NumDrafts
        BY RowsDiffer
      <4>2. CASE d # m.row
        BY <1>2, <2>3, <2>5, <3>6, <4>1, <4>2 DEF WellFormed, Was
      <4>3. CASE d = m.row
        <5> DEFINE q == req[h].path[d]
        <5>1. /\ q \in Seq(States(d)) /\ path[d] = Append(q, m.to) /\ copy[d] = c0
          BY <1>2, <2>3, <2>5, <4>1, <4>3 DEF WellFormed, p0
        <5>2. /\ Len(path[d]) = Len(q) + 1 /\ path[d][Len(q) + 1] = m.to /\ Len(q) \in Nat
              /\ \A i \in 1..Len(q) : path[d][i] = q[i]
              /\ DOMAIN path[d] = 1..(Len(q) + 1)
          BY <1>5, <4>3, <5>1, AppendProperties, SMTT(60)
        <5>3. CASE k = Len(q) + 1
          <6>1. View(h, d) = IF k = 1 THEN copy[d] ELSE path[d][k - 1]
            <7>1. CASE q = << >>
              <8>1. k = 1
                BY <5>3, <7>1
              <8>2. View(h, d) = c0
                BY <1>1, <1>2, <1>5, <4>1, <4>3, <7>1, ViewType DEF c0
              <8> QED  BY <5>1, <8>1, <8>2
            <7>2. CASE q # << >>
              <8>1. View(h, d) = q[Len(q)]
                BY <1>1, <1>2, <1>5, <4>1, <4>3, <7>2, ViewType
              <8>2. Len(q) \in 1..Len(q)
                BY <5>1, <7>2, EmptySeq, LenProperties
              <8> HIDE DEF q
              <8>3. k # 1 /\ k - 1 = Len(q)
                BY <5>2, <5>3, <8>2
              <8> QED  BY <5>2, <8>1, <8>2, <8>3
            <7> QED  BY <7>1, <7>2
          <6> QED  BY <1>7, <4>3, <5>2, <5>3, <6>1
        <5>4. CASE k # Len(q) + 1
          <6>1. k \in 1..Len(q) /\ (k # 1 => k - 1 \in 1..Len(q))
            BY <3>6, <5>2, <5>4, SMTT(30)
          <6>2. DOMAIN q = 1..Len(q)
            BY <5>1
          <6>3. Legal(d, IF k = 1 THEN req[h].copy[d] ELSE q[k - 1], q[k])
            BY <1>2, <6>1, <6>2 DEF WellFormed, Was
          <6>4. q # << >>
            BY <6>1, <6>2
          <6>5. copy[d] = req[h].copy[d]
            BY <1>2, <4>1, <4>3, <5>1, <6>4 DEF c0, WellFormed
          <6> QED  BY <5>2, <6>1, <6>3, <6>5
        <5> QED  BY <5>3, <5>4
      <4> QED  BY <4>2, <4>3
    <3> QED  BY <2>8, <3>1, <3>2, <3>3, <3>4, <3>5, <3>6 DEF WellFormed, Was
  <2>10. ShapeInv' /\ Continues(h) /\ req'[h] = x
    BY <1>1, <2>1, <2>8, <2>9, ContinuesTyped
  <2>11. \A o \in 0..Gate :
           /\ req'[h].path[o] = IF o = m.row THEN Append(req[h].path[o], m.to) ELSE req[h].path[o]
           /\ req'[h].copy[o] =
                IF o = m.row /\ req[h].copy[o] = "none" THEN row[o] ELSE req[h].copy[o]
    BY <2>3, <2>5, <2>8, <2>10 DEF c0, p0
  <2>12. Moved(h)
    BY <1>1, <1>4, <1>7, <2>1, <2>8, <2>10, <2>11 DEF Moved, todo, locks, pc, then, added
  <2> QED  BY <2>10, <2>12
<1> QED  BY <1>6, <1>7

\* After the drafts, the workspace: where it has to go is locked next, or is where it is.
Walked(h) ==
  LET r == req[h] IN
  /\ Continues(h)
  /\ r.pc = "workspace"
  /\ req'[h].path = r.path /\ req'[h].locks = r.locks /\ req'[h].added = r.added
  /\ \/ /\ req'[h].pc \in {"enqueue", "commit"}
        /\ req'[h].copy = r.copy /\ req'[h].todo = r.todo /\ req'[h].then = r.then
     \/ /\ req'[h].pc = "lock" /\ req'[h].then \in {"enqueue", "commit"}
        /\ \A k \in DOMAIN req'[h].todo : req'[h].todo[k].row = Workspace
        /\ \A o \in 0..Gate :
             req'[h].copy[o] = IF o = Workspace /\ r.copy[o] = "none" THEN row[o] ELSE r.copy[o]

LEMMA WalkTyped ==
  ASSUME ShapeInv, NEW h \in Handlers, Walk(h)
  PROVE  /\ ShapeInv'
         /\ \/ Walked(h)
            \/ Ends(h) /\ faults' = faults /\ req[h].pc = "workspace" /\ req[h].kind \in Decisions
<1> DEFINE from == View(h, Workspace)
           to == Aim(h)
           after == IF req[h].kind = "approved" /\ SendsEnabled THEN "enqueue" ELSE "commit"
           way == workspace_path(from, to)
           undone == req[h].kind \in Decisions /\ ~CanWalk(h, from, to)
           stays == \/ Existing = {} \/ from = to
                    \/ req[h].kind \notin Decisions /\ ~CanWalk(h, from, to)
<1>1. req[h].pc = "workspace" /\ h \in Active
  <2>1. req[h].pc = "workspace"
    BY DEF Walk, At
  <2> QED  BY <2>1 DEF Active, At
<1>2. WellFormed(req[h]) /\ ReqInv /\ RowsInv
  BY <1>1, ActiveType DEF ShapeInv
<1>3. /\ req[h] \in Tx /\ req[h].todo \in Seq(Moves) /\ req[h].todo = << >>
      /\ req[h].then \in Stages \ {"lock"} /\ req[h].locks \in SUBSET Nat
      /\ req[h].added \in Seq(Sends \cup {"sent", "simulated"})
      /\ req[h].copy \in [0..Gate -> AnyState \cup {"none"}]
      /\ req[h].path \in [0..Gate -> Seq(AnyState)]
  BY <1>1, <1>2 DEF WellFormed, Tx
<1>4. UNCHANGED <<row, trail, review, sends, begun, faults>>
  BY DEF Walk
<1>5. from \in WorkspaceStates /\ row[Workspace] \in WorkspaceStates
  <2>1. row[Workspace] # "none" /\ row[Workspace] \in States(Workspace)
    BY <1>2, RowsDiffer DEF RowsInv
  <2> QED  BY <1>1, <1>2, <2>1, RowsDiffer, ViewType, StatesType
<1>6. to \in WorkspaceStates
  BY TargetType, WorkspaceStatesAre DEF Aim
<1>7. CASE undone
  <2>1. req' = [req EXCEPT ![h] = Idle] /\ met' = Forgotten(h)
    BY <1>7 DEF Walk
  <2>2. faults' \in {faults, faults + 1} /\ faults' \in 0..MaxFaults
    BY <1>4 DEF ShapeInv
  <2>3. ShapeInv' /\ Ends(h)
    BY <1>1, <1>4, <2>1, <2>2, EndsTyped
  <2> QED  BY <1>1, <1>4, <1>7, <2>3
<1>8. CASE ~undone /\ stays
  <2> DEFINE x == [req[h] EXCEPT !.pc = after]
  <2>1. req' = [req EXCEPT ![h] = x] /\ met' = met
    BY <1>8 DEF Walk
  <2>2. after \in {"enqueue", "commit"} /\ after \in Stages
    BY DEF Stages
  <2> HIDE DEF after
  <2>3. /\ x \in Tx /\ x.pc = after /\ x.no = req[h].no /\ x.kind = req[h].kind
        /\ x.subject = req[h].subject /\ x.copy = req[h].copy /\ x.path = req[h].path
        /\ x.todo = req[h].todo /\ x.then = req[h].then /\ x.locks = req[h].locks
        /\ x.added = req[h].added
    BY <1>3, <2>2 DEF Tx
  <2> HIDE DEF x
  <2>4. WellFormed(x)
    BY <1>2, <1>3, <2>2, <2>3 DEF WellFormed, Was
  <2>5. ShapeInv' /\ Continues(h) /\ req'[h] = x
    BY <1>1, <1>4, <2>1, <2>3, <2>4, ContinuesTyped
  <2> QED  BY <1>1, <2>2, <2>3, <2>5 DEF Walked
<1>9. CASE ~undone /\ ~stays
  <2> DEFINE c0 == IF req[h].copy[Workspace] = "none" THEN row[Workspace] ELSE req[h].copy[Workspace]
             copy == [req[h].copy EXCEPT ![Workspace] = c0]
             path == req[h].path
             todo == [k \in DOMAIN way |-> Move(Workspace, way[k])]
             locks == req[h].locks
             added == req[h].added
             pc == "lock"
             x == Changed(req[h], pc, copy, path, todo, after, locks, added)
  <2>1. req' = [req EXCEPT ![h] = x] /\ met' = met
    <3>1. req' = [req EXCEPT ![h] =
            [req[h] EXCEPT !.pc = "lock", !.then = after,
                           !.copy[Workspace] = IF @ = "none" THEN row[Workspace] ELSE @,
                           !.todo = todo]]
      BY <1>9 DEF Walk
    <3> HIDE DEF todo, after
    <3>2. [req[h] EXCEPT !.pc = "lock", !.then = after,
                         !.copy[Workspace] = IF @ = "none" THEN row[Workspace] ELSE @,
                         !.todo = todo] = x
      BY <1>3 DEF Tx, Changed
    <3>3. met' = met
      BY <1>9 DEF Walk
    <3> QED  BY <3>1, <3>2, <3>3
  <2>2. after \in {"enqueue", "commit"} /\ after \in Stages \ {"lock"} /\ pc \in Stages
    BY DEF Stages
  <2>3. Reachable(from, to) /\ from # to
    <3>1. CanWalk(h, from, to) /\ from # to
      BY <1>9
    <3>2. CASE req[h].kind = "revision_requested"
      <4>1. to \in WorkspaceTransitions[from] /\ from \in DOMAIN WorkspaceTransitions
        BY <1>5, <3>1, <3>2, LegalElsewhere DEF CanWalk, WorkspaceStates
      <4> QED  BY <3>1, <4>1, MoveIsReachable
    <3>3. CASE req[h].kind # "revision_requested"
      BY <3>1, <3>3 DEF CanWalk
    <3> QED  BY <3>2, <3>3
  <2>4. todo \in Seq(Moves) /\ todo # << >> /\ \A k \in DOMAIN todo : todo[k].row = Workspace
    BY <1>6, <2>3, WayMoves
  <2>5. c0 \in WorkspaceStates
    BY <1>2, <1>5, StatesType, RowsDiffer DEF WellFormed
  <2>6. /\ copy \in [0..Gate -> AnyState \cup {"none"}]
        /\ \A o \in 0..Gate : copy[o] = IF o = Workspace THEN c0 ELSE req[h].copy[o]
    BY <1>3, <2>5, RowsDiffer DEF AnyState
  <2> HIDE DEF c0, copy, path, todo, after, locks, added, pc
  <2>7. /\ x \in Tx /\ x.pc = pc /\ x.copy = copy /\ x.path = path /\ x.todo = todo
        /\ x.then = after /\ x.locks = locks /\ x.added = added
        /\ x.no = req[h].no /\ x.kind = req[h].kind /\ x.subject = req[h].subject
    <3> DEFINE r0 == req[h]
    <3>1. x = Changed(r0, pc, copy, path, todo, after, locks, added)
      BY DEF x
    <3> HIDE DEF x
    <3>2. r0 \in Tx /\ pc \in Stages /\ after \in Stages \ {"lock"} /\ todo \in Seq(Moves)
          /\ copy \in [0..Gate -> AnyState \cup {"none"}]
      BY <1>3, <2>2, <2>4, <2>6
    <3>3. path \in [0..Gate -> Seq(AnyState)] /\ locks \in SUBSET Nat
          /\ added \in Seq(Sends \cup {"sent", "simulated"})
      BY <1>3 DEF path, locks, added
    <3> HIDE DEF r0
    <3>4. /\ x \in Tx /\ x.pc = pc /\ x.copy = copy /\ x.path = path /\ x.todo = todo
          /\ x.then = after /\ x.locks = locks /\ x.added = added
          /\ x.no = r0.no /\ x.kind = r0.kind /\ x.subject = r0.subject
      BY <3>1, <3>2, <3>3, TxChange
    <3> QED  BY <3>4 DEF r0
  <2> HIDE DEF x
  <2>8. WellFormed(x)
    <3>1. \A o \in 0..Gate : copy[o] \in States(o) \cup {"none"} /\ path[o] \in Seq(States(o))
      BY <1>2, <2>5, <2>6, StatesType DEF WellFormed, path
    <3>2. \A o \in 0..NumDrafts : path[o] # << >> => copy[o] # "none"
      BY <1>2, <2>5, <2>6, RowsDiffer, StatesType, SMTT(30) DEF WellFormed, path
    <3>3. \A d \in Drafts : copy[d] # "none" => row[d] # "none"
      BY <1>2, <2>6, RowsDiffer DEF WellFormed
    <3>4. \A k \in DOMAIN todo : row[todo[k].row] # "none"
      BY <1>5, <2>4, StatesType, RowsDiffer
    <3>5. pc = "lock" <=> todo # << >>
      BY <2>4 DEF pc
    <3>6. \A d \in Drafts : \A k \in DOMAIN path[d] :
            Legal(d, IF k = 1 THEN copy[d] ELSE path[d][k - 1], path[d][k])
      BY <1>2, <2>6, RowsDiffer DEF WellFormed, Was, path
    <3> QED  BY <2>7, <3>1, <3>2, <3>3, <3>4, <3>5, <3>6 DEF WellFormed, Was
  <2>9. ShapeInv' /\ Continues(h) /\ req'[h] = x
    BY <1>1, <1>4, <2>1, <2>7, <2>8, ContinuesTyped
  <2>10. \A o \in 0..Gate :
           copy[o] = IF o = Workspace /\ req[h].copy[o] = "none" THEN row[o] ELSE req[h].copy[o]
    BY <2>6 DEF c0
  <2> QED  BY <1>1, <2>2, <2>4, <2>7, <2>9, <2>10 DEF Walked, path, locks, added, pc
<1> QED  BY <1>7, <1>8, <1>9

\* A nonempty set of drafts has a least one.
LEMMA LeastDraft ==
  ASSUME NEW T \in SUBSET Drafts, T # {}
  PROVE  Min(T) \in T
<1>1. IsWellFoundedOn(StrictSubsetOrdering(Nat), FiniteSubsetsOf(Nat))
  BY FS_StrictSubsetOrderingWellFounded
<1>2. T \subseteq Nat
  BY RowsDiffer DEF Drafts
<1> DEFINE U == {1..x : x \in T}
<1>3. ASSUME NEW x \in T PROVE 1..x \in FiniteSubsetsOf(Nat)
  BY <1>2, FS_Interval DEF FiniteSubsetsOf
<1>4. U \subseteq FiniteSubsetsOf(Nat) /\ U # {}
  BY <1>3
<1> HIDE DEF U
<1>5. PICK u \in U : \A v \in U : <<v, u>> \notin StrictSubsetOrdering(Nat)
  BY <1>1, <1>4, WFMin
<1>6. PICK x \in T : u = 1..x
  BY <1>5 DEF U
<1>7. ASSUME NEW y \in T, ~(x <= y) PROVE FALSE
  <2>1. 1..y \subseteq 1..x /\ x \in 1..x /\ x \notin 1..y
    BY <1>2, <1>7, RowsDiffer DEF Drafts
  <2>2. 1..y \in SUBSET Nat /\ 1..x \in SUBSET Nat
    OBVIOUS
  <2>3. <<1..y, 1..x>> \in StrictSubsetOrdering(Nat)
    BY <2>1, <2>2 DEF StrictSubsetOrdering
  <2>4. 1..y \in U
    BY <1>7 DEF U
  <2> QED  BY <1>5, <1>6, <2>3, <2>4
<1>8. \E z \in T : \A y \in T : z <= y
  BY <1>7
<1> QED  BY <1>8 DEF Min

\* A draft that is approved is enqueued: skipped, or queued and moved.
Enqueued(h) ==
  LET r == req[h]
      q == req'[h]
  IN  /\ Continues(h)
      /\ r.pc = "enqueue"
      /\ q.path = r.path /\ q.copy = r.copy /\ q.locks = r.locks
      /\ \/ /\ q.pc = "commit"
            /\ q.todo = r.todo /\ q.then = r.then /\ q.added = r.added
         \/ \E d \in ToEnqueue(h) :
              /\ q.pc = "enqueue"
              /\ q.todo = r.todo /\ q.then = r.then
              /\ q.added = Append(r.added, NewSend(d, "skipped", r.no))
         \/ \E d \in ToEnqueue(h) :
              /\ q.pc = "lock" /\ q.then = "enqueue"
              /\ q.todo = <<Move(d, "queued_for_send")>>
              /\ q.added = Append(r.added, NewSend(d, "queued", r.no))

LEMMA EnqueueTyped ==
  ASSUME ShapeInv, NEW h \in Handlers, Enqueue(h)
  PROVE  ShapeInv' /\ Enqueued(h)
<1>1. req[h].pc = "enqueue" /\ h \in Active
  <2>1. req[h].pc = "enqueue"
    BY DEF Enqueue, At
  <2> QED  BY <2>1 DEF Active, At
<1>2. WellFormed(req[h]) /\ ReqInv /\ RowsInv
  BY <1>1, ActiveType DEF ShapeInv
<1>3. /\ req[h] \in Tx /\ req[h].todo \in Seq(Moves) /\ req[h].todo = << >>
      /\ req[h].then \in Stages \ {"lock"} /\ req[h].locks \in SUBSET Nat
      /\ req[h].added \in Seq(Sends \cup {"sent", "simulated"})
      /\ req[h].copy \in [0..Gate -> AnyState \cup {"none"}]
      /\ req[h].path \in [0..Gate -> Seq(AnyState)] /\ req[h].no \in Nat
  BY <1>1, <1>2 DEF WellFormed, Tx
<1>4. UNCHANGED <<row, trail, review, sends, begun, met, faults>>
  BY DEF Enqueue
<1> DEFINE d == Min(ToEnqueue(h))
           todo == <<Move(d, "queued_for_send")>>
           copy == req[h].copy
           path == req[h].path
           locks == req[h].locks
           pc == req[h].pc
           then == req[h].then
<1>5. ASSUME NEW x, req' = [req EXCEPT ![h] = x], x \in Tx,
             x.no = req[h].no, x.kind = req[h].kind, x.subject = req[h].subject,
             x.copy = req[h].copy, x.path = req[h].path,
             \A k \in DOMAIN x.todo : row[x.todo[k].row] # "none",
             x.pc = "lock" <=> x.todo # << >>
      PROVE  ShapeInv' /\ Continues(h) /\ req'[h] = x
  <2>1. WellFormed(x)
    BY <1>2, <1>5 DEF WellFormed, Was
  <2> QED  BY <1>1, <1>4, <1>5, <2>1, ContinuesTyped
<1>6. CASE req' = [req EXCEPT ![h].pc = "commit"]
  <2> DEFINE x == [req[h] EXCEPT !.pc = "commit"]
  <2>1. req' = [req EXCEPT ![h] = x]
    BY <1>6
  <2>2. /\ x \in Tx /\ x.pc = "commit" /\ x.no = req[h].no /\ x.kind = req[h].kind
        /\ x.subject = req[h].subject /\ x.copy = req[h].copy /\ x.path = req[h].path
        /\ x.todo = req[h].todo /\ x.then = req[h].then /\ x.locks = req[h].locks
        /\ x.added = req[h].added
    BY <1>3 DEF Tx, Stages
  <2> HIDE DEF x
  <2>3. ShapeInv' /\ Continues(h) /\ req'[h] = x
    <3>1. \A k \in DOMAIN x.todo : row[x.todo[k].row] # "none"
      BY <1>2, <2>2 DEF WellFormed
    <3>2. x.pc = "lock" <=> x.todo # << >>
      BY <1>3, <2>2
    <3> QED  BY <1>5, <2>1, <2>2, <3>1, <3>2
  <2> QED  BY <1>1, <2>2, <2>3 DEF Enqueued
<1>7. ASSUME ToEnqueue(h) # {}
      PROVE  /\ d \in ToEnqueue(h) /\ d \in Drafts /\ row[d] # "none"
             /\ todo \in Seq(Moves) /\ DOMAIN todo = {1} /\ todo[1].row = d /\ todo # << >>
             /\ \A status \in {"queued", "skipped"} : NewSend(d, status, req[h].no) \in Sends
  <2>1. ToEnqueue(h) \subseteq Existing /\ Existing \subseteq Drafts
    BY DEF ToEnqueue, Existing
  <2>2. d \in ToEnqueue(h)
    BY <1>7, <2>1, LeastDraft
  <2> HIDE DEF d
  <2>3. d \in Drafts /\ row[d] # "none"
    BY <2>1, <2>2 DEF Existing
  <2> DEFINE m == Move(d, "queued_for_send")
  <2>4. m \in Moves /\ m.row = d
    BY <2>3, DraftStatesAre, StatesType, RowsDiffer DEF Move, Moves, Steps, AnyState
  <2> HIDE DEF m
  <2>5. <<m>> \in Seq(Moves) /\ DOMAIN <<m>> = {1} /\ <<m>>[1] = m /\ <<m>> # << >>
    BY <2>4, Single
  <2>6. todo \in Seq(Moves) /\ DOMAIN todo = {1} /\ todo[1].row = d /\ todo # << >>
    BY <2>4, <2>5 DEF m
  <2>7. \A status \in {"queued", "skipped"} : NewSend(d, status, req[h].no) \in Sends
    <3>1. << >> \in Seq(Nat)
      OBVIOUS
    <3> QED  BY <1>3, <2>3, <3>1 DEF NewSend, Sends
  <2> QED  BY <2>2, <2>3, <2>6, <2>7
<1> HIDE DEF d, todo
<1>8. CASE ToEnqueue(h) # {} /\ req' = [req EXCEPT ![h].added = Append(@, NewSend(d, "skipped", req[h].no))]
  <2> DEFINE s0 == NewSend(d, "skipped", req[h].no)
             a == Append(req[h].added, s0)
             x == [req[h] EXCEPT !.added = a]
  <2>1. req' = [req EXCEPT ![h] = x]
    BY <1>3, <1>8 DEF Tx
  <2>2. a \in Seq(Sends \cup {"sent", "simulated"})
    <3>1. s0 \in Sends \cup {"sent", "simulated"}
      BY <1>7, <1>8
    <3> HIDE DEF s0
    <3> QED  BY <1>3, <3>1, AppendProperties
  <2> HIDE DEF a
  <2>3. /\ x \in Tx /\ x.pc = req[h].pc /\ x.no = req[h].no /\ x.kind = req[h].kind
        /\ x.subject = req[h].subject /\ x.copy = req[h].copy /\ x.path = req[h].path
        /\ x.todo = req[h].todo /\ x.then = req[h].then /\ x.locks = req[h].locks
        /\ x.added = a
    BY <1>3, <2>2 DEF Tx
  <2> HIDE DEF x
  <2>4. ShapeInv' /\ Continues(h) /\ req'[h] = x
    <3>1. \A k \in DOMAIN x.todo : row[x.todo[k].row] # "none"
      BY <1>2, <2>3 DEF WellFormed
    <3>2. x.pc = "lock" <=> x.todo # << >>
      BY <1>1, <1>3, <2>3
    <3> QED  BY <1>5, <2>1, <2>3, <3>1, <3>2
  <2> QED  BY <1>1, <1>7, <1>8, <2>3, <2>4 DEF Enqueued, a
<1>9. CASE /\ ToEnqueue(h) # {}
           /\ req' = [req EXCEPT ![h] =
                [req[h] EXCEPT !.added = Append(@, NewSend(d, "queued", req[h].no)),
                               !.todo = todo, !.pc = "lock", !.then = "enqueue"]]
  <2> DEFINE s0 == NewSend(d, "queued", req[h].no)
             a == Append(req[h].added, s0)
             x == [req[h] EXCEPT !.added = a, !.todo = todo, !.pc = "lock", !.then = "enqueue"]
  <2>1. req' = [req EXCEPT ![h] = x]
    BY <1>3, <1>9 DEF Tx
  <2>2. a \in Seq(Sends \cup {"sent", "simulated"})
    <3>1. s0 \in Sends \cup {"sent", "simulated"}
      BY <1>7, <1>9
    <3> HIDE DEF s0
    <3> QED  BY <1>3, <3>1, AppendProperties
  <2> HIDE DEF a
  <2>3. /\ x \in Tx /\ x.pc = "lock" /\ x.no = req[h].no /\ x.kind = req[h].kind
        /\ x.subject = req[h].subject /\ x.copy = req[h].copy /\ x.path = req[h].path
        /\ x.todo = todo /\ x.then = "enqueue" /\ x.locks = req[h].locks
        /\ x.added = a
    BY <1>3, <1>7, <1>9, <2>2 DEF Tx, Stages
  <2> HIDE DEF x
  <2>4. ShapeInv' /\ Continues(h) /\ req'[h] = x
    <3>1. \A k \in DOMAIN x.todo : row[x.todo[k].row] # "none"
      BY <1>7, <1>9, <2>3
    <3>2. x.pc = "lock" <=> x.todo # << >>
      BY <1>7, <1>9, <2>3
    <3> QED  BY <1>5, <2>1, <2>3, <3>1, <3>2
  <2> QED  BY <1>1, <1>7, <1>9, <2>3, <2>4 DEF Enqueued, a, todo
<1> QED  BY <1>6, <1>8, <1>9 DEF Enqueue, d, todo

-----------------------------------------------------------------------------
(* What each kind of transaction is about *)

\* A send: it loads nothing before it hands the message over, and then has its row locked,
\* and the draft to move if the message was delivered.
SenderInv ==
  \A h \in Active : req[h].kind = "send" =>
    LET r == req[h]
        d == sends[r.subject].draft
    IN  /\ r.subject \in DOMAIN sends
        /\ r.pc \in {"hand", "lock", "commit"}
        /\ r.pc = "hand" => r.locks = {} /\ \A o \in 0..Gate : r.path[o] = << >>
        /\ r.pc = "lock" =>
             /\ r.todo = <<Move(d, "sent")>> /\ r.then = "commit"
             /\ r.path[d] = << >> /\ r.copy[d] # "none" /\ r.locks = {SendRow(r.subject)}
        /\ r.pc \in {"lock", "commit"} =>
             SendRow(r.subject) \in r.locks /\ r.added \in {<<"sent">>, <<"simulated">>}

\* The sends a decision adds are its own, of different drafts, and what is queued is moved.
AddedInv ==
  \A h \in Active : req[h].kind \in Decisions =>
    LET r == req[h]
        Moves1(d) == \/ \E l \in DOMAIN r.path[d] : r.path[d][l] = "queued_for_send"
                     \/ r.pc = "lock" /\ r.todo = <<Move(d, "queued_for_send")>>
    IN  /\ r.added \in Seq(Sends)
        /\ \A k \in DOMAIN r.added :
             /\ r.added[k].by = r.no /\ r.added[k].handed = << >>
             /\ row[r.added[k].draft] # "none"
             /\ \/ r.added[k].status = "skipped"
                \/ r.added[k].status = "queued" /\ Moves1(r.added[k].draft)
        /\ \A k, l \in DOMAIN r.added : r.added[k].draft = r.added[l].draft => k = l

KindInv ==
  \A h \in Active :
    /\ req[h].pc = "hand" \/ req[h].then = "hand" => req[h].kind = "send"
    /\ req[h].kind = "submit" => req[h].subject \in Drafts /\ row[req[h].subject] # "none"

\* The message goes to the transport.
Handed(h) ==
  LET r == req[h]
      q == req'[h]
      s == req[h].subject
      d == sends[s].draft
  IN  /\ h \in Active /\ h \in Active'
      /\ \A g \in Handlers : g # h => req'[g] = req[g]
      /\ q.no = r.no /\ q.kind = r.kind /\ q.subject = r.subject
      /\ r.pc = "hand" /\ r.kind = "send" /\ s \in DOMAIN sends /\ ~Locked(h, SendRow(s))
      /\ q.path = r.path /\ q.then = "commit" /\ q.locks = {SendRow(s)}
      /\ \A o \in 0..Gate : q.copy[o] = IF o = d THEN row[o] ELSE r.copy[o]
      /\ \/ q.pc = "lock" /\ q.todo = <<Move(d, "sent")>> /\ q.added = <<"sent">>
         \/ q.pc = "commit" /\ q.todo = << >> /\ q.added = <<"simulated">>
      /\ DOMAIN sends' = DOMAIN sends
      /\ \A t \in DOMAIN sends :
           /\ sends'[t].draft = sends[t].draft /\ sends'[t].status = sends[t].status
           /\ sends'[t].by = sends[t].by
           /\ sends'[t].handed = IF t = s THEN Append(sends[t].handed, r.no) ELSE sends[t].handed
      /\ UNCHANGED <<row, trail, review, begun, met, faults>>

LEMMA HandTyped ==
  ASSUME ShapeInv, SenderInv, KindInv, NEW h \in Handlers, Hand(h)
  PROVE  ShapeInv' /\ Handed(h)
<1>1. req[h].pc = "hand" /\ h \in Active
  <2>1. req[h].pc = "hand"
    BY DEF Hand, At
  <2> QED  BY <2>1 DEF Active, At
<1>2. WellFormed(req[h]) /\ ReqInv /\ RowsInv
  BY <1>1, ActiveType DEF ShapeInv
<1>3. /\ req[h] \in Tx /\ req[h].copy \in [0..Gate -> AnyState \cup {"none"}]
      /\ req[h].path \in [0..Gate -> Seq(AnyState)] /\ req[h].no \in Nat
  BY <1>1, <1>2 DEF WellFormed, Tx
<1> DEFINE s == req[h].subject
           d == sends[s].draft
<1>4. /\ req[h].kind = "send" /\ s \in DOMAIN sends /\ sends[s] \in Sends
      /\ \A o \in 0..Gate : req[h].path[o] = << >>
  <2>1. req[h].kind = "send"
    BY <1>1 DEF KindInv
  <2>2. s \in DOMAIN sends /\ \A o \in 0..Gate : req[h].path[o] = << >>
    BY <1>1, <2>1 DEF SenderInv
  <2> QED  BY <2>1, <2>2 DEF ShapeInv
<1>5. d \in Drafts /\ d \in 0..Gate /\ row[d] # "none" /\ row[d] \in States(d) /\ row[d] \in AnyState
  <2>1. d \in Drafts /\ row[d] # "none"
    BY <1>4 DEF ShapeInv, Sends
  <2> QED  BY <1>2, <2>1, RowsDiffer, StatesType DEF RowsInv
<1>6. /\ ~Locked(h, SendRow(s)) /\ sends' = [sends EXCEPT ![s].handed = Append(@, req[h].no)]
      /\ UNCHANGED <<row, trail, review, begun, met, faults>>
  BY DEF Hand
<1>7. PICK delivered \in BOOLEAN :
        req' = [req EXCEPT ![h] =
             [req[h] EXCEPT !.locks = {SendRow(s)}, !.copy[d] = row[d],
                       !.added = <<Outcome(delivered)>>,
                       !.todo = IF delivered THEN <<Move(d, "sent")>> ELSE << >>,
                       !.pc = IF delivered THEN "lock" ELSE "commit", !.then = "commit"]]
  BY ZenonT(60) DEF Hand
<1> DEFINE e == sends[s]
           e2 == [e EXCEPT !.handed = Append(@, req[h].no)]
<1>8. /\ e2 \in Sends /\ e2.draft = e.draft /\ e2.status = e.status /\ e2.by = e.by
      /\ e2.handed = Append(e.handed, req[h].no)
  <2>1. e \in Sends /\ e.handed \in Seq(Nat)
    BY <1>4 DEF Sends
  <2>2. Append(e.handed, req[h].no) \in Seq(Nat)
    BY <1>3, <2>1, AppendProperties
  <2> HIDE DEF e
  <2> QED  BY <2>1, <2>2 DEF Sends
<1>9. sends' = [sends EXCEPT ![s] = e2]
  BY <1>6
<1>10. /\ sends' \in Seq(Sends) /\ DOMAIN sends' = DOMAIN sends
       /\ \A t \in DOMAIN sends : sends'[t] = IF t = s THEN e2 ELSE sends[t]
  <2> HIDE DEF e2
  <2>1. sends \in Seq(Sends) /\ s \in 1..Len(sends)
    BY <1>4 DEF ShapeInv
  <2>2. sends' \in Seq(Sends)
    BY <1>8, <1>9, <2>1, ExceptSeq
  <2>3. DOMAIN sends' = DOMAIN sends /\ \A t \in DOMAIN sends : sends'[t] = IF t = s THEN e2 ELSE sends[t]
    BY <1>4, <1>9
  <2> QED  BY <2>2, <2>3
<1>11. /\ DOMAIN sends' = DOMAIN sends
       /\ \A t \in DOMAIN sends :
           /\ sends'[t].draft = sends[t].draft /\ sends'[t].status = sends[t].status
           /\ sends'[t].by = sends[t].by
           /\ sends'[t].handed =
                IF t = s THEN Append(sends[t].handed, req[h].no) ELSE sends[t].handed
  <2> HIDE DEF e2
  <2> QED  BY <1>8, <1>10
<1> DEFINE copy == [req[h].copy EXCEPT ![d] = row[d]]
           path == req[h].path
           m == Move(d, "sent")
           todo == IF delivered THEN <<m>> ELSE << >>
           pc == IF delivered THEN "lock" ELSE "commit"
           then == "commit"
           locks == {SendRow(s)}
           added == <<Outcome(delivered)>>
           x == Changed(req[h], pc, copy, path, todo, then, locks, added)
<1>12. req' = [req EXCEPT ![h] = x]
  <2> HIDE DEF s, d, e2
  <2>1. [req[h] EXCEPT !.locks = {SendRow(s)}, !.copy[d] = row[d],
                       !.added = <<Outcome(delivered)>>,
                       !.todo = IF delivered THEN <<Move(d, "sent")>> ELSE << >>,
                       !.pc = IF delivered THEN "lock" ELSE "commit", !.then = "commit"] = x
    BY <1>3 DEF Tx, Changed
  <2> QED  BY <1>7, <2>1
<1>13. m \in Moves /\ m.row = d
  BY <1>5, DraftStatesAre, StatesType, RowsDiffer DEF Move, Moves, Steps, AnyState
<1>14. /\ copy \in [0..Gate -> AnyState \cup {"none"}]
       /\ \A o \in 0..Gate : copy[o] = IF o = d THEN row[d] ELSE req[h].copy[o]
  <2> HIDE DEF d
  <2> QED  BY <1>3, <1>5
<1>15. SendRow(s) \in Nat /\ pc \in Stages /\ then \in Stages \ {"lock"}
  BY <1>4, RowsDiffer DEF SendRow, Stages, ShapeInv
<1>16. added \in Seq(Sends \cup {"sent", "simulated"}) /\ added \in {<<"sent">>, <<"simulated">>}
  <2>1. Outcome(delivered) \in {"sent", "simulated"}
    BY DEF Outcome
  <2>2. Outcome(delivered) \in Sends \cup {"sent", "simulated"}
    BY <2>1
  <2> QED  BY <2>1, <2>2, Single
<1>17. todo \in Seq(Moves) /\ (pc = "lock" <=> todo # << >>) /\ \A k \in DOMAIN todo : row[todo[k].row] # "none"
  <2> HIDE DEF d, m
  <2>1. CASE delivered
    <3>1. todo = <<m>> /\ pc = "lock"
      BY <2>1
    <3>2. todo \in Seq(Moves) /\ todo # << >> /\ DOMAIN todo = {1} /\ todo[1] = m
      BY <1>13, <3>1, Single
    <3> QED  BY <1>5, <1>13, <3>1, <3>2
  <2>2. CASE ~delivered
    <3>1. todo = << >> /\ pc = "commit"
      BY <2>2
    <3> QED  BY <3>1, NoMoves
  <2> QED  BY <2>1, <2>2
<1>18. \/ pc = "lock" /\ todo = <<Move(d, "sent")>> /\ added = <<"sent">>
       \/ pc = "commit" /\ todo = << >> /\ added = <<"simulated">>
  BY DEF Outcome
<1> HIDE DEF copy, path, m, todo, pc, then, locks, added, e, e2
<1>19. /\ x \in Tx /\ x.pc = pc /\ x.copy = copy /\ x.path = path /\ x.todo = todo
       /\ x.then = then /\ x.locks = locks /\ x.added = added
       /\ x.no = req[h].no /\ x.kind = req[h].kind /\ x.subject = req[h].subject
  <2> DEFINE r0 == req[h]
  <2>1. x = Changed(r0, pc, copy, path, todo, then, locks, added)
    BY DEF x
  <2> HIDE DEF x
  <2>2. r0 \in Tx /\ pc \in Stages /\ then \in Stages \ {"lock"} /\ todo \in Seq(Moves)
        /\ copy \in [0..Gate -> AnyState \cup {"none"}]
    BY <1>3, <1>14, <1>15, <1>17
  <2>3. path \in [0..Gate -> Seq(AnyState)] /\ locks \in SUBSET Nat
        /\ added \in Seq(Sends \cup {"sent", "simulated"})
    BY <1>3, <1>15, <1>16 DEF path, locks
  <2> HIDE DEF r0
  <2>4. /\ x \in Tx /\ x.pc = pc /\ x.copy = copy /\ x.path = path /\ x.todo = todo
        /\ x.then = then /\ x.locks = locks /\ x.added = added
        /\ x.no = r0.no /\ x.kind = r0.kind /\ x.subject = r0.subject
    BY <2>1, <2>2, <2>3, TxChange
  <2> QED  BY <2>4 DEF r0
<1> HIDE DEF x
<1>20. req'[h] = x /\ \A g \in Handlers : g # h => req'[g] = req[g]
  BY <1>2, <1>12 DEF ReqInv
<1>21. WellFormed(req[h])'
  <2> HIDE DEF s, d
  <2>1. \A o \in 0..Gate : copy[o] \in States(o) \cup {"none"} /\ path[o] \in Seq(States(o))
    BY <1>2, <1>5, <1>14 DEF WellFormed, path
  <2>2. \A o \in 0..Gate : path[o] = << >>
    BY <1>4 DEF path
  <2>3. \A c \in Drafts : copy[c] # "none" => row[c] # "none"
    BY <1>2, <1>5, <1>14, RowsDiffer DEF WellFormed
  <2>4. \A c \in Drafts : DOMAIN path[c] = {}
    BY <2>2, RowsDiffer
  <2> QED  BY <1>6, <1>17, <1>19, <1>20, <2>1, <2>2, <2>3, <2>4, RowsDiffer DEF WellFormed
<1>22. ShapeInv'
  <2> HIDE DEF s, d
  <2>1. Grows
    BY <1>6 DEF ShapeInv, Grows
  <2>2. ReqInv'
    BY <1>2, <1>12, <1>21, <2>1, ReqStep
  <2>3. RowsInv' /\ TrailTyped'
    BY <1>6 DEF ShapeInv, RowsInv, TrailTyped
  <2>4. \A t \in DOMAIN sends' : row'[sends'[t].draft] # "none"
    BY <1>6, <1>11 DEF ShapeInv
  <2> QED  BY <1>6, <1>10, <2>2, <2>3, <2>4 DEF ShapeInv
<1>23. h \in Active'
  BY <1>19, <1>20 DEF Tx, Stages, Active, At
<1> QED
  BY ZenonT(60), <1>1, <1>4, <1>6, <1>11, <1>14, <1>18, <1>19, <1>20, <1>22, <1>23 DEF Handed, path, then, locks

\* The transaction is committed: its rows, the audit of them, and its sends.
Committed(h) ==
  LET r == req[h] IN
  /\ h \in Active /\ h \notin Active' /\ r.pc = "commit"
  /\ \A g \in Handlers : g # h => req'[g] = req[g]
  /\ \A o \in 0..Gate : row'[o] = IF r.path[o] = << >> THEN row[o] ELSE Last(r.path[o])
  /\ \A o \in 0..NumDrafts :
       /\ Len(trail'[o]) = Len(trail[o]) + Len(r.path[o])
       /\ \A k \in 1..Len(trail[o]) : trail'[o][k] = trail[o][k]
       /\ \A k \in 1..Len(r.path[o]) :
            trail'[o][Len(trail[o]) + k] = Entry(Was(r, o, k), r.path[o][k], r.no)
  /\ trail'[Gate] = << >>
  /\ r.kind \in Decisions =>
       /\ Len(sends') = Len(sends) + Len(r.added)
       /\ \A s \in 1..Len(sends) : sends'[s] = sends[s]
       /\ \A k \in 1..Len(r.added) : sends'[Len(sends) + k] = r.added[k]
  /\ r.kind = "send" =>
       /\ Len(sends') = Len(sends)
       /\ \A s \in 1..Len(sends) :
            /\ sends'[s].draft = sends[s].draft /\ sends'[s].by = sends[s].by
            /\ sends'[s].handed = sends[s].handed
            /\ sends'[s].status = IF s = r.subject THEN Head(r.added) ELSE sends[s].status
  /\ r.kind \notin Decisions \cup {"send"} => sends' = sends
  /\ met' = IF \A o \in 0..Gate : r.path[o] = << >> THEN Forgotten(h) ELSE met
  /\ UNCHANGED <<begun, faults>>

LEMMA CommitTyped ==
  ASSUME ShapeInv, SenderInv, KindInv, AddedInv, NEW h \in Handlers, Commit(h)
  PROVE  ShapeInv' /\ Committed(h)
<1> DEFINE r == req[h]
<1>1. req[h].pc = "commit" /\ h \in Active
  <2>1. req[h].pc = "commit"
    BY DEF Commit, At
  <2> QED  BY <2>1 DEF Active, At
<1>2. WellFormed(req[h]) /\ ReqInv /\ RowsInv /\ TrailTyped /\ sends \in Seq(Sends)
  BY <1>1, ActiveType DEF ShapeInv
<1>3. /\ req[h] \in Tx /\ req[h].copy \in [0..Gate -> AnyState \cup {"none"}]
      /\ req[h].path \in [0..Gate -> Seq(AnyState)] /\ req[h].no \in Nat
  BY <1>1, <1>2 DEF WellFormed, Tx
<1>4. /\ row' = [o \in 0..Gate |-> IF r.path[o] = << >> THEN row[o] ELSE Last(r.path[o])]
      /\ trail' = [o \in 0..Gate |-> IF o = Gate THEN << >> ELSE trail[o] \o Written(r, o)]
      /\ review' = IF r.kind = "submit" THEN [review EXCEPT ![r.subject] = "pending"] ELSE review
      /\ met' = IF \A o \in 0..Gate : r.path[o] = << >> THEN Forgotten(h) ELSE met
      /\ UNCHANGED <<begun, faults>>
  BY DEF Commit
<1>5. req' = [req EXCEPT ![h] =
        IF r.kind = "submit" THEN [pc |-> "publish", draft |-> r.subject, to |-> "approved"] ELSE Idle]
  BY DEF Commit
<1>6. /\ r.kind \in Decisions => sends' = sends \o r.added
      /\ r.kind = "send" => sends' = [sends EXCEPT ![r.subject].status = Head(r.added)]
      /\ r.kind \notin Decisions \cup {"send"} => sends' = sends
  BY DEF Commit, Decisions
<1> HIDE DEF r
<1>7. \A o \in 0..Gate : row'[o] = IF req[h].path[o] = << >> THEN row[o] ELSE Last(req[h].path[o])
  BY <1>4 DEF r
<1>8. ASSUME NEW o \in 0..Gate, req[h].path[o] # << >>
      PROVE  Last(req[h].path[o]) \in States(o) /\ Last(req[h].path[o]) = req[h].path[o][Len(req[h].path[o])]
  <2>1. Last(req[h].path[o]) = req[h].path[o][Len(req[h].path[o])]
    BY DEF Last
  <2>2. req[h].path[o] \in Seq(States(o))
    BY <1>2 DEF WellFormed
  <2>3. Len(req[h].path[o]) \in 1..Len(req[h].path[o])
    BY <1>8, <2>2, EmptySeq, LenProperties
  <2> QED  BY <2>1, <2>2, <2>3, ElementOfSeq
<1>9. RowsInv'
  <2>1. \A o \in 0..Gate : row'[o] \in States(o) \cup {"none"}
    BY <1>2, <1>7, <1>8 DEF RowsInv
  <2>2. row'[Workspace] # "none"
    BY <1>2, <1>7, <1>8, StatesType, RowsDiffer DEF RowsInv
  <2>3. row' \in [0..Gate -> AnyState \cup {"none"}]
    <3>1. \A o \in 0..Gate : row'[o] \in AnyState \cup {"none"}
      BY <2>1, StatesType
    <3>2. DOMAIN row' = 0..Gate /\ row' = [o \in 0..Gate |-> row'[o]]
      BY <1>4
    <3> QED  BY <3>1, <3>2
  <2> QED  BY <2>1, <2>2, <2>3 DEF RowsInv
<1>10. \A o \in 0..Gate : row[o] # "none" => row'[o] # "none"
  BY <1>7, <1>8, StatesType
<1>11. ASSUME NEW o \in 0..NumDrafts
       PROVE  /\ Written(req[h], o) \in Seq(Audits)
              /\ Len(Written(req[h], o)) = Len(req[h].path[o])
              /\ \A k \in 1..Len(req[h].path[o]) :
                   Written(req[h], o)[k] = Entry(Was(req[h], o, k), req[h].path[o][k], req[h].no)
  <2> DEFINE p == req[h].path[o]
  <2>1. o \in 0..Gate
    BY RowsDiffer
  <2>2. p \in Seq(States(o)) /\ Len(p) \in Nat /\ DOMAIN p = 1..Len(p)
    BY <1>2, <2>1 DEF WellFormed
  <2>3. ASSUME NEW k \in 1..Len(p)
        PROVE  Entry(Was(req[h], o, k), p[k], req[h].no) \in Audits
    <3>1. p[k] \in AnyState
      BY <2>1, <2>2, <2>3, StatesType
    <3>2. Was(req[h], o, k) \in AnyState
      <4>1. CASE k = 1
        <5>1. p # << >>
          BY <2>2, <2>3
        <5>2. req[h].copy[o] # "none" /\ req[h].copy[o] \in States(o) \cup {"none"}
          BY <1>2, <2>1, <5>1 DEF WellFormed
        <5> QED  BY <2>1, <4>1, <5>2, StatesType DEF Was
      <4>2. CASE k # 1
        <5>1. k - 1 \in 1..Len(p)
          BY <2>2, <2>3, <4>2
        <5>2. p[k - 1] \in AnyState
          BY <2>1, <2>2, <5>1, StatesType
        <5> QED  BY <4>2, <5>2 DEF Was
      <4> QED  BY <4>1, <4>2
    <3> QED  BY <1>3, <3>1, <3>2 DEF Entry, Audits
  <2>4. Written(req[h], o) = [k \in 1..Len(p) |-> Entry(Was(req[h], o, k), p[k], req[h].no)]
    BY <2>2 DEF Written, Was
  <2> HIDE DEF p
  <2>5. Written(req[h], o) \in [1..Len(p) -> Audits]
    BY <2>3, <2>4
  <2>6. Written(req[h], o) \in Seq(Audits) /\ Len(Written(req[h], o)) = Len(p)
    BY <2>2, <2>5
  <2> QED  BY <2>4, <2>6 DEF p
<1>12. ASSUME NEW o \in 0..NumDrafts
       PROVE  /\ trail'[o] \in Seq(Audits)
              /\ Len(trail'[o]) = Len(trail[o]) + Len(req[h].path[o])
              /\ \A k \in 1..Len(trail[o]) : trail'[o][k] = trail[o][k]
              /\ \A k \in 1..Len(req[h].path[o]) :
                   trail'[o][Len(trail[o]) + k] = Entry(Was(req[h], o, k), req[h].path[o][k], req[h].no)
  <2> DEFINE t == trail[o]
             w == Written(req[h], o)
             n == Len(req[h].path[o])
  <2>1. o \in 0..Gate /\ o # Gate
    BY RowsDiffer
  <2>2. trail'[o] = t \o w
    BY <1>4, <2>1 DEF r
  <2>3. t \in Seq(Audits) /\ w \in Seq(Audits) /\ Len(w) = n /\ Len(t) \in Nat /\ n \in Nat
        /\ \A k \in 1..n : w[k] = Entry(Was(req[h], o, k), req[h].path[o][k], req[h].no)
    <3>1. t \in Seq(Audits)
      BY <1>2, <2>1 DEF TrailTyped
    <3>2. w \in Seq(Audits) /\ Len(w) = n
          /\ \A k \in 1..n : w[k] = Entry(Was(req[h], o, k), req[h].path[o][k], req[h].no)
      BY <1>11
    <3> HIDE DEF t, w
    <3>3. Len(t) \in Nat /\ Len(w) \in Nat
      BY <3>1, <3>2
    <3> QED  BY <3>1, <3>2, <3>3
  <2> HIDE DEF w, n, t
  <2>4. /\ t \o w \in Seq(Audits) /\ Len(t \o w) = Len(t) + Len(w)
        /\ \A k \in 1..(Len(t) + Len(w)) : (t \o w)[k] = IF k <= Len(t) THEN t[k] ELSE w[k - Len(t)]
    BY <2>3, ConcatProperties
  <2>5. \A k \in 1..Len(t) : (t \o w)[k] = t[k]
    BY <2>3, <2>4
  <2>6. ASSUME NEW k \in 1..n PROVE (t \o w)[Len(t) + k] = w[k]
    <3>1. Len(t) + k \in 1..(Len(t) + Len(w)) /\ ~(Len(t) + k <= Len(t)) /\ (Len(t) + k) - Len(t) = k
      BY <2>3
    <3> QED  BY <2>4, <3>1
  <2> QED  BY <2>2, <2>3, <2>4, <2>5, <2>6 DEF t, n
<1>13. trail'[Gate] = << >>
  BY <1>4, RowsDiffer
<1>14. TrailTyped'
  <2>1. trail' \in [0..Gate -> Seq(Audits)]
    <3>1. \A o \in 0..Gate : trail'[o] \in Seq(Audits)
      <4>1. << >> \in Seq(Audits)
        OBVIOUS
      <4> QED  BY <1>12, <1>13, <4>1, RowsDiffer
    <3>2. trail' = [o \in 0..Gate |-> trail'[o]]
      BY <1>4
    <3> QED  BY <3>1, <3>2
  <2>2. ASSUME NEW o \in 0..NumDrafts, NEW k \in DOMAIN trail'[o]
        PROVE  /\ trail'[o][k].to \in States(o)
               /\ o \in Drafts => /\ Legal(o, trail'[o][k].from, trail'[o][k].to)
                                  /\ trail'[o][k].from \in DraftStates
    <3> DEFINE n == Len(trail[o])
               p == req[h].path[o]
    <3>1. o \in 0..Gate /\ trail[o] \in Seq(Audits) /\ n \in Nat /\ DOMAIN trail[o] = 1..n
      <4>1. o \in 0..Gate /\ trail[o] \in Seq(Audits)
        BY <1>2, RowsDiffer DEF TrailTyped
      <4> QED  BY <4>1
    <3>2. p \in Seq(States(o)) /\ Len(p) \in Nat /\ DOMAIN p = 1..Len(p)
      BY <1>2, <3>1 DEF WellFormed
    <3>3. k \in 1..(n + Len(p))
      <4>1. trail'[o] \in Seq(Audits) /\ Len(trail'[o]) = n + Len(p)
        BY <1>12
      <4> HIDE DEF n, p
      <4>2. DOMAIN trail'[o] = 1..(n + Len(p))
        BY <3>1, <3>2, <4>1
      <4> QED  BY <2>2, <4>2
    <3>4. CASE k <= n
      <4>1. k \in 1..n
        BY <3>1, <3>3, <3>4
      <4>2. trail'[o][k] = trail[o][k]
        BY <1>12, <4>1
      <4> QED  BY <1>2, <3>1, <4>1, <4>2 DEF TrailTyped
    <3>5. CASE ~(k <= n)
      <4> DEFINE j == k - n
      <4>1. j \in 1..Len(p) /\ k = n + j
        <5> HIDE DEF n, p
        <5> QED  BY <3>1, <3>2, <3>3, <3>5
      <4> HIDE DEF j
      <4>2. trail'[o][k] = Entry(Was(req[h], o, j), p[j], req[h].no)
        BY <1>12, <4>1
      <4>3. trail'[o][k].to = p[j] /\ trail'[o][k].from = Was(req[h], o, j)
        BY <4>2 DEF Entry
      <4>4. p[j] \in States(o)
        BY <3>2, <4>1
      <4>5. ASSUME o \in Drafts
            PROVE  Legal(o, Was(req[h], o, j), p[j]) /\ Was(req[h], o, j) \in DraftStates
        <5>1. Legal(o, Was(req[h], o, j), p[j])
          BY <1>2, <3>2, <4>1, <4>5 DEF WellFormed
        <5>2. CASE j = 1
          <6>1. p # << >>
            BY <3>2, <4>1
          <6>2. req[h].copy[o] # "none" /\ req[h].copy[o] \in States(o) \cup {"none"}
            BY <1>2, <3>1, <6>1 DEF WellFormed
          <6> QED  BY <4>5, <5>1, <5>2, <6>2, StatesType DEF Was
        <5>3. CASE j # 1
          <6>1. j - 1 \in 1..Len(p)
            BY <3>2, <4>1, <5>3
          <6>2. p[j - 1] \in States(o)
            BY <3>2, <6>1
          <6> QED  BY <4>5, <5>1, <5>3, <6>2, StatesType DEF Was
        <5> QED  BY <5>2, <5>3
      <4> QED  BY <4>3, <4>4, <4>5
    <3> QED  BY <3>4, <3>5
  <2>3. Drafts \subseteq 0..NumDrafts
    BY RowsDiffer
  <2> QED  BY <2>1, <2>2, <2>3 DEF TrailTyped
<1>15. /\ sends' \in Seq(Sends) /\ \A s \in DOMAIN sends' : row[sends'[s].draft] # "none"
       /\ req[h].kind \in Decisions =>
            /\ Len(sends') = Len(sends) + Len(req[h].added)
            /\ \A s \in 1..Len(sends) : sends'[s] = sends[s]
            /\ \A k \in 1..Len(req[h].added) : sends'[Len(sends) + k] = req[h].added[k]
       /\ req[h].kind = "send" =>
            /\ Len(sends') = Len(sends)
            /\ \A s \in 1..Len(sends) :
                 /\ sends'[s].draft = sends[s].draft /\ sends'[s].by = sends[s].by
                 /\ sends'[s].handed = sends[s].handed
                 /\ sends'[s].status =
                      IF s = req[h].subject THEN Head(req[h].added) ELSE sends[s].status
       /\ req[h].kind \notin Decisions \cup {"send"} => sends' = sends
  <2>0. "send" \notin Decisions
    BY DEF Decisions
  <2>4. Len(sends) \in Nat /\ DOMAIN sends = 1..Len(sends)
        /\ \A s \in DOMAIN sends : row[sends[s].draft] # "none"
    BY <1>2 DEF ShapeInv
  <2>1. CASE req[h].kind \in Decisions
    <3> DEFINE a == req[h].added
    <3>1. a \in Seq(Sends) /\ \A k \in DOMAIN a : row[a[k].draft] # "none"
      BY <1>1, <2>1 DEF AddedInv
    <3>2. sends' = sends \o a
      BY <1>6, <2>1 DEF r
    <3> HIDE DEF a
    <3>3. /\ sends \o a \in Seq(Sends) /\ Len(sends \o a) = Len(sends) + Len(a)
          /\ \A k \in 1..(Len(sends) + Len(a)) :
               (sends \o a)[k] = IF k <= Len(sends) THEN sends[k] ELSE a[k - Len(sends)]
      BY <1>2, <3>1, ConcatProperties
    <3>4. Len(a) \in Nat /\ DOMAIN a = 1..Len(a)
      BY <3>1
    <3>5. \A s \in 1..Len(sends) : sends'[s] = sends[s]
      BY <2>4, <3>2, <3>3, <3>4
    <3>6. ASSUME NEW k \in 1..Len(a) PROVE sends'[Len(sends) + k] = a[k]
      <4>1. Len(sends) + k \in 1..(Len(sends) + Len(a)) /\ ~(Len(sends) + k <= Len(sends))
            /\ (Len(sends) + k) - Len(sends) = k
        BY <2>4, <3>4
      <4> QED  BY <3>2, <3>3, <4>1
    <3>7. ASSUME NEW s \in DOMAIN sends' PROVE row[sends'[s].draft] # "none"
      <4>1. s \in 1..(Len(sends) + Len(a))
        BY <3>2, <3>3, <3>7
      <4>2. CASE s <= Len(sends)
        BY <2>4, <3>5, <4>1, <4>2
      <4>3. CASE ~(s <= Len(sends))
        <5>1. s - Len(sends) \in 1..Len(a) /\ sends'[s] = a[s - Len(sends)]
          BY <2>4, <3>2, <3>3, <3>4, <4>1, <4>3
        <5> QED  BY <3>1, <3>4, <5>1
      <4> QED  BY <4>2, <4>3
    <3> QED  BY <2>0, <2>1, <3>2, <3>3, <3>5, <3>6, <3>7 DEF a
  <2>2. CASE req[h].kind = "send"
    <3> DEFINE s == req[h].subject
               e == sends[s]
               new == Head(req[h].added)
               e2 == [e EXCEPT !.status = new]
    <3>1. s \in DOMAIN sends /\ req[h].added \in {<<"sent">>, <<"simulated">>}
      BY <1>1, <2>2 DEF SenderInv
    <3>2. new \in {"sent", "simulated"}
      BY <3>1
    <3> HIDE DEF new
    <3>3. e \in Sends
      BY <1>2, <3>1
    <3>4. /\ e2 \in Sends /\ e2.draft = e.draft /\ e2.by = e.by /\ e2.handed = e.handed
          /\ e2.status = new
      <4> HIDE DEF e
      <4> QED  BY <3>2, <3>3 DEF Sends
    <3>5. sends' = [sends EXCEPT ![s] = e2]
      BY <1>6, <2>2 DEF r, new
    <3> HIDE DEF e2
    <3>6. sends' \in Seq(Sends) /\ Len(sends') = Len(sends)
          /\ \A t \in 1..Len(sends) : sends'[t] = IF t = s THEN e2 ELSE sends[t]
      <4>1. s \in 1..Len(sends)
        BY <2>4, <3>1
      <4> QED  BY <1>2, <3>4, <3>5, <4>1, ExceptSeq
    <3>7. \A t \in 1..Len(sends) :
            /\ sends'[t].draft = sends[t].draft /\ sends'[t].by = sends[t].by
            /\ sends'[t].handed = sends[t].handed
            /\ sends'[t].status = IF t = s THEN new ELSE sends[t].status
      BY <3>4, <3>6
    <3>8. \A t \in DOMAIN sends' : row[sends'[t].draft] # "none"
      BY <2>4, <3>6, <3>7
    <3> QED  BY <2>0, <2>2, <3>6, <3>7, <3>8 DEF new
  <2>3. CASE req[h].kind \notin Decisions \cup {"send"}
    BY <1>2, <1>6, <2>3, <2>4 DEF r
  <2> QED  BY <2>1, <2>2, <2>3
<1>16. Grows
  BY <1>4, <1>10 DEF ShapeInv, Grows
<1>17. ReqInv' /\ req'[h].pc \in {"publish", "idle"} /\ \A g \in Handlers : g # h => req'[g] = req[g]
  <2> DEFINE x == IF req[h].kind = "submit"
                  THEN [pc |-> "publish", draft |-> req[h].subject, to |-> "approved"] ELSE Idle
  <2>1. x = Idle \/ (x \in Publishing /\ row'[x.draft] # "none")
    <3>1. CASE req[h].kind = "submit"
      <4>1. req[h].subject \in Drafts /\ row[req[h].subject] # "none"
        BY <1>1, <3>1 DEF KindInv
      <4> QED  BY <1>10, <3>1, <4>1, RowsDiffer DEF Publishing
    <3> QED  BY <3>1
  <2>2. x.pc \in {"publish", "idle"}
    BY DEF Idle
  <2>3. req' = [req EXCEPT ![h] = x]
    BY <1>5 DEF r
  <2> HIDE DEF x
  <2>4. ReqInv'
    BY <1>2, <1>16, <2>1, <2>3, ReqStep
  <2> QED  BY <1>2, <2>2, <2>3, <2>4 DEF ReqInv
<1>18. h \notin Active'
  BY <1>17 DEF Active, At
<1>19. ShapeInv'
  <2>1. review' \in [Drafts -> {"none", "pending", "decided"}]
    BY <1>1, <1>4 DEF ShapeInv, KindInv, r
  <2>2. \A s \in DOMAIN sends' : row'[sends'[s].draft] # "none"
    <3>1. ASSUME NEW s \in DOMAIN sends' PROVE sends'[s].draft \in 0..Gate
      <4>1. sends' \in Seq(Sends)
        BY <1>15
      <4>2. sends'[s] \in Sends
        BY <3>1, <4>1
      <4> QED  BY <4>2, RowsDiffer DEF Sends
    <3> QED  BY <1>10, <1>15, <3>1
  <2>3. begun' \in Nat /\ faults' \in 0..MaxFaults
    BY <1>4 DEF ShapeInv
  <2> QED  BY <1>9, <1>14, <1>15, <1>17, <2>1, <2>2, <2>3 DEF ShapeInv
<1>20. met' = (IF \A o \in 0..Gate : req[h].path[o] = << >> THEN Forgotten(h) ELSE met)
       /\ UNCHANGED <<begun, faults>>
  BY <1>4 DEF r
<1> QED  BY <1>1, <1>7, <1>12, <1>13, <1>15, <1>17, <1>18, <1>19, <1>20 DEF Committed

\* The status of draft d is edited, in a transaction that begins and commits at once.
Edited(d) ==
  /\ d \in Drafts /\ row[d] \in DraftStates
  /\ Legal(d, row[d], row'[d]) /\ row'[d] \in DraftStates
  /\ \A o \in 0..Gate : o # d => row'[o] = row[o]
  /\ trail'[d] = Append(trail[d], Entry(row[d], row'[d], begun + 1))
  /\ \A o \in 0..Gate : o # d => trail'[o] = trail[o]
  /\ begun' = begun + 1
  /\ met' = met \cup {{begun + 1, req[g].no} : g \in Active}
  /\ UNCHANGED <<sends, req, faults>>

LEMMA PutTyped ==
  ASSUME ShapeInv, NEW h \in Handlers, NEW d \in Drafts, Put(h, d)
  PROVE  ShapeInv' /\ Edited(d)
<1>1. PICK s \in Edits :
        /\ Legal(d, row[d], s) /\ row' = [row EXCEPT ![d] = s]
        /\ trail' = [trail EXCEPT ![d] = Append(@, Entry(row[d], s, begun + 1))]
  BY DEF Put
<1>2. /\ row[d] # "none" /\ Opened(h) /\ UNCHANGED <<review, sends, req, faults>> /\ h \notin Active
  BY DEF Put, Active, At
<1>3. RowsInv /\ TrailTyped /\ begun \in Nat /\ ReqInv
  BY DEF ShapeInv
<1>4. d \in 0..Gate /\ row[d] \in DraftStates /\ States(d) = DraftStates /\ DraftStates \subseteq AnyState
  BY <1>2, <1>3, RowsDiffer, StatesType DEF RowsInv
<1>5. s \in DraftStates /\ s # "none"
  <2>1. s \in DraftStates
    BY <1>1, <1>4, DraftMoves
  <2> QED  BY <1>4, <2>1, StatesType
<1>6. /\ row'[d] = s /\ \A o \in 0..Gate : o # d => row'[o] = row[o]
      /\ trail'[d] = Append(trail[d], Entry(row[d], s, begun + 1))
      /\ \A o \in 0..Gate : o # d => trail'[o] = trail[o]
  BY <1>1, <1>3, <1>4 DEF RowsInv, TrailTyped
<1>7. RowsInv'
  <2>1. row' \in [0..Gate -> AnyState \cup {"none"}]
    BY <1>1, <1>3, <1>4, <1>5 DEF RowsInv
  <2>2. \A o \in 0..Gate : row'[o] \in States(o) \cup {"none"}
    BY <1>3, <1>4, <1>5, <1>6 DEF RowsInv
  <2>3. row'[Workspace] # "none"
    BY <1>3, <1>6, RowsDiffer DEF RowsInv
  <2> QED  BY <2>1, <2>2, <2>3 DEF RowsInv
<1> DEFINE e == Entry(row[d], s, begun + 1)
<1>8. e \in Audits /\ e.from = row[d] /\ e.to = s
  BY <1>3, <1>4, <1>5 DEF Entry, Audits
<1> HIDE DEF e
<1>9. /\ trail[d] \in Seq(Audits) /\ trail'[d] = Append(trail[d], e)
      /\ Append(trail[d], e) \in Seq(Audits)
      /\ Len(Append(trail[d], e)) = Len(trail[d]) + 1
      /\ Append(trail[d], e)[Len(trail[d]) + 1] = e
      /\ \A k \in 1..Len(trail[d]) : Append(trail[d], e)[k] = trail[d][k]
  <2>1. trail[d] \in Seq(Audits)
    BY <1>3, <1>4 DEF TrailTyped
  <2> QED  BY <1>6, <1>8, <2>1, AppendProperties DEF e
<1>10. TrailTyped'
  <2>1. trail' \in [0..Gate -> Seq(Audits)]
    <3>1. trail' = [trail EXCEPT ![d] = Append(trail[d], e)]
      BY <1>1 DEF e
    <3> QED  BY <1>3, <1>9, <3>1 DEF TrailTyped
  <2>2. ASSUME NEW k \in DOMAIN trail'[d]
        PROVE  /\ trail'[d][k].to \in DraftStates /\ trail'[d][k].from \in DraftStates
               /\ Legal(d, trail'[d][k].from, trail'[d][k].to)
    <3>1. k \in 1..(Len(trail[d]) + 1) /\ DOMAIN trail[d] = 1..Len(trail[d]) /\ Len(trail[d]) \in Nat
      BY <1>9, <2>2
    <3>2. CASE k = Len(trail[d]) + 1
      BY <1>1, <1>4, <1>5, <1>8, <1>9, <3>2
    <3>3. CASE k # Len(trail[d]) + 1
      <4>1. k \in DOMAIN trail[d] /\ trail'[d][k] = trail[d][k]
        BY <1>9, <3>1, <3>3
      <4> QED  BY <1>3, <1>4, <4>1, RowsDiffer DEF TrailTyped
    <3> QED  BY <3>2, <3>3
  <2>3. Drafts \subseteq 0..Gate /\ 0..NumDrafts \subseteq 0..Gate
    BY RowsDiffer
  <2> QED  BY <1>3, <1>4, <1>6, <2>1, <2>2, <2>3 DEF TrailTyped
<1>11. \A o \in 0..Gate : row[o] # "none" => row'[o] # "none"
  BY <1>5, <1>6
<1>12. begun' = begun + 1 /\ met' = met \cup {{begun + 1, req[g].no} : g \in Active}
  <2>1. Active \ {h} = Active
    BY <1>2
  <2> QED  BY <1>2, <2>1 DEF Opened
<1>13. Grows
  BY <1>3, <1>11, <1>12 DEF Grows
<1>14. ReqInv'
  <2>1. req' = [req EXCEPT ![h] = req[h]]
    BY <1>2, <1>3 DEF ReqInv
  <2>2. WellFormed(req[h]) => WellFormed(req[h])'
    BY <1>2, <1>13, TxStays
  <2>3. req[h] \in Publishing /\ row[req[h].draft] # "none" => row'[req[h].draft] # "none"
    BY <1>11, RowsDiffer DEF Publishing
  <2>4. \/ req[h] = Idle
        \/ req[h] \in Publishing /\ row'[req[h].draft] # "none"
        \/ WellFormed(req[h])'
    BY <1>3, <2>2, <2>3 DEF ReqInv
  <2> DEFINE x == req[h]
  <2>5. req' = [req EXCEPT ![h] = x] /\ (x = Idle \/ (x \in Publishing /\ row'[x.draft] # "none") \/ WellFormed(req[h])')
    BY <2>1, <2>4
  <2> HIDE DEF x
  <2> QED  BY <1>3, <1>13, <2>5, ReqStep
<1>15. ShapeInv'
  <2>1. \A t \in DOMAIN sends : sends[t].draft \in 0..Gate
    BY SendType
  <2>2. \A t \in DOMAIN sends' : row'[sends'[t].draft] # "none"
    BY <1>2, <1>11, <2>1 DEF ShapeInv
  <2> QED  BY <1>2, <1>7, <1>10, <1>12, <1>14, <2>2 DEF ShapeInv
<1> QED  BY <1>1, <1>2, <1>4, <1>5, <1>6, <1>12, <1>15 DEF Edited

\* No transaction takes part.
Aside ==
  /\ Active' = Active /\ \A g \in Active : req'[g] = req[g]
  /\ \A o \in 0..NumDrafts : row'[o] = row[o] \/ row[o] = "none"
  /\ \A o \in 0..Gate : row[o] # "none" => row'[o] # "none"
  /\ begun' \in {begun, begun + 1} /\ faults' \in {faults, faults + 1}
  /\ UNCHANGED <<trail, sends, met>>

LEMMA AsideTyped ==
  ASSUME ShapeInv, NEW h \in Handlers,
         \/ \E d \in Drafts : Create(h, d) \/ DecideReview(h, d)
         \/ Cut(h) /\ req[h].pc = "publish"
  PROVE  ShapeInv' /\ Aside
<1>1. /\ RowsInv /\ TrailTyped /\ begun \in Nat /\ ReqInv /\ faults \in 0..MaxFaults
      /\ review \in [Drafts -> {"none", "pending", "decided"}]
      /\ sends \in Seq(Sends) /\ \A s \in DOMAIN sends : row[sends[s].draft] # "none"
  BY DEF ShapeInv
<1>2. ASSUME NEW o \in 0..Gate, NEW s \in States(o), row' = [row EXCEPT ![o] = s],
             o \in 0..NumDrafts => row[o] = "none"
      PROVE  /\ RowsInv'
             /\ \A p \in 0..NumDrafts : row'[p] = row[p] \/ row[p] = "none"
             /\ \A p \in 0..Gate : row[p] # "none" => row'[p] # "none"
  <2>1. s \in AnyState /\ s # "none"
    BY StatesType
  <2>2. row'[o] = s /\ \A p \in 0..Gate : p # o => row'[p] = row[p]
    BY <1>1, <1>2 DEF RowsInv
  <2>3. row' \in [0..Gate -> AnyState \cup {"none"}]
    BY <1>1, <1>2, <2>1 DEF RowsInv
  <2> QED  BY <1>1, <1>2, <2>1, <2>2, <2>3, RowsDiffer DEF RowsInv
<1>3. ASSUME UNCHANGED row
      PROVE  /\ RowsInv'
             /\ \A p \in 0..NumDrafts : row'[p] = row[p] \/ row[p] = "none"
             /\ \A p \in 0..Gate : row[p] # "none" => row'[p] # "none"
  BY <1>1, <1>3 DEF RowsInv
<1>4. ASSUME RowsInv', \A p \in 0..NumDrafts : row'[p] = row[p] \/ row[p] = "none",
             \A p \in 0..Gate : row[p] # "none" => row'[p] # "none",
             begun' \in {begun, begun + 1}, faults' \in {faults, faults + 1},
             faults' \in 0..MaxFaults, review' \in [Drafts -> {"none", "pending", "decided"}],
             UNCHANGED <<trail, sends, met>>,
             NEW x, req' = [req EXCEPT ![h] = x], h \notin Active \/ x = req[h],
             \/ x = req[h]
             \/ x = Idle
             \/ x \in Publishing /\ row'[x.draft] # "none"
      PROVE  ShapeInv' /\ Aside
  <2>1. Grows
    BY <1>1, <1>4 DEF Grows
  <2>2. x = Idle \/ (x \in Publishing /\ row'[x.draft] # "none") \/ WellFormed(req[h])'
    <3>1. CASE x = req[h]
      <4>1. req'[h] = req[h]
        BY <1>1, <1>4, <3>1 DEF ReqInv
      <4>2. WellFormed(req[h]) => WellFormed(req[h])'
        BY <2>1, <4>1, TxStays
      <4>3. req[h] \in Publishing => req[h].draft \in 0..Gate
        BY RowsDiffer DEF Publishing
      <4> QED  BY <1>1, <1>4, <3>1, <4>2, <4>3 DEF ReqInv
    <3> QED  BY <1>4, <3>1
  <2>3. ReqInv'
    BY <1>1, <1>4, <2>1, <2>2, ReqStep
  <2>4. TrailTyped'
    BY <1>1, <1>4 DEF TrailTyped
  <2>5. \A s \in DOMAIN sends' : row'[sends'[s].draft] # "none"
    <3>1. \A t \in DOMAIN sends : sends[t].draft \in 0..Gate
      BY SendType
    <3> QED  BY <1>1, <1>4, <3>1
  <2>6. begun' \in Nat
    BY <1>1, <1>4
  <2>7. ShapeInv'
    BY <1>1, <1>4, <2>3, <2>4, <2>5, <2>6 DEF ShapeInv
  <2>8. req'[h] = x /\ \A g \in Handlers : g # h => req'[g] = req[g]
    BY <1>1, <1>4 DEF ReqInv
  <2>9. h \in Active' <=> h \in Active
    BY <1>4, <2>8 DEF Active, At, Idle, Publishing
  <2>10. Active' = Active
    BY <2>8, <2>9 DEF Active, At
  <2>11. \A g \in Active : req'[g] = req[g]
    BY <1>4, <2>8 DEF Active
  <2> QED  BY <1>4, <2>7, <2>10, <2>11 DEF Aside
<1>5. req = [req EXCEPT ![h] = req[h]]
  BY <1>1 DEF ReqInv
<1>6. CASE \E d \in Drafts : Create(h, d)
  <2>1. PICK d \in Drafts : Create(h, d)
    BY <1>6
  <2>2. /\ row[d] = "none" /\ h \notin Active
        /\ UNCHANGED <<trail, review, sends, begun, met, faults>>
    BY <2>1 DEF Create, At, Active
  <2>3. PICK s \in {"draft_ready", "generating"} :
          /\ row' = [row EXCEPT ![d] = s]
          /\ \/ UNCHANGED req
             \/ req' = [req EXCEPT ![h] = [pc |-> "publish", draft |-> d, to |-> "draft_ready"]]
    BY <2>1 DEF Create
  <2>4. s \in States(d) /\ d \in 0..Gate
    BY RowsDiffer, StatesType, DraftStatesAre
  <2>5. /\ RowsInv' /\ row'[d] # "none"
        /\ \A p \in 0..NumDrafts : row'[p] = row[p] \/ row[p] = "none"
        /\ \A p \in 0..Gate : row[p] # "none" => row'[p] # "none"
    <3>1. s # "none" /\ row'[d] = s
      BY <1>1, <2>3, <2>4, StatesType DEF RowsInv
    <3> QED  BY <1>2, <2>2, <2>3, <2>4, <3>1
  <2>6. CASE UNCHANGED req
    BY <1>1, <1>4, <1>5, <2>2, <2>5, <2>6
  <2>7. CASE req' = [req EXCEPT ![h] = [pc |-> "publish", draft |-> d, to |-> "draft_ready"]]
    <3> DEFINE x == [pc |-> "publish", draft |-> d, to |-> "draft_ready"]
    <3>1. x \in Publishing /\ row'[x.draft] # "none" /\ req' = [req EXCEPT ![h] = x]
      BY <2>5, <2>7 DEF Publishing
    <3> HIDE DEF x
    <3> QED  BY <1>1, <1>4, <2>2, <2>5, <3>1
  <2> QED  BY <2>3, <2>6, <2>7
<1>7. CASE \E d \in Drafts : DecideReview(h, d)
  <2>1. PICK d \in Drafts : DecideReview(h, d)
    BY <1>7
  <2>2. review' \in [Drafts -> {"none", "pending", "decided"}] /\ begun' = begun + 1
        /\ UNCHANGED <<row, trail, sends, req, met, faults>>
    BY <1>1, <2>1 DEF DecideReview
  <2> QED  BY <1>1, <1>3, <1>4, <1>5, <2>2
<1>9. CASE Cut(h) /\ req[h].pc = "publish"
  <2>1. h \notin Active
    BY <1>9 DEF Active, At
  <2>2. /\ req' = [req EXCEPT ![h] = Idle] /\ faults' = faults + 1 /\ faults < MaxFaults /\ met' = met
        /\ UNCHANGED <<row, trail, review, sends, begun>>
    BY <1>9, <2>1 DEF Cut
  <2>3. faults' \in 0..MaxFaults
    BY <1>1, <2>2, ReviewAssumption
  <2> DEFINE x == Idle
  <2>4. req' = [req EXCEPT ![h] = x] /\ x = Idle
    BY <2>2
  <2> HIDE DEF x
  <2> QED  BY <1>1, <1>3, <1>4, <2>1, <2>2, <2>3, <2>4
<1> QED  BY <1>6, <1>7, <1>9

LEMMA AskTyped ==
  ASSUME ShapeInv, Ask
  PROVE  ShapeInv' /\ Aside
<1>1. /\ RowsInv /\ TrailTyped /\ begun \in Nat /\ ReqInv /\ faults \in 0..MaxFaults
      /\ review \in [Drafts -> {"none", "pending", "decided"}]
      /\ sends \in Seq(Sends) /\ \A s \in DOMAIN sends : row[sends[s].draft] # "none"
  BY DEF ShapeInv
<1>2. row' = [row EXCEPT ![Gate] = "pending"]
      /\ UNCHANGED <<trail, review, sends, req, begun, met, faults>>
  BY DEF Ask
<1>3. "pending" \in States(Gate) /\ "pending" \in AnyState /\ "pending" # "none"
      /\ Gate \in 0..Gate /\ Gate \notin 0..NumDrafts
  BY StatesType, RowsDiffer
<1>4. row'[Gate] = "pending" /\ \A o \in 0..Gate : o # Gate => row'[o] = row[o]
  BY <1>1, <1>2, <1>3 DEF RowsInv
<1>5. \A o \in 0..Gate : row[o] # "none" => row'[o] # "none"
  BY <1>3, <1>4
<1>6. RowsInv'
  <2>1. row' \in [0..Gate -> AnyState \cup {"none"}]
    BY <1>1, <1>2, <1>3 DEF RowsInv
  <2> QED  BY <1>1, <1>3, <1>4, <1>5, <2>1, RowsDiffer DEF RowsInv
<1>7. Grows
  BY <1>1, <1>2, <1>5 DEF Grows
<1>8. ReqInv'
  <2>1. ASSUME NEW g \in Handlers
        PROVE  \/ req'[g] = Idle
               \/ req'[g] \in Publishing /\ row'[req'[g].draft] # "none"
               \/ WellFormed(req[g])'
    <3>1. req'[g] = req[g]
      BY <1>2
    <3>2. WellFormed(req[g]) => WellFormed(req[g])'
      BY <1>7, <3>1, TxStays
    <3>3. req[g] \in Publishing => req[g].draft \in 0..Gate
      BY RowsDiffer DEF Publishing
    <3> QED  BY <1>1, <1>5, <3>1, <3>2, <3>3 DEF ReqInv
  <2> QED  BY <1>1, <1>2, <2>1 DEF ReqInv
<1>9. \A s \in DOMAIN sends' : row'[sends'[s].draft] # "none"
  <2>1. \A t \in DOMAIN sends : sends[t].draft \in 0..Gate
    BY SendType
  <2> QED  BY <1>1, <1>2, <1>5, <2>1
<1>10. ShapeInv'
  BY <1>1, <1>2, <1>6, <1>8, <1>9 DEF ShapeInv, TrailTyped
<1>11. Active' = Active /\ \A g \in Active : req'[g] = req[g]
  BY <1>2 DEF Active, At
<1> QED  BY <1>1, <1>2, <1>3, <1>4, <1>5, <1>10, <1>11, RowsDiffer DEF Aside

-----------------------------------------------------------------------------
(* The steps there are *)

\* A transaction that begins: of a request, of an event or of a node,
BegunOther(h) ==
  /\ Begins(h) /\ h \in Active' /\ req'[h].kind \in {"submit", "resubmit", "event", "node"}
  /\ req'[h].pc # "hand" /\ req'[h].then # "hand"
  /\ req'[h].kind = "submit" => req'[h].subject \in Drafts /\ row[req'[h].subject] # "none"
\* of a decision,
BegunDecision(h) ==
  /\ Begins(h) /\ h \in Active' /\ req'[h].kind \in Decisions
  /\ req'[h].pc = "lock" /\ req'[h].then = "workspace" /\ req'[h].copy[Workspace] = "none"
  /\ \A k \in DOMAIN req'[h].todo :
       /\ req'[h].todo[k].row # Workspace
       /\ req'[h].todo[k].row \in Drafts => req'[h].todo[k].to = DraftStatus[req'[h].kind]
  /\ req'[h].todo[1].row \in Drafts
\* or of a send.
BegunSend(h) ==
  /\ Begins(h) /\ h \in Active' /\ req'[h].kind = "send"
  /\ req'[h].pc = "hand" /\ req'[h].todo = << >>
  /\ req'[h].subject \in DOMAIN sends /\ sends[req'[h].subject].status = "queued"

\* A send is undone when its draft can not be moved, or by a fault.
Undone(h) ==
  /\ Ends(h)
  /\ req[h].kind = "send" =>
       /\ req[h].pc \in {"lock", "commit"}
       /\ \/ faults' = faults + 1
          \/ req[h].pc = "lock" /\ ~Legal(Now(h).row, View(h, Now(h).row), Now(h).to)

Step ==
  \/ Aside
  \/ \E d \in Drafts : Edited(d)
  \/ \E h \in Handlers :
       \/ BegunOther(h) \/ BegunDecision(h) \/ BegunSend(h)
       \/ Moved(h) \/ Walked(h) \/ Enqueued(h) \/ Handed(h) \/ Committed(h)
       \/ Undone(h)

\* A request that submits a draft is about one.
LEMMA SubmitBegins ==
  ASSUME ShapeInv, NEW h \in Handlers,
         \/ \E d \in Drafts : Submit(h, d) \/ Resubmit(h, d)
         \/ Event(h)
         \/ \E target \in NodeTargets : Node(h, target)
  PROVE  /\ req'[h].pc # "hand" /\ req'[h].then # "hand"
         /\ req'[h].kind = "submit" => req'[h].subject \in Drafts /\ row[req'[h].subject] # "none"
<1>1. DOMAIN req = Handlers
  BY DEF ShapeInv, ReqInv
<1>2. CASE \E d \in Drafts : Submit(h, d) \/ Resubmit(h, d)
  <2>1. PICK d \in Drafts : Submit(h, d) \/ Resubmit(h, d)
    BY <1>2
  <2>2. PICK kind, todo : req' = [req EXCEPT ![h] = Transaction(kind, d, begun + 1, {d}, todo, "commit")]
    BY <2>1 DEF Submit, Resubmit, Open
  <2>3. row[d] # "none"
    BY <2>1 DEF Submit, Resubmit
  <2> QED  BY <1>1, <2>2, <2>3 DEF Transaction
<1>3. CASE Event(h)
  <2>1. PICK subject, loaded, todo :
          req' = [req EXCEPT ![h] = Transaction("event", subject, begun + 1, loaded, todo, "workspace")]
    BY <1>3 DEF Event, Open
  <2> QED  BY <1>1, <2>1 DEF Transaction
<1>4. CASE \E target \in NodeTargets : Node(h, target)
  <2>1. PICK target \in NodeTargets : Node(h, target)
    BY <1>4
  <2>2. PICK loaded, todo :
          req' = [req EXCEPT ![h] = Transaction("node", Workspace, begun + 1, loaded, todo, "workspace")]
    BY <2>1 DEF Node, Open
  <2> QED  BY <1>1, <2>2 DEF Transaction
<1> QED  BY <1>2, <1>3, <1>4

\* A send is not undone by a deadlock: it waits for its own row with none locked, or for a
\* draft with only its own row locked.
LEMMA SendsWaitForNone ==
  ASSUME ShapeInv, SenderInv, KindInv, NEW h \in Active, NEW g \in Active,
         req[h].kind = "send", WaitsFor(g, h), WaitsFor(h, g)
  PROVE  FALSE
<1>1. WellFormed(req[h]) /\ WellFormed(req[g]) /\ h \in Handlers /\ g \in Handlers
  BY ActiveType DEF ShapeInv
<1>2. PICK o \in Wanted(g) : o \in req[h].locks
  BY DEF WaitsFor
<1>3. PICK p \in Wanted(h) : p \in req[g].locks
  BY DEF WaitsFor
<1>4. req[h].pc = "lock" /\ req[h].locks = {SendRow(req[h].subject)}
      /\ req[h].todo = <<Move(sends[req[h].subject].draft, "sent")>>
  <2>1. req[h].pc # "hand"
    BY <1>2 DEF SenderInv
  <2>2. req[h].pc \in {"lock", "hand"}
    BY <1>3 DEF Wanted, At
  <2> QED  BY <2>1, <2>2 DEF SenderInv
<1>5. req[h].subject \in Nat \ {0}
  <2>1. req[h].subject \in DOMAIN sends /\ sends \in Seq(Sends)
    BY DEF SenderInv, ShapeInv
  <2> QED  BY <2>1
<1>6. o = SendRow(req[h].subject) /\ o > Gate /\ o \in Nat
  BY <1>2, <1>4, <1>5, RowsDiffer DEF SendRow
<1>7. req[g].pc = "hand"
  <2>1. ASSUME req[g].pc = "lock" PROVE FALSE
    <3>1. req[g].todo \in Seq(Moves) /\ req[g].todo # << >>
      BY <1>1, <2>1 DEF WellFormed, Tx
    <3>2. Head(req[g].todo) \in Moves
      BY <3>1, HeadTailProperties
    <3>3. o = Head(req[g].todo).row
      BY <1>2, <2>1 DEF Wanted, At
    <3>4. o \in 0..Gate
      BY <3>2, <3>3 DEF Moves, Steps
    <3> QED  BY <1>6, <3>4, RowsDiffer
  <2> QED  BY <1>2, <2>1 DEF Wanted, At
<1>8. req[g].kind = "send"
  BY <1>7 DEF KindInv
<1>9. req[g].locks = {}
  BY <1>7, <1>8 DEF SenderInv
<1> QED  BY <1>3, <1>9

\* Every step is one of these, and keeps the shape of the state.
LEMMA NextSteps ==
  ASSUME ShapeInv, SenderInv, KindInv, AddedInv, Next
  PROVE  ShapeInv' /\ Step
<1>1. CASE Ask
  BY <1>1, AskTyped DEF Step
<1>2. ASSUME NEW h \in Handlers, \E d \in Drafts : Create(h, d) \/ DecideReview(h, d)
      PROVE  ShapeInv' /\ Step
  BY <1>2, AsideTyped DEF Step
<1>3. ASSUME NEW h \in Handlers, NEW d \in Drafts, Put(h, d)
      PROVE  ShapeInv' /\ Step
  BY <1>3, PutTyped DEF Step
<1>4. ASSUME NEW h \in Handlers,
             \/ \E d \in Drafts : Submit(h, d) \/ Resubmit(h, d)
             \/ Event(h)
             \/ \E target \in NodeTargets : Node(h, target)
      PROVE  ShapeInv' /\ Step
  <2>1. /\ ShapeInv' /\ Begins(h) /\ h \in Active'
        /\ req'[h].kind \in {"submit", "resubmit", "event", "node"}
    BY <1>4, OthersBegin
  <2>2. /\ req'[h].pc # "hand" /\ req'[h].then # "hand"
        /\ req'[h].kind = "submit" => req'[h].subject \in Drafts /\ row[req'[h].subject] # "none"
    BY <1>4, SubmitBegins
  <2> QED  BY <2>1, <2>2 DEF Step, BegunOther
<1>5. ASSUME NEW h \in Handlers, NEW decision \in Decisions, Decide(h, decision)
      PROVE  ShapeInv' /\ Step
  <2>1. /\ ShapeInv' /\ Begins(h) /\ h \in Active'
        /\ req'[h].kind = decision /\ req'[h].pc = "lock" /\ req'[h].then = "workspace"
        /\ req'[h].copy[Workspace] = "none"
        /\ \A k \in DOMAIN req'[h].todo :
             /\ req'[h].todo[k].row # Workspace
             /\ req'[h].todo[k].row \in Drafts => req'[h].todo[k].to = DraftStatus[decision]
        /\ req'[h].todo[1].row \in Drafts
    BY <1>5, DecisionBegins
  <2>2. BegunDecision(h)
    BY <2>1 DEF BegunDecision
  <2> QED  BY <2>1, <2>2 DEF Step
<1>6. ASSUME NEW h \in Handlers, NEW s \in DOMAIN sends, Send(h, s)
      PROVE  ShapeInv' /\ Step
  <2>1. /\ ShapeInv' /\ Begins(h) /\ h \in Active'
        /\ req'[h].kind = "send" /\ req'[h].subject = s /\ req'[h].pc = "hand"
        /\ req'[h].todo = << >> /\ sends[s].status = "queued"
    BY <1>6, SendBegins
  <2> QED  BY <2>1 DEF Step, BegunSend
<1>7. ASSUME NEW h \in Handlers, Lock(h)
      PROVE  ShapeInv' /\ Step
  <2>1. /\ ShapeInv'
        /\ \/ Moved(h)
           \/ /\ Ends(h) /\ faults' = faults /\ req[h].pc = "lock"
              /\ ~Legal(Now(h).row, View(h, Now(h).row), Now(h).to)
    BY <1>7, LockTyped
  <2> QED  BY <2>1 DEF Step, Undone
<1>8. ASSUME NEW h \in Handlers, Walk(h)
      PROVE  ShapeInv' /\ Step
  <2>1. /\ ShapeInv'
        /\ \/ Walked(h)
           \/ Ends(h) /\ faults' = faults /\ req[h].pc = "workspace" /\ req[h].kind \in Decisions
    BY <1>8, WalkTyped
  <2>2. "send" \notin Decisions
    BY DEF Decisions
  <2> QED  BY <2>1, <2>2 DEF Step, Undone
<1>9. ASSUME NEW h \in Handlers, Enqueue(h)
      PROVE  ShapeInv' /\ Step
  BY <1>9, EnqueueTyped DEF Step
<1>10. ASSUME NEW h \in Handlers, Hand(h)
       PROVE  ShapeInv' /\ Step
  BY <1>10, HandTyped DEF Step
<1>11. ASSUME NEW h \in Handlers, Commit(h)
       PROVE  ShapeInv' /\ Step
  BY <1>11, CommitTyped DEF Step
<1>12. ASSUME NEW h \in Handlers, Deadlocked(h)
       PROVE  ShapeInv' /\ Step
  <2>1. PICK g \in Active : WaitsFor(h, g) /\ WaitsFor(g, h)
    BY <1>12 DEF Deadlocked
  <2>2. h \in Active
    BY <2>1 DEF WaitsFor
  <2>3. req[h].kind # "send"
    BY <2>1, <2>2, SendsWaitForNone
  <2>4. req' = [req EXCEPT ![h] = Idle] /\ met' = Forgotten(h)
        /\ UNCHANGED <<row, trail, review, sends, begun>> /\ faults' = faults
    BY <1>12 DEF Deadlocked
  <2>5. faults' \in {faults, faults + 1} /\ faults' \in 0..MaxFaults
    BY <2>4 DEF ShapeInv
  <2>6. ShapeInv' /\ Ends(h)
    BY <2>2, <2>4, <2>5, EndsTyped
  <2> QED  BY <2>3, <2>6 DEF Step, Undone
<1>13. ASSUME NEW h \in Handlers, Cut(h)
       PROVE  ShapeInv' /\ Step
  <2>1. CASE req[h].pc = "publish"
    BY <1>13, <2>1, AsideTyped DEF Step
  <2>2. CASE req[h].pc # "publish"
    <3>1. req[h].pc = "commit"
      BY <1>13, <2>2 DEF Cut, At
    <3>2. h \in Active
      BY <3>1 DEF Active, At
    <3>3. req' = [req EXCEPT ![h] = Idle] /\ met' = Forgotten(h)
          /\ UNCHANGED <<row, trail, review, sends, begun>> /\ faults' = faults + 1 /\ faults < MaxFaults
      BY <1>13, <3>2 DEF Cut
    <3>4. faults' \in {faults, faults + 1} /\ faults' \in 0..MaxFaults
      BY <3>3, ReviewAssumption DEF ShapeInv
    <3>5. ShapeInv' /\ Ends(h)
      BY <3>2, <3>3, <3>4, EndsTyped
    <3> QED  BY <3>1, <3>3, <3>5 DEF Step, Undone
  <2> QED  BY <2>1, <2>2
<1> QED
  BY <1>1, <1>2, <1>3, <1>4, <1>5, <1>6, <1>7, <1>8, <1>9, <1>10, <1>11, <1>12, <1>13
  DEF Next, Serve, Work

-----------------------------------------------------------------------------
(* Numbers, and who has met whom *)

\* Transactions have numbers of their own, that no audit row or send has before they commit.
NumbersInv ==
  /\ \A h \in Active : req[h].no \in Numbers
  /\ \A o \in 0..NumDrafts : \A k \in DOMAIN trail[o] : trail[o][k].by \in Numbers
  /\ \A s \in DOMAIN sends : sends[s].by \in Numbers /\ sends[s].handed \in Seq(Numbers)
  /\ met \in SUBSET (SUBSET Numbers)
  /\ \A g, h \in Active : g # h => req[g].no # req[h].no /\ Met(req[g].no, req[h].no)
  /\ \A h \in Active : \A o \in 0..NumDrafts : \A k \in DOMAIN trail[o] :
       trail[o][k].by # req[h].no
  /\ \A h \in Active : \A s \in DOMAIN sends : sends[s].by # req[h].no

\* The others of a handler that takes a step are as they were.
LEMMA TheOthers ==
  ASSUME NEW h, \A g \in Handlers : g # h => req'[g] = req[g]
  PROVE  /\ Active' \ {h} = Active \ {h}
         /\ \A g \in Active \ {h} : req'[g] = req[g]
  BY DEF Active, At

\* What is forgotten has to do with one transaction only; with none, if it has handed
\* something over.
LEMMA Forgets ==
  ASSUME NEW h, met' = Forgotten(h)
  PROVE  /\ met' \subseteq met
         /\ \A a, b : a # req[h].no /\ b # req[h].no /\ {a, b} \in met => {a, b} \in met'
         /\ \A s \in DOMAIN sends : \A k \in DOMAIN sends[s].handed :
              sends[s].handed[k] = req[h].no => met' = met
<1>1. \A s \in DOMAIN sends : \A k \in DOMAIN sends[s].handed :
        sends[s].handed[k] = req[h].no => req[h].no \in ToSet(sends[s].handed)
  BY DEF ToSet
<1> QED  BY <1>1 DEF Forgotten

\* A transaction that begins has met those that are open, and nothing is forgotten.
LEMMA Opens ==
  ASSUME NumbersInv, begun \in Nat, NEW T \in SUBSET Active,
         met' = met \cup {{begun + 1, req[g].no} : g \in T}, begun' = begun + 1
  PROVE  /\ met \subseteq met' /\ Numbers \subseteq Numbers' /\ begun + 1 \in Numbers'
         /\ begun + 1 \notin Numbers
         /\ met' \in SUBSET (SUBSET Numbers')
         /\ \A a, b \in Numbers : {a, b} \in met' => {a, b} \in met
         /\ \A g \in T : {begun + 1, req[g].no} \in met'
<1>1. Numbers \subseteq Numbers' /\ begun + 1 \in Numbers' /\ begun + 1 \notin Numbers
  BY DEF Numbers
<1>2. \A g \in T : req[g].no \in Numbers
  BY DEF NumbersInv
<1>3. met' \in SUBSET (SUBSET Numbers')
  BY <1>1, <1>2 DEF NumbersInv
<1>4. \A a, b \in Numbers : {a, b} \in met' => {a, b} \in met
  BY <1>1
<1> QED  BY <1>1, <1>3, <1>4

\* Sequences of numbers stay what they are.
LEMMA NumbersGrow ==
  ASSUME begun \in Nat, begun' \in Nat, begun <= begun'
  PROVE  /\ Numbers \subseteq Numbers'
         /\ \A s \in Seq(Numbers) : s \in Seq(Numbers')
         /\ SUBSET (SUBSET Numbers) \subseteq SUBSET (SUBSET Numbers')
<1>1. Numbers \subseteq Numbers'
  BY DEF Numbers
<1>2. ASSUME NEW s \in Seq(Numbers) PROVE s \in Seq(Numbers')
  BY <1>1
<1> QED  BY <1>1, <1>2

\* The audit rows after a commit are those there were, and those of its moves.
LEMMA CommittedTrail ==
  ASSUME ShapeInv, ShapeInv', NEW h \in Handlers, Committed(h), NEW o \in 0..NumDrafts
  PROVE  /\ Len(trail[o]) \in Nat /\ Len(req[h].path[o]) \in Nat
         /\ DOMAIN trail[o] = 1..Len(trail[o])
         /\ DOMAIN req[h].path[o] = 1..Len(req[h].path[o])
         /\ DOMAIN trail'[o] = 1..(Len(trail[o]) + Len(req[h].path[o]))
         /\ DOMAIN trail[o] \subseteq DOMAIN trail'[o]
         /\ \A k \in DOMAIN trail[o] : trail'[o][k] = trail[o][k]
         /\ \A j \in DOMAIN req[h].path[o] :
              /\ Len(trail[o]) + j \in DOMAIN trail'[o]
              /\ trail'[o][Len(trail[o]) + j].from = Was(req[h], o, j)
              /\ trail'[o][Len(trail[o]) + j].to = req[h].path[o][j]
              /\ trail'[o][Len(trail[o]) + j].by = req[h].no
         /\ \A k \in DOMAIN trail'[o] :
              k \in DOMAIN trail[o] \/ \E j \in DOMAIN req[h].path[o] : k = Len(trail[o]) + j
<1>1. h \in Active
  BY DEF Committed
<1>2. WellFormed(req[h]) /\ o \in 0..Gate /\ TrailTyped /\ TrailTyped'
  BY <1>1, ActiveType, RowsDiffer DEF ShapeInv
<1> DEFINE t == trail[o]
           p == req[h].path[o]
           u == trail'[o]
<1>3. t \in Seq(Audits) /\ p \in Seq(States(o)) /\ u \in Seq(Audits)
  BY <1>2 DEF TrailTyped, WellFormed
<1>4. /\ Len(u) = Len(t) + Len(p)
      /\ \A k \in 1..Len(t) : u[k] = t[k]
      /\ \A k \in 1..Len(p) : u[Len(t) + k] = Entry(Was(req[h], o, k), p[k], req[h].no)
  BY DEF Committed
<1> HIDE DEF t, p, u
<1>5. /\ Len(t) \in Nat /\ Len(p) \in Nat /\ DOMAIN t = 1..Len(t) /\ DOMAIN p = 1..Len(p)
      /\ DOMAIN u = 1..(Len(t) + Len(p))
  <2>1. DOMAIN u = 1..Len(u)
    BY <1>3
  <2> QED  BY <1>3, <1>4, <2>1
<1>6. ASSUME NEW k \in DOMAIN u PROVE k \in DOMAIN t \/ \E j \in DOMAIN p : k = Len(t) + j
  <2>1. CASE k <= Len(t)
    BY <1>5, <1>6, <2>1
  <2>2. CASE ~(k <= Len(t))
    <3>1. k - Len(t) \in DOMAIN p /\ k = Len(t) + (k - Len(t))
      BY <1>5, <1>6, <2>2
    <3> QED  BY <3>1
  <2> QED  BY <2>1, <2>2
<1>7. ASSUME NEW j \in DOMAIN p
      PROVE  /\ Len(t) + j \in DOMAIN u
             /\ u[Len(t) + j].from = Was(req[h], o, j) /\ u[Len(t) + j].to = p[j]
             /\ u[Len(t) + j].by = req[h].no
  <2>1. Len(t) + j \in DOMAIN u
    BY <1>5, <1>7
  <2>2. u[Len(t) + j] = Entry(Was(req[h], o, j), p[j], req[h].no)
    BY <1>4, <1>5, <1>7
  <2> QED  BY <2>1, <2>2 DEF Entry
<1>8. DOMAIN t \subseteq DOMAIN u /\ \A k \in DOMAIN t : u[k] = t[k]
  BY <1>4, <1>5
<1> QED  BY <1>5, <1>6, <1>7, <1>8 DEF t, p, u

LEMMA CommittedEntry ==
  ASSUME ShapeInv, ShapeInv', NEW h \in Handlers, Committed(h), NEW o \in 0..NumDrafts,
         NEW k \in DOMAIN trail'[o]
  PROVE  \/ k \in DOMAIN trail[o] /\ trail'[o][k] = trail[o][k]
         \/ \E j \in DOMAIN req[h].path[o] :
              /\ k = Len(trail[o]) + j /\ trail'[o][k].by = req[h].no
              /\ trail'[o][k].to = req[h].path[o][j] /\ trail'[o][k].from = Was(req[h], o, j)
<1> DEFINE new(j) == /\ trail'[o][Len(trail[o]) + j].from = Was(req[h], o, j)
                     /\ trail'[o][Len(trail[o]) + j].to = req[h].path[o][j]
                     /\ trail'[o][Len(trail[o]) + j].by = req[h].no
<1>1. /\ \A i \in DOMAIN trail[o] : trail'[o][i] = trail[o][i]
      /\ \A j \in DOMAIN req[h].path[o] : new(j)
      /\ k \in DOMAIN trail[o] \/ \E j \in DOMAIN req[h].path[o] : k = Len(trail[o]) + j
  <2>1. \A i \in DOMAIN trail[o] : trail'[o][i] = trail[o][i]
    BY CommittedTrail
  <2>2. \A j \in DOMAIN req[h].path[o] : new(j)
    BY CommittedTrail
  <2>3. \A i \in DOMAIN trail'[o] :
          i \in DOMAIN trail[o] \/ \E j \in DOMAIN req[h].path[o] : i = Len(trail[o]) + j
    BY CommittedTrail
  <2> QED  BY <2>1, <2>2, <2>3
<1>2. ASSUME k \notin DOMAIN trail[o]
      PROVE  \E j \in DOMAIN req[h].path[o] :
               /\ k = Len(trail[o]) + j /\ trail'[o][k].by = req[h].no
               /\ trail'[o][k].to = req[h].path[o][j] /\ trail'[o][k].from = Was(req[h], o, j)
  <2>1. PICK j \in DOMAIN req[h].path[o] : k = Len(trail[o]) + j
    BY <1>1, <1>2
  <2>2. new(j)
    BY <1>1
  <2> QED  BY <2>1, <2>2
<1> QED  BY <1>1, <1>2

\* And the sends, those there were, and those it has added.
LEMMA CommittedSends ==
  ASSUME ShapeInv, ShapeInv', AddedInv, NEW h \in Handlers, Committed(h)
  PROVE  /\ Len(sends) \in Nat /\ DOMAIN sends = 1..Len(sends) /\ DOMAIN sends \subseteq DOMAIN sends'
         /\ \A s \in DOMAIN sends :
              /\ sends'[s].draft = sends[s].draft /\ sends'[s].by = sends[s].by
              /\ sends'[s].handed = sends[s].handed
              /\ sends'[s].status = IF req[h].kind = "send" /\ s = req[h].subject
                                    THEN Head(req[h].added) ELSE sends[s].status
         /\ \A s \in DOMAIN sends' :
              \/ s \in DOMAIN sends
              \/ /\ req[h].kind \in Decisions
                 /\ \E k \in DOMAIN req[h].added :
                      s = Len(sends) + k /\ sends'[s] = req[h].added[k]
<1>1. h \in Active /\ "send" \notin Decisions
  BY DEF Committed, Decisions
<1>2. sends \in Seq(Sends) /\ sends' \in Seq(Sends)
  BY DEF ShapeInv
<1>3. Len(sends) \in Nat /\ DOMAIN sends = 1..Len(sends) /\ DOMAIN sends' = 1..Len(sends')
  BY <1>2
<1>4. CASE req[h].kind \in Decisions
  <2> DEFINE a == req[h].added
  <2>1. a \in Seq(Sends)
    BY <1>1, <1>4 DEF AddedInv
  <2>2. /\ Len(sends') = Len(sends) + Len(a)
        /\ \A s \in 1..Len(sends) : sends'[s] = sends[s]
        /\ \A k \in 1..Len(a) : sends'[Len(sends) + k] = a[k]
    BY <1>4 DEF Committed
  <2> HIDE DEF a
  <2>3. Len(a) \in Nat /\ DOMAIN a = 1..Len(a)
    BY <2>1
  <2>4. DOMAIN sends \subseteq DOMAIN sends'
    BY <1>3, <2>2, <2>3
  <2>5. ASSUME NEW s \in DOMAIN sends', s \notin DOMAIN sends
        PROVE  \E k \in DOMAIN a : s = Len(sends) + k /\ sends'[s] = a[k]
    <3>1. s - Len(sends) \in DOMAIN a /\ s = Len(sends) + (s - Len(sends))
      BY <1>3, <2>2, <2>3, <2>5
    <3> QED  BY <2>2, <2>3, <3>1
  <2> QED  BY <1>1, <1>3, <1>4, <2>2, <2>4, <2>5 DEF a
<1>5. CASE req[h].kind = "send"
  BY ZenonT(60), <1>1, <1>3, <1>5 DEF Committed
<1>6. CASE req[h].kind \notin Decisions \cup {"send"}
  BY ZenonT(60), <1>3, <1>6 DEF Committed
<1> QED  BY <1>4, <1>5, <1>6

\* The audit rows of the other rows stay, when a status is edited; its own gets one more.
LEMMA EditedTrail ==
  ASSUME ShapeInv, ShapeInv', NEW d \in Drafts, Edited(d)
  PROVE  /\ \A o \in 0..NumDrafts : o # d => trail'[o] = trail[o]
         /\ Len(trail[d]) \in Nat /\ DOMAIN trail[d] = 1..Len(trail[d])
         /\ DOMAIN trail'[d] = 1..(Len(trail[d]) + 1)
         /\ \A k \in DOMAIN trail[d] : trail'[d][k] = trail[d][k]
         /\ trail'[d][Len(trail[d]) + 1].from = row[d]
         /\ trail'[d][Len(trail[d]) + 1].to = row'[d]
         /\ trail'[d][Len(trail[d]) + 1].by = begun + 1
<1> DEFINE e == Entry(row[d], row'[d], begun + 1)
           t == trail[d]
           u == trail'[d]
<1>1. t \in Seq(Audits) /\ u \in Seq(Audits)
  BY RowsDiffer DEF ShapeInv, TrailTyped
<1>2. u = Append(t, e) /\ \A o \in 0..NumDrafts : o # d => trail'[o] = trail[o]
  BY RowsDiffer DEF Edited
<1>3. e.from = row[d] /\ e.to = row'[d] /\ e.by = begun + 1
  BY DEF Entry
<1>4. e \in Audits
  BY RowsDiffer, StatesType DEF ShapeInv, Edited, Entry, Audits
<1> HIDE DEF e, t, u
<1>5. /\ Len(u) = Len(t) + 1 /\ u[Len(t) + 1] = e /\ \A k \in 1..Len(t) : u[k] = t[k]
  BY <1>1, <1>2, <1>4, AppendProperties
<1>6. Len(t) \in Nat /\ DOMAIN t = 1..Len(t) /\ DOMAIN u = 1..(Len(t) + 1)
  <2>1. DOMAIN u = 1..Len(u)
    BY <1>1
  <2> QED  BY <1>1, <1>5, <2>1
<1> QED  BY <1>2, <1>3, <1>5, <1>6 DEF t, u

LEMMA NumbersKept ==
  ASSUME ShapeInv, ShapeInv', AddedInv, NumbersInv, Step
  PROVE  NumbersInv'
<1> DEFINE ByOK == \A o \in 0..NumDrafts : \A k \in DOMAIN trail[o] : trail[o][k].by \in Numbers
           SendsOK == \A s \in DOMAIN sends : sends[s].by \in Numbers /\ sends[s].handed \in Seq(Numbers)
<1>1. begun \in Nat /\ begun' \in Nat
  BY DEF ShapeInv
<1>2. ASSUME begun <= begun', UNCHANGED <<trail, sends>> PROVE (ByOK /\ SendsOK)'
  <2>1. /\ Numbers \subseteq Numbers' /\ \A s \in Seq(Numbers) : s \in Seq(Numbers')
    BY <1>1, <1>2, NumbersGrow
  <2> QED  BY <1>2, <2>1 DEF NumbersInv
<1>3. CASE Aside
  <2>1. begun <= begun' /\ UNCHANGED <<trail, sends, met>> /\ Active' = Active
        /\ \A g \in Active : req'[g] = req[g]
    BY <1>1, <1>3 DEF Aside
  <2>2. Numbers \subseteq Numbers' /\ SUBSET (SUBSET Numbers) \subseteq SUBSET (SUBSET Numbers')
    BY <1>1, <2>1, NumbersGrow
  <2>3. (ByOK /\ SendsOK)'
    BY <1>2, <2>1
  <2> QED  BY <2>1, <2>2, <2>3 DEF NumbersInv, Met
<1>4. CASE \E d \in Drafts : Edited(d)
  <2>1. PICK d \in Drafts : Edited(d)
    BY <1>4
  <2>2. /\ begun' = begun + 1 /\ met' = met \cup {{begun + 1, req[g].no} : g \in Active}
        /\ UNCHANGED <<sends, req>> /\ Active' = Active
    BY <2>1 DEF Edited, Active, At
  <2>3. /\ met \subseteq met' /\ Numbers \subseteq Numbers' /\ begun + 1 \in Numbers'
        /\ begun + 1 \notin Numbers /\ met' \in SUBSET (SUBSET Numbers')
    <3>1. Active \in SUBSET Active
      OBVIOUS
    <3> QED  BY <1>1, <2>2, <3>1, Opens
  <2>4. \A s \in Seq(Numbers) : s \in Seq(Numbers')
    BY <1>1, <2>2, NumbersGrow
  <2>5. ASSUME NEW o \in 0..NumDrafts, NEW k \in DOMAIN trail'[o]
        PROVE  trail'[o][k].by \in Numbers' /\ \A h \in Active : trail'[o][k].by # req[h].no
    <3>1. CASE k \in DOMAIN trail[o] /\ trail'[o][k] = trail[o][k]
      BY <2>3, <3>1 DEF NumbersInv
    <3>2. CASE o = d /\ k = Len(trail[d]) + 1
      <4>1. trail'[o][k].by = begun + 1
        BY <2>1, <3>2, EditedTrail
      <4> QED  BY <2>3, <4>1 DEF NumbersInv
    <3>3. o = d => Len(trail[d]) \in Nat /\ DOMAIN trail[d] = 1..Len(trail[d])
                   /\ DOMAIN trail'[d] = 1..(Len(trail[d]) + 1)
                   /\ \A j \in DOMAIN trail[d] : trail'[d][j] = trail[d][j]
      BY <2>1, EditedTrail
    <3>4. o # d => trail'[o] = trail[o]
      BY <2>1, EditedTrail
    <3> QED  BY <2>5, <3>1, <3>2, <3>3, <3>4
  <2> QED  BY <2>2, <2>3, <2>4, <2>5 DEF NumbersInv, Met
<1>5. ASSUME NEW h \in Handlers, Begins(h) PROVE NumbersInv'
  <2>1. /\ h \notin Active /\ \A g \in Handlers : g # h => req'[g] = req[g]
        /\ req'[h].no = begun + 1 /\ begun' = begun + 1
        /\ met' = met \cup {{begun + 1, req[g].no} : g \in Active \ {h}}
        /\ UNCHANGED <<trail, sends>>
    BY <1>5 DEF Begins, Opened
  <2>2. /\ met \subseteq met' /\ Numbers \subseteq Numbers' /\ begun + 1 \in Numbers'
        /\ begun + 1 \notin Numbers /\ met' \in SUBSET (SUBSET Numbers')
        /\ \A g \in Active \ {h} : {begun + 1, req[g].no} \in met'
    <3>1. Active \ {h} \in SUBSET Active
      OBVIOUS
    <3> DEFINE T == Active \ {h}
    <3>2. T \in SUBSET Active /\ met' = met \cup {{begun + 1, req[g].no} : g \in T}
      BY <2>1
    <3> HIDE DEF T
    <3>3. /\ met \subseteq met' /\ Numbers \subseteq Numbers' /\ begun + 1 \in Numbers'
          /\ begun + 1 \notin Numbers /\ met' \in SUBSET (SUBSET Numbers')
          /\ \A g \in T : {begun + 1, req[g].no} \in met'
      BY <1>1, <2>1, <3>2, Opens
    <3> QED  BY <3>3 DEF T
  <2>3. (ByOK /\ SendsOK)'
    BY <1>1, <1>2, <2>1
  <2>4. Active' \ {h} = Active \ {h} /\ \A g \in Active \ {h} : req'[g] = req[g]
    BY <2>1, TheOthers
  <2>5. \A g \in Active' : req'[g].no \in Numbers'
    BY <2>1, <2>2, <2>4 DEF NumbersInv
  <2>6. \A a, b \in Active' : a # b => req'[a].no # req'[b].no /\ {req'[a].no, req'[b].no} \in met'
    <3> SUFFICES ASSUME NEW a \in Active', NEW b \in Active', a # b
                 PROVE  req'[a].no # req'[b].no /\ {req'[a].no, req'[b].no} \in met'
      OBVIOUS
    <3>1. CASE a # h /\ b # h
      BY <2>2, <2>4, <3>1 DEF NumbersInv, Met
    <3>2. CASE a = h
      <4>1. b \in Active \ {h} /\ req'[b] = req[b] /\ req[b].no \in Numbers
        BY <2>4, <3>2 DEF NumbersInv
      <4> QED  BY <2>1, <2>2, <3>2, <4>1
    <3>3. CASE b = h
      <4>1. a \in Active \ {h} /\ req'[a] = req[a] /\ req[a].no \in Numbers
        BY <2>4, <3>3 DEF NumbersInv
      <4>2. {req'[a].no, req'[b].no} = {begun + 1, req[a].no}
        BY <2>1, <3>3, <4>1
      <4> QED  BY <2>1, <2>2, <3>3, <4>1, <4>2
    <3> QED  BY <3>1, <3>2, <3>3
  <2>7. \A g \in Active' : \A o \in 0..NumDrafts : \A k \in DOMAIN trail'[o] : trail'[o][k].by # req'[g].no
    BY <2>1, <2>2, <2>4 DEF NumbersInv
  <2>8. \A g \in Active' : \A s \in DOMAIN sends' : sends'[s].by # req'[g].no
    BY <2>1, <2>2, <2>4 DEF NumbersInv
  <2> QED  BY <2>2, <2>3, <2>5, <2>6, <2>7, <2>8 DEF NumbersInv, Met
<1>6. ASSUME NEW h \in Handlers, Continues(h) PROVE NumbersInv'
  <2>1. Active' = Active /\ \A g \in Active : req'[g].no = req[g].no
    <3>1. Active' \ {h} = Active \ {h} /\ \A g \in Active \ {h} : req'[g] = req[g]
      BY <1>6, TheOthers DEF Continues
    <3> QED  BY <1>6, <3>1 DEF Continues
  <2>2. UNCHANGED <<trail, sends, met, begun>>
    BY <1>6 DEF Continues
  <2> QED  BY <2>1, <2>2 DEF NumbersInv, Met, Numbers
<1>7. ASSUME NEW h \in Handlers, Ends(h) PROVE NumbersInv'
  <2>1. Active' = Active \ {h} /\ \A g \in Active' : req'[g] = req[g]
    BY <1>7, TheOthers DEF Ends
  <2>2. UNCHANGED <<trail, sends, begun>> /\ met' = Forgotten(h) /\ h \in Active
    BY <1>7 DEF Ends
  <2>3. /\ met' \subseteq met
        /\ \A a, b : a # req[h].no /\ b # req[h].no /\ {a, b} \in met => {a, b} \in met'
    BY <2>2, Forgets
  <2>4. \A g \in Active' : req[g].no # req[h].no
    BY <2>1, <2>2 DEF NumbersInv
  <2>5. \A a, b \in Active' : a # b => req'[a].no # req'[b].no /\ {req'[a].no, req'[b].no} \in met'
    <3> SUFFICES ASSUME NEW a \in Active', NEW b \in Active', a # b
                 PROVE  req'[a].no # req'[b].no /\ {req'[a].no, req'[b].no} \in met'
      OBVIOUS
    <3>1. req[a].no # req[b].no /\ {req[a].no, req[b].no} \in met
      BY <2>1 DEF NumbersInv, Met
    <3> QED  BY <2>1, <2>3, <2>4, <3>1
  <2>6. Numbers' = Numbers
    BY <2>2 DEF Numbers
  <2>7. met' \in SUBSET (SUBSET Numbers)
    BY <2>3 DEF NumbersInv
  <2> QED  BY <2>1, <2>2, <2>5, <2>6, <2>7 DEF NumbersInv, Met
<1>8. ASSUME NEW h \in Handlers, Handed(h) PROVE NumbersInv'
  <2>1. Active' = Active /\ \A g \in Active : req'[g].no = req[g].no
    <3>1. h \in Active /\ h \in Active' /\ req'[h].no = req[h].no
          /\ \A g \in Handlers : g # h => req'[g] = req[g]
      BY <1>8 DEF Handed
    <3>2. Active' \ {h} = Active \ {h} /\ \A g \in Active \ {h} : req'[g] = req[g]
      BY <3>1, TheOthers
    <3> QED  BY <3>1, <3>2
  <2>2. UNCHANGED <<trail, met, begun>> /\ h \in Active
    BY <1>8 DEF Handed
  <2>3. ASSUME NEW s \in DOMAIN sends'
        PROVE  /\ s \in DOMAIN sends /\ sends'[s].by = sends[s].by
               /\ sends'[s].handed \in Seq(Numbers)
    <3>1. s \in DOMAIN sends /\ sends'[s].by = sends[s].by
          /\ sends'[s].handed \in {sends[s].handed, Append(sends[s].handed, req[h].no)}
      BY <1>8 DEF Handed
    <3>2. req[h].no \in Numbers /\ sends[s].handed \in Seq(Numbers)
      BY <2>2, <3>1 DEF NumbersInv
    <3>3. Append(sends[s].handed, req[h].no) \in Seq(Numbers)
      <4> DEFINE t == sends[s].handed
                 x == req[h].no
      <4>1. t \in Seq(Numbers) /\ x \in Numbers
        BY <3>2
      <4> HIDE DEF t, x
      <4>2. Append(t, x) \in Seq(Numbers)
        BY <4>1, AppendProperties
      <4> QED  BY <4>2 DEF t, x
    <3> QED  BY <3>1, <3>2, <3>3
  <2> QED  BY <2>1, <2>2, <2>3 DEF NumbersInv, Met, Numbers
<1>9. ASSUME NEW h \in Handlers, Committed(h) PROVE NumbersInv'
  <2>1. h \in Active /\ Active' = Active \ {h} /\ \A g \in Active' : req'[g] = req[g]
    <3>1. h \in Active /\ h \notin Active' /\ \A g \in Handlers : g # h => req'[g] = req[g]
      BY <1>9 DEF Committed
    <3>2. Active' \ {h} = Active \ {h} /\ \A g \in Active \ {h} : req'[g] = req[g]
      BY <3>1, TheOthers
    <3> QED  BY <3>1, <3>2
  <2>2. begun' = begun /\ met' \in {met, Forgotten(h)}
    BY <1>9 DEF Committed
  <2>3. /\ met' \subseteq met
        /\ \A a, b : a # req[h].no /\ b # req[h].no /\ {a, b} \in met => {a, b} \in met'
    <3>1. CASE met' = met
      BY <3>1
    <3>2. CASE met' = Forgotten(h)
      BY <3>2, Forgets
    <3> QED  BY <2>2, <3>1, <3>2
  <2>4. \A g \in Active' : req[g].no # req[h].no
    BY <2>1 DEF NumbersInv
  <2>5. \A o \in 0..NumDrafts : \A k \in DOMAIN trail'[o] :
          trail'[o][k].by = req[h].no \/ (k \in DOMAIN trail[o] /\ trail'[o][k].by = trail[o][k].by)
    <3> SUFFICES ASSUME NEW o \in 0..NumDrafts, NEW k \in DOMAIN trail'[o]
                 PROVE  \/ trail'[o][k].by = req[h].no
                        \/ k \in DOMAIN trail[o] /\ trail'[o][k].by = trail[o][k].by
      OBVIOUS
    <3>1. \/ k \in DOMAIN trail[o] /\ trail'[o][k] = trail[o][k]
          \/ \E j \in DOMAIN req[h].path[o] :
               /\ k = Len(trail[o]) + j /\ trail'[o][k].by = req[h].no
               /\ trail'[o][k].to = req[h].path[o][j] /\ trail'[o][k].from = Was(req[h], o, j)
      BY <1>9, CommittedEntry
    <3> QED  BY <3>1
  <2>6. \A s \in DOMAIN sends' :
          \/ s \in DOMAIN sends /\ sends'[s].by = sends[s].by /\ sends'[s].handed = sends[s].handed
          \/ sends'[s].by = req[h].no /\ sends'[s].handed = << >>
    <3>1. req[h].kind \in Decisions => \A k \in DOMAIN req[h].added :
            req[h].added[k].by = req[h].no /\ req[h].added[k].handed = << >>
      BY <2>1 DEF AddedInv
    <3>2. /\ \A s \in DOMAIN sends :
               sends'[s].by = sends[s].by /\ sends'[s].handed = sends[s].handed
          /\ \A s \in DOMAIN sends' :
               \/ s \in DOMAIN sends
               \/ /\ req[h].kind \in Decisions
                  /\ \E k \in DOMAIN req[h].added : sends'[s] = req[h].added[k]
      BY <1>9, CommittedSends
    <3> QED  BY <3>1, <3>2
  <2>7. Numbers' = Numbers /\ req[h].no \in Numbers /\ << >> \in Seq(Numbers)
    BY <2>1, <2>2 DEF Numbers, NumbersInv
  <2>8. (ByOK /\ SendsOK)'
    BY <2>5, <2>6, <2>7 DEF NumbersInv
  <2>9. met' \in SUBSET (SUBSET Numbers')
    BY <2>3, <2>7 DEF NumbersInv
  <2>10. \A a, b \in Active' : a # b => req'[a].no # req'[b].no /\ {req'[a].no, req'[b].no} \in met'
    <3> SUFFICES ASSUME NEW a \in Active', NEW b \in Active', a # b
                 PROVE  req'[a].no # req'[b].no /\ {req'[a].no, req'[b].no} \in met'
      OBVIOUS
    <3>1. req[a].no # req[b].no /\ {req[a].no, req[b].no} \in met
      BY <2>1 DEF NumbersInv, Met
    <3> QED  BY <2>1, <2>3, <2>4, <3>1
  <2>11. \A g \in Active' :
           /\ req'[g].no \in Numbers'
           /\ \A o \in 0..NumDrafts : \A k \in DOMAIN trail'[o] : trail'[o][k].by # req'[g].no
           /\ \A s \in DOMAIN sends' : sends'[s].by # req'[g].no
    BY <2>1, <2>4, <2>5, <2>6, <2>7 DEF NumbersInv
  <2> QED  BY <2>8, <2>9, <2>10, <2>11 DEF NumbersInv, Met
<1> QED
  BY ZenonT(60), <1>3, <1>4, <1>5, <1>6, <1>7, <1>8, <1>9
  DEF Step, BegunOther, BegunDecision, BegunSend, Moved, Walked, Enqueued, Undone

-----------------------------------------------------------------------------
(* Rows and sends stay *)

LEMMA CommittedRow ==
  ASSUME ShapeInv, NEW h \in Handlers, Committed(h), NEW o \in 0..Gate
  PROVE  /\ req[h].path[o] = << >> => row'[o] = row[o]
         /\ req[h].path[o] # << >> =>
              /\ Len(req[h].path[o]) \in DOMAIN req[h].path[o]
              /\ row'[o] = req[h].path[o][Len(req[h].path[o])] /\ row'[o] # "none"
<1>1. h \in Active /\ row'[o] = IF req[h].path[o] = << >> THEN row[o] ELSE Last(req[h].path[o])
  BY DEF Committed
<1>2. WellFormed(req[h])
  BY <1>1, ActiveType DEF ShapeInv
<1> DEFINE p == req[h].path[o]
<1>3. p \in Seq(States(o))
  BY <1>2 DEF WellFormed
<1> HIDE DEF p
<1>4. ASSUME p # << >> PROVE Len(p) \in DOMAIN p /\ p[Len(p)] \in States(o)
  <2>1. Len(p) \in 1..Len(p) /\ DOMAIN p = 1..Len(p)
    BY <1>3, <1>4, EmptySeq, LenProperties
  <2> QED  BY <1>3, <2>1, ElementOfSeq
<1> QED  BY <1>1, <1>4, StatesType DEF p, Last

LEMMA StepGrows ==
  ASSUME ShapeInv, ShapeInv', Step
  PROVE  \A o \in 0..Gate : row[o] # "none" => row'[o] # "none"
<1>1. ASSUME NEW h \in Handlers, Committed(h)
      PROVE  \A o \in 0..Gate : row[o] # "none" => row'[o] # "none"
  BY <1>1, CommittedRow
<1>2. ASSUME NEW d \in Drafts, Edited(d)
      PROVE  \A o \in 0..Gate : row[o] # "none" => row'[o] # "none"
  BY <1>2, StatesType DEF Edited, AnyState
<1>3. Aside => \A o \in 0..Gate : row[o] # "none" => row'[o] # "none"
  BY DEF Aside
<1>4. ASSUME NEW h \in Handlers, Begins(h) \/ Continues(h) \/ Ends(h) \/ Handed(h) PROVE row' = row
  BY <1>4 DEF Begins, Continues, Ends, Handed
<1> QED
  BY ZenonT(60), <1>1, <1>2, <1>3, <1>4
  DEF Step, BegunOther, BegunDecision, BegunSend, Moved, Walked, Enqueued, Undone

\* A send keeps its draft and who added it.
LEMMA SendsStay ==
  ASSUME ShapeInv, ShapeInv', AddedInv, Step
  PROVE  /\ DOMAIN sends \subseteq DOMAIN sends'
         /\ \A s \in DOMAIN sends : sends'[s].draft = sends[s].draft /\ sends'[s].by = sends[s].by
<1>1. ASSUME NEW h \in Handlers, Committed(h)
      PROVE  /\ DOMAIN sends \subseteq DOMAIN sends'
             /\ \A s \in DOMAIN sends : sends'[s].draft = sends[s].draft /\ sends'[s].by = sends[s].by
  BY <1>1, CommittedSends
<1>2. ASSUME NEW h \in Handlers, Handed(h)
      PROVE  /\ DOMAIN sends \subseteq DOMAIN sends'
             /\ \A s \in DOMAIN sends : sends'[s].draft = sends[s].draft /\ sends'[s].by = sends[s].by
  BY <1>2 DEF Handed
<1>3. ASSUME Aside \/ (\E d \in Drafts : Edited(d))
             \/ \E h \in Handlers : Begins(h) \/ Continues(h) \/ Ends(h)
      PROVE  sends' = sends
  BY <1>3 DEF Aside, Edited, Begins, Continues, Ends
<1> QED
  BY ZenonT(60), <1>1, <1>2, <1>3
  DEF Step, BegunOther, BegunDecision, BegunSend, Moved, Walked, Enqueued, Undone

\* One handler takes a step, or none.
LEMMA OneActs ==
  ASSUME Step
  PROVE  \/ Active' = Active /\ \A g \in Active : req'[g] = req[g]
         \/ \E h \in Handlers :
              /\ \/ BegunOther(h) \/ BegunDecision(h) \/ BegunSend(h)
                 \/ Moved(h) \/ Walked(h) \/ Enqueued(h) \/ Handed(h) \/ Committed(h) \/ Undone(h)
              /\ Active' \ {h} = Active \ {h} /\ \A g \in Active \ {h} : req'[g] = req[g]
<1>1. Aside => Active' = Active /\ \A g \in Active : req'[g] = req[g]
  BY DEF Aside
<1>2. ASSUME NEW d \in Drafts, Edited(d)
      PROVE  Active' = Active /\ \A g \in Active : req'[g] = req[g]
  BY <1>2 DEF Edited, Active, At
<1>3. ASSUME NEW h \in Handlers,
             Begins(h) \/ Continues(h) \/ Ends(h) \/ Handed(h) \/ Committed(h)
      PROVE  Active' \ {h} = Active \ {h} /\ \A g \in Active \ {h} : req'[g] = req[g]
  <2>1. \A g \in Handlers : g # h => req'[g] = req[g]
    BY <1>3 DEF Begins, Continues, Ends, Handed, Committed
  <2> QED  BY <2>1, TheOthers
<1>4. ASSUME NEW h \in Handlers
      PROVE  /\ BegunOther(h) \/ BegunDecision(h) \/ BegunSend(h) => Begins(h)
             /\ Moved(h) \/ Walked(h) \/ Enqueued(h) => Continues(h)
             /\ Undone(h) => Ends(h)
  BY DEF BegunOther, BegunDecision, BegunSend, Moved, Walked, Enqueued, Undone
<1> QED  BY <1>1, <1>2, <1>3, <1>4 DEF Step

LEMMA KindKept ==
  ASSUME ShapeInv, ShapeInv', KindInv, Step
  PROVE  KindInv'
<1> DEFINE K(r) == /\ r.pc = "hand" \/ r.then = "hand" => r.kind = "send"
                   /\ r.kind = "submit" => r.subject \in Drafts /\ row[r.subject] # "none"
           K2(r) == /\ r.pc = "hand" \/ r.then = "hand" => r.kind = "send"
                    /\ r.kind = "submit" => r.subject \in Drafts /\ row'[r.subject] # "none"
<1>1. ASSUME NEW r, K(r) PROVE K2(r)
  BY <1>1, StepGrows, RowsDiffer
<1>2. \A g \in Active : K(req[g])
  BY DEF KindInv
<1>3. ASSUME NEW h \in Active', NEW g \in Active, req'[h] = req[g] PROVE K2(req'[h])
  BY <1>1, <1>2, <1>3
<1>4. ASSUME NEW h \in Active', h \in Handlers,
             \/ BegunOther(h) \/ BegunDecision(h) \/ BegunSend(h)
             \/ Moved(h) \/ Walked(h) \/ Enqueued(h) \/ Handed(h) \/ Committed(h) \/ Undone(h)
      PROVE  K2(req'[h])
  <2>1. CASE BegunOther(h)
    BY <2>1, StepGrows, RowsDiffer DEF BegunOther
  <2>2. CASE BegunDecision(h) \/ BegunSend(h)
    BY <2>2 DEF BegunDecision, BegunSend, Decisions
  <2>3. CASE Continues(h) /\ \/ req'[h].pc \in {req[h].then, "lock"} /\ req'[h].then = req[h].then
                             \/ req'[h].pc # "hand" /\ req'[h].then \in {req[h].then, "enqueue", "commit"}
    <3>1. h \in Active /\ K(req[h])
      BY <1>2, <2>3 DEF Continues
    <3> QED  BY <1>1, <2>3, <3>1 DEF Continues
  <2>4. CASE Moved(h)
    BY <2>3, <2>4 DEF Moved
  <2>5. CASE Walked(h)
    BY <2>3, <2>5 DEF Walked
  <2>6. CASE Enqueued(h)
    BY <2>3, <2>6 DEF Enqueued
  <2>7. CASE Handed(h)
    BY <2>7 DEF Handed
  <2>8. CASE Committed(h) \/ Undone(h)
    BY <1>4, <2>8 DEF Committed, Undone, Ends
  <2> QED  BY <1>4, <2>1, <2>2, <2>4, <2>5, <2>6, <2>7, <2>8
<1> HIDE DEF K, K2
<1>5. \A h \in Active' : K2(req'[h])
  BY <1>3, <1>4, OneActs
<1> QED  BY <1>5 DEF KindInv, K2

\* What SenderInv says of a transaction that is a send.
Sender(r) ==
  LET d == sends[r.subject].draft IN
  /\ r.subject \in DOMAIN sends
  /\ r.pc \in {"hand", "lock", "commit"}
  /\ r.pc = "hand" => r.locks = {} /\ \A o \in 0..Gate : r.path[o] = << >>
  /\ r.pc = "lock" =>
       /\ r.todo = <<Move(d, "sent")>> /\ r.then = "commit"
       /\ r.path[d] = << >> /\ r.copy[d] # "none" /\ r.locks = {SendRow(r.subject)}
  /\ r.pc \in {"lock", "commit"} =>
       SendRow(r.subject) \in r.locks /\ r.added \in {<<"sent">>, <<"simulated">>}

LEMMA SenderKept ==
  ASSUME ShapeInv, ShapeInv', SenderInv, AddedInv, Step
  PROVE  SenderInv'
<1>1. \A g \in Active : req[g].kind = "send" => Sender(req[g])
  BY DEF SenderInv, Sender
<1>2. /\ DOMAIN sends \subseteq DOMAIN sends'
      /\ \A s \in DOMAIN sends : sends'[s].draft = sends[s].draft
  BY SendsStay
<1>3. ASSUME NEW g, req'[g] = req[g], Sender(req[g]) PROVE Sender(req[g])'
  BY <1>2, <1>3 DEF Sender
<1>4. ASSUME NEW h \in Active', h \in Handlers, req'[h].kind = "send",
             \/ BegunOther(h) \/ BegunDecision(h) \/ BegunSend(h)
             \/ Moved(h) \/ Walked(h) \/ Enqueued(h) \/ Handed(h) \/ Committed(h) \/ Undone(h)
      PROVE  Sender(req[h])'
  <2>1. CASE BegunOther(h) \/ BegunDecision(h)
    BY <1>4, <2>1 DEF BegunOther, BegunDecision, Decisions
  <2>2. CASE BegunSend(h)
    BY <1>2, <2>2 DEF BegunSend, Begins, Sender
  <2>3. CASE Moved(h) \/ Walked(h) \/ Enqueued(h)
    <3>0. Continues(h)
      BY <2>3 DEF Moved, Walked, Enqueued
    <3>1. Sender(req[h]) /\ sends' = sends /\ h \in Active
      BY <1>1, <1>4, <3>0 DEF Continues
    <3>2. CASE Walked(h) \/ Enqueued(h)
      BY <3>1, <3>2 DEF Walked, Enqueued, Sender
    <3>3. CASE Moved(h)
      <4>1. req[h].pc = "lock" /\ req[h].todo = <<Move(sends[req[h].subject].draft, "sent")>>
            /\ req[h].then = "commit"
        BY <3>1, <3>3 DEF Moved, Sender
      <4>2. Len(req[h].todo) = 1
        BY <4>1
      <4>3. req'[h].pc = "commit" /\ req'[h].added = req[h].added /\ req[h].locks \subseteq req'[h].locks
            /\ req'[h].subject = req[h].subject
        BY <3>3, <4>1, <4>2 DEF Moved, Continues
      <4> QED  BY <3>1, <4>1, <4>3 DEF Sender
    <3> QED  BY <2>3, <3>2, <3>3
  <2>4. CASE Handed(h)
    <3>1. Sender(req[h]) /\ req[h].pc = "hand" /\ req'[h].subject = req[h].subject
      BY <1>1, <2>4 DEF Handed
    <3> DEFINE d == sends[req[h].subject].draft
    <3>2. d \in 0..Gate /\ row[d] # "none" /\ sends'[req[h].subject].draft = d
          /\ req[h].subject \in DOMAIN sends'
      BY <1>2, <3>1, SendType DEF Sender
    <3>3. req'[h].path[d] = << >>
      BY <2>4, <3>1, <3>2 DEF Handed, Sender
    <3>4. /\ req'[h].locks = {SendRow(req[h].subject)} /\ req'[h].then = "commit"
          /\ req'[h].copy[d] = row[d]
          /\ \/ req'[h].pc = "lock" /\ req'[h].todo = <<Move(d, "sent")>> /\ req'[h].added = <<"sent">>
             \/ req'[h].pc = "commit" /\ req'[h].added = <<"simulated">>
      BY <2>4, <3>2 DEF Handed
    <3> HIDE DEF d
    <3> QED  BY <3>1, <3>2, <3>3, <3>4 DEF Sender
  <2>5. CASE Committed(h) \/ Undone(h)
    BY <1>4, <2>5 DEF Committed, Undone, Ends
  <2> QED  BY <1>4, <2>1, <2>2, <2>3, <2>4, <2>5
<1>5. ASSUME NEW h \in Active', req'[h].kind = "send" PROVE Sender(req[h])'
  BY <1>1, <1>3, <1>4, <1>5, OneActs
<1> QED  BY <1>5 DEF SenderInv, Sender

\* What AddedInv says of a transaction that is a decision.
MovesOn(r, d) == \/ \E l \in DOMAIN r.path[d] : r.path[d][l] = "queued_for_send"
                 \/ r.pc = "lock" /\ r.todo = <<Move(d, "queued_for_send")>>
Decider(r) ==
  /\ r.added \in Seq(Sends)
  /\ \A k \in DOMAIN r.added :
       /\ r.added[k].by = r.no /\ r.added[k].handed = << >>
       /\ row[r.added[k].draft] # "none"
       /\ \/ r.added[k].status = "skipped"
          \/ r.added[k].status = "queued" /\ MovesOn(r, r.added[k].draft)
  /\ \A k, l \in DOMAIN r.added : r.added[k].draft = r.added[l].draft => k = l

\* Its rows are there still, and it has not moved less.
LEMMA DeciderGrows ==
  ASSUME NEW r, NEW q, Decider(r), q.added = r.added, q.no = r.no,
         \A d \in Drafts : MovesOn(r, d) => MovesOn(q, d),
         \A d \in Drafts : row[d] # "none" => row'[d] # "none"
  PROVE  /\ q.added \in Seq(Sends)
         /\ \A k \in DOMAIN q.added :
              /\ q.added[k].by = q.no /\ q.added[k].handed = << >>
              /\ row'[q.added[k].draft] # "none"
              /\ \/ q.added[k].status = "skipped"
                 \/ q.added[k].status = "queued" /\ MovesOn(q, q.added[k].draft)
         /\ \A k, l \in DOMAIN q.added : q.added[k].draft = q.added[l].draft => k = l
<1> DEFINE a == r.added
<1>1. a \in Seq(Sends)
  BY DEF Decider
<1>2. \A k \in DOMAIN a : a[k].draft \in Drafts
  <2> HIDE DEF a
  <2>1. \A k \in DOMAIN a : a[k] \in Sends
    BY <1>1
  <2> QED  BY <2>1 DEF Sends
<1> QED  BY <1>1, <1>2 DEF Decider

LEMMA AddedKept ==
  ASSUME ShapeInv, ShapeInv', SenderInv, AddedInv, Step
  PROVE  AddedInv'
<1> DEFINE D2(q) ==
         /\ q.added \in Seq(Sends)
         /\ \A k \in DOMAIN q.added :
              /\ q.added[k].by = q.no /\ q.added[k].handed = << >>
              /\ row'[q.added[k].draft] # "none"
              /\ \/ q.added[k].status = "skipped"
                 \/ q.added[k].status = "queued" /\ MovesOn(q, q.added[k].draft)
         /\ \A k, l \in DOMAIN q.added : q.added[k].draft = q.added[l].draft => k = l
<1>1. \A g \in Active : req[g].kind \in Decisions => Decider(req[g])
  BY DEF AddedInv, Decider, MovesOn
<1>2. \A d \in Drafts : row[d] # "none" => row'[d] # "none"
  BY StepGrows, RowsDiffer
<1>3. ASSUME NEW g, req'[g] = req[g], Decider(req[g]) PROVE D2(req'[g])
  BY <1>2, <1>3, DeciderGrows
<1>4. ASSUME NEW h \in Active', h \in Handlers, req'[h].kind \in Decisions,
             \/ BegunOther(h) \/ BegunDecision(h) \/ BegunSend(h)
             \/ Moved(h) \/ Walked(h) \/ Enqueued(h) \/ Handed(h) \/ Committed(h) \/ Undone(h)
      PROVE  D2(req'[h])
  <2>1. CASE Begins(h)
    <3>1. req'[h].added = << >> /\ << >> \in Seq(Sends)
      BY <2>1 DEF Begins
    <3>2. DOMAIN req'[h].added = {}
      BY <3>1
    <3> QED  BY <3>1, <3>2
  <2>2. ASSUME Continues(h)
        PROVE  /\ Decider(req[h]) /\ h \in Active /\ req'[h].no = req[h].no
               /\ WellFormed(req[h])
    <3>1. h \in Active /\ req'[h].no = req[h].no /\ req'[h].kind = req[h].kind
      BY <2>2 DEF Continues
    <3> QED  BY <1>1, <1>4, <3>1, ActiveType DEF ShapeInv
  <2>3. CASE Moved(h)
    <3>1. /\ Decider(req[h]) /\ req'[h].no = req[h].no /\ req'[h].added = req[h].added
          /\ WellFormed(req[h]) /\ Continues(h)
      BY <2>2, <2>3 DEF Moved
    <3>2. ASSUME NEW d \in Drafts, MovesOn(req[h], d) PROVE MovesOn(req'[h], d)
      <4> DEFINE p == req[h].path[d]
                 p2 == req'[h].path[d]
                 m == Now(h)
      <4>1. d \in 0..Gate /\ p \in Seq(States(d)) /\ m \in Moves
            /\ p2 = IF d = m.row THEN Append(p, m.to) ELSE p
        BY <2>3, <3>1, RowsDiffer DEF Moved, WellFormed
      <4>2. d = m.row => m.to \in States(d)
        BY <4>1 DEF Moves
      <4> HIDE DEF p, p2, m
      <4>3. d = m.row => /\ Len(p) + 1 \in DOMAIN p2 /\ p2[Len(p) + 1] = m.to
                         /\ \A l \in DOMAIN p : l \in DOMAIN p2 /\ p2[l] = p[l]
        <5> SUFFICES ASSUME d = m.row
                     PROVE  /\ Len(p) + 1 \in DOMAIN p2 /\ p2[Len(p) + 1] = m.to
                            /\ \A l \in DOMAIN p : l \in DOMAIN p2 /\ p2[l] = p[l]
          OBVIOUS
        <5>1. p2 = Append(p, m.to) /\ m.to \in States(d)
          BY <4>1, <4>2
        <5>2. /\ p2 \in Seq(States(d)) /\ Len(p2) = Len(p) + 1 /\ p2[Len(p) + 1] = m.to
              /\ \A l \in 1..Len(p) : p2[l] = p[l]
          BY <4>1, <5>1, AppendProperties
        <5>3. DOMAIN p2 = 1..(Len(p) + 1) /\ DOMAIN p = 1..Len(p) /\ Len(p) \in Nat
          BY <4>1, <5>2
        <5> QED  BY <5>2, <5>3
      <4>4. CASE \E l \in DOMAIN p : p[l] = "queued_for_send"
        BY <4>1, <4>3, <4>4 DEF MovesOn, p2
      <4>5. CASE req[h].todo = <<Move(d, "queued_for_send")>>
        <5>1. m = Move(d, "queued_for_send")
          BY <4>5 DEF m, Now
        <5>2. m.row = d /\ m.to = "queued_for_send"
          BY <5>1 DEF Move
        <5> QED  BY <4>3, <5>2 DEF MovesOn, p2
      <4> QED  BY <3>2, <4>4, <4>5 DEF MovesOn, p
    <3> QED  BY <1>2, <3>1, <3>2, DeciderGrows
  <2>4. CASE Walked(h)
    <3>1. /\ Decider(req[h]) /\ req'[h].no = req[h].no /\ req'[h].added = req[h].added
          /\ req'[h].path = req[h].path /\ req[h].pc = "workspace"
      BY <2>2, <2>4 DEF Walked
    <3>2. \A d \in Drafts : MovesOn(req[h], d) => MovesOn(req'[h], d)
      BY <3>1 DEF MovesOn
    <3> QED  BY <1>2, <3>1, <3>2, DeciderGrows
  <2>5. CASE Enqueued(h)
    <3> DEFINE a == req[h].added
               a2 == req'[h].added
    <3>1. /\ Decider(req[h]) /\ req'[h].no = req[h].no
          /\ req'[h].path = req[h].path /\ req[h].pc = "enqueue"
          /\ row' = row /\ req[h].no \in Nat
      BY <2>2, <2>5 DEF Enqueued, Continues, WellFormed, Tx
    <3>2. \A d \in Drafts : MovesOn(req[h], d) => MovesOn(req'[h], d)
      BY <3>1 DEF MovesOn
    <3>3. CASE a2 = a
      BY <1>2, <3>1, <3>2, <3>3, DeciderGrows
    <3>4. ASSUME NEW d \in ToEnqueue(h), NEW status \in {"skipped", "queued"},
                 a2 = Append(a, NewSend(d, status, req[h].no)),
                 status = "queued" => MovesOn(req'[h], d)
          PROVE  D2(req'[h])
      <4> DEFINE new == NewSend(d, status, req[h].no)
      <4>1. /\ new.draft = d /\ new.status = status /\ new.by = req[h].no /\ new.handed = << >>
        BY DEF NewSend
      <4>2. d \in Drafts /\ row[d] # "none" /\ \A k \in DOMAIN a : a[k].draft # d
        BY DEF ToEnqueue, Existing
      <4>3. new \in Sends
        <5>1. << >> \in Seq(Nat)
          OBVIOUS
        <5> QED  BY <3>1, <4>2, <5>1 DEF NewSend, Sends
      <4>4. a \in Seq(Sends)
        BY <3>1 DEF Decider
      <4> DEFINE n == Len(a)
      <4>5. a2 = Append(a, new)
        BY <3>4
      <4>6. /\ \A k \in DOMAIN a :
                 /\ a[k].by = req[h].no /\ a[k].handed = << >> /\ row[a[k].draft] # "none"
                 /\ a[k].draft \in Drafts
                 /\ a[k].status = "skipped" \/ (a[k].status = "queued" /\ MovesOn(req'[h], a[k].draft))
            /\ \A k, l \in DOMAIN a : a[k].draft = a[l].draft => k = l
        <5>1. \A k \in DOMAIN a : a[k].draft \in Drafts
          <6> HIDE DEF a
          <6>1. \A k \in DOMAIN a : a[k] \in Sends
            BY <4>4
          <6> QED  BY <6>1 DEF Sends
        <5> QED  BY <3>1, <3>2, <5>1 DEF Decider
      <4> HIDE DEF a, a2, new
      <4>7. /\ a2 \in Seq(Sends) /\ Len(a2) = n + 1 /\ a2[n + 1] = new
            /\ \A k \in 1..n : a2[k] = a[k]
        BY <4>3, <4>4, <4>5, AppendProperties
      <4>8. DOMAIN a2 = 1..(n + 1) /\ DOMAIN a = 1..n /\ n \in Nat
        BY <4>4, <4>7
      <4>9. \A k \in DOMAIN a2 : k = n + 1 \/ (k \in DOMAIN a /\ a2[k] = a[k])
        BY <4>7, <4>8
      <4>10. ASSUME NEW k \in DOMAIN a2
             PROVE  /\ a2[k].by = req'[h].no /\ a2[k].handed = << >> /\ row'[a2[k].draft] # "none"
                    /\ \/ a2[k].status = "skipped"
                       \/ a2[k].status = "queued" /\ MovesOn(req'[h], a2[k].draft)
        <5>1. CASE k = n + 1
          BY <3>1, <3>4, <4>1, <4>2, <4>7, <5>1
        <5>2. CASE k \in DOMAIN a /\ a2[k] = a[k]
          BY <3>1, <4>6, <5>2
        <5> QED  BY <4>9, <5>1, <5>2
      <4>11. \A k, l \in DOMAIN a2 : a2[k].draft = a2[l].draft => k = l
        BY <4>1, <4>2, <4>6, <4>7, <4>9
      <4> QED  BY <4>7, <4>10, <4>11 DEF a2
    <3>5. \/ a2 = a
          \/ \E d \in ToEnqueue(h) : a2 = Append(a, NewSend(d, "skipped", req[h].no))
          \/ \E d \in ToEnqueue(h) : /\ a2 = Append(a, NewSend(d, "queued", req[h].no))
                                     /\ req'[h].pc = "lock"
                                     /\ req'[h].todo = <<Move(d, "queued_for_send")>>
      BY <2>5 DEF Enqueued
    <3>6. ASSUME NEW d \in ToEnqueue(h), a2 = Append(a, NewSend(d, "queued", req[h].no)),
                 req'[h].pc = "lock", req'[h].todo = <<Move(d, "queued_for_send")>>
          PROVE  D2(req'[h])
      <4>1. MovesOn(req'[h], d)
        BY <3>6 DEF MovesOn
      <4> HIDE DEF D2
      <4> QED  BY <3>4, <3>6, <4>1
    <3>7. ASSUME NEW d \in ToEnqueue(h), a2 = Append(a, NewSend(d, "skipped", req[h].no))
          PROVE  D2(req'[h])
      <4> HIDE DEF D2
      <4> QED  BY <3>4, <3>7
    <3> HIDE DEF D2
    <3> QED  BY <3>3, <3>5, <3>6, <3>7
  <2>6. CASE Handed(h) \/ Committed(h) \/ Undone(h)
    BY ZenonT(60), <1>4, <2>6 DEF Committed, Undone, Ends, Handed, Decisions
  <2> HIDE DEF D2
  <2> QED  BY <1>4, <2>1, <2>3, <2>4, <2>5, <2>6 DEF BegunOther, BegunDecision, BegunSend
<1> HIDE DEF D2
<1>5. ASSUME NEW h \in Active', req'[h].kind \in Decisions PROVE D2(req'[h])
  BY <1>1, <1>3, <1>4, <1>5, OneActs
<1> QED  BY <1>5 DEF AddedInv, D2, MovesOn

-----------------------------------------------------------------------------
(* Copies, and how the audit rows of a row hang together *)

LEMMA SeqEnd ==
  ASSUME NEW S, NEW t \in Seq(S)
  PROVE  /\ Len(t) \in Nat /\ DOMAIN t = 1..Len(t)
         /\ t # << >> <=> Len(t) \in DOMAIN t
         /\ t # << >> <=> Len(t) # 0
         /\ Last(t) = t[Len(t)]
<1>1. Len(t) \in Nat /\ DOMAIN t = 1..Len(t)
  OBVIOUS
<1>2. t # << >> <=> Len(t) # 0
  BY EmptySeq
<1> QED  BY <1>1, <1>2 DEF Last

\* Whoever moved the row last was at work at the same time as transaction no.
MetLast(o, no) ==
  Len(trail[o]) \in DOMAIN trail[o] /\ Met(trail[o][Len(trail[o])].by, no)

\* What a transaction has loaded of a row is the row's state, unless it was moved meanwhile.
CopyInv ==
  \A h \in Active : \A o \in 0..NumDrafts :
    req[h].copy[o] # "none" => req[h].copy[o] = row[o] \/ MetLast(o, req[h].no)

\* After a commit, the last audit row is the one there was, or that of the last move.
LEMMA CommittedLast ==
  ASSUME ShapeInv, ShapeInv', NEW h \in Handlers, Committed(h), NEW o \in 0..NumDrafts
  PROVE  /\ req[h].path[o] = << >> =>
              /\ row'[o] = row[o] /\ Len(trail'[o]) = Len(trail[o]) /\ DOMAIN trail'[o] = DOMAIN trail[o]
              /\ \A k \in DOMAIN trail[o] : trail'[o][k] = trail[o][k]
         /\ req[h].path[o] # << >> =>
              /\ Len(trail'[o]) \in DOMAIN trail'[o] /\ met' = met
              /\ trail'[o][Len(trail'[o])].by = req[h].no
              /\ trail'[o][Len(trail'[o])].to = row'[o]
<1>1. h \in Active /\ o \in 0..Gate
  BY RowsDiffer DEF Committed
<1>2. WellFormed(req[h])
  BY <1>1, ActiveType DEF ShapeInv
<1> DEFINE t == trail[o]
           p == req[h].path[o]
           u == trail'[o]
<1>3. p \in Seq(States(o)) /\ u \in Seq(Audits)
  BY <1>1, <1>2 DEF WellFormed, ShapeInv, TrailTyped
<1>4. /\ Len(t) \in Nat /\ DOMAIN t = 1..Len(t) /\ DOMAIN u = 1..(Len(t) + Len(p))
      /\ \A k \in DOMAIN t : u[k] = t[k]
  BY CommittedTrail
<1>5. \A j \in DOMAIN p : u[Len(t) + j].to = p[j] /\ u[Len(t) + j].by = req[h].no
  BY CommittedTrail
<1>6. (p = << >> => row'[o] = row[o]) /\ (p # << >> => row'[o] = p[Len(p)])
  BY <1>1, CommittedRow
<1>7. p # << >> => met' = met
  BY <1>1 DEF Committed
<1> HIDE DEF t, p, u
<1>8. Len(u) = Len(t) + Len(p)
  <2>1. DOMAIN u = 1..Len(u) /\ Len(u) \in Nat /\ Len(p) \in Nat
    BY <1>3
  <2> QED  BY <1>4, <2>1
<1>9. CASE p = << >>
  <2>1. Len(p) = 0
    BY <1>9
  <2>2. Len(u) = Len(t) /\ DOMAIN u = DOMAIN t
    BY <1>4, <1>8, <2>1
  <2> QED  BY <1>4, <1>6, <1>9, <2>2 DEF t, p, u
<1>10. CASE p # << >>
  <2>1. Len(p) \in DOMAIN p /\ Len(p) \in Nat
    BY <1>3, <1>10, SeqEnd
  <2>2. u # << >> /\ Len(u) \in DOMAIN u
    <3>1. Len(p) # 0
      BY <1>3, <1>10, SeqEnd
    <3>2. Len(u) # 0
      BY <1>4, <1>8, <2>1, <3>1
    <3> QED  BY <1>3, <3>2, SeqEnd
  <2> QED  BY <1>5, <1>6, <1>7, <1>8, <1>10, <2>1, <2>2 DEF t, p, u
<1> QED  BY <1>9, <1>10

\* Nothing that has to do with two others is forgotten with a transaction.
LEMMA MetStays ==
  ASSUME ShapeInv, AddedInv, NumbersInv, Step, NEW a \in Numbers, NEW b \in Numbers,
         \A h \in Active : h \notin Active' => a # req[h].no /\ b # req[h].no,
         Met(a, b)
  PROVE  {a, b} \in met'
<1>1. CASE Aside
  BY <1>1 DEF Aside, Met
<1>2. CASE \E d \in Drafts : Edited(d)
  BY <1>2 DEF Edited, Met
<1>3. ASSUME NEW h \in Handlers, Begins(h) PROVE {a, b} \in met'
  BY <1>3 DEF Begins, Opened, Met
<1>4. ASSUME NEW h \in Handlers, Continues(h) \/ Handed(h) PROVE {a, b} \in met'
  BY <1>4 DEF Continues, Handed, Met
<1>5. ASSUME NEW h \in Handlers, Ends(h) \/ Committed(h) PROVE {a, b} \in met'
  <2>1. h \in Active /\ h \notin Active' /\ met' \in {met, Forgotten(h)}
    BY <1>5 DEF Ends, Committed
  <2>2. a # req[h].no /\ b # req[h].no
    BY <2>1
  <2>3. met' = Forgotten(h) => {a, b} \in met'
    BY <2>2, Forgets DEF Met
  <2> QED  BY <2>1, <2>3 DEF Met
<1> QED
  BY ZenonT(60), <1>1, <1>2, <1>3, <1>4, <1>5
  DEF Step, BegunOther, BegunDecision, BegunSend, Moved, Walked, Enqueued, Undone

\* Those of whom there is an audit row, are not forgotten.
LEMMA MetBysStay ==
  ASSUME ShapeInv, AddedInv, NumbersInv, Step, NEW o \in 0..NumDrafts, NEW p \in 0..NumDrafts,
         NEW k \in DOMAIN trail[o], NEW l \in DOMAIN trail[p], Met(trail[o][k].by, trail[p][l].by)
  PROVE  {trail[o][k].by, trail[p][l].by} \in met'
<1> DEFINE a == trail[o][k].by
           b == trail[p][l].by
<1>1. a \in Numbers /\ b \in Numbers /\ \A h \in Active : a # req[h].no /\ b # req[h].no
  BY DEF NumbersInv
<1>2. Met(a, b)
  OBVIOUS
<1> HIDE DEF a, b
<1>3. {a, b} \in met'
  BY <1>1, <1>2, MetStays
<1> QED  BY <1>3 DEF a, b

\* Nor is that one of them met one who goes on.
LEMMA MetOneStays ==
  ASSUME ShapeInv, AddedInv, NumbersInv, Step, NEW o \in 0..NumDrafts,
         NEW k \in DOMAIN trail[o], NEW g \in Active, g \in Active', Met(trail[o][k].by, req[g].no)
  PROVE  {trail[o][k].by, req[g].no} \in met'
<1> DEFINE a == trail[o][k].by
           b == req[g].no
<1>1. a \in Numbers /\ b \in Numbers
      /\ \A h \in Active : h \notin Active' => a # req[h].no /\ b # req[h].no
  BY DEF NumbersInv
<1>2. Met(a, b)
  OBVIOUS
<1> HIDE DEF a, b
<1>3. {a, b} \in met'
  BY <1>1, <1>2, MetStays
<1> QED  BY <1>3 DEF a, b

\* Of what a transaction that stays has loaded, the same can be said after a step.
LEMMA CopyStays ==
  ASSUME ShapeInv, ShapeInv', AddedInv, NumbersInv, Step, NEW g \in Active, g \in Active',
         NEW o \in 0..NumDrafts, row[o] # "none", NEW c, c = row[o] \/ MetLast(o, req[g].no)
  PROVE  \/ c = row'[o]
         \/ /\ Len(trail'[o]) \in DOMAIN trail'[o]
            /\ {trail'[o][Len(trail'[o])].by, req[g].no} \in met'
<1>1. ASSUME row'[o] = row[o], Len(trail'[o]) = Len(trail[o]), DOMAIN trail'[o] = DOMAIN trail[o],
             \A k \in DOMAIN trail[o] : trail'[o][k] = trail[o][k],
             MetLast(o, req[g].no)
      PROVE  /\ Len(trail'[o]) \in DOMAIN trail'[o]
             /\ {trail'[o][Len(trail'[o])].by, req[g].no} \in met'
  <2> DEFINE k == Len(trail[o])
  <2>1. k \in DOMAIN trail[o] /\ Met(trail[o][k].by, req[g].no)
    BY <1>1 DEF MetLast
  <2>2. trail'[o][k] = trail[o][k] /\ Len(trail'[o]) = k
    BY <1>1, <2>1
  <2> HIDE DEF k
  <2>3. {trail[o][k].by, req[g].no} \in met'
    BY <2>1, MetOneStays
  <2> QED  BY <1>1, <2>1, <2>2, <2>3
<1>2. CASE row'[o] = row[o] /\ trail'[o] = trail[o]
  BY <1>1, <1>2
<1>3. CASE Aside
  BY <1>2, <1>3 DEF Aside
<1>4. CASE \E d \in Drafts : Edited(d)
  <2>1. PICK d \in Drafts : Edited(d)
    BY <1>4
  <2>2. CASE o # d
    BY <1>2, <2>1, <2>2, RowsDiffer DEF Edited
  <2>3. CASE o = d
    <3>1. /\ Len(trail[o]) \in Nat /\ DOMAIN trail'[o] = 1..(Len(trail[o]) + 1)
          /\ trail'[o][Len(trail[o]) + 1].by = begun + 1
      BY <2>1, <2>3, EditedTrail
    <3>2. trail'[o] \in Seq(Audits)
      BY RowsDiffer DEF ShapeInv, TrailTyped
    <3>3. Len(trail'[o]) = Len(trail[o]) + 1
      BY <3>1, <3>2, SeqEnd
    <3>4. {begun + 1, req[g].no} \in met'
      BY <2>1 DEF Edited
    <3>5. Len(trail'[o]) \in DOMAIN trail'[o] /\ trail'[o][Len(trail'[o])].by = begun + 1
      BY <3>1, <3>3
    <3> QED  BY <3>4, <3>5
  <2> QED  BY <2>2, <2>3
<1>5. ASSUME NEW h \in Handlers, Committed(h)
      PROVE  \/ c = row'[o]
             \/ /\ Len(trail'[o]) \in DOMAIN trail'[o]
                /\ {trail'[o][Len(trail'[o])].by, req[g].no} \in met'
  <2>1. h \in Active /\ h # g
    BY <1>5 DEF Committed
  <2>2. CASE req[h].path[o] = << >>
    <3>1. /\ row'[o] = row[o] /\ Len(trail'[o]) = Len(trail[o]) /\ DOMAIN trail'[o] = DOMAIN trail[o]
          /\ \A k \in DOMAIN trail[o] : trail'[o][k] = trail[o][k]
      BY <1>5, <2>2, CommittedLast
    <3> QED  BY <1>1, <3>1
  <2>3. CASE req[h].path[o] # << >>
    <3>1. /\ Len(trail'[o]) \in DOMAIN trail'[o] /\ met' = met
          /\ trail'[o][Len(trail'[o])].by = req[h].no
      BY <1>5, <2>3, CommittedLast
    <3>2. Met(req[h].no, req[g].no)
      BY <2>1 DEF NumbersInv
    <3> QED  BY <3>1, <3>2 DEF Met
  <2> QED  BY <2>2, <2>3
<1>6. ASSUME NEW h \in Handlers, Begins(h) \/ Continues(h) \/ Ends(h) \/ Handed(h)
      PROVE  row' = row /\ trail' = trail
  BY <1>6 DEF Begins, Continues, Ends, Handed
<1> QED
  BY ZenonT(60), <1>2, <1>3, <1>4, <1>5, <1>6
  DEF Step, BegunOther, BegunDecision, BegunSend, Moved, Walked, Enqueued, Undone

LEMMA CopyKept ==
  ASSUME ShapeInv, ShapeInv', AddedInv, NumbersInv, Step, CopyInv
  PROVE  CopyInv'
<1>1. \A g \in Active : \A o \in 0..NumDrafts :
        /\ req[g].copy[o] # "none" => row[o] # "none"
        /\ req[g].copy[o] # "none" => req[g].copy[o] = row[o] \/ MetLast(o, req[g].no)
  <2>1. \A g \in Active : WellFormed(req[g])
    BY ActiveType DEF ShapeInv
  <2> QED  BY <2>1, RowsDiffer DEF CopyInv, WellFormed, ShapeInv, RowsInv
<1> DEFINE After(g, o) == \/ req'[g].copy[o] = row'[o]
                          \/ /\ Len(trail'[o]) \in DOMAIN trail'[o]
                             /\ {trail'[o][Len(trail'[o])].by, req'[g].no} \in met'
<1>2. ASSUME NEW g \in Active, g \in Active', req'[g] = req[g], NEW o \in 0..NumDrafts,
             req'[g].copy[o] # "none"
      PROVE  After(g, o)
  BY <1>1, <1>2, CopyStays
<1>3. ASSUME NEW h \in Handlers, h \in Active', NEW o \in 0..NumDrafts, req'[h].copy[o] # "none",
             \/ BegunOther(h) \/ BegunDecision(h) \/ BegunSend(h)
             \/ Moved(h) \/ Walked(h) \/ Enqueued(h) \/ Handed(h) \/ Committed(h) \/ Undone(h)
      PROVE  After(h, o)
  <2>0. o \in 0..Gate
    BY RowsDiffer
  <2>1. CASE Begins(h)
    BY <1>3, <2>0, <2>1 DEF Begins
  <2>2. CASE h \in Active /\ req'[h].no = req[h].no /\ row' = row
             /\ req'[h].copy[o] \in {req[h].copy[o], row[o]}
    BY <1>1, <1>3, <2>2, CopyStays
  <2>3. CASE Moved(h)
    BY <2>0, <2>2, <2>3 DEF Moved, Continues
  <2>4. CASE Walked(h)
    BY <2>0, <2>2, <2>4 DEF Walked, Continues
  <2>5. CASE Enqueued(h)
    BY <2>0, <2>2, <2>5 DEF Enqueued, Continues
  <2>6. CASE Handed(h)
    BY <2>0, <2>2, <2>6 DEF Handed
  <2>7. CASE Committed(h) \/ Undone(h)
    BY <1>3, <2>7 DEF Committed, Undone, Ends
  <2> QED  BY <1>3, <2>1, <2>3, <2>4, <2>5, <2>6, <2>7 DEF BegunOther, BegunDecision, BegunSend
<1> HIDE DEF After
<1>4. \A h \in Active' : \A o \in 0..NumDrafts : req'[h].copy[o] # "none" => After(h, o)
  <2>1. Active' \subseteq Handlers
    BY DEF Active
  <2> QED  BY <1>2, <1>3, <2>1, OneActs
<1> QED  BY <1>4 DEF CopyInv, After, MetLast, Met

LEMMA BreaksAre ==
  ASSUME ShapeInv
  PROVE  TrailBreaksByOverlap <=>
           \A o \in 0..NumDrafts :
             /\ \A k \in DOMAIN trail[o] : k + 1 \in DOMAIN trail[o] =>
                  \/ trail[o][k].to = trail[o][k + 1].from
                  \/ {trail[o][k].by, trail[o][k + 1].by} \in met
             /\ Len(trail[o]) \in DOMAIN trail[o] => trail[o][Len(trail[o])].to = row[o]
<1>1. ASSUME NEW o \in 0..NumDrafts
      PROVE  /\ Len(trail[o]) \in Nat /\ DOMAIN trail[o] = 1..Len(trail[o])
             /\ trail[o] # << >> <=> Len(trail[o]) \in DOMAIN trail[o]
             /\ Last(trail[o]) = trail[o][Len(trail[o])]
  <2>1. trail[o] \in Seq(Audits)
    BY RowsDiffer DEF ShapeInv, TrailTyped
  <2> QED  BY <2>1, SeqEnd
<1>2. \A o \in 0..NumDrafts : \A k :
        k \in 1..(Len(trail[o]) - 1) <=> k \in DOMAIN trail[o] /\ k + 1 \in DOMAIN trail[o]
  BY <1>1
<1> QED  BY <1>1, <1>2 DEF TrailBreaksByOverlap, Met

\* The audit rows of a row hang together after a step as well.
LEMMA BreaksKept ==
  ASSUME ShapeInv, ShapeInv', AddedInv, NumbersInv, Step, CopyInv, TrailBreaksByOverlap
  PROVE  TrailBreaksByOverlap'
<1> DEFINE Hangs(o) ==
             /\ \A k \in DOMAIN trail[o] : k + 1 \in DOMAIN trail[o] =>
                  \/ trail[o][k].to = trail[o][k + 1].from
                  \/ {trail[o][k].by, trail[o][k + 1].by} \in met
             /\ Len(trail[o]) \in DOMAIN trail[o] => trail[o][Len(trail[o])].to = row[o]
           After(o) ==
             /\ \A k \in DOMAIN trail'[o] : k + 1 \in DOMAIN trail'[o] =>
                  \/ trail'[o][k].to = trail'[o][k + 1].from
                  \/ {trail'[o][k].by, trail'[o][k + 1].by} \in met'
             /\ Len(trail'[o]) \in DOMAIN trail'[o] => trail'[o][Len(trail'[o])].to = row'[o]
<1>1. \A o \in 0..NumDrafts : Hangs(o)
  BY BreaksAre
<1>2. ASSUME NEW o \in 0..NumDrafts, NEW k \in DOMAIN trail[o], k + 1 \in DOMAIN trail[o]
      PROVE  \/ trail[o][k].to = trail[o][k + 1].from
             \/ {trail[o][k].by, trail[o][k + 1].by} \in met'
  <2>1. CASE {trail[o][k].by, trail[o][k + 1].by} \in met
    <3> DEFINE l == k + 1
    <3>1. l \in DOMAIN trail[o] /\ Met(trail[o][k].by, trail[o][l].by)
      BY <1>2, <2>1 DEF Met
    <3> HIDE DEF l
    <3>2. {trail[o][k].by, trail[o][l].by} \in met'
      BY <3>1, MetBysStay
    <3> QED  BY <3>2 DEF l
  <2> QED  BY <1>1, <1>2, <2>1
<1>3. \A o \in 0..NumDrafts :
        /\ Len(trail[o]) \in Nat /\ DOMAIN trail[o] = 1..Len(trail[o])
        /\ Len(trail'[o]) \in Nat /\ DOMAIN trail'[o] = 1..Len(trail'[o])
        /\ trail[o] # << >> <=> Len(trail[o]) # 0
  <2> SUFFICES ASSUME NEW o \in 0..NumDrafts
               PROVE  /\ Len(trail[o]) \in Nat /\ DOMAIN trail[o] = 1..Len(trail[o])
                      /\ Len(trail'[o]) \in Nat /\ DOMAIN trail'[o] = 1..Len(trail'[o])
                      /\ trail[o] # << >> <=> Len(trail[o]) # 0
    OBVIOUS
  <2>1. trail[o] \in Seq(Audits) /\ trail'[o] \in Seq(Audits)
    BY RowsDiffer DEF ShapeInv, TrailTyped
  <2> QED  BY <2>1, SeqEnd
<1>4. ASSUME NEW o \in 0..NumDrafts, row'[o] = row[o], Len(trail'[o]) = Len(trail[o]),
             \A k \in DOMAIN trail[o] : trail'[o][k] = trail[o][k]
      PROVE  After(o)
  <2>1. DOMAIN trail'[o] = DOMAIN trail[o]
    BY <1>3, <1>4
  <2>2. \A k \in DOMAIN trail'[o] : k + 1 \in DOMAIN trail'[o] =>
          \/ trail'[o][k].to = trail'[o][k + 1].from
          \/ {trail'[o][k].by, trail'[o][k + 1].by} \in met'
    BY <1>2, <1>4, <2>1
  <2>3. Len(trail'[o]) \in DOMAIN trail'[o] => trail'[o][Len(trail'[o])].to = row'[o]
    BY <1>1, <1>4, <2>1
  <2> QED  BY <2>2, <2>3
<1>9. (\A o \in 0..NumDrafts : After(o)) => TrailBreaksByOverlap'
  <2>1. ASSUME NEW o \in 0..NumDrafts, After(o)
        PROVE  /\ \A k \in 1..(Len(trail'[o]) - 1) :
                    \/ trail'[o][k].to = trail'[o][k + 1].from
                    \/ {trail'[o][k].by, trail'[o][k + 1].by} \in met'
               /\ trail'[o] # << >> => Last(trail'[o]) = trail'[o][Len(trail'[o])]
                                      /\ trail'[o][Len(trail'[o])].to = row'[o]
    <3> DEFINE n == Len(trail'[o])
    <3>1. n \in Nat /\ DOMAIN trail'[o] = 1..n /\ (trail'[o] # << >> => n # 0)
      <4>1. trail'[o] \in Seq(Audits)
        BY RowsDiffer DEF ShapeInv, TrailTyped
      <4> QED  BY <4>1, SeqEnd
    <3>2. \A k \in 1..(n - 1) : k \in DOMAIN trail'[o] /\ k + 1 \in DOMAIN trail'[o]
      BY <3>1
    <3>3. trail'[o] # << >> => n \in DOMAIN trail'[o]
      BY <3>1
    <3>4. Last(trail'[o]) = trail'[o][n]
      BY DEF Last
    <3> HIDE DEF n
    <3> QED  BY <2>1, <3>2, <3>3, <3>4 DEF n
  <2> HIDE DEF After
  <2> QED  BY <2>1 DEF TrailBreaksByOverlap, Met
<1>5. CASE Aside
  <2> SUFFICES ASSUME NEW o \in 0..NumDrafts PROVE After(o)
    BY <1>9
  <2>1. trail'[o] = trail[o] /\ (row'[o] = row[o] \/ row[o] = "none")
    BY <1>5 DEF Aside
  <2>2. row[o] = "none" => Len(trail[o]) \notin DOMAIN trail[o]
    <3>1. \A k \in DOMAIN trail[o] : trail[o][k].to \in States(o)
      BY DEF ShapeInv, TrailTyped
    <3> QED  BY <1>1, <3>1, StatesType, RowsDiffer
  <2>3. row[o] = "none" => \A k \in DOMAIN trail[o] : FALSE
    BY <1>3, <2>2
  <2> QED  BY <1>4, <2>1, <2>2, <2>3
<1>6. CASE \E d \in Drafts : Edited(d)
  <2> SUFFICES ASSUME NEW o \in 0..NumDrafts PROVE After(o)
    BY <1>9
  <2>1. PICK d \in Drafts : Edited(d)
    BY <1>6
  <2>2. CASE o # d
    BY <1>4, <2>1, <2>2, RowsDiffer DEF Edited
  <2>3. CASE o = d
    <3> DEFINE n == Len(trail[o])
    <3>1. /\ n \in Nat /\ DOMAIN trail[o] = 1..n
          /\ DOMAIN trail'[o] = 1..(n + 1)
          /\ \A k \in DOMAIN trail[o] : trail'[o][k] = trail[o][k]
          /\ trail'[o][n + 1].from = row[o] /\ trail'[o][n + 1].to = row'[o]
      BY <2>1, <2>3, EditedTrail
    <3>2. n \in DOMAIN trail[o] => trail[o][n].to = row[o]
      BY <1>1
    <3>3. Len(trail'[o]) = n + 1
      BY <1>3, <3>1
    <3> HIDE DEF n
    <3>4. ASSUME NEW k \in DOMAIN trail'[o], k + 1 \in DOMAIN trail'[o]
          PROVE  \/ trail'[o][k].to = trail'[o][k + 1].from
                 \/ {trail'[o][k].by, trail'[o][k + 1].by} \in met'
      <4>1. CASE k = n
        <5>1. n \in DOMAIN trail[o] /\ trail'[o][k] = trail[o][n] /\ k + 1 = n + 1
          BY <3>1, <3>4, <4>1
        <5> QED  BY <3>1, <3>2, <5>1
      <4>2. CASE k # n
        <5>1. k \in DOMAIN trail[o] /\ k + 1 \in DOMAIN trail[o]
          BY <3>1, <3>4, <4>2
        <5>2. trail'[o][k] = trail[o][k] /\ trail'[o][k + 1] = trail[o][k + 1]
          BY <3>1, <5>1
        <5> QED  BY <1>2, <5>1, <5>2
      <4> QED  BY <4>1, <4>2
    <3> QED  BY <3>1, <3>3, <3>4
  <2> QED  BY <2>2, <2>3
<1>7. ASSUME NEW h \in Handlers, Committed(h), NEW o \in 0..NumDrafts PROVE After(o)
  <2>1. CASE req[h].path[o] = << >>
    <3>1. /\ row'[o] = row[o] /\ Len(trail'[o]) = Len(trail[o])
          /\ \A k \in DOMAIN trail[o] : trail'[o][k] = trail[o][k]
      BY <1>7, <2>1, CommittedLast
    <3> QED  BY <1>4, <3>1
  <2>2. CASE req[h].path[o] # << >>
    <3> DEFINE n == Len(trail[o])
               p == req[h].path[o]
               u == trail'[o]
               c == req[h].copy[o]
    <3>1. /\ Len(u) \in DOMAIN u /\ met' = met /\ u[Len(u)].to = row'[o]
      BY <1>7, <2>2, CommittedLast
    <3>2. /\ n \in Nat /\ Len(p) \in Nat /\ DOMAIN trail[o] = 1..n /\ DOMAIN p = 1..Len(p)
          /\ DOMAIN u = 1..(n + Len(p))
          /\ \A k \in DOMAIN trail[o] : u[k] = trail[o][k]
      BY <1>7, CommittedTrail
    <3>3. \A j \in DOMAIN p : /\ u[n + j].from = Was(req[h], o, j)
                              /\ u[n + j].to = p[j] /\ u[n + j].by = req[h].no
      BY <1>7, CommittedTrail
    <3>4. \A j \in DOMAIN p : Was(req[h], o, j) = IF j = 1 THEN c ELSE p[j - 1]
      BY DEF Was
    <3>5. h \in Active /\ c # "none"
      <4>1. h \in Active /\ WellFormed(req[h])
        BY <1>7, ActiveType DEF Committed, ShapeInv
      <4> QED  BY <2>2, <4>1 DEF WellFormed
    <3>6. n \in DOMAIN trail[o] => c = trail[o][n].to \/ {trail[o][n].by, req[h].no} \in met
      BY <1>1, <3>5 DEF CopyInv, MetLast, Met
    <3>7. \A k \in DOMAIN trail[o] : k + 1 \in DOMAIN trail[o] =>
            \/ trail[o][k].to = trail[o][k + 1].from
            \/ {trail[o][k].by, trail[o][k + 1].by} \in met'
      BY <1>2
    <3> DEFINE t == trail[o]
    <3> HIDE DEF n, p, u, c, t
    <3>8. ASSUME NEW k \in DOMAIN u, k + 1 \in DOMAIN u
          PROVE  u[k].to = u[k + 1].from \/ {u[k].by, u[k + 1].by} \in met'
      <4>1. CASE k < n
        <5>1. k \in DOMAIN trail[o] /\ k + 1 \in DOMAIN trail[o]
          BY <3>2, <3>8, <4>1
        <5>2. u[k] = trail[o][k] /\ u[k + 1] = trail[o][k + 1]
          BY <3>2, <5>1
        <5> QED  BY <3>7, <5>1, <5>2
      <4>2. CASE k = n
        <5>1. n \in DOMAIN trail[o] /\ 1 \in DOMAIN p
          BY <3>2, <3>8, <4>2
        <5>2. u[n] = trail[o][n] /\ u[n + 1].from = c /\ u[n + 1].by = req[h].no
          BY <3>2, <3>3, <3>4, <5>1
        <5> QED  BY <3>1, <3>6, <4>2, <5>1, <5>2
      <4>3. CASE k > n
        <5> DEFINE j == k - n
        <5>1. /\ j \in DOMAIN p /\ j + 1 \in DOMAIN p /\ n + j = k /\ n + (j + 1) = k + 1
              /\ j + 1 # 1 /\ (j + 1) - 1 = j
          BY <3>2, <3>8, <4>3
        <5> HIDE DEF j
        <5>2. u[k].to = p[j]
          BY <3>3, <5>1
        <5>3. u[k + 1].from = Was(req[h], o, j + 1)
          BY <3>3, <5>1
        <5> QED  BY <3>4, <5>1, <5>2, <5>3
      <4> QED  BY <3>2, <3>8, <4>1, <4>2, <4>3
    <3> QED  BY <3>1, <3>8 DEF u
  <2> QED  BY <2>1, <2>2
<1>8. ASSUME NEW h \in Handlers, Begins(h) \/ Continues(h) \/ Ends(h) \/ Handed(h),
             NEW o \in 0..NumDrafts
      PROVE  After(o)
  <2>1. row' = row /\ trail' = trail
    BY <1>8 DEF Begins, Continues, Ends, Handed
  <2> QED  BY <1>4, <2>1
<1> HIDE DEF After, Hangs
<1> QED
  BY ZenonT(60), <1>5, <1>6, <1>7, <1>8, <1>9
  DEF Step, BegunOther, BegunDecision, BegunSend, Moved, Walked, Enqueued, Undone

-----------------------------------------------------------------------------
(* Rejections *)

\* Of a rejection: a draft it has rejected, as its session sees it.
Rejects(r) == \E d \in Drafts : r.path[d] # << >> /\ r.path[d][Len(r.path[d])] = "rejected"
Rejecter(r) ==
  /\ r.pc = "lock" /\ r.then = "workspace" =>
       /\ r.copy[Workspace] = "none" /\ r.path[Workspace] = << >>
       /\ \A k \in DOMAIN r.todo :
            /\ r.todo[k].row # Workspace
            /\ r.todo[k].row \in Drafts => r.todo[k].to = "rejected"
       /\ Rejects(r) \/ r.todo[1].row \in Drafts
  /\ r.pc = "workspace" =>
       Rejects(r) /\ r.copy[Workspace] = "none" /\ r.path[Workspace] = << >>

\* A rejection comes to the workspace with a draft rejected, and the workspace not loaded.
RejectInv == \A h \in Active : req[h].kind = "rejected" => Rejecter(req[h])

LEMMA RejectMoved ==
  ASSUME ShapeInv, NEW h \in Handlers, Moved(h), Rejecter(req[h])
  PROVE  Rejecter(req'[h])
<1> DEFINE r == req[h]
           q == req'[h]
           m == Now(h)
<1>1. /\ h \in Active /\ r.pc = "lock" /\ m \in Moves
      /\ q.todo = Tail(r.todo) /\ q.then = r.then /\ q.pc \in {r.then, "lock"}
      /\ \A o \in 0..Gate :
           /\ q.path[o] = IF o = m.row THEN Append(r.path[o], m.to) ELSE r.path[o]
           /\ q.copy[o] = IF o = m.row /\ r.copy[o] = "none" THEN row[o] ELSE r.copy[o]
  BY DEF Moved, Continues
<1>2. WellFormed(r)
  BY <1>1, ActiveType DEF ShapeInv
<1>3. /\ r.todo \in Seq(Moves) /\ r.todo # << >> /\ r.then # "lock"
      /\ \A o \in 0..Gate : r.path[o] \in Seq(States(o))
  BY <1>1, <1>2 DEF WellFormed, Tx
<1> DEFINE t == r.todo
<1>4. m = t[1] /\ 1 \in DOMAIN t /\ \A k \in DOMAIN Tail(t) : k + 1 \in DOMAIN t /\ Tail(t)[k] = t[k + 1]
  <2>1. m = Head(t) /\ t \in Seq(Moves) /\ t # << >>
    BY <1>3 DEF Now
  <2> HIDE DEF t, m
  <2>2. Len(t) \in Nat /\ Len(t) # 0 /\ DOMAIN t = 1..Len(t)
    BY <2>1, SeqEnd
  <2> QED  BY <2>1, <2>2
<1>5. CASE r.then = "workspace"
  <2>1. /\ r.copy[Workspace] = "none" /\ r.path[Workspace] = << >>
        /\ \A k \in DOMAIN t : t[k].row # Workspace /\ (t[k].row \in Drafts => t[k].to = "rejected")
        /\ Rejects(r) \/ m.row \in Drafts
    BY <1>1, <1>4, <1>5 DEF Rejecter
  <2>2. q.copy[Workspace] = "none" /\ q.path[Workspace] = << >>
    BY <1>1, <1>4, <2>1, RowsDiffer
  <2>3. \A k \in DOMAIN q.todo :
          q.todo[k].row # Workspace /\ (q.todo[k].row \in Drafts => q.todo[k].to = "rejected")
    BY <1>1, <1>4, <2>1
  <2>4. Rejects(q)
    <3>1. CASE m.row \in Drafts
      <4> DEFINE d == m.row
                 p == r.path[d]
      <4>1. d \in Drafts /\ d \in 0..Gate /\ p \in Seq(States(d)) /\ m.to = "rejected"
        BY <1>3, <1>4, <2>1, <3>1, RowsDiffer
      <4>2. m.to \in States(d)
        BY <1>1 DEF Moves
      <4>3. q.path[d] = Append(p, m.to)
        BY <1>1, <4>1
      <4> HIDE DEF p, d
      <4>4. /\ Append(p, m.to) \in Seq(States(d)) /\ Len(Append(p, m.to)) = Len(p) + 1
            /\ Append(p, m.to)[Len(p) + 1] = m.to /\ Len(p) \in Nat
        BY <4>1, <4>2, AppendProperties
      <4>5. Append(p, m.to) # << >>
        <5> DEFINE a == Append(p, m.to)
        <5>1. a \in Seq(States(d)) /\ Len(a) # 0
          BY <4>4
        <5> HIDE DEF a
        <5>2. a # << >>
          BY <5>1, SeqEnd
        <5> QED  BY <5>2 DEF a
      <4> QED  BY <4>1, <4>3, <4>4, <4>5 DEF Rejects
    <3>2. CASE m.row \notin Drafts
      <4>1. PICK d \in Drafts : r.path[d] # << >> /\ r.path[d][Len(r.path[d])] = "rejected"
        BY <2>1, <3>2 DEF Rejects
      <4>2. q.path[d] = r.path[d]
        BY <1>1, <3>2, <4>1, RowsDiffer
      <4> QED  BY <4>1, <4>2 DEF Rejects
    <3> QED  BY <3>1, <3>2
  <2> QED  BY <2>2, <2>3, <2>4 DEF Rejecter
<1>6. CASE r.then # "workspace"
  BY <1>1, <1>6 DEF Rejecter
<1> QED  BY <1>5, <1>6

LEMMA RejectKept ==
  ASSUME ShapeInv, ShapeInv', Step, RejectInv
  PROVE  RejectInv'
<1>1. ASSUME NEW h \in Handlers, h \in Active', req'[h].kind = "rejected",
             \/ BegunOther(h) \/ BegunDecision(h) \/ BegunSend(h)
             \/ Moved(h) \/ Walked(h) \/ Enqueued(h) \/ Handed(h) \/ Committed(h) \/ Undone(h)
      PROVE  Rejecter(req'[h])
  <2>1. CASE BegunOther(h) \/ BegunSend(h)
    BY <1>1, <2>1 DEF BegunOther, BegunSend
  <2>2. CASE BegunDecision(h)
    <3>1. req'[h].path[Workspace] = << >>
      BY <2>2, RowsDiffer DEF BegunDecision, Begins
    <3>2. DraftStatus["rejected"] = "rejected"
      BY DEF DraftStatus
    <3> QED  BY <1>1, <2>2, <3>1, <3>2 DEF BegunDecision, Rejecter
  <2>3. CASE Moved(h)
    <3>1. h \in Active /\ req[h].kind = "rejected"
      BY <1>1, <2>3 DEF Moved, Continues
    <3> QED  BY <2>3, <3>1, RejectMoved DEF RejectInv
  <2>4. CASE Walked(h)
    BY <2>4 DEF Walked, Rejecter
  <2>5. CASE Enqueued(h)
    BY <2>5 DEF Enqueued, Rejecter
  <2>6. CASE Handed(h) \/ Committed(h) \/ Undone(h)
    BY ZenonT(60), <1>1, <2>6 DEF Handed, Committed, Undone, Ends
  <2> QED  BY <1>1, <2>1, <2>2, <2>3, <2>4, <2>5, <2>6
<1>2. Active' \subseteq Handlers
  BY DEF Active
<1> QED  BY <1>1, <1>2, OneActs DEF RejectInv, Rejecter, Rejects

LEMMA RejectionFollows ==
  ASSUME ShapeInv, RejectInv
  PROVE  RejectionGoesThrough
<1> SUFFICES ASSUME NEW h \in Handlers, At(h, "workspace"), req[h].kind = "rejected",
                    row[Workspace] # "all_content_approved"
             PROVE  CanWalk(h, View(h, Workspace), Aim(h))
  BY DEF RejectionGoesThrough
<1>1. h \in Active /\ req[h].pc = "workspace" /\ RowsInv /\ ReqInv
  BY DEF At, Active, ShapeInv
<1>2. WellFormed(req[h])
  BY <1>1, ActiveType
<1>3. req[h].copy[Workspace] = "none" /\ req[h].path[Workspace] = << >> /\ Rejects(req[h])
  BY <1>1 DEF RejectInv, Rejecter
<1>4. PICK d \in Drafts : req[h].path[d] # << >> /\ req[h].path[d][Len(req[h].path[d])] = "rejected"
  BY <1>3 DEF Rejects
<1>5. row[d] # "none" /\ d \in 0..Gate /\ d \in 0..NumDrafts
  BY <1>2, <1>4, RowsDiffer DEF WellFormed
<1>6. View(h, d) = "rejected" /\ d \in Existing
  BY <1>1, <1>4, <1>5, ViewType DEF Existing
<1>7. Aim(h) = "revision_needed"
  <2> DEFINE S == {View(h, c) : c \in Existing}
  <2>1. "rejected" \in S
    BY <1>6
  <2> HIDE DEF S
  <2>2. Target(S) = "revision_needed"
    BY <2>1, TargetType
  <2> QED  BY <2>2 DEF S, Aim
<1>8. View(h, Workspace) = row[Workspace] /\ row[Workspace] \in WorkspaceStates
  <2>1. row[Workspace] # "none" /\ row[Workspace] \in States(Workspace) \cup {"none"}
    BY <1>1, RowsDiffer DEF RowsInv
  <2> QED  BY <1>1, <1>3, <2>1, ViewType, StatesType, RowsDiffer
<1>9. Reachable(row[Workspace], "revision_needed")
  BY <1>8, RevisionIsReachable
<1> QED  BY <1>7, <1>8, <1>9 DEF CanWalk

-----------------------------------------------------------------------------
(* Sends *)

\* Audit rows stay, and are added by an edit or a commit.
LEMMA TrailStays ==
  ASSUME ShapeInv, ShapeInv', Step, NEW o \in 0..NumDrafts
  PROVE  /\ DOMAIN trail[o] \subseteq DOMAIN trail'[o]
         /\ \A k \in DOMAIN trail[o] : trail'[o][k] = trail[o][k]
         /\ \A k \in DOMAIN trail'[o] :
              \/ k \in DOMAIN trail[o]
              \/ trail'[o][k].by = begun + 1
              \/ \E h \in Handlers : Committed(h) /\ trail'[o][k].by = req[h].no
<1> DEFINE C == /\ DOMAIN trail[o] \subseteq DOMAIN trail'[o]
                /\ \A k \in DOMAIN trail[o] : trail'[o][k] = trail[o][k]
                /\ \A k \in DOMAIN trail'[o] :
                     \/ k \in DOMAIN trail[o]
                     \/ trail'[o][k].by = begun + 1
                     \/ \E h \in Handlers : Committed(h) /\ trail'[o][k].by = req[h].no
<1>1. ASSUME trail'[o] = trail[o] PROVE C
  BY <1>1
<1>2. ASSUME NEW d \in Drafts, Edited(d) PROVE C
  <2>1. CASE o = d
    <3>1. /\ Len(trail[o]) \in Nat /\ DOMAIN trail[o] = 1..Len(trail[o])
          /\ DOMAIN trail'[o] = 1..(Len(trail[o]) + 1)
          /\ trail'[o][Len(trail[o]) + 1].by = begun + 1
      BY <1>2, <2>1, EditedTrail
    <3>2. \A k \in DOMAIN trail[o] : trail'[o][k] = trail[o][k]
      BY <1>2, <2>1, EditedTrail
    <3>3. \A k \in DOMAIN trail'[o] : k \in DOMAIN trail[o] \/ k = Len(trail[o]) + 1
      BY <3>1
    <3>4. DOMAIN trail[o] \subseteq DOMAIN trail'[o]
      BY <3>1
    <3> QED  BY <3>1, <3>2, <3>3, <3>4
  <2>2. CASE o # d
    BY <1>1, <1>2, <2>2, EditedTrail
  <2> QED  BY <2>1, <2>2
<1>3. ASSUME NEW h \in Handlers, Committed(h) PROVE C
  <2>1. DOMAIN trail[o] \subseteq DOMAIN trail'[o]
        /\ \A k \in DOMAIN trail[o] : trail'[o][k] = trail[o][k]
    BY <1>3, CommittedTrail
  <2>2. \A k \in DOMAIN trail'[o] : k \in DOMAIN trail[o] \/ trail'[o][k].by = req[h].no
    BY <1>3, CommittedEntry
  <2> QED  BY <1>3, <2>1, <2>2
<1>4. ASSUME Aside \/ \E h \in Handlers : Begins(h) \/ Continues(h) \/ Ends(h) \/ Handed(h)
      PROVE  trail' = trail
  BY <1>4 DEF Aside, Begins, Continues, Ends, Handed
<1> HIDE DEF C
<1>5. C
  BY ZenonT(60), <1>1, <1>2, <1>3, <1>4
  DEF Step, BegunOther, BegunDecision, BegunSend, Moved, Walked, Enqueued, Undone
<1> QED  BY <1>5 DEF C

\* The status of a send is changed by the commit of one who has handed it over.
LEMMA StatusStays ==
  ASSUME ShapeInv, ShapeInv', SenderInv, AddedInv, Step, NEW s \in DOMAIN sends
  PROVE  \/ sends'[s].status = sends[s].status
         \/ /\ sends'[s].status \in {"sent", "simulated"}
            /\ \E h \in Handlers : Committed(h) /\ req[h].kind = "send" /\ req[h].subject = s
<1>1. ASSUME NEW h \in Handlers, Committed(h)
      PROVE  \/ sends'[s].status = sends[s].status
             \/ /\ sends'[s].status \in {"sent", "simulated"}
                /\ req[h].kind = "send" /\ req[h].subject = s
  <2>1. sends'[s].status = IF req[h].kind = "send" /\ s = req[h].subject
                           THEN Head(req[h].added) ELSE sends[s].status
    BY <1>1, CommittedSends
  <2>2. h \in Active /\ req[h].pc = "commit"
    BY <1>1 DEF Committed
  <2>3. req[h].kind = "send" => req[h].added \in {<<"sent">>, <<"simulated">>}
    BY <2>2 DEF SenderInv
  <2> QED  BY <2>1, <2>3
<1>2. ASSUME NEW h \in Handlers, Handed(h) PROVE sends'[s].status = sends[s].status
  BY <1>2 DEF Handed
<1>3. ASSUME Aside \/ (\E d \in Drafts : Edited(d))
             \/ \E h \in Handlers : Begins(h) \/ Continues(h) \/ Ends(h)
      PROVE  sends' = sends
  BY <1>3 DEF Aside, Edited, Begins, Continues, Ends
<1> QED
  BY ZenonT(60), <1>1, <1>2, <1>3
  DEF Step, BegunOther, BegunDecision, BegunSend, Moved, Walked, Enqueued, Undone

\* A send that is new is one that a decision has added.
LEMMA SendsAdded ==
  ASSUME ShapeInv, ShapeInv', AddedInv, Step, NEW s \in DOMAIN sends', s \notin DOMAIN sends
  PROVE  \E h \in Handlers :
           /\ Committed(h) /\ req[h].kind \in Decisions
           /\ \E k \in DOMAIN req[h].added :
                s = Len(sends) + k /\ sends'[s] = req[h].added[k]
<1>1. ASSUME NEW h \in Handlers, Committed(h)
      PROVE  /\ req[h].kind \in Decisions
             /\ \E k \in DOMAIN req[h].added :
                  s = Len(sends) + k /\ sends'[s] = req[h].added[k]
  <2>1. \A t \in DOMAIN sends' :
          \/ t \in DOMAIN sends
          \/ /\ req[h].kind \in Decisions
             /\ \E k \in DOMAIN req[h].added :
                  t = Len(sends) + k /\ sends'[t] = req[h].added[k]
    BY <1>1, CommittedSends
  <2> QED  BY <2>1
<1>2. ASSUME NEW h \in Handlers, Handed(h) PROVE FALSE
  BY <1>2 DEF Handed
<1>3. ASSUME Aside \/ (\E d \in Drafts : Edited(d))
             \/ \E h \in Handlers : Begins(h) \/ Continues(h) \/ Ends(h)
      PROVE  FALSE
  BY <1>3 DEF Aside, Edited, Begins, Continues, Ends
<1> QED
  BY ZenonT(60), <1>1, <1>2, <1>3
  DEF Step, BegunOther, BegunDecision, BegunSend, Moved, Walked, Enqueued, Undone

\* One commits at a time.
LEMMA OneCommits ==
  ASSUME NEW g \in Handlers, NEW h \in Handlers, Committed(g), Committed(h)
  PROVE  g = h
  BY DEF Committed, Active, At

\* A send that is not skipped is of a draft that its decision has queued to be sent, and of
\* no other send of that decision; and what is sent is not skipped.
SendsInv ==
  /\ \A s \in DOMAIN sends : sends[s].status # "skipped" =>
       \E k \in DOMAIN trail[sends[s].draft] :
         /\ trail[sends[s].draft][k].to = "queued_for_send"
         /\ trail[sends[s].draft][k].by = sends[s].by
  /\ \A s, t \in DOMAIN sends : sends[s].draft = sends[t].draft /\ sends[s].by = sends[t].by => s = t
  /\ \A h \in Active : req[h].kind = "send" => sends[req[h].subject].status # "skipped"

LEMMA SendsKept ==
  ASSUME ShapeInv, ShapeInv', SenderInv, AddedInv, NumbersInv, SendsInv, Step
  PROVE  SendsInv'
<1>1. \A s \in DOMAIN sends :
        sends'[s].status = "skipped" <=> sends[s].status = "skipped"
  <2> SUFFICES ASSUME NEW s \in DOMAIN sends
               PROVE  sends'[s].status = "skipped" <=> sends[s].status = "skipped"
    OBVIOUS
  <2>1. ASSUME NEW h \in Handlers, Committed(h), req[h].kind = "send", req[h].subject = s
        PROVE  sends[s].status # "skipped"
    BY <2>1 DEF Committed, SendsInv
  <2> QED  BY <2>1, StatusStays
<1>2. /\ DOMAIN sends \subseteq DOMAIN sends'
      /\ \A s \in DOMAIN sends : sends'[s].draft = sends[s].draft /\ sends'[s].by = sends[s].by
  BY SendsStay
<1>3. ASSUME NEW h \in Handlers, Committed(h), NEW k \in DOMAIN req[h].added,
             req[h].kind \in Decisions
      PROVE  /\ req[h].added[k].by = req[h].no /\ req[h].added[k].draft \in Drafts
             /\ req[h].added[k].status # "skipped" =>
                  \E l \in DOMAIN req[h].path[req[h].added[k].draft] :
                    req[h].path[req[h].added[k].draft][l] = "queued_for_send"
  <2>1. h \in Active /\ req[h].pc = "commit"
    BY <1>3 DEF Committed
  <2>2. /\ req[h].added \in Seq(Sends) /\ req[h].added[k].by = req[h].no
        /\ req[h].added[k].status # "skipped" =>
             \E l \in DOMAIN req[h].path[req[h].added[k].draft] :
               req[h].path[req[h].added[k].draft][l] = "queued_for_send"
    BY <1>3, <2>1 DEF AddedInv
  <2>3. req[h].added[k] \in Sends
    <3> DEFINE a == req[h].added
    <3>1. a \in Seq(Sends) /\ k \in DOMAIN a
      BY <1>3, <2>2
    <3> HIDE DEF a
    <3>2. a[k] \in Sends
      BY <3>1
    <3> QED  BY <3>2 DEF a
  <2> QED  BY <2>2, <2>3 DEF Sends
<1>4. ASSUME NEW s \in DOMAIN sends', sends'[s].status # "skipped"
      PROVE  \E k \in DOMAIN trail'[sends'[s].draft] :
               /\ trail'[sends'[s].draft][k].to = "queued_for_send"
               /\ trail'[sends'[s].draft][k].by = sends'[s].by
  <2>1. CASE s \in DOMAIN sends
    <3> DEFINE d == sends[s].draft
    <3>1. PICK k \in DOMAIN trail[d] :
            trail[d][k].to = "queued_for_send" /\ trail[d][k].by = sends[s].by
      BY <1>1, <1>4, <2>1 DEF SendsInv
    <3>2. d \in 0..NumDrafts /\ sends'[s].draft = d /\ sends'[s].by = sends[s].by
      BY <1>2, <2>1, SendType
    <3> HIDE DEF d
    <3>3. k \in DOMAIN trail'[d] /\ trail'[d][k] = trail[d][k]
      BY <3>2, TrailStays
    <3> QED  BY <3>1, <3>2, <3>3
  <2>2. CASE s \notin DOMAIN sends
    <3>1. PICK h \in Handlers :
            /\ Committed(h) /\ req[h].kind \in Decisions
            /\ \E k \in DOMAIN req[h].added : sends'[s] = req[h].added[k]
      BY <2>2, SendsAdded
    <3>2. PICK k \in DOMAIN req[h].added : sends'[s] = req[h].added[k]
      BY <3>1
    <3> DEFINE d == req[h].added[k].draft
    <3>3. d \in Drafts /\ req[h].added[k].by = req[h].no
          /\ \E l \in DOMAIN req[h].path[d] : req[h].path[d][l] = "queued_for_send"
      BY <1>3, <1>4, <3>1, <3>2
    <3>4. PICK l \in DOMAIN req[h].path[d] : req[h].path[d][l] = "queued_for_send"
      BY <3>3
    <3>5. sends'[s].draft = d /\ sends'[s].by = req[h].no /\ d \in 0..NumDrafts
      BY <3>2, <3>3, RowsDiffer
    <3> HIDE DEF d
    <3>6. \A j \in DOMAIN req[h].path[d] :
            /\ Len(trail[d]) + j \in DOMAIN trail'[d]
            /\ trail'[d][Len(trail[d]) + j].from = Was(req[h], d, j)
            /\ trail'[d][Len(trail[d]) + j].to = req[h].path[d][j]
            /\ trail'[d][Len(trail[d]) + j].by = req[h].no
      BY <3>1, <3>5, CommittedTrail
    <3> QED  BY <3>4, <3>5, <3>6
  <2> QED  BY <2>1, <2>2
<1>5. ASSUME NEW s \in DOMAIN sends', s \notin DOMAIN sends, NEW t \in DOMAIN sends',
             sends'[s].draft = sends'[t].draft, sends'[s].by = sends'[t].by
      PROVE  s = t
  <2>1. PICK h \in Handlers :
          /\ Committed(h) /\ req[h].kind \in Decisions
          /\ \E k \in DOMAIN req[h].added : s = Len(sends) + k /\ sends'[s] = req[h].added[k]
    BY <1>5, SendsAdded
  <2>2. PICK k \in DOMAIN req[h].added : s = Len(sends) + k /\ sends'[s] = req[h].added[k]
    BY <2>1
  <2>3. sends'[s].by = req[h].no
    BY <1>3, <2>1, <2>2
  <2>4. t \notin DOMAIN sends
    <3>1. h \in Active
      BY <2>1 DEF Committed
    <3> QED  BY <1>2, <1>5, <2>3, <3>1 DEF NumbersInv
  <2>5. PICK l \in DOMAIN req[h].added : t = Len(sends) + l /\ sends'[t] = req[h].added[l]
    BY <2>1, <2>4, SendsAdded, OneCommits
  <2>6. \A i, j \in DOMAIN req[h].added : req[h].added[i].draft = req[h].added[j].draft => i = j
    BY <2>1 DEF Committed, AddedInv
  <2>7. k = l
    BY <1>5, <2>2, <2>5, <2>6
  <2> QED  BY <2>2, <2>5, <2>7
<1>6. \A s, t \in DOMAIN sends' :
        sends'[s].draft = sends'[t].draft /\ sends'[s].by = sends'[t].by => s = t
  <2>1. \A s, t \in DOMAIN sends :
          sends'[s].draft = sends'[t].draft /\ sends'[s].by = sends'[t].by => s = t
    BY <1>2 DEF SendsInv
  <2> QED  BY <1>5, <2>1
<1>7. ASSUME NEW h \in Active', req'[h].kind = "send"
      PROVE  sends'[req'[h].subject].status # "skipped"
  <2>1. CASE h \in Active /\ req[h].kind = "send" /\ req'[h].subject = req[h].subject
    BY <1>1, <2>1 DEF SendsInv, SenderInv
  <2>2. CASE BegunSend(h)
    BY <2>2 DEF BegunSend, Begins
  <2>3. CASE BegunOther(h) \/ BegunDecision(h) \/ Committed(h) \/ Undone(h)
    BY <1>7, <2>3 DEF BegunOther, BegunDecision, Committed, Undone, Ends, Decisions
  <2>4. CASE Moved(h) \/ Walked(h) \/ Enqueued(h)
    BY <1>7, <2>1, <2>4 DEF Moved, Walked, Enqueued, Continues
  <2>5. CASE Handed(h)
    BY <1>7, <2>1, <2>5 DEF Handed
  <2> QED  BY <1>7, <2>1, <2>2, <2>3, <2>4, <2>5, OneActs
<1> QED  BY <1>4, <1>6, <1>7 DEF SendsInv

\* The audit rows of a draft, unless two of its transactions overlapped: what is queued to be
\* sent is only sent then, and that is the last of it.
LEMMA LateMoves ==
  ASSUME ShapeInv, TrailBreaksByOverlap, NEW d \in Drafts, Clean(d), NEW k \in DOMAIN trail[d]
  PROVE  /\ trail[d][k].to = "queued_for_send" /\ k + 1 \in DOMAIN trail[d] =>
              trail[d][k + 1].to = "sent"
         /\ trail[d][k].to = "sent" => k + 1 \notin DOMAIN trail[d]
<1> SUFFICES ASSUME k + 1 \in DOMAIN trail[d]
             PROVE  /\ trail[d][k].to = "queued_for_send" => trail[d][k + 1].to = "sent"
                    /\ trail[d][k].to # "sent"
  OBVIOUS
<1> DEFINE l == k + 1
<1>1. l \in DOMAIN trail[d] /\ d \in 0..NumDrafts
  BY RowsDiffer
<1>2. trail[d][k].to = trail[d][l].from
  <2>1. \/ trail[d][k].to = trail[d][k + 1].from
        \/ {trail[d][k].by, trail[d][k + 1].by} \in met
    BY <1>1, BreaksAre
  <2>2. ~Met(trail[d][k].by, trail[d][l].by)
    BY <1>1 DEF Clean
  <2> QED  BY <2>1, <2>2 DEF Met
<1> HIDE DEF l
<1>3. Legal(d, trail[d][l].from, trail[d][l].to) /\ trail[d][l].from \in DraftStates
  BY <1>1 DEF ShapeInv, TrailTyped
<1>4. /\ trail[d][l].from = "queued_for_send" => trail[d][l].to = "sent"
      /\ trail[d][l].from # "sent"
  BY <1>3, DraftMoves
<1> QED  BY <1>2, <1>4 DEF l

\* A draft that was queued to be sent is queued, or sent.
LEMMA QueuedIsLate ==
  ASSUME ShapeInv, TrailBreaksByOverlap, NEW d \in Drafts, Clean(d),
         NEW k \in DOMAIN trail[d], trail[d][k].to = "queued_for_send"
  PROVE  /\ row[d] \in {"queued_for_send", "sent"}
         /\ Len(trail[d]) \in DOMAIN trail[d] /\ trail[d][Len(trail[d])].to = row[d]
         /\ \A l \in DOMAIN trail[d] : trail[d][l].to = "queued_for_send" => l = k
<1> DEFINE n == Len(trail[d])
<1>1. n \in Nat /\ DOMAIN trail[d] = 1..n /\ d \in 0..NumDrafts
  <2>1. trail[d] \in Seq(Audits)
    BY RowsDiffer DEF ShapeInv, TrailTyped
  <2> QED  BY <2>1, SeqEnd, RowsDiffer
<1>2. n \in DOMAIN trail[d] => trail[d][n].to = row[d]
  BY <1>1, BreaksAre
<1>3. \A l \in DOMAIN trail[d] :
        /\ trail[d][l].to = "queued_for_send" /\ l + 1 \in DOMAIN trail[d] =>
             trail[d][l + 1].to = "sent"
        /\ trail[d][l].to = "sent" => l + 1 \notin DOMAIN trail[d]
  BY LateMoves
<1> HIDE DEF n
<1>4. \A l \in DOMAIN trail[d] : trail[d][l].to = "queued_for_send" =>
        l = n \/ (l + 1 = n /\ trail[d][n].to = "sent")
  <2> SUFFICES ASSUME NEW l \in DOMAIN trail[d], trail[d][l].to = "queued_for_send", l # n
               PROVE  l + 1 = n /\ trail[d][n].to = "sent"
    OBVIOUS
  <2> DEFINE m == l + 1
  <2>1. m \in DOMAIN trail[d] /\ trail[d][m].to = "sent"
    BY <1>1, <1>3
  <2>2. m + 1 \notin DOMAIN trail[d]
    BY <1>3, <2>1
  <2>3. m = n
    BY <1>1, <2>1, <2>2
  <2> QED  BY <2>1, <2>3
<1>5. n \in DOMAIN trail[d]
  BY <1>1
<1>6. \A l \in DOMAIN trail[d] : trail[d][l].to = "queued_for_send" => l = k
  <2> SUFFICES ASSUME NEW l \in DOMAIN trail[d], trail[d][l].to = "queued_for_send"
               PROVE  l = k
    OBVIOUS
  <2>1. /\ l = n \/ (l + 1 = n /\ trail[d][n].to = "sent")
        /\ k = n \/ (k + 1 = n /\ trail[d][n].to = "sent")
    BY <1>4
  <2>2. trail[d][n].to = "sent" => l # n /\ k # n
    OBVIOUS
  <2> QED  BY <1>1, <2>1, <2>2
<1> QED  BY <1>2, <1>4, <1>5, <1>6 DEF n

LEMMA QueuedOnceFollows ==
  ASSUME ShapeInv, TrailBreaksByOverlap, SendsInv
  PROVE  QueuedOnce
<1> SUFFICES ASSUME NEW d \in Drafts, Clean(d)
             PROVE  Cardinality({s \in DOMAIN sends : sends[s].draft = d /\ sends[s].status # "skipped"}) <= 1
  BY DEF QueuedOnce
<1> DEFINE Q == {s \in DOMAIN sends : sends[s].draft = d /\ sends[s].status # "skipped"}
<1>1. \A s, t \in Q : s = t
  <2> SUFFICES ASSUME NEW s \in DOMAIN sends, sends[s].draft = d, sends[s].status # "skipped",
                      NEW t \in DOMAIN sends, sends[t].draft = d, sends[t].status # "skipped"
               PROVE  s = t
    OBVIOUS
  <2>1. PICK k \in DOMAIN trail[d] :
          trail[d][k].to = "queued_for_send" /\ trail[d][k].by = sends[s].by
    BY DEF SendsInv
  <2>2. PICK l \in DOMAIN trail[d] :
          trail[d][l].to = "queued_for_send" /\ trail[d][l].by = sends[t].by
    BY DEF SendsInv
  <2>3. k = l
    BY <2>1, <2>2, QueuedIsLate
  <2> QED  BY <2>1, <2>2, <2>3 DEF SendsInv
<1>2. Q = {} \/ \E s : Q = {s}
  <2> HIDE DEF Q
  <2> QED  BY <1>1
<1>3. Cardinality(Q) \in {0, 1}
  <2> HIDE DEF Q
  <2> QED  BY ZenonT(60), <1>2, FS_EmptySet, FS_Singleton
<1> QED  BY <1>3

\* What a step hands over, it hands over to a send that it is about.
LEMMA HandedStep ==
  ASSUME ShapeInv, ShapeInv', AddedInv, Step, NEW s \in DOMAIN sends
  PROVE  \/ sends'[s].handed = sends[s].handed
         \/ \E h \in Handlers : /\ Handed(h) /\ req[h].subject = s
                                /\ sends'[s].handed = Append(sends[s].handed, req[h].no)
<1>1. ASSUME NEW h \in Handlers, Committed(h) PROVE sends'[s].handed = sends[s].handed
  BY <1>1, CommittedSends
<1>2. ASSUME NEW h \in Handlers, Handed(h)
      PROVE  \/ sends'[s].handed = sends[s].handed
             \/ req[h].subject = s /\ sends'[s].handed = Append(sends[s].handed, req[h].no)
  BY <1>2 DEF Handed
<1>3. ASSUME Aside \/ (\E d \in Drafts : Edited(d))
             \/ \E h \in Handlers : Begins(h) \/ Continues(h) \/ Ends(h)
      PROVE  sends' = sends
  BY <1>3 DEF Aside, Edited, Begins, Continues, Ends
<1> QED
  BY ZenonT(60), <1>1, <1>2, <1>3
  DEF Step, BegunOther, BegunDecision, BegunSend, Moved, Walked, Enqueued, Undone

LEMMA MailedFollows ==
  ASSUME ShapeInv, ShapeInv', AddedInv, SendsInv, TrailBreaksByOverlap, Step,
         NEW s \in DOMAIN sends, sends'[s].handed # sends[s].handed, Clean(sends[s].draft)
  PROVE  row[sends[s].draft] \in {"queued_for_send", "sent"}
<1>1. PICK h \in Handlers : Handed(h) /\ req[h].subject = s
  BY HandedStep
<1>2. sends[s].status # "skipped"
  BY <1>1 DEF Handed, SendsInv
<1> DEFINE d == sends[s].draft
<1>3. d \in Drafts
  BY SendType
<1>4. PICK k \in DOMAIN trail[d] : trail[d][k].to = "queued_for_send"
  BY <1>2 DEF SendsInv
<1> HIDE DEF d
<1>5. row[d] \in {"queued_for_send", "sent"}
  <2>1. Clean(d)
    BY DEF d
  <2> QED  BY <1>3, <1>4, <2>1, QueuedIsLate
<1> QED  BY <1>5 DEF d

-----------------------------------------------------------------------------
(* What was handed over *)

LEMMA AppendSet ==
  ASSUME NEW S, NEW t \in Seq(S), NEW x \in S
  PROVE  /\ ToSet(Append(t, x)) = ToSet(t) \cup {x}
         /\ Len(Append(t, x)) = Len(t) + 1 /\ Len(t) \in Nat
<1> DEFINE u == Append(t, x)
<1>1. /\ u \in Seq(S) /\ Len(u) = Len(t) + 1 /\ u[Len(t) + 1] = x
      /\ \A k \in 1..Len(t) : u[k] = t[k]
  BY AppendProperties
<1>2. Len(t) \in Nat /\ DOMAIN t = 1..Len(t) /\ DOMAIN u = 1..(Len(t) + 1)
  <2>1. DOMAIN u = 1..Len(u) /\ DOMAIN t = 1..Len(t) /\ Len(t) \in Nat
    BY <1>1
  <2> QED  BY <1>1, <2>1
<1> HIDE DEF u
<1>3. ASSUME NEW y \in ToSet(u) PROVE y \in ToSet(t) \cup {x}
  <2>1. PICK k \in DOMAIN u : y = u[k]
    BY <1>3 DEF ToSet
  <2>2. k \in DOMAIN t \/ k = Len(t) + 1
    BY <1>2
  <2>3. CASE k \in DOMAIN t
    BY <1>1, <1>2, <2>1, <2>3 DEF ToSet
  <2> QED  BY <1>1, <2>1, <2>2, <2>3
<1>4. ASSUME NEW y \in ToSet(t) \cup {x} PROVE y \in ToSet(u)
  <2>1. CASE y = x
    <3>1. Len(t) + 1 \in DOMAIN u
      BY <1>2
    <3> QED  BY <1>1, <2>1, <3>1 DEF ToSet
  <2>2. CASE y \in ToSet(t)
    <3>1. PICK k \in DOMAIN t : y = t[k]
      BY <2>2 DEF ToSet
    <3>2. k \in DOMAIN u /\ u[k] = y
      BY <1>1, <1>2, <3>1
    <3> QED  BY <3>2 DEF ToSet
  <2> QED  BY <1>4, <2>1, <2>2
<1> QED  BY <1>1, <1>2, <1>3, <1>4 DEF u

\* Who has handed over a send.
By(s) == ToSet(sends[s].handed)

LEMMA HandedMore ==
  ASSUME ShapeInv, ShapeInv', AddedInv, NumbersInv, Step, NEW s \in DOMAIN sends
  PROVE  /\ Len(sends[s].handed) \in Nat /\ By(s) \subseteq Numbers /\ By(s) \subseteq By(s)'
         /\ \/ sends'[s].handed = sends[s].handed /\ By(s)' = By(s)
            \/ \E h \in Handlers : /\ Handed(h) /\ req[h].subject = s
                                   /\ By(s)' = By(s) \cup {req[h].no}
                                   /\ Len(sends'[s].handed) = Len(sends[s].handed) + 1
<1>1. sends[s].handed \in Seq(Numbers)
  BY DEF NumbersInv
<1>2. Len(sends[s].handed) \in Nat /\ By(s) \subseteq Numbers
  BY <1>1 DEF By, ToSet
<1>3. CASE sends'[s].handed = sends[s].handed
  BY <1>2, <1>3 DEF By
<1>4. CASE sends'[s].handed # sends[s].handed
  <2>1. PICK h \in Handlers : /\ Handed(h) /\ req[h].subject = s
                              /\ sends'[s].handed = Append(sends[s].handed, req[h].no)
    BY <1>4, HandedStep
  <2>2. req[h].no \in Numbers
    BY <2>1 DEF Handed, NumbersInv
  <2>3. By(s)' = By(s) \cup {req[h].no} /\ Len(sends'[s].handed) = Len(sends[s].handed) + 1
    BY <1>1, <2>1, <2>2, AppendSet DEF By
  <2> QED  BY <1>2, <2>1, <2>3
<1> QED  BY <1>3, <1>4

\* Of one who leaves and has handed something over, nothing is forgotten.
LEMMA LeavesRemembered ==
  ASSUME Step, NEW h \in Active, h \notin Active', NEW s \in DOMAIN sends, req[h].no \in By(s)
  PROVE  met' = met
<1>1. h \in Handlers
  BY DEF Active
<1>2. Committed(h) \/ Ends(h)
  <2>1. ASSUME NEW g \in Handlers, Begins(g) \/ Continues(g) \/ Handed(g)
        PROVE  Active \subseteq Active'
    <3>1. \A f \in Handlers : f # g => req'[f] = req[f]
      BY <2>1 DEF Begins, Continues, Handed
    <3>2. Active' \ {g} = Active \ {g}
      BY <3>1, TheOthers
    <3>3. g \in Active => g \in Active'
      BY <2>1 DEF Begins, Continues, Handed
    <3> QED  BY <3>2, <3>3
  <2>2. ASSUME Aside \/ \E d \in Drafts : Edited(d) PROVE Active' = Active
    BY <2>2 DEF Aside, Edited, Active, At
  <2>3. ASSUME NEW g \in Handlers, Committed(g) \/ Ends(g), g # h PROVE h \in Active'
    <3>1. \A f \in Handlers : f # g => req'[f] = req[f]
      BY <2>3 DEF Committed, Ends
    <3> QED  BY <2>3, <3>1, TheOthers
  <2> QED
    BY ZenonT(60), <1>1, <2>1, <2>2, <2>3
    DEF Step, BegunOther, BegunDecision, BegunSend, Moved, Walked, Enqueued, Undone
<1>3. met' \in {met, Forgotten(h)}
  BY <1>2 DEF Committed, Ends
<1> QED  BY <1>3 DEF Forgotten, By

\* So those who have met one who handed something over, have met him still.
LEMMA MetHandedStays ==
  ASSUME ShapeInv, AddedInv, NumbersInv, Step, NEW s \in DOMAIN sends,
         NEW a \in By(s), NEW b \in Numbers, Met(a, b),
         b \in By(s) \/ \A h \in Active : h \notin Active' => b # req[h].no
  PROVE  {a, b} \in met'
<1>1. a \in Numbers
  <2>1. sends[s].handed \in Seq(Numbers)
    BY DEF NumbersInv
  <2>2. By(s) \subseteq Numbers
    BY <2>1 DEF By, ToSet
  <2> QED  BY <2>2
<1>2. CASE \E h \in Active : h \notin Active' /\ (a = req[h].no \/ b = req[h].no)
  <2>1. met' = met
    BY <1>2, LeavesRemembered
  <2> QED  BY <2>1 DEF Met
<1>3. CASE ~\E h \in Active : h \notin Active' /\ (a = req[h].no \/ b = req[h].no)
  BY <1>1, <1>3, MetStays
<1> QED  BY <1>2, <1>3

\* Has handed over send s, and is not done with it.
Holds(h, s) ==
  /\ h \in Active /\ req[h].kind = "send" /\ req[h].subject = s /\ req[h].pc \in {"lock", "commit"}

\* Of those at work, those who have handed a send over hold it.  A send that is not queued any
\* more, and is about to be handed over again, was in the hands of two at a time.  Who has moved
\* a draft has brought what he had handed over to its end.
HandedInv ==
  /\ \A s \in DOMAIN sends : \A h \in Active : req[h].no \in By(s) <=> Holds(h, s)
  /\ \A h \in Active : req[h].kind = "send" =>
       \/ sends[req[h].subject].status = "queued"
       \/ \E n \in By(req[h].subject) : Met(n, req[h].no)
  /\ \A s \in DOMAIN sends : \A d \in Drafts : \A k \in DOMAIN trail[d] :
       trail[d][k].by \in By(s) => sends[s].status # "queued"

\* A send that goes on holds what it held.
LEMMA HoldsStays ==
  ASSUME ShapeInv, ShapeInv', SenderInv, Step, NEW h \in Active, h \in Active', NEW s \in DOMAIN sends
  PROVE  /\ req'[h].no = req[h].no /\ req'[h].kind = req[h].kind /\ req'[h].subject = req[h].subject
         /\ Holds(h, s)' <=> Holds(h, s) \/ (Handed(h) /\ req[h].subject = s)
<1>1. CASE req'[h] = req[h]
  <2>1. ~Handed(h)
    BY <1>1, SMTT(30) DEF Handed
  <2> QED  BY <1>1, <2>1 DEF Holds
<1>2. CASE BegunOther(h) \/ BegunDecision(h) \/ BegunSend(h) \/ Committed(h) \/ Undone(h)
  BY <1>2 DEF BegunOther, BegunDecision, BegunSend, Begins, Committed, Undone, Ends
<1>3. CASE Moved(h) \/ Walked(h) \/ Enqueued(h)
  <2>1. /\ req'[h].no = req[h].no /\ req'[h].kind = req[h].kind /\ req'[h].subject = req[h].subject
        /\ sends' = sends /\ req[h].pc \in {"lock", "workspace", "enqueue"}
    BY <1>3 DEF Moved, Walked, Enqueued, Continues
  <2>2. ~Handed(h)
    BY <2>1 DEF Handed
  <2>3. req[h].kind = "send" => req[h].pc = "lock" /\ req[h].then = "commit"
    BY <2>1 DEF SenderInv
  <2>4. req[h].kind = "send" => req'[h].pc \in {"lock", "commit"}
    BY <1>3, <2>3 DEF Moved, Walked, Enqueued
  <2> QED  BY <2>1, <2>2, <2>3, <2>4 DEF Holds
<1>4. CASE Handed(h)
  <2>1. /\ req'[h].no = req[h].no /\ req'[h].kind = req[h].kind /\ req'[h].subject = req[h].subject
        /\ req[h].kind = "send" /\ req[h].pc = "hand" /\ req'[h].pc \in {"lock", "commit"}
    BY <1>4 DEF Handed
  <2> QED  BY <1>4, <2>1 DEF Holds
<1>5. h \in Handlers
  BY DEF Active
<1> QED  BY <1>1, <1>2, <1>3, <1>4, <1>5, OneActs

\* Nobody has handed over, or holds, a send that is new.
LEMMA NewSends ==
  ASSUME ShapeInv, ShapeInv', SenderInv, AddedInv, Step, NEW s \in DOMAIN sends', s \notin DOMAIN sends
  PROVE  /\ sends'[s].handed = << >> /\ By(s)' = {}
         /\ \A h \in Active' : ~Holds(h, s)'
<1>1. PICK h \in Handlers :
        /\ Committed(h) /\ req[h].kind \in Decisions
        /\ \E k \in DOMAIN req[h].added : sends'[s] = req[h].added[k]
  BY SendsAdded
<1>2. /\ h \in Active /\ h \notin Active' /\ Active' \ {h} = Active \ {h}
      /\ \A g \in Active \ {h} : req'[g] = req[g]
  <2>1. h \in Active /\ h \notin Active' /\ \A g \in Handlers : g # h => req'[g] = req[g]
    BY <1>1 DEF Committed
  <2> QED  BY <2>1, TheOthers
<1>3. sends'[s].handed = << >>
  BY <1>1, <1>2 DEF AddedInv
<1>4. By(s)' = {}
  BY <1>3 DEF By, ToSet
<1>5. ASSUME NEW g \in Active', Holds(g, s)' PROVE FALSE
  <2>1. g \in Active /\ req'[g] = req[g]
    <3>1. g # h /\ g \in Active' \ {h}
      BY <1>2
    <3>2. g \in Active \ {h}
      BY <1>2, <3>1
    <3> QED  BY <1>2, <3>2
  <2>2. req[g].kind = "send" /\ req[g].subject = s
    BY <1>5, <2>1 DEF Holds
  <2> QED  BY <2>1, <2>2 DEF SenderInv
<1> QED  BY <1>3, <1>4, <1>5

LEMMA HandedKept ==
  ASSUME ShapeInv, ShapeInv', SenderInv, SenderInv', AddedInv, NumbersInv, HandedInv, Step
  PROVE  HandedInv'
<1>1. \A h \in Active' : \A s \in DOMAIN sends :
        h \notin Active => ~Holds(h, s)' /\ req'[h].no \notin By(s)'
  <2> SUFFICES ASSUME NEW h \in Active', NEW s \in DOMAIN sends, h \notin Active
               PROVE  ~Holds(h, s)' /\ req'[h].no \notin By(s)'
    OBVIOUS
  <2>1. BegunOther(h) \/ BegunDecision(h) \/ BegunSend(h)
    <3>1. h \in Handlers
      BY DEF Active
    <3> QED  BY ZenonT(60), <3>1, OneActs DEF Moved, Walked, Enqueued, Continues, Handed, Committed, Undone, Ends
  <2>2. ~Holds(h, s)'
    BY <2>1 DEF BegunOther, BegunDecision, BegunSend, Decisions, Holds
  <2>3. req'[h].no = begun + 1 /\ sends' = sends
    BY <2>1 DEF BegunOther, BegunDecision, BegunSend, Begins
  <2>4. begun + 1 \notin Numbers
    BY DEF ShapeInv, Numbers
  <2>5. By(s) \subseteq Numbers /\ By(s)' = By(s)
    <3>1. By(s) \subseteq Numbers
      BY HandedMore
    <3> QED  BY <2>3, <3>1 DEF By
  <2> QED  BY <2>2, <2>3, <2>4, <2>5
<1>2. ASSUME NEW s \in DOMAIN sends, NEW h \in Active, h \in Active'
      PROVE  req'[h].no \in By(s)' <=> Holds(h, s)'
  <2>1. /\ req'[h].no = req[h].no
        /\ Holds(h, s)' <=> Holds(h, s) \/ (Handed(h) /\ req[h].subject = s)
    BY <1>2, HoldsStays
  <2>2. req[h].no \in By(s) <=> Holds(h, s)
    BY DEF HandedInv
  <2>3. CASE By(s)' = By(s) /\ sends'[s].handed = sends[s].handed
    <3>1. ~(Handed(h) /\ req[h].subject = s)
      <4> SUFFICES ASSUME Handed(h), req[h].subject = s PROVE FALSE
        OBVIOUS
      <4>1. sends'[s].handed = Append(sends[s].handed, req[h].no) /\ sends[s].handed \in Seq(Numbers)
            /\ req[h].no \in Numbers
        BY DEF Handed, NumbersInv
      <4>2. Len(sends'[s].handed) = Len(sends[s].handed) + 1 /\ Len(sends[s].handed) \in Nat
        BY <4>1, AppendSet
      <4> QED  BY <2>3, <4>2
    <3> QED  BY <2>1, <2>2, <2>3, <3>1
  <2>4. ASSUME NEW g \in Handlers, Handed(g), req[g].subject = s, By(s)' = By(s) \cup {req[g].no}
        PROVE  req'[h].no \in By(s)' <=> Holds(h, s)'
    <3>1. CASE h = g
      BY <2>1, <2>4, <3>1
    <3>2. CASE h # g
      <4>1. req[h].no # req[g].no
        BY <2>4, <3>2 DEF NumbersInv, Handed
      <4>2. ~Handed(h)
        <5>1. req[g].pc = "hand" /\ req'[g].pc # "hand"
          BY <2>4 DEF Handed
        <5> QED  BY <2>4, <3>2, <5>1 DEF Handed, Active
      <4> QED  BY <2>1, <2>2, <2>4, <4>1, <4>2
    <3> QED  BY <3>1, <3>2
  <2> QED  BY <2>3, <2>4, HandedMore
<1>3. \A s \in DOMAIN sends' : \A h \in Active' : req'[h].no \in By(s)' <=> Holds(h, s)'
  BY <1>1, <1>2, NewSends
<1>4. ASSUME NEW h \in Active', req'[h].kind = "send"
      PROVE  \/ sends'[req'[h].subject].status = "queued"
             \/ \E n \in By(req[h].subject)' : {n, req'[h].no} \in met'
  <2>1. CASE h \in Active
    <3>0. PICK s : s = req[h].subject
      OBVIOUS
    <3>1. /\ req'[h].no = req[h].no /\ req[h].kind = "send" /\ req'[h].subject = s
          /\ s \in DOMAIN sends /\ req[h].no \in Numbers
      <4>1. req'[h].no = req[h].no /\ req'[h].kind = req[h].kind /\ req'[h].subject = req[h].subject
        <5> SUFFICES ASSUME req'[h] # req[h]
                     PROVE  req'[h].no = req[h].no /\ req'[h].kind = req[h].kind
                            /\ req'[h].subject = req[h].subject
          OBVIOUS
        <5>1. h \in Handlers
          BY DEF Active
        <5>2. Moved(h) \/ Walked(h) \/ Enqueued(h) \/ Handed(h)
          BY ZenonT(60), <1>4, <2>1, <5>1, OneActs
          DEF BegunOther, BegunDecision, BegunSend, Begins, Committed, Undone, Ends
        <5> QED  BY ZenonT(60), <5>2 DEF Moved, Walked, Enqueued, Continues, Handed
      <4> QED  BY <1>4, <2>1, <3>0, <4>1 DEF SenderInv, NumbersInv
    <3>2. By(s) \subseteq By(s)' /\ By(s)' = By(req[h].subject)'
      <4>1. By(s) \subseteq By(s)'
        BY <3>1, HandedMore
      <4> QED  BY <3>1, <4>1 DEF By
    <3>3. \A g \in Active : g \notin Active' => req[h].no # req[g].no
      BY <1>4, <2>1 DEF NumbersInv
    <3>4. ASSUME NEW n \in By(s), Met(n, req[h].no)
          PROVE  \E m \in By(req[h].subject)' : {m, req'[h].no} \in met'
      <4> DEFINE b == req[h].no
      <4>1. b \in Numbers /\ Met(n, b) /\ \A g \in Active : g \notin Active' => b # req[g].no
        BY <3>1, <3>3, <3>4
      <4> HIDE DEF b
      <4>2. {n, b} \in met'
        BY <3>1, <4>1, MetHandedStays
      <4> QED  BY <3>1, <3>2, <4>2 DEF b
    <3>5. CASE \E n \in By(s) : Met(n, req[h].no)
      BY <3>4, <3>5
    <3>6. CASE sends[s].status = "queued"
      <4>1. ASSUME NEW g \in Handlers, Committed(g), req[g].kind = "send", req[g].subject = s
            PROVE  \E n \in By(s) : Met(n, req[h].no)
        <5>1. g \in Active /\ req[g].pc = "commit" /\ g # h
          BY <1>4, <4>1 DEF Committed
        <5>2. Holds(g, s)
          BY <4>1, <5>1 DEF Holds
        <5>3. req[g].no \in By(s)
          BY <3>1, <5>1, <5>2 DEF HandedInv
        <5>4. Met(req[g].no, req[h].no)
          BY <2>1, <5>1 DEF NumbersInv
        <5> QED  BY <5>3, <5>4
      <4> QED  BY <3>1, <3>4, <3>6, <4>1, StatusStays
    <3>7. sends[s].status = "queued" \/ \E n \in By(s) : Met(n, req[h].no)
      BY <2>1, <3>0, <3>1 DEF HandedInv
    <3> QED  BY <3>5, <3>6, <3>7
  <2>2. CASE h \notin Active
    <3>1. h \in Handlers
      BY DEF Active
    <3>2. BegunSend(h)
      BY ZenonT(60), <1>4, <2>2, <3>1, OneActs
      DEF BegunOther, BegunDecision, Moved, Walked, Enqueued, Continues, Handed, Committed,
          Undone, Ends, Decisions
    <3> QED  BY <3>2 DEF BegunSend, Begins
  <2> QED  BY <2>1, <2>2
<1>5. ASSUME NEW s \in DOMAIN sends, NEW d \in Drafts, NEW k \in DOMAIN trail'[d],
             trail'[d][k].by \in By(s)'
      PROVE  sends'[s].status # "queued"
  <2>0. d \in 0..NumDrafts
    BY RowsDiffer
  <2>1. sends[s].status # "queued" => sends'[s].status # "queued"
    BY StatusStays
  <2>2. By(s) \subseteq Numbers
    BY HandedMore
  <2>3. CASE k \in DOMAIN trail[d]
    <3>1. trail'[d][k] = trail[d][k] /\ \A h \in Active : trail[d][k].by # req[h].no
      BY <2>0, <2>3, TrailStays DEF NumbersInv
    <3>2. trail[d][k].by \in By(s)
      <4>1. \/ By(s)' = By(s)
            \/ \E h \in Handlers : Handed(h) /\ By(s)' = By(s) \cup {req[h].no}
        BY HandedMore
      <4> QED  BY <1>5, <3>1, <4>1 DEF Handed
    <3> QED  BY <2>1, <2>3, <3>2 DEF HandedInv
  <2>4. CASE trail' = trail
    BY <2>3, <2>4
  <2>5. CASE sends'[s].handed = sends[s].handed
    <3>1. trail'[d][k].by \in By(s)
      BY <1>5, <2>5 DEF By
    <3>2. CASE trail'[d][k].by = begun + 1
      BY <2>2, <3>1, <3>2 DEF ShapeInv, Numbers
    <3>3. ASSUME NEW h \in Handlers, Committed(h), trail'[d][k].by = req[h].no
          PROVE  sends'[s].status # "queued"
      <4>1. h \in Active
        BY <3>3 DEF Committed
      <4>2. Holds(h, s)
        BY <3>1, <3>3, <4>1 DEF HandedInv
      <4>3. req[h].kind = "send" /\ req[h].subject = s /\ req[h].pc = "commit"
        BY <3>3, <4>2 DEF Holds, Committed
      <4>4. sends'[s].status = Head(req[h].added)
        BY <3>3, <4>3, CommittedSends
      <4>5. req[h].added \in {<<"sent">>, <<"simulated">>}
        BY <4>1, <4>3 DEF SenderInv
      <4> QED  BY <4>4, <4>5
    <3> QED  BY <2>0, <2>3, <3>2, <3>3, TrailStays
  <2>6. CASE \E h \in Handlers : Handed(h)
    BY <2>4, <2>6 DEF Handed
  <2> QED  BY <2>5, <2>6, HandedMore
<1>6. \A s \in DOMAIN sends' : \A d \in Drafts : \A k \in DOMAIN trail'[d] :
        trail'[d][k].by \in By(s)' => sends'[s].status # "queued"
  <2>1. \A s \in DOMAIN sends' : s \notin DOMAIN sends => By(s)' = {}
    BY NewSends
  <2> QED  BY <1>5, <2>1
<1> QED  BY <1>3, <1>4, <1>6 DEF HandedInv, Met, By

\* What excuses that a send was handed over more than once.
Excused(s) ==
  \/ \E a, b \in By(s) : Met(a, b)
  \/ \E k \in DOMAIN trail[sends[s].draft] :
       trail[sends[s].draft][k].to = "sent" /\ trail[sends[s].draft][k].by \notin By(s)
  \/ ~Clean(sends[s].draft)

\* A send is handed over no more often than there were faults, and once more when it is not
\* queued any more or is held.  Who is about to move its draft can do so.
CountInv ==
  /\ \A h \in Active : req[h].kind = "send" /\ req[h].pc = "lock" =>
       \/ Excused(req[h].subject)
       \/ req[h].copy[sends[req[h].subject].draft] = "queued_for_send"
  /\ \A s \in DOMAIN sends :
       \/ Excused(s)
       \/ Len(sends[s].handed) <= faults
       \/ /\ Len(sends[s].handed) = faults + 1
          /\ sends[s].status # "queued" \/ \E h \in Handlers : Holds(h, s)

LEMMA ExcusedStays ==
  ASSUME ShapeInv, ShapeInv', AddedInv, NumbersInv, Step, NEW s \in DOMAIN sends, Excused(s)
  PROVE  Excused(s)'
<1> PICK d : d = sends[s].draft
  OBVIOUS
<1>1. d \in 0..NumDrafts /\ sends'[s].draft = d
  BY SendType, SendsStay
<1>2. /\ DOMAIN trail[d] \subseteq DOMAIN trail'[d]
      /\ \A k \in DOMAIN trail[d] : trail'[d][k] = trail[d][k]
  BY <1>1, TrailStays
<1>3. By(s) \subseteq Numbers /\ By(s) \subseteq By(s)'
  BY HandedMore
<1>4. CASE \E a, b \in By(s) : Met(a, b)
  <2>1. PICK a \in By(s), b \in By(s) : Met(a, b)
    BY <1>4
  <2>2. {a, b} \in met'
    BY <1>3, <2>1, MetHandedStays
  <2> QED  BY <1>3, <2>1, <2>2 DEF Excused, Met
<1>5. CASE \E k \in DOMAIN trail[d] : trail[d][k].to = "sent" /\ trail[d][k].by \notin By(s)
  <2>1. PICK k \in DOMAIN trail[d] : trail[d][k].to = "sent" /\ trail[d][k].by \notin By(s)
    BY <1>5
  <2>2. \A h \in Active : trail[d][k].by # req[h].no
    BY <1>1 DEF NumbersInv
  <2>3. trail[d][k].by \notin By(s)'
    <3>1. \/ By(s)' = By(s)
          \/ \E h \in Handlers : Handed(h) /\ By(s)' = By(s) \cup {req[h].no}
      BY HandedMore
    <3> QED  BY <2>1, <2>2, <3>1 DEF Handed
  <2> QED  BY <1>1, <1>2, <2>1, <2>3 DEF Excused
<1>6. CASE ~Clean(d)
  <2>1. PICK k \in DOMAIN trail[d], l \in DOMAIN trail[d] : Met(trail[d][k].by, trail[d][l].by)
    BY <1>6 DEF Clean
  <2>2. {trail[d][k].by, trail[d][l].by} \in met'
    BY <1>1, <2>1, MetBysStay
  <2>3. /\ k \in DOMAIN trail'[d] /\ l \in DOMAIN trail'[d]
        /\ {trail'[d][k].by, trail'[d][l].by} \in met'
    BY <1>2, <2>2
  <2> QED  BY <1>1, <2>3 DEF Excused, Clean, Met
<1> QED  BY <1>4, <1>5, <1>6 DEF Excused

\* A send that hands over has its draft queued to be sent, or else it was not the only one.
LEMMA HandsQueued ==
  ASSUME ShapeInv, ShapeInv', AddedInv, NumbersInv, SendsInv, HandedInv, TrailBreaksByOverlap, Step,
         NEW h \in Handlers, Handed(h), ~Excused(req[h].subject)'
  PROVE  row[sends[req[h].subject].draft] = "queued_for_send"
<1> PICK s : s = req[h].subject
  OBVIOUS
<1> PICK d : d = sends[s].draft
  OBVIOUS
<1>1. /\ h \in Active /\ req[h].kind = "send" /\ s \in DOMAIN sends /\ sends[s].status # "skipped"
      /\ met' = met
  BY DEF Handed, SendsInv
<1>2. d \in Drafts
  BY <1>1, SendType
<1>3. ~Excused(s) /\ ~Excused(s)'
  <2>1. req'[h].subject = s
    BY DEF Handed
  <2>2. ~Excused(s)'
    BY ZenonT(60), <2>1 DEF Excused, By
  <2> QED  BY <1>1, <2>2, ExcusedStays
<1>4. Clean(d)
  BY ZenonT(60), <1>3 DEF Excused
<1>5. PICK k \in DOMAIN trail[d] : trail[d][k].to = "queued_for_send"
  BY <1>1 DEF SendsInv
<1>6. /\ row[d] \in {"queued_for_send", "sent"}
      /\ Len(trail[d]) \in DOMAIN trail[d] /\ trail[d][Len(trail[d])].to = row[d]
  BY <1>2, <1>4, <1>5, QueuedIsLate
<1>7. ASSUME row[d] = "sent" PROVE FALSE
  <2>1. trail[d][Len(trail[d])].by \in By(s)
    BY ZenonT(60), <1>3, <1>6, <1>7 DEF Excused
  <2>2. sends[s].status # "queued"
    BY <1>1, <1>2, <1>6, <2>1 DEF HandedInv
  <2>3. PICK n \in By(s) : Met(n, req[h].no)
    BY <1>1, <2>2 DEF HandedInv
  <2>4. n \in By(s)' /\ req[h].no \in By(s)'
    <3>1. sends[s].handed \in Seq(Numbers) /\ req[h].no \in Numbers
      BY <1>1 DEF NumbersInv
    <3>2. sends'[s].handed = Append(sends[s].handed, req[h].no)
      BY <1>1 DEF Handed
    <3>3. ToSet(sends'[s].handed) = ToSet(sends[s].handed) \cup {req[h].no}
      BY <3>1, <3>2, AppendSet
    <3> QED  BY <3>3 DEF By
  <2> QED  BY ZenonT(60), <1>1, <1>3, <2>3, <2>4 DEF Excused, Met
<1> QED  BY <1>6, <1>7

LEMMA CountKept ==
  ASSUME ShapeInv, ShapeInv', SenderInv, SenderInv', AddedInv, NumbersInv, SendsInv, HandedInv,
         HandedInv', TrailBreaksByOverlap, CountInv, Step
  PROVE  CountInv'
<1>1. ASSUME NEW h \in Active', req'[h].kind = "send", req'[h].pc = "lock"
      PROVE  \/ Excused(req[h].subject)'
             \/ req'[h].copy[sends'[req'[h].subject].draft] = "queued_for_send"
  <2>0. h \in Handlers
    BY DEF Active
  <2>1. CASE h \in Active /\ req'[h] = req[h]
    <3>1. PICK s : s = req[h].subject
      OBVIOUS
    <3>2. s \in DOMAIN sends /\ (Excused(s) \/ req[h].copy[sends[s].draft] = "queued_for_send")
      BY <1>1, <2>1, <3>1 DEF CountInv, SenderInv
    <3>3. Excused(s) => Excused(s)'
      BY <3>2, ExcusedStays
    <3>4. sends'[s].draft = sends[s].draft
      BY <3>2, SendsStay
    <3>5. Excused(s)' => Excused(req[h].subject)'
      BY ZenonT(60), <2>1, <3>1 DEF Excused, By
    <3> QED  BY <2>1, <3>1, <3>2, <3>3, <3>4, <3>5
  <2>2. CASE Handed(h)
    <3>1. PICK s : s = req[h].subject
      OBVIOUS
    <3>2. /\ s \in DOMAIN sends /\ req'[h].subject = s /\ sends'[s].draft = sends[s].draft
          /\ \A o \in 0..Gate : req'[h].copy[o] = IF o = sends[s].draft THEN row[o] ELSE req[h].copy[o]
      BY <2>2, <3>1 DEF Handed
    <3>3. sends[s].draft \in 0..Gate
      BY <3>2, SendType
    <3>4. Excused(s)' => Excused(req[h].subject)'
      BY ZenonT(60), <3>1, <3>2 DEF Excused, By
    <3>5. ~Excused(req[h].subject)' => row[sends[s].draft] = "queued_for_send"
      BY <2>0, <2>2, <3>1, HandsQueued
    <3> QED  BY <3>2, <3>3, <3>5
  <2>3. CASE Moved(h) \/ Walked(h) \/ Enqueued(h)
    <3>1. h \in Active /\ req[h].kind = "send" /\ req[h].pc \in {"lock", "workspace", "enqueue"}
      BY <1>1, <2>3 DEF Moved, Walked, Enqueued, Continues
    <3>2. req[h].pc = "lock" /\ req[h].todo = <<Move(sends[req[h].subject].draft, "sent")>>
          /\ req[h].then = "commit"
      BY <3>1 DEF SenderInv
    <3>3. Len(req[h].todo) = 1
      BY <3>2
    <3> QED  BY <1>1, <2>3, <3>2, <3>3 DEF Moved, Walked, Enqueued
  <2>4. CASE BegunOther(h) \/ BegunDecision(h) \/ BegunSend(h) \/ Committed(h) \/ Undone(h)
    BY ZenonT(60), <1>1, <2>4 DEF BegunOther, BegunDecision, BegunSend, Begins, Committed, Undone, Ends, Decisions
  <2> QED  BY <1>1, <2>0, <2>1, <2>2, <2>3, <2>4, OneActs
<1>2. /\ faults \in Nat /\ faults' \in {faults, faults + 1}
  <2>1. faults \in Nat
    BY ReviewAssumption DEF ShapeInv
  <2>2. faults' \in {faults, faults + 1}
    <3>1. Aside \/ (\E d \in Drafts : Edited(d)) => faults' \in {faults, faults + 1}
      BY DEF Aside, Edited
    <3>2. \A h \in Handlers : Begins(h) \/ Continues(h) \/ Ends(h) => faults' \in {faults, faults + 1}
      BY DEF Begins, Continues, Ends
    <3>3. \A h \in Handlers : Handed(h) \/ Committed(h) => faults' = faults
      BY DEF Handed, Committed
    <3> QED
      BY ZenonT(60), <3>1, <3>2, <3>3
      DEF Step, BegunOther, BegunDecision, BegunSend, Moved, Walked, Enqueued, Undone
  <2> QED  BY <2>1, <2>2
<1>3. ASSUME NEW s \in DOMAIN sends
      PROVE  \/ Excused(s)'
             \/ Len(sends'[s].handed) <= faults'
             \/ /\ Len(sends'[s].handed) = faults' + 1
                /\ sends'[s].status # "queued" \/ \E h \in Handlers : Holds(h, s)'
  <2> DEFINE n == Len(sends[s].handed)
             m == Len(sends'[s].handed)
  <2>1. n \in Nat
    BY HandedMore
  <2>2. Excused(s) => Excused(s)'
    BY ExcusedStays
  <2>3. \/ Excused(s) \/ n <= faults
        \/ n = faults + 1 /\ (sends[s].status # "queued" \/ \E h \in Handlers : Holds(h, s))
    BY DEF CountInv
  <2>4. sends[s].status # "queued" => sends'[s].status # "queued"
    BY StatusStays
  <2>5. ASSUME NEW h \in Handlers, Handed(h), req[h].subject = s, m = n + 1
        PROVE  \/ Excused(s)' \/ m <= faults'
               \/ /\ m = faults' + 1
                  /\ sends'[s].status # "queued" \/ \E g \in Handlers : Holds(g, s)'
    <3>1. h \in Active /\ h \in Active' /\ faults' = faults
      BY <2>5 DEF Handed
    <3>2. Holds(h, s)'
      BY <2>5, <3>1, HoldsStays
    <3>3. ASSUME NEW g \in Handlers, Holds(g, s) PROVE FALSE
      <4>1. g \in Active /\ SendRow(s) \in req[g].locks /\ req[g].pc # "hand"
        BY <3>3 DEF Holds, SenderInv
      <4> QED  BY <2>5, <4>1 DEF Handed, Locked
    <3>4. ASSUME sends[s].status # "queued" PROVE Excused(s)'
      <4>1. PICK k \in By(s) : Met(k, req[h].no)
        BY <2>5, <3>1, <3>4 DEF HandedInv, Handed
      <4>2. By(s) \subseteq By(s)' /\ req[h].no \in By(s)' /\ met' = met
        <5>1. By(s) \subseteq By(s)'
          BY HandedMore
        <5>2. req'[h].no \in By(s)' /\ req'[h].no = req[h].no /\ met' = met
          <6>1. s \in DOMAIN sends' /\ req'[h].no = req[h].no /\ met' = met
            BY <2>5 DEF Handed
          <6> QED  BY <3>1, <3>2, <6>1 DEF HandedInv
        <5> QED  BY <5>1, <5>2
      <4> QED  BY <4>1, <4>2 DEF Excused, Met
    <3> HIDE DEF n, m
    <3> QED  BY <1>2, <2>1, <2>2, <2>3, <2>5, <3>1, <3>2, <3>3, <3>4
  <2>6. ASSUME m = n, faults' = faults, sends[s].status = "queued", ~Excused(s),
               NEW h \in Handlers, Holds(h, s)
        PROVE  sends'[s].status # "queued" \/ Holds(h, s)'
    <3>1. h \in Active /\ req[h].kind = "send" /\ req[h].subject = s /\ req[h].pc \in {"lock", "commit"}
      BY <2>6 DEF Holds
    <3>2. CASE h \in Active'
      BY <2>6, <3>1, <3>2, HoldsStays
    <3>3. CASE Committed(h)
      <4>1. sends'[s].status = Head(req[h].added)
        BY <3>1, <3>3, CommittedSends
      <4>2. req[h].added \in {<<"sent">>, <<"simulated">>}
        BY <3>1 DEF SenderInv
      <4> QED  BY <4>1, <4>2
    <3>4. CASE Undone(h)
      <4> PICK d : d = sends[s].draft
        OBVIOUS
      <4>1. req[h].pc = "lock" /\ ~Legal(Now(h).row, View(h, Now(h).row), Now(h).to)
        BY <1>2, <2>6, <3>1, <3>4 DEF Undone
      <4>2. /\ req[h].todo = <<Move(d, "sent")>> /\ req[h].path[d] = << >> /\ req[h].copy[d] # "none"
        BY <3>1, <4>1 DEF SenderInv
      <4>3. Now(h) = Move(d, "sent")
        BY <4>2 DEF Now
      <4>4. Now(h).row = d /\ Now(h).to = "sent"
        BY <4>3 DEF Move
      <4>5. View(h, d) = req[h].copy[d]
        BY <4>2 DEF View
      <4>6. req[h].copy[d] = "queued_for_send"
        BY <2>6, <3>1, <4>1 DEF CountInv
      <4>7. d \in Drafts
        BY SendType
      <4> QED  BY <4>1, <4>4, <4>5, <4>6, <4>7, QueuedCanBeSent
    <3>5. CASE h \notin Active'
      <4>1. Committed(h) \/ Undone(h)
        BY ZenonT(60), <3>1, <3>5, OneActs
        DEF BegunOther, BegunDecision, BegunSend, Moved, Walked, Enqueued, Continues, Handed
      <4> QED  BY <3>3, <3>4, <4>1
    <3> QED  BY <3>2, <3>5
  <2>7. CASE m = n
    <3>1. CASE faults' = faults
      <4> HIDE DEF n, m
      <4> QED  BY <2>2, <2>3, <2>4, <2>6, <2>7, <3>1 DEF m
    <3>2. CASE faults' = faults + 1
      <4>1. n <= faults + 1 \/ Excused(s)
        BY <1>2, <2>1, <2>3
      <4> QED  BY <2>2, <2>7, <3>2, <4>1
    <3> QED  BY <1>2, <3>1, <3>2
  <2>8. m = n \/ \E h \in Handlers : Handed(h) /\ req[h].subject = s /\ m = n + 1
    BY HandedMore
  <2> QED  BY <2>5, <2>7, <2>8
<1>4. \A s \in DOMAIN sends' :
        \/ Excused(s)'
        \/ Len(sends'[s].handed) <= faults'
        \/ /\ Len(sends'[s].handed) = faults' + 1
           /\ sends'[s].status # "queued" \/ \E h \in Handlers : Holds(h, s)'
  <2>1. ASSUME NEW s \in DOMAIN sends', s \notin DOMAIN sends PROVE Len(sends'[s].handed) <= faults'
    <3>1. sends'[s].handed = << >>
      BY <2>1, NewSends
    <3>2. Len(sends'[s].handed) = 0
      BY <3>1
    <3> QED  BY <1>2, <3>2
  <2> QED  BY <1>3, <2>1
<1> QED  BY <1>1, <1>4 DEF CountInv

LEMMA HandedOnceFollows ==
  ASSUME ShapeInv, CountInv
  PROVE  HandedOnce
<1> SUFFICES ASSUME NEW s \in DOMAIN sends, ~Excused(s)
             PROVE  Len(sends[s].handed) <= 1 + faults
  BY DEF HandedOnce, Excused, By
<1>1. faults \in Nat
  BY ReviewAssumption DEF ShapeInv
<1>2. Len(sends[s].handed) <= faults \/ Len(sends[s].handed) = faults + 1
  BY DEF CountInv
<1>3. Len(sends[s].handed) \in Nat
  BY SendType
<1> QED  BY <1>1, <1>2, <1>3

-----------------------------------------------------------------------------
(* The theorems *)

\* What TypeOK says of audit rows and ShapeInv does not.
FromInv ==
  /\ trail[Gate] = << >>
  /\ \A k \in DOMAIN trail[Workspace] : trail[Workspace][k].from \in WorkspaceStates

LEMMA FromKept ==
  ASSUME ShapeInv, ShapeInv', FromInv, Step
  PROVE  FromInv'
<1>1. CASE trail' = trail
  BY <1>1 DEF FromInv
<1>2. ASSUME NEW d \in Drafts, Edited(d) PROVE FromInv'
  <2>1. trail'[Gate] = trail[Gate] /\ trail'[Workspace] = trail[Workspace]
    BY <1>2, RowsDiffer DEF Edited
  <2> QED  BY <2>1 DEF FromInv
<1>3. ASSUME NEW h \in Handlers, Committed(h) PROVE FromInv'
  <2>1. WellFormed(req[h]) /\ Workspace \in 0..NumDrafts /\ Workspace \in 0..Gate
    BY <1>3, ActiveType, RowsDiffer DEF Committed, ShapeInv
  <2> DEFINE c == req[h].copy[Workspace]
             p == req[h].path[Workspace]
  <2>2. p \in Seq(WorkspaceStates) /\ c \in WorkspaceStates \cup {"none"} /\ (p # << >> => c # "none")
    BY <2>1, StatesType DEF WellFormed
  <2> HIDE DEF p, c
  <2>3. ASSUME NEW j \in DOMAIN p PROVE (IF j = 1 THEN c ELSE p[j - 1]) \in WorkspaceStates
    <3>1. DOMAIN p = 1..Len(p) /\ Len(p) \in Nat /\ p # << >>
      BY <2>2, <2>3, SeqEnd
    <3>2. j # 1 => j - 1 \in DOMAIN p
      BY <2>3, <3>1
    <3> QED  BY <2>2, <3>1, <3>2
  <2>4. ASSUME NEW k \in DOMAIN trail'[Workspace] PROVE trail'[Workspace][k].from \in WorkspaceStates
    <3>1. \/ k \in DOMAIN trail[Workspace] /\ trail'[Workspace][k] = trail[Workspace][k]
          \/ \E j \in DOMAIN req[h].path[Workspace] :
               /\ k = Len(trail[Workspace]) + j /\ trail'[Workspace][k].by = req[h].no
               /\ trail'[Workspace][k].to = req[h].path[Workspace][j]
               /\ trail'[Workspace][k].from = Was(req[h], Workspace, j)
      BY <1>3, <2>1, CommittedEntry
    <3> QED  BY <2>3, <3>1 DEF FromInv, Was, p, c
  <2>5. trail'[Gate] = << >>
    BY <1>3 DEF Committed
  <2> QED  BY <2>4, <2>5 DEF FromInv
<1>4. ASSUME Aside \/ \E h \in Handlers : Begins(h) \/ Continues(h) \/ Ends(h) \/ Handed(h)
      PROVE  trail' = trail
  BY <1>4 DEF Aside, Begins, Continues, Ends, Handed
<1> QED
  BY ZenonT(60), <1>1, <1>2, <1>3, <1>4
  DEF Step, BegunOther, BegunDecision, BegunSend, Moved, Walked, Enqueued, Undone

LEMMA TypeFollows ==
  ASSUME ShapeInv, NumbersInv, FromInv
  PROVE  TypeOK
<1> DEFINE X == Status(Workspace) \cup Status(1)
           A == [from : X, to : X, by : Numbers]
           B == [draft : Drafts, status : {"queued", "skipped", "sent", "simulated"},
                 by : Numbers, handed : Seq(Numbers)]
<1>1. /\ \A d \in Drafts : Status(d) = DraftStates
      /\ Status(Workspace) = DOMAIN WorkspaceTransitions /\ Status(Gate) = Decisions \cup {"pending"}
      /\ 1 \in Drafts /\ WorkspaceStates \subseteq DOMAIN WorkspaceTransitions
  BY RowsDiffer, ReviewAssumption DEF Status, DraftStates, WorkspaceStates, Drafts
<1>2. \A o \in 0..Gate : row[o] \in Status(o) \cup {"none"}
  BY <1>1, StatesType, RowsDiffer DEF ShapeInv, RowsInv
<1>3. DraftStates \subseteq X /\ WorkspaceStates \subseteq X
  BY <1>1
<1>4. ASSUME NEW o \in 0..Gate PROVE trail[o] \in Seq(A)
  <2>1. CASE o = Gate
    <3>1. << >> \in Seq(A)
      OBVIOUS
    <3> QED  BY <2>1, <3>1 DEF FromInv
  <2>2. CASE o # Gate
    <3> DEFINE t == trail[o]
    <3>1. o \in 0..NumDrafts /\ t \in Seq(Audits) /\ (o \in Drafts \/ o = Workspace)
      BY <2>2, RowsDiffer DEF ShapeInv, TrailTyped
    <3>2. ASSUME NEW k \in DOMAIN t PROVE t[k].from \in X /\ t[k].to \in X /\ t[k].by \in Numbers
      <4>1. t[k].by \in Numbers /\ t[k].to \in States(o)
        BY <3>1 DEF NumbersInv, ShapeInv, TrailTyped
      <4>2. o \in Drafts => t[k].from \in DraftStates
        BY DEF ShapeInv, TrailTyped
      <4>3. o = Workspace => t[k].from \in WorkspaceStates
        BY DEF FromInv
      <4> QED  BY <1>3, <3>1, <4>1, <4>2, <4>3, StatesType
    <3> HIDE DEF t, X, A
    <3>3. ASSUME NEW k \in DOMAIN t PROVE t[k] \in A
      <4>1. t[k] \in Audits
        BY <3>1
      <4> QED  BY <3>2, <4>1 DEF Audits, A
    <3>4. t \in Seq(A)
      <4>1. Len(t) \in Nat /\ DOMAIN t = 1..Len(t)
        BY <3>1
      <4>2. t = [k \in 1..Len(t) |-> t[k]]
        BY <3>1
      <4> QED  BY <3>3, <4>1, <4>2
    <3> QED  BY <3>4 DEF t
  <2> QED  BY <2>1, <2>2
<1>5. trail \in [0..Gate -> Seq(A)]
  <2>1. trail = [o \in 0..Gate |-> trail[o]]
    BY DEF ShapeInv, TrailTyped
  <2> HIDE DEF A
  <2> QED  BY <1>4, <2>1
<1>6. sends \in Seq(B)
  <2>1. sends \in Seq(Sends)
    BY DEF ShapeInv
  <2>2. ASSUME NEW s \in DOMAIN sends PROVE sends[s] \in B
    <3>1. sends[s] \in Sends /\ sends[s].by \in Numbers /\ sends[s].handed \in Seq(Numbers)
      BY SendType DEF NumbersInv
    <3> QED  BY <3>1 DEF Sends
  <2> HIDE DEF B
  <2>3. Len(sends) \in Nat /\ DOMAIN sends = 1..Len(sends)
    BY <2>1
  <2>4. sends = [s \in 1..Len(sends) |-> sends[s]]
    BY <2>1
  <2> QED  BY <2>2, <2>3, <2>4
<1>7. \A h \in Active : req[h].no \in Numbers /\ req[h].kind \in Kinds
  BY ActiveType DEF NumbersInv, ShapeInv
<1> QED  BY <1>2, <1>5, <1>6, <1>7 DEF TypeOK, ShapeInv

IInv ==
  /\ ShapeInv /\ SenderInv /\ KindInv /\ AddedInv
  /\ NumbersInv /\ CopyInv /\ TrailBreaksByOverlap /\ FromInv
  /\ RejectInv /\ SendsInv /\ HandedInv /\ CountInv

LEMMA IInvInit == Init => IInv
<1> SUFFICES ASSUME Init PROVE IInv
  OBVIOUS
<1>1. /\ row = [o \in 0..Gate |-> IF o = Workspace THEN "pending_content" ELSE "none"]
      /\ trail = [o \in 0..Gate |-> << >>] /\ review = [d \in Drafts |-> "none"]
      /\ sends = << >> /\ req = [h \in Handlers |-> Idle]
      /\ begun = 0 /\ met = {} /\ faults = 0
  BY DEF Init
<1>2. Active = {}
  BY <1>1 DEF Active, At, Idle
<1>3. \A o \in 0..Gate : trail[o] = << >> /\ DOMAIN trail[o] = {}
  BY <1>1
<1>4. DOMAIN sends = {}
  BY <1>1
<1>5. "pending_content" \in WorkspaceStates /\ "pending_content" \in AnyState
      /\ States(Workspace) = WorkspaceStates /\ "pending_content" # "none"
  BY WorkspaceStatesAre, StatesType DEF AnyState
<1>6. RowsInv
  BY <1>1, <1>5, RowsDiffer DEF RowsInv
<1>7. TrailTyped
  <2>1. << >> \in Seq(Audits)
    OBVIOUS
  <2>2. trail \in [0..Gate -> Seq(Audits)]
    BY <1>1, <2>1
  <2> QED  BY <1>3, <2>2, RowsDiffer DEF TrailTyped
<1>8. ReqInv
  BY <1>1 DEF ReqInv
<1>9. ShapeInv
  <2>1. sends \in Seq(Sends) /\ begun \in Nat /\ faults \in 0..MaxFaults
        /\ review \in [Drafts -> {"none", "pending", "decided"}]
    BY <1>1, ReviewAssumption
  <2> QED  BY <1>4, <1>6, <1>7, <1>8, <2>1 DEF ShapeInv
<1>10. SenderInv /\ KindInv /\ AddedInv /\ CopyInv /\ RejectInv
  BY <1>2 DEF SenderInv, KindInv, AddedInv, CopyInv, RejectInv
<1>11. NumbersInv
  BY <1>1, <1>2, <1>3, <1>4, RowsDiffer DEF NumbersInv
<1>12. TrailBreaksByOverlap
  BY <1>3, <1>9, BreaksAre, RowsDiffer
<1>13. FromInv
  BY <1>3, RowsDiffer DEF FromInv
<1>14. SendsInv /\ HandedInv /\ CountInv
  BY <1>2, <1>4 DEF SendsInv, HandedInv, CountInv
<1> QED  BY <1>9, <1>10, <1>11, <1>12, <1>13, <1>14 DEF IInv

LEMMA IInvNext == IInv /\ Next => IInv' /\ Step
<1> SUFFICES ASSUME IInv, Next PROVE IInv' /\ Step
  OBVIOUS
<1>1. ShapeInv /\ SenderInv /\ KindInv /\ AddedInv /\ NumbersInv /\ CopyInv /\ TrailBreaksByOverlap
      /\ FromInv /\ RejectInv /\ SendsInv /\ HandedInv /\ CountInv
  BY DEF IInv
<1>2. ShapeInv' /\ Step
  BY <1>1, NextSteps
<1>3. SenderInv' /\ KindInv' /\ AddedInv'
  BY <1>1, <1>2, SenderKept, KindKept, AddedKept
<1>4. NumbersInv' /\ CopyInv' /\ TrailBreaksByOverlap' /\ FromInv'
  BY <1>1, <1>2, NumbersKept, CopyKept, BreaksKept, FromKept
<1>5. RejectInv' /\ SendsInv'
  BY <1>1, <1>2, RejectKept, SendsKept
<1>6. HandedInv'
  BY <1>1, <1>2, <1>3, HandedKept
<1>7. CountInv'
  BY <1>1, <1>2, <1>3, <1>6, CountKept
<1> QED  BY <1>2, <1>3, <1>4, <1>5, <1>6, <1>7 DEF IInv

LEMMA IInvStutters == IInv /\ UNCHANGED vars => IInv'
<1> SUFFICES ASSUME IInv, UNCHANGED vars PROVE IInv'
  OBVIOUS
<1> USE DEF vars
<1>1. Active' = Active
  BY DEF Active, At
<1>2. ShapeInv'
  BY SMTT(30) DEF IInv, ShapeInv, RowsInv, TrailTyped, ReqInv, WellFormed
<1>3. SenderInv' /\ KindInv' /\ AddedInv'
  BY <1>1 DEF IInv, SenderInv, KindInv, AddedInv
<1>4. NumbersInv' /\ CopyInv' /\ TrailBreaksByOverlap' /\ FromInv'
  BY ZenonT(60), <1>1 DEF IInv, NumbersInv, Numbers, Met, CopyInv, MetLast, TrailBreaksByOverlap, FromInv
<1>5. RejectInv' /\ SendsInv'
  BY <1>1 DEF IInv, RejectInv, Rejecter, Rejects, SendsInv
<1>6. HandedInv'
  <2>1. HandedInv /\ \A s : By(s)' = By(s) /\ \A h \in Handlers : Holds(h, s)' <=> Holds(h, s)
    BY <1>1 DEF IInv, Holds, By
  <2>2. Active \subseteq Handlers
    BY DEF Active
  <2>3. \A s \in DOMAIN sends' : \A h \in Active' : req'[h].no \in By(s)' <=> Holds(h, s)'
    BY <1>1, <2>1, <2>2 DEF HandedInv
  <2>4. \A h \in Active' : req'[h].kind = "send" =>
          \/ sends'[req'[h].subject].status = "queued"
          \/ \E n \in By(req[h].subject)' : {n, req'[h].no} \in met'
    BY <1>1, <2>1 DEF HandedInv, Met, By
  <2>5. \A s \in DOMAIN sends' : \A d \in Drafts : \A k \in DOMAIN trail'[d] :
          trail'[d][k].by \in By(s)' => sends'[s].status # "queued"
    BY <2>1 DEF HandedInv
  <2> QED  BY <2>3, <2>4, <2>5 DEF HandedInv, Met
<1>7. CountInv'
  <2>1. \A s : /\ Excused(s)' <=> Excused(s)
              /\ \A h \in Handlers : Holds(h, s)' <=> Holds(h, s)
    BY <1>1 DEF Excused, Holds, By, Clean, Met
  <2> QED  BY <1>1, <2>1 DEF IInv, CountInv
<1> QED  BY <1>2, <1>3, <1>4, <1>5, <1>6, <1>7 DEF IInv

LEMMA Invariant == Spec => []IInv
<1>1. IInv /\ [Next]_vars => IInv'
  BY IInvNext, IInvStutters
<1> QED  BY <1>1, IInvInit, PTL DEF Spec

(***************************************************************************)
(* Rows, audit rows, sends and transactions have their types.              *)
(***************************************************************************)
THEOREM TypeCorrect == Spec => []TypeOK
<1>1. IInv => TypeOK
  BY TypeFollows DEF IInv
<1> QED  BY <1>1, Invariant, PTL

(***************************************************************************)
(* The audit rows that transition writes (state_machine.py:314-330) are    *)
(* one path through the states of the row, up to the state it is in: where *)
(* one does not start from what the one before it came to, the two         *)
(* transactions were open at the same time.                                *)
(***************************************************************************)
THEOREM TrailHangsTogether == Spec => []TrailBreaksByOverlap
<1>1. IInv => TrailBreaksByOverlap
  BY DEF IInv
<1> QED  BY <1>1, Invariant, PTL

(***************************************************************************)
(* enqueue_send_for_deliverable (sends.py:242-323) queues a draft to be    *)
(* sent once, unless two transactions that moved it overlapped.            *)
(***************************************************************************)
THEOREM DraftIsQueuedOnce == Spec => []QueuedOnce
<1>1. IInv => QueuedOnce
  BY QueuedOnceFollows DEF IInv
<1> QED  BY <1>1, Invariant, PTL

(***************************************************************************)
(* mark_send_sent (sends.py:345-405) hands a message to the transport      *)
(* before it commits that it did: once, and once more for each fault,      *)
(* unless two requests were at it at the same time, or its draft was moved *)
(* on without it.                                                          *)
(***************************************************************************)
THEOREM SendIsHandedOnce == Spec => []HandedOnce
<1>1. IInv => HandedOnce
  BY HandedOnceFollows DEF IInv
<1> QED  BY <1>1, Invariant, PTL

(***************************************************************************)
(* What mark_send_sent hands to the transport is a draft that is queued to *)
(* be sent, or was sent, unless two transactions that moved it overlapped. *)
(***************************************************************************)
THEOREM OnlyQueuedIsMailed == Spec => MailedIsQueued
<1>1. IInv /\ [Next]_vars
      => [\A s \in DOMAIN sends :
            LET d == sends[s].draft IN
            sends'[s].handed # sends[s].handed /\ Clean(d) => row[d] \in {"queued_for_send", "sent"}]_vars
  <2> SUFFICES ASSUME IInv, Next, NEW s \in DOMAIN sends, sends'[s].handed # sends[s].handed,
                      Clean(sends[s].draft)
               PROVE  row[sends[s].draft] \in {"queued_for_send", "sent"}
    BY DEF vars
  <2>1. ShapeInv' /\ Step
    BY IInvNext DEF IInv
  <2> QED  BY <2>1, MailedFollows DEF IInv
<1> QED  BY <1>1, Invariant, PTL DEF Spec, MailedIsQueued

(***************************************************************************)
(* A rejection at the gate (approvals.py:434-536) is never undone because  *)
(* the workspace cannot go back for a revision, unless all its content was *)
(* approved: from anywhere else walk_workspace_state_to finds a path.      *)
(***************************************************************************)
THEOREM RejectionSucceeds == Spec => []RejectionGoesThrough
<1>1. IInv => RejectionGoesThrough
  BY RejectionFollows DEF IInv
<1> QED  BY <1>1, Invariant, PTL

=============================================================================
