-------------------------- MODULE AgencyGateProofs --------------------------
(***************************************************************************)
(* Proofs about AgencyGate, for every set of proposals and of handlers and *)
(* every bound.                                                            *)
(***************************************************************************)
EXTENDS AgencyGate, FiniteSetTheorems, SequenceTheorems, TLAPS

-----------------------------------------------------------------------------
(* Updates of a transaction *)

\* A transaction that has updated nothing.
LEMMA NoneType == None \in Updates /\ DOMAIN None = {}
<1>1. None \in [{} -> Statuses]
  BY DEF None
<1> QED  BY <1>1 DEF Updates, None

\* What a transaction has updated are proposals, and it gave each a status.
LEMMA UpdatesDomain ==
  ASSUME NEW u \in Updates
  PROVE  /\ DOMAIN u \subseteq Proposals
         /\ \A a \in DOMAIN u : u[a] \in Statuses
  BY DEF Updates

\* One more update adds its proposal and changes nothing else.
LEMMA WithType ==
  ASSUME NEW u \in Updates, NEW a \in Proposals, NEW s \in Statuses
  PROVE  /\ With(u, a, s) \in Updates
         /\ DOMAIN With(u, a, s) = DOMAIN u \cup {a}
         /\ With(u, a, s)[a] = s
         /\ \A b \in DOMAIN u \ {a} : With(u, a, s)[b] = u[b]
<1>1. DOMAIN u \cup {a} \in SUBSET Proposals
  BY UpdatesDomain
<1>2. With(u, a, s) \in [DOMAIN u \cup {a} -> Statuses]
  BY UpdatesDomain DEF With
<1> QED  BY <1>1, <1>2 DEF Updates, With

\* A commit writes what the transaction has updated and leaves the other rows.
LEMMA AfterType ==
  ASSUME TypeOK, NEW u \in Updates
  PROVE  /\ After(u) \in [Proposals -> Statuses]
         /\ \A a \in Proposals : After(u)[a] = IF a \in DOMAIN u THEN u[a] ELSE rows[a]
  BY UpdatesDomain DEF After, TypeOK

-----------------------------------------------------------------------------
(* The reply in progress *)

Busy == {"next", "update", "execute", "mark", "fail"}

\* A handler that works on a proposal has one in hand.
InHand == \A k \in Handlers : reply[k].pc \in Busy \ {"next"} => reply[k].todo # << >>

\* What a handler that interpreted its reply keeps.
LEMMA BusyType ==
  ASSUME TypeOK, NEW k \in Handlers, reply[k].pc \in Busy
  PROVE  reply[k] \in [pc : Busy, verdict : {"yes", "no"}, todo : Seq(Proposals),
                       said : SUBSET (Proposals \X Answers)]
  BY DEF TypeOK, Reply, Idle, Busy

\* The proposal in hand is one, and so is the rest of the list.
LEMMA ThisType ==
  ASSUME TypeOK, NEW k \in Handlers, reply[k].pc \in Busy, reply[k].todo # << >>
  PROVE  This(k) \in Proposals /\ Tail(reply[k].todo) \in Seq(Proposals)
  BY BusyType DEF This

\* Going on to another point changes nothing but the point.
LEMMA GotoType ==
  ASSUME TypeOK, NEW k \in Handlers, reply[k].pc \in Busy, NEW pc \in Busy, Goto(k, pc)
  PROVE  /\ reply' \in [Handlers -> Reply \cup {Idle}]
         /\ reply'[k] = [reply[k] EXCEPT !.pc = pc]
         /\ reply'[k].pc = pc /\ reply'[k].todo = reply[k].todo
         /\ reply'[k].verdict = reply[k].verdict
         /\ \A j \in Handlers \ {k} : reply'[j] = reply[j]
<1>1. [reply[k] EXCEPT !.pc = pc] \in Reply
  BY BusyType DEF Reply, Busy
<1>2. reply' = [reply EXCEPT ![k] = [reply[k] EXCEPT !.pc = pc]]
  BY DEF Goto
<1> QED  BY <1>1, <1>2, BusyType DEF TypeOK

\* A handler that has dealt with a proposal is between two, and no other handler moves.
LEMMA ProceedType ==
  ASSUME TypeOK, NEW k \in Handlers, reply[k].pc \in Busy, reply[k].todo # << >>,
         NEW said \in SUBSET (Proposals \X Answers), Proceed(k, said)
  PROVE  /\ reply' \in [Handlers -> Reply \cup {Idle}]
         /\ reply'[k].pc = "next"
         /\ \A j \in Handlers \ {k} : reply'[j] = reply[j]
<1> DEFINE r == [pc |-> "next", verdict |-> reply[k].verdict, todo |-> Tail(reply[k].todo),
                 said |-> reply[k].said \cup said]
<1>1. r \in Reply
  BY BusyType, ThisType DEF Reply
<1>2. reply' = [reply EXCEPT ![k] = r]
  BY BusyType DEF Proceed
<1> QED  BY <1>1, <1>2 DEF TypeOK

\* A session that is closed leaves its handler idle and without updates.
LEMMA AbandonType ==
  ASSUME TypeOK, NEW k \in Handlers, Abandon(k)
  PROVE  /\ tx' \in [Handlers -> Updates]
         /\ reply' \in [Handlers -> Reply \cup {Idle}]
         /\ tx'[k] = None /\ reply'[k] = Idle
         /\ \A j \in Handlers \ {k} : reply'[j] = reply[j] /\ tx'[j] = tx[j]
  BY NoneType DEF TypeOK, Abandon

\* A sequence of the proposals the reply is about.
LEMMA OrderType ==
  ASSUME NEW S \in SUBSET Proposals, NEW order \in SetToSeqs(S)
  PROVE  order \in Seq(Proposals)
<1>1. Cardinality(S) \in Nat
  BY GateAssumption, FS_Subset, FS_CardinalityType
<1>2. order \in [1..Cardinality(S) -> S]
  BY DEF SetToSeqs
<1> QED  BY <1>1, <1>2

-----------------------------------------------------------------------------
(* Type correctness *)

TypeInv == TypeOK /\ InHand

\* The first state has the types.
LEMMA TypeInit == Init => TypeInv
<1> SUFFICES ASSUME Init PROVE TypeInv
  OBVIOUS
<1>1. rows \in [Proposals -> Statuses]
  BY DEF Init, Statuses
<1>2. tx \in [Handlers -> Updates]
  BY NoneType DEF Init
<1>3. replies \in 0..MaxReplies /\ faults \in 0..MaxFaults
  BY GateAssumption DEF Init
<1> QED  BY <1>1, <1>2, <1>3 DEF Init, TypeInv, TypeOK, InHand, Idle, Busy

\* The actions that only move a handler on keep the types.
LEMMA TypeMoves ==
  ASSUME TypeInv, NEW k \in Handlers,
         \/ Get(k) \/ Approve(k) \/ Reject(k) \/ RejectTooLate(k)
         \/ Execute(k) \/ ExecuteFails(k) \/ LoseAnswer(k)
  PROVE  TypeInv'
<1> USE DEF TypeInv
<1>0. reply[k].pc \in Busy
  BY DEF Get, Approve, Reject, RejectTooLate, Execute, ExecuteFails, LoseAnswer, At, Busy
<1>1. reply[k].todo # << >>
  BY DEF Get, Approve, Reject, RejectTooLate, Execute, ExecuteFails, LoseAnswer, At, Busy, InHand
<1>2. This(k) \in Proposals
  BY <1>0, <1>1, ThisType
<1>3. faults' \in 0..MaxFaults
  BY GateAssumption DEF Get, Approve, Reject, RejectTooLate, Execute, ExecuteFails, LoseAnswer,
                       Fault, TypeOK
<1>4. effects' \in [Proposals -> Nat]
  BY <1>2 DEF Get, Approve, Reject, RejectTooLate, Execute, ExecuteFails, LoseAnswer, TypeOK
<1>5. tx' \in [Handlers -> Updates]
  <2>1. With(tx[k], This(k), "approved") \in Updates /\ With(tx[k], This(k), "rejected") \in Updates
    BY <1>2, WithType DEF TypeOK, Statuses, Closed
  <2> QED  BY <2>1 DEF Get, Approve, Reject, RejectTooLate, Execute, ExecuteFails, LoseAnswer, TypeOK
<1>6. reply' \in [Handlers -> Reply \cup {Idle}] /\ InHand'
  <2>1. CASE \E pc \in Busy : Goto(k, pc)
    <3>1. PICK pc \in Busy : Goto(k, pc)
      BY <2>1
    <3>2. /\ reply' \in [Handlers -> Reply \cup {Idle}]
          /\ reply'[k].todo # << >>
          /\ \A j \in Handlers \ {k} : reply'[j] = reply[j]
      BY <3>1, <1>0, <1>1, GotoType
    <3> QED  BY <3>2 DEF InHand
  <2>2. CASE \E said \in SUBSET (Proposals \X Answers) : Proceed(k, said)
    BY <2>2, <1>0, <1>1, ProceedType DEF InHand, Busy
  <2>3. {} \in SUBSET (Proposals \X Answers)
        /\ {<<This(k), "skipped">>} \in SUBSET (Proposals \X Answers)
    BY <1>2 DEF Answers
  <2> QED  BY <2>1, <2>2, <2>3 DEF Get, Approve, Reject, RejectTooLate, Execute, ExecuteFails,
                                   LoseAnswer, Busy
<1>7. UNCHANGED <<rows, due, told, replies>>
  BY DEF Get, Approve, Reject, RejectTooLate, Execute, ExecuteFails, LoseAnswer
<1> QED  BY <1>3, <1>4, <1>5, <1>6, <1>7 DEF TypeOK

\* The ways in which a handler ends without a commit keep the types.
LEMMA TypeEnds ==
  ASSUME TypeInv, NEW k \in Handlers,
         Converse(k) \/ ApproveTooLate(k) \/ Deadlocked(k) \/ Abort(k)
  PROVE  TypeInv'
<1>1. Abandon(k) /\ UNCHANGED <<rows, due, effects, told, replies>>
  BY DEF Converse, ApproveTooLate, Deadlocked, Abort
<1>2. faults' \in 0..MaxFaults
  BY GateAssumption DEF Converse, ApproveTooLate, Deadlocked, Abort, Fault, TypeInv, TypeOK
<1>3. InHand'
  BY <1>1, AbandonType DEF TypeInv, InHand, Idle, Busy
<1> QED  BY <1>1, <1>2, <1>3, AbandonType DEF TypeInv, TypeOK

\* The two ends of an execution keep the types.
LEMMA TypeMark ==
  ASSUME TypeInv, NEW k \in Handlers, NEW pc \in Busy \ {"next"}, NEW s \in Statuses,
         NEW answer \in Answers, Mark(k, pc, s, answer)
  PROVE  TypeInv'
<1> USE DEF TypeInv
<1>1. reply[k].pc \in Busy /\ reply[k].todo # << >>
  BY DEF Mark, At, InHand, Busy
<1>2. This(k) \in Proposals
  BY <1>1, ThisType
<1>3. rows' \in [Proposals -> Statuses]
  BY <1>2, WithType, AfterType DEF Mark, TypeOK
<1>4. tx' \in [Handlers -> Updates]
  BY NoneType DEF Mark, TypeOK
<1>5. reply' \in [Handlers -> Reply \cup {Idle}] /\ InHand'
  <2>1. {<<This(k), answer>>} \in SUBSET (Proposals \X Answers)
    BY <1>2
  <2> QED  BY <2>1, <1>1, ProceedType DEF Mark, InHand, Busy
<1> QED  BY <1>3, <1>4, <1>5 DEF Mark, TypeOK

\* Every step keeps the types.
LEMMA TypeStep == TypeInv /\ [Next]_vars => TypeInv'
<1> SUFFICES ASSUME TypeInv, [Next]_vars PROVE TypeInv'
  OBVIOUS
<1>1. CASE UNCHANGED vars
  BY <1>1 DEF vars, TypeInv, TypeOK, InHand
<1>2. ASSUME NEW a \in Proposals, Propose(a) PROVE TypeInv'
  BY <1>2 DEF Propose, TypeInv, TypeOK, InHand, Statuses
<1>3. ASSUME NEW a \in Proposals, Lapse(a) PROVE TypeInv'
  BY <1>3 DEF Lapse, TypeInv, TypeOK, InHand
<1>4. ASSUME NEW k \in Handlers, Assemble(k) PROVE TypeInv'
  <2> DEFINE stale == {a \in due : rows[a] = "proposed"}
             r == [pc |-> "read", seen |-> {a \in Proposals \ due : rows[a] = "proposed"}]
  <2>1. stale \in SUBSET Proposals /\ [a \in stale |-> "expired"] \in [stale -> Statuses]
    BY DEF TypeInv, TypeOK, Statuses, Closed
  <2>2. [a \in stale |-> "expired"] \in Updates
    BY <2>1 DEF Updates
  <2>3. r \in Reply
    BY DEF Reply
  <2>4. tx' = [tx EXCEPT ![k] = [a \in stale |-> "expired"]] /\ reply' = [reply EXCEPT ![k] = r]
    BY <1>4 DEF Assemble
  <2>5. tx' \in [Handlers -> Updates] /\ reply' \in [Handlers -> Reply \cup {Idle}]
    BY <2>2, <2>3, <2>4 DEF TypeInv, TypeOK
  <2>6. InHand'
    BY <2>4 DEF TypeInv, TypeOK, InHand, Busy
  <2>7. replies' \in 0..MaxReplies
    BY <1>4, GateAssumption DEF Assemble, TypeInv, TypeOK
  <2> QED  BY <1>4, <2>5, <2>6, <2>7 DEF Assemble, TypeInv, TypeOK
<1>5. ASSUME NEW k \in Handlers, Decide(k) PROVE TypeInv'
  <2>1. PICK S \in (SUBSET reply[k].seen) \ {{}}, v \in {"yes", "no"} : \E order \in SetToSeqs(S) :
          reply' = [reply EXCEPT ![k] = [pc |-> "next", verdict |-> v, todo |-> order, said |-> {}]]
    BY <1>5 DEF Decide
  <2>2. PICK order \in SetToSeqs(S) :
          reply' = [reply EXCEPT ![k] = [pc |-> "next", verdict |-> v, todo |-> order, said |-> {}]]
    BY <2>1
  <2>3. S \in SUBSET Proposals
    <3>1. reply[k] \in Reply \cup {Idle} /\ reply[k].pc = "read"
      BY <1>5 DEF Decide, At, TypeInv, TypeOK
    <3>2. reply[k] \in [pc : {"read"}, seen : SUBSET Proposals]
      BY <3>1 DEF Reply, Idle
    <3> QED  BY <3>2
  <2>4. order \in Seq(Proposals)
    BY <2>3, OrderType
  <2>5. [pc |-> "next", verdict |-> v, todo |-> order, said |-> {}] \in Reply
    BY <2>4 DEF Reply
  <2>6. reply' \in [Handlers -> Reply \cup {Idle}] /\ InHand'
    BY <2>2, <2>5 DEF TypeInv, TypeOK, InHand, Busy
  <2> QED  BY <1>5, <2>6 DEF Decide, TypeInv, TypeOK
<1>6. ASSUME NEW k \in Handlers, Finish(k) PROVE TypeInv'
  <2>1. Abandon(k)
    BY <1>6 DEF Finish
  <2>2. rows' \in [Proposals -> Statuses]
    BY <1>6, AfterType DEF Finish, TypeInv, TypeOK
  <2>3. told' \in [Proposals -> SUBSET Answers]
    BY <1>6 DEF Finish, TypeInv, TypeOK
  <2>4. InHand'
    BY <2>1, AbandonType DEF TypeInv, InHand, Idle, Busy
  <2> QED  BY <1>6, <2>1, <2>2, <2>3, <2>4, AbandonType DEF Finish, TypeInv, TypeOK
<1>7. ASSUME NEW k \in Handlers, MarkExecuted(k) \/ MarkFailed(k) PROVE TypeInv'
  BY <1>7, TypeMark DEF MarkExecuted, MarkFailed, Busy, Statuses, Closed, Answers
<1> QED
  BY <1>1, <1>2, <1>3, <1>4, <1>5, <1>6, <1>7, TypeMoves, TypeEnds DEF Next, Work

(***************************************************************************)
(* The tables, the open transactions and the replies keep their shape, and *)
(* a handler that works on a proposal has one in hand                      *)
(* (proposed_actions_repository.py, natural_conversation.py).              *)
(***************************************************************************)
THEOREM TypeCorrect == Spec => []TypeOK
<1>1. Spec => []TypeInv
  BY TypeInit, TypeStep, PTL DEF Spec
<1>2. TypeInv => TypeOK
  BY DEF TypeInv
<1> QED  BY <1>1, <1>2, PTL

-----------------------------------------------------------------------------
(* What the locks protect *)

Carrying == {"execute", "mark", "fail"}

\* Who has updated a row has it alone, and the committed row still says proposed.
LockedIsProposed ==
  \A k \in Handlers : \A a \in DOMAIN tx[k] :
    /\ rows[a] = "proposed"
    /\ \A j \in Handlers \ {k} : a \notin DOMAIN tx[j]

\* An approval that is not committed is the one its handler is carrying out.
ApprovalIsInHand ==
  \A k \in Handlers : \A a \in DOMAIN tx[k] :
    \/ tx[k][a] \in {"rejected", "expired"}
    \/ tx[k][a] = "approved" /\ reply[k].pc \in Carrying /\ a = This(k)

\* What a handler is carrying out it has locked.
CarriedIsLocked == \A k \in Handlers : reply[k].pc \in Carrying => This(k) \in DOMAIN tx[k]

\* No approval is ever committed as such.
NeverApproved == \A a \in Proposals : rows[a] # "approved"

LockInv == LockedIsProposed /\ ApprovalIsInHand /\ CarriedIsLocked /\ NeverApproved

\* What a commit without an approval in hand writes.
LEMMA CommitAll ==
  ASSUME TypeInv, LockInv, NEW k \in Handlers, reply[k].pc \notin Carrying
  PROVE  \A a \in Proposals : \/ a \notin DOMAIN tx[k] /\ After(tx[k])[a] = rows[a]
                              \/ /\ a \in DOMAIN tx[k] /\ rows[a] = "proposed"
                                 /\ After(tx[k])[a] \in {"rejected", "expired"}
  BY AfterType DEF TypeInv, TypeOK, LockInv, LockedIsProposed, ApprovalIsInHand

\* What the commit of an outcome writes.
LEMMA CommitOutcome ==
  ASSUME TypeInv, LockInv, NEW k \in Handlers, reply[k].pc \in Carrying, NEW s \in Statuses
  PROVE  \A a \in Proposals :
           LET new == After(With(tx[k], This(k), s)) IN
           \/ a = This(k) /\ rows[a] = "proposed" /\ new[a] = s
           \/ a # This(k) /\ a \notin DOMAIN tx[k] /\ new[a] = rows[a]
           \/ /\ a # This(k) /\ a \in DOMAIN tx[k] /\ rows[a] = "proposed"
              /\ new[a] \in {"rejected", "expired"}
<1>1. This(k) \in Proposals /\ This(k) \in DOMAIN tx[k] /\ tx[k] \in Updates
  BY ThisType DEF TypeInv, TypeOK, InHand, Carrying, Busy, LockInv, CarriedIsLocked
<1>2. TypeOK
  BY DEF TypeInv
<1> DEFINE u == With(tx[k], This(k), s)
<1>3. u \in Updates /\ DOMAIN u = DOMAIN tx[k] /\ u[This(k)] = s
      /\ \A b \in DOMAIN tx[k] \ {This(k)} : u[b] = tx[k][b]
  <2>1. /\ u \in Updates /\ DOMAIN u = DOMAIN tx[k] \cup {This(k)} /\ u[This(k)] = s
        /\ \A b \in DOMAIN tx[k] \ {This(k)} : u[b] = tx[k][b]
    BY <1>1, WithType, Zenon
  <2>2. DOMAIN tx[k] \cup {This(k)} = DOMAIN tx[k]
    BY <1>1
  <2> QED  BY <2>1, <2>2
<1>4. \A a \in Proposals : After(u)[a] = IF a \in DOMAIN u THEN u[a] ELSE rows[a]
  BY <1>2, <1>3, AfterType
<1> QED  BY <1>1, <1>3, <1>4 DEF LockInv, LockedIsProposed, ApprovalIsInHand

\* No row is locked in the first state.
LEMMA LockInit == Init => LockInv
  BY NoneType DEF Init, LockInv, LockedIsProposed, ApprovalIsInHand, CarriedIsLocked,
                  NeverApproved, Idle, Carrying

\* A handler goes on and updates nothing.
LEMMA LockGoes ==
  ASSUME TypeInv, LockInv, NEW k \in Handlers,
         Get(k) \/ RejectTooLate(k) \/ Execute(k) \/ ExecuteFails(k) \/ LoseAnswer(k) \/ Decide(k)
  PROVE  LockInv'
<1>1. UNCHANGED <<rows, tx>>
  BY DEF Get, RejectTooLate, Execute, ExecuteFails, LoseAnswer, Decide
<1>2. \A j \in Handlers \ {k} : reply'[j] = reply[j]
  BY DEF Get, RejectTooLate, Execute, ExecuteFails, LoseAnswer, Decide, Goto, Proceed,
         TypeInv, TypeOK
<1>3. CASE reply[k].pc \in Carrying
  <2>1. \E pc \in Carrying : Goto(k, pc)
    BY <1>3 DEF Get, RejectTooLate, Execute, ExecuteFails, LoseAnswer, Decide, At, Carrying
  <2>2. reply'[k].pc \in Carrying /\ reply'[k].todo = reply[k].todo
    BY <1>3, <2>1, GotoType DEF TypeInv, Carrying, Busy
  <2> QED  BY <1>1, <1>2, <1>3, <2>2 DEF LockInv, LockedIsProposed, ApprovalIsInHand,
                                         CarriedIsLocked, NeverApproved, This
<1>4. CASE reply[k].pc \notin Carrying
  <2>1. \/ Decide(k)
        \/ reply[k].pc \in Busy /\ Goto(k, "update")
        \/ \E said : Proceed(k, said)
    BY <1>4 DEF Get, RejectTooLate, Execute, ExecuteFails, LoseAnswer, At, Carrying, Busy
  <2>2. reply'[k].pc \notin Carrying
    <3>1. CASE Decide(k)
      BY <3>1 DEF Decide, TypeInv, TypeOK, Carrying
    <3>2. CASE reply[k].pc \in Busy /\ Goto(k, "update")
      BY <3>2, GotoType DEF TypeInv, Busy, Carrying
    <3>3. CASE \E said : Proceed(k, said)
      BY <3>3 DEF Proceed, TypeInv, TypeOK, Carrying
    <3> QED  BY <2>1, <3>1, <3>2, <3>3
  <2> QED  BY <1>1, <1>2, <1>4, <2>2 DEF LockInv, LockedIsProposed, ApprovalIsInHand,
                                         CarriedIsLocked, NeverApproved, This
<1> QED  BY <1>3, <1>4

\* A handler ends without a commit.
LEMMA LockEnds ==
  ASSUME TypeInv, LockInv, NEW k \in Handlers,
         Converse(k) \/ ApproveTooLate(k) \/ Deadlocked(k) \/ Abort(k)
  PROVE  LockInv'
<1>1. Abandon(k) /\ UNCHANGED rows
  BY DEF Converse, ApproveTooLate, Deadlocked, Abort
<1>2. /\ DOMAIN tx'[k] = {} /\ reply'[k].pc \notin Carrying
      /\ \A j \in Handlers \ {k} : reply'[j] = reply[j] /\ tx'[j] = tx[j]
  BY <1>1, AbandonType, NoneType DEF TypeInv, Idle, Carrying
<1> QED  BY <1>1, <1>2 DEF LockInv, LockedIsProposed, ApprovalIsInHand, CarriedIsLocked,
                           NeverApproved, This

\* A handler updates the row in hand, which nobody else has locked.
LEMMA LockUpdates ==
  ASSUME TypeInv, LockInv, NEW k \in Handlers, Approve(k) \/ Reject(k)
  PROVE  LockInv'
<1>1. /\ reply[k].pc = "update" /\ reply[k].todo # << >> /\ This(k) \in Proposals
      /\ tx[k] \in Updates
  BY ThisType DEF Approve, Reject, At, TypeInv, TypeOK, InHand, Busy
<1>2. rows[This(k)] = "proposed" /\ \A j \in Handlers \ {k} : This(k) \notin DOMAIN tx[j]
  BY DEF Approve, Reject, Match, Locked
<1>3. UNCHANGED rows
  BY DEF Approve, Reject
<1>4. \A a \in DOMAIN tx[k] : tx[k][a] \in {"rejected", "expired"}
  BY <1>1 DEF LockInv, ApprovalIsInHand, Carrying
<1>5. CASE Approve(k)
  <2>1. tx' = [tx EXCEPT ![k] = With(tx[k], This(k), "approved")] /\ Goto(k, "execute")
    BY <1>5 DEF Approve
  <2>2. /\ DOMAIN tx'[k] = DOMAIN tx[k] \cup {This(k)} /\ tx'[k][This(k)] = "approved"
        /\ \A b \in DOMAIN tx[k] \ {This(k)} : tx'[k][b] = tx[k][b]
        /\ \A j \in Handlers \ {k} : tx'[j] = tx[j]
    <3>1. /\ tx'[k] = With(tx[k], This(k), "approved")
          /\ \A j \in Handlers \ {k} : tx'[j] = tx[j]
      BY <2>1 DEF TypeInv, TypeOK
    <3>2. "approved" \in Statuses
      BY DEF Statuses
    <3>3. /\ DOMAIN With(tx[k], This(k), "approved") = DOMAIN tx[k] \cup {This(k)}
          /\ With(tx[k], This(k), "approved")[This(k)] = "approved"
          /\ \A b \in DOMAIN tx[k] \ {This(k)} : With(tx[k], This(k), "approved")[b] = tx[k][b]
      <4>1. tx[k] \in Updates /\ This(k) \in Proposals
        BY <1>1
      <4> QED  BY <4>1, <3>2, WithType, Zenon
    <3> QED  BY <3>1, <3>3
  <2>3. /\ reply'[k].pc = "execute" /\ reply'[k].todo = reply[k].todo
        /\ \A j \in Handlers \ {k} : reply'[j] = reply[j]
    BY <2>1, <1>1, GotoType DEF TypeInv, Busy
  <2> QED  BY <1>2, <1>3, <1>4, <2>2, <2>3 DEF LockInv, LockedIsProposed, ApprovalIsInHand,
                                        CarriedIsLocked, NeverApproved, This, Carrying
<1>6. CASE Reject(k)
  <2>1. tx' = [tx EXCEPT ![k] = With(tx[k], This(k), "rejected")]
        /\ Proceed(k, {<<This(k), "skipped">>})
    BY <1>6 DEF Reject
  <2>2. /\ DOMAIN tx'[k] = DOMAIN tx[k] \cup {This(k)} /\ tx'[k][This(k)] = "rejected"
        /\ \A b \in DOMAIN tx[k] \ {This(k)} : tx'[k][b] = tx[k][b]
        /\ \A j \in Handlers \ {k} : tx'[j] = tx[j]
    <3>1. /\ tx'[k] = With(tx[k], This(k), "rejected")
          /\ \A j \in Handlers \ {k} : tx'[j] = tx[j]
      BY <2>1 DEF TypeInv, TypeOK
    <3>2. "rejected" \in Statuses
      BY DEF Statuses, Closed
    <3>3. /\ DOMAIN With(tx[k], This(k), "rejected") = DOMAIN tx[k] \cup {This(k)}
          /\ With(tx[k], This(k), "rejected")[This(k)] = "rejected"
          /\ \A b \in DOMAIN tx[k] \ {This(k)} : With(tx[k], This(k), "rejected")[b] = tx[k][b]
      <4>1. tx[k] \in Updates /\ This(k) \in Proposals
        BY <1>1
      <4> QED  BY <4>1, <3>2, WithType, Zenon
    <3> QED  BY <3>1, <3>3
  <2>3. reply'[k].pc = "next" /\ \A j \in Handlers \ {k} : reply'[j] = reply[j]
    BY <2>1 DEF Proceed, TypeInv, TypeOK
  <2> QED  BY <1>2, <1>3, <1>4, <2>2, <2>3 DEF LockInv, LockedIsProposed, ApprovalIsInHand,
                                        CarriedIsLocked, NeverApproved, This, Carrying
<1> QED  BY <1>5, <1>6

\* A handler commits and has nothing locked any more.
LEMMA LockCommits ==
  ASSUME TypeInv, LockInv, NEW k \in Handlers, MarkExecuted(k) \/ MarkFailed(k) \/ Finish(k)
  PROVE  LockInv'
<1>1. /\ DOMAIN tx'[k] = {} /\ reply'[k].pc \notin Carrying
      /\ \A j \in Handlers \ {k} : reply'[j] = reply[j] /\ tx'[j] = tx[j]
  BY NoneType DEF MarkExecuted, MarkFailed, Mark, Finish, Abandon, Proceed, Idle, Carrying,
                  TypeInv, TypeOK
<1>2. \A a \in Proposals : rows'[a] # rows[a] => a \in DOMAIN tx[k] /\ rows'[a] # "approved"
  <2>1. CASE MarkExecuted(k) \/ MarkFailed(k)
    <3>1. reply[k].pc \in Carrying /\ This(k) \in DOMAIN tx[k]
      BY <2>1 DEF MarkExecuted, MarkFailed, Mark, At, Carrying, LockInv, CarriedIsLocked
    <3>2. \E s \in {"executed", "failed"} : rows' = After(With(tx[k], This(k), s))
      BY <2>1 DEF MarkExecuted, MarkFailed, Mark
    <3> QED  BY <3>1, <3>2, CommitOutcome DEF Statuses, Closed
  <2>2. CASE Finish(k)
    <3>1. reply[k].pc \notin Carrying /\ (rows' = rows \/ rows' = After(tx[k]))
      BY <2>2 DEF Finish, At, Carrying
    <3> QED  BY <3>1, CommitAll
  <2> QED  BY <2>1, <2>2
<1>3. \A j \in Handlers : DOMAIN tx[j] \subseteq Proposals
  BY UpdatesDomain DEF TypeInv, TypeOK
<1> QED  BY <1>1, <1>2, <1>3 DEF LockInv, LockedIsProposed, ApprovalIsInHand, CarriedIsLocked,
                                 NeverApproved, This

\* Every step keeps what locks say.
LEMMA LockStep == TypeInv /\ LockInv /\ [Next]_vars => LockInv'
<1> SUFFICES ASSUME TypeInv, LockInv, [Next]_vars PROVE LockInv'
  OBVIOUS
<1> USE DEF LockInv, LockedIsProposed, ApprovalIsInHand, CarriedIsLocked, NeverApproved, This
<1>1. CASE UNCHANGED vars
  BY <1>1 DEF vars
<1>2. ASSUME NEW a \in Proposals, Propose(a) PROVE LockInv'
  <2>1. \A k \in Handlers : DOMAIN tx[k] \subseteq Proposals
    BY UpdatesDomain DEF TypeInv, TypeOK
  <2> QED  BY <1>2, <2>1 DEF Propose, TypeInv, TypeOK
<1>3. ASSUME NEW a \in Proposals, Lapse(a) PROVE LockInv'
  BY <1>3 DEF Lapse
<1>4. ASSUME NEW k \in Handlers, Assemble(k) PROVE LockInv'
  <2> DEFINE stale == {a \in due : rows[a] = "proposed"}
  <2>1. /\ tx'[k] = [a \in stale |-> "expired"] /\ reply'[k].pc = "read"
        /\ \A j \in Handlers \ {k} : reply'[j] = reply[j] /\ tx'[j] = tx[j]
    BY <1>4 DEF Assemble, TypeInv, TypeOK
  <2>2. \A a \in stale : \A j \in Handlers \ {k} : a \notin DOMAIN tx[j]
    BY <1>4 DEF Assemble, Locked
  <2> QED  BY <1>4, <2>1, <2>2 DEF Assemble, Carrying
<1> QED
  BY <1>1, <1>2, <1>3, <1>4, LockGoes, LockEnds, LockUpdates, LockCommits DEF Next, Work

-----------------------------------------------------------------------------
(* What was carried out *)

\* The action was carried out and its row says so, or is about to.
CarriedOut(a) == rows[a] = "executed" \/ \E k \in Handlers : At(k, "mark") /\ This(k) = a

\* A fault is the only way to carry out an action whose row does not say so.
EffectsInv ==
  \A a \in Proposals : IF CarriedOut(a) THEN effects[a] \in 1..(1 + faults)
                                        ELSE effects[a] \in 0..faults

IInv == TypeInv /\ LockInv /\ EffectsInv

\* A step that moves nobody to or from "mark", and marks no row executed.
LEMMA EffectsFrame ==
  ASSUME TypeInv, TypeInv', EffectsInv, NEW k \in Handlers,
         ~At(k, "mark"), ~At(k, "mark")',
         \A j \in Handlers \ {k} : reply'[j] = reply[j],
         \A a \in Proposals : rows'[a] = "executed" <=> rows[a] = "executed",
         UNCHANGED effects, faults <= faults'
  PROVE  EffectsInv'
<1>1. \A a \in Proposals : CarriedOut(a)' <=> CarriedOut(a)
  BY DEF CarriedOut, At, This
<1>2. faults \in Nat /\ faults' \in Nat
  BY GateAssumption DEF TypeInv, TypeOK
<1> QED  BY <1>1, <1>2 DEF EffectsInv

\* Nothing is carried out in the first state.
LEMMA EffectsInit == Init => EffectsInv
<1> SUFFICES ASSUME Init, NEW a \in Proposals
             PROVE  ~CarriedOut(a) /\ effects[a] \in 0..faults
  BY DEF EffectsInv
<1> QED  BY DEF Init, CarriedOut, At, Idle

\* Nobody else is about to mark the row that a handler has locked.
LEMMA MarkedAlone ==
  ASSUME LockInv, NEW k \in Handlers, reply[k].pc \in Carrying,
         NEW j \in Handlers \ {k}, At(j, "mark")
  PROVE  This(j) # This(k) /\ rows[This(k)] = "proposed"
  BY DEF LockInv, LockedIsProposed, CarriedIsLocked, At, Carrying

\* The outside call is made for an action that has not been carried out, but for faults.
LEMMA EffectsExecute ==
  ASSUME IInv, TypeInv', NEW k \in Handlers, Execute(k)
  PROVE  EffectsInv'
<1>1. /\ reply[k].pc = "execute" /\ reply'[k].pc = "mark" /\ reply'[k].todo = reply[k].todo
      /\ \A j \in Handlers \ {k} : reply'[j] = reply[j]
  BY GotoType DEF Execute, At, IInv, TypeInv, Busy
<1>2. This(k) \in Proposals /\ rows[This(k)] = "proposed"
  BY <1>1, ThisType DEF IInv, TypeInv, TypeOK, InHand, Busy, LockInv, LockedIsProposed,
                        CarriedIsLocked, Carrying
<1>3. ~CarriedOut(This(k))
  BY <1>1, <1>2, MarkedAlone DEF CarriedOut, At, IInv, Carrying
<1>4. CarriedOut(This(k))' /\ This(k)' = This(k)
  BY <1>1 DEF CarriedOut, At, This
<1>5. \A a \in Proposals \ {This(k)} : CarriedOut(a)' <=> CarriedOut(a)
  BY <1>1, <1>4 DEF CarriedOut, At, This, Execute
<1>6. faults \in Nat /\ faults' = faults
  BY GateAssumption DEF IInv, TypeInv, TypeOK, Execute
<1>7. /\ effects'[This(k)] = effects[This(k)] + 1
      /\ \A a \in Proposals \ {This(k)} : effects'[a] = effects[a]
  BY <1>2 DEF Execute, IInv, TypeInv, TypeOK
<1>8. effects[This(k)] \in 0..faults
  BY <1>2, <1>3 DEF IInv, EffectsInv
<1> QED  BY <1>2, <1>4, <1>5, <1>6, <1>7, <1>8 DEF IInv, EffectsInv

\* A lost answer is a fault, which the bound allows for.
LEMMA EffectsLoseAnswer ==
  ASSUME IInv, TypeInv', NEW k \in Handlers, LoseAnswer(k)
  PROVE  EffectsInv'
<1>1. /\ reply[k].pc = "execute" /\ reply'[k].pc = "fail"
      /\ \A j \in Handlers \ {k} : reply'[j] = reply[j]
  BY GotoType DEF LoseAnswer, At, IInv, TypeInv, Busy
<1>2. This(k) \in Proposals /\ rows[This(k)] = "proposed"
  BY <1>1, ThisType DEF IInv, TypeInv, TypeOK, InHand, Busy, LockInv, LockedIsProposed,
                        CarriedIsLocked, Carrying
<1>3. ~CarriedOut(This(k))
  BY <1>1, <1>2, MarkedAlone DEF CarriedOut, At, IInv, Carrying
<1>4. \A a \in Proposals : CarriedOut(a)' <=> CarriedOut(a)
  BY <1>1 DEF CarriedOut, At, This, LoseAnswer
<1>5. faults \in Nat /\ faults' = faults + 1
  BY GateAssumption DEF IInv, TypeInv, TypeOK, LoseAnswer, Fault
<1>6. /\ effects'[This(k)] = effects[This(k)] + 1
      /\ \A a \in Proposals \ {This(k)} : effects'[a] = effects[a]
  BY <1>2 DEF LoseAnswer, IInv, TypeInv, TypeOK
<1>7. effects[This(k)] \in 0..faults
  BY <1>2, <1>3 DEF IInv, EffectsInv
<1>8. \A a \in Proposals \ {This(k)} :
        IF CarriedOut(a)' THEN effects'[a] \in 1..(1 + faults') ELSE effects'[a] \in 0..faults'
  BY <1>4, <1>5, <1>6 DEF IInv, EffectsInv
<1>9. effects'[This(k)] \in 0..faults'
  BY <1>5, <1>6, <1>7
<1> QED  BY <1>2, <1>3, <1>4, <1>8, <1>9 DEF EffectsInv

\* The commit of an executed action leaves it carried out.
LEMMA EffectsMarkExecuted ==
  ASSUME IInv, TypeInv', NEW k \in Handlers, MarkExecuted(k)
  PROVE  EffectsInv'
<1>1. /\ reply[k].pc = "mark" /\ reply'[k].pc = "next"
      /\ \A j \in Handlers \ {k} : reply'[j] = reply[j]
  BY DEF MarkExecuted, Mark, At, Proceed, IInv, TypeInv, TypeOK
<1>2. /\ rows'[This(k)] = "executed"
      /\ \A a \in Proposals \ {This(k)} : rows'[a] = "executed" <=> rows[a] = "executed"
  <2>1. This(k) \in Proposals
    BY <1>1, ThisType DEF IInv, TypeInv, InHand, Busy
  <2>2. rows' = After(With(tx[k], This(k), "executed"))
    BY DEF MarkExecuted, Mark
  <2>3. "executed" \in Statuses
    BY DEF Statuses, Closed
  <2> QED  BY <1>1, <2>1, <2>2, <2>3, CommitOutcome DEF IInv, Carrying
<1>3. \A a \in Proposals : CarriedOut(a)' <=> CarriedOut(a)
  BY <1>1, <1>2 DEF CarriedOut, At, This
<1>4. UNCHANGED <<effects, faults>>
  BY DEF MarkExecuted, Mark
<1> QED  BY <1>3, <1>4 DEF IInv, EffectsInv

\* A handler that dies may leave an action carried out and proposed: one more fault.
LEMMA EffectsAbort ==
  ASSUME IInv, TypeInv', NEW k \in Handlers, Abort(k)
  PROVE  EffectsInv'
<1>1. /\ reply'[k].pc = "idle" /\ \A j \in Handlers \ {k} : reply'[j] = reply[j]
      /\ UNCHANGED <<rows, effects>>
  BY AbandonType DEF Abort, Idle, IInv, TypeInv
<1>2. faults \in Nat /\ faults' = faults + 1
  BY GateAssumption DEF IInv, TypeInv, TypeOK, Abort, Fault
<1>3. \A a \in Proposals : CarriedOut(a)' => CarriedOut(a)
  BY <1>1 DEF CarriedOut, At, This
<1> QED  BY <1>1, <1>2, <1>3 DEF IInv, EffectsInv

\* Every step keeps what was carried out in step with the table.
LEMMA EffectsStep == IInv /\ TypeInv' /\ [Next]_vars => EffectsInv'
<1> SUFFICES ASSUME IInv, TypeInv', [Next]_vars PROVE EffectsInv'
  OBVIOUS
<1>0. faults \in Nat
  BY GateAssumption DEF IInv, TypeInv, TypeOK
<1>1. CASE UNCHANGED vars
  BY <1>1 DEF vars, IInv, EffectsInv, CarriedOut, At, This
<1>2. ASSUME NEW a \in Proposals, Propose(a) \/ Lapse(a) PROVE EffectsInv'
  <2>1. \A b \in Proposals : rows'[b] = "executed" <=> rows[b] = "executed"
    BY <1>2 DEF Propose, Lapse, IInv, TypeInv, TypeOK
  <2> QED  BY <1>2, <2>1 DEF Propose, Lapse, IInv, EffectsInv, CarriedOut, At, This
<1>3. ASSUME NEW k \in Handlers,
             \/ Assemble(k) \/ Decide(k) \/ Converse(k) \/ Get(k) \/ Approve(k)
             \/ ApproveTooLate(k) \/ Reject(k) \/ RejectTooLate(k) \/ Deadlocked(k)
             \/ ExecuteFails(k)
      PROVE  EffectsInv'
  <2>1. ~At(k, "mark")
    BY <1>3 DEF Assemble, Decide, Converse, Get, Approve, ApproveTooLate, Reject,
                RejectTooLate, Deadlocked, WaitsFor, ExecuteFails, At
  <2>2. UNCHANGED <<rows, effects, faults>>
    BY <1>3 DEF Assemble, Decide, Converse, Get, Approve, ApproveTooLate, Reject,
                RejectTooLate, Deadlocked, ExecuteFails
  <2>3. ~At(k, "mark")' /\ \A j \in Handlers \ {k} : reply'[j] = reply[j]
    <3>1. CASE Assemble(k) \/ Decide(k)
      BY <3>1 DEF Assemble, Decide, At, IInv, TypeInv, TypeOK
    <3>2. CASE Abandon(k)
      BY <3>2, AbandonType DEF At, Idle, IInv, TypeInv
    <3>3. CASE \E said : Proceed(k, said)
      BY <3>3 DEF Proceed, At, IInv, TypeInv, TypeOK
    <3>4. CASE reply[k].pc \in Busy /\ \E pc \in Busy \ {"mark"} : Goto(k, pc)
      BY <3>4, GotoType DEF At, IInv, TypeInv
    <3> QED
      BY <1>3, <3>1, <3>2, <3>3, <3>4 DEF Converse, Get, Approve, ApproveTooLate, Reject,
         RejectTooLate, Deadlocked, ExecuteFails, At, Busy
  <2> QED  BY <1>0, <2>1, <2>2, <2>3, EffectsFrame DEF IInv
<1>4. ASSUME NEW k \in Handlers, Finish(k) \/ MarkFailed(k) PROVE EffectsInv'
  <2>1. ~At(k, "mark") /\ UNCHANGED <<effects, faults>>
    BY <1>4 DEF Finish, MarkFailed, Mark, At
  <2>2. ~At(k, "mark")' /\ \A j \in Handlers \ {k} : reply'[j] = reply[j]
    BY <1>4 DEF Finish, MarkFailed, Mark, Abandon, Proceed, At, Idle, IInv, TypeInv, TypeOK
  <2>3. \A a \in Proposals : rows'[a] = "executed" <=> rows[a] = "executed"
    <3>1. CASE Finish(k)
      <4>1. reply[k].pc \notin Carrying /\ (rows' = rows \/ rows' = After(tx[k]))
        BY <3>1 DEF Finish, At, Carrying
      <4> QED  BY <4>1, CommitAll DEF IInv
    <3>2. CASE MarkFailed(k)
      <4>1. reply[k].pc \in Carrying /\ rows' = After(With(tx[k], This(k), "failed"))
        BY <3>2 DEF MarkFailed, Mark, At, Carrying
      <4>2. "failed" \in Statuses
        BY DEF Statuses, Closed
      <4> QED  BY <4>1, <4>2, CommitOutcome DEF IInv
    <3> QED  BY <1>4, <3>1, <3>2
  <2> QED  BY <1>0, <2>1, <2>2, <2>3, EffectsFrame DEF IInv
<1> QED
  BY <1>1, <1>2, <1>3, <1>4, EffectsExecute, EffectsLoseAnswer, EffectsMarkExecuted, EffectsAbort
  DEF Next, Work

-----------------------------------------------------------------------------
(* The theorems *)

\* The inductive invariant holds in every reachable state.
LEMMA Invariance == Spec => []IInv
<1>1. Init => IInv
  BY TypeInit, LockInit, EffectsInit DEF IInv
<1>2. IInv /\ [Next]_vars => IInv'
  BY TypeStep, LockStep, EffectsStep DEF IInv
<1> QED  BY <1>1, <1>2, PTL DEF Spec

(***************************************************************************)
(* An action is carried out at most once, and once more at most for each   *)
(* fault, however many replies about it are handled at the same time       *)
(* (agency_gate.py:586-640).                                               *)
(***************************************************************************)
THEOREM ExecutesOnce == Spec => []CarriedOutOnce
<1>1. IInv => CarriedOutOnce
  <2> SUFFICES ASSUME IInv, NEW a \in Proposals PROVE effects[a] <= 1 + faults
    BY DEF CarriedOutOnce
  <2>1. faults \in Nat
    BY GateAssumption DEF IInv, TypeInv, TypeOK
  <2> QED  BY <2>1 DEF IInv, EffectsInv
<1> QED  BY <1>1, Invariance, PTL

(***************************************************************************)
(* Without a fault, the table says executed of exactly the actions that    *)
(* were carried out, once no transaction has their rows locked.            *)
(***************************************************************************)
THEOREM TableAgrees == Spec => []RecordAgrees
<1>1. IInv => RecordAgrees
  <2> SUFFICES ASSUME IInv, NEW a \in Proposals, faults = 0,
                      \A k \in Handlers : a \notin DOMAIN tx[k]
               PROVE  effects[a] > 0 <=> rows[a] = "executed"
    BY DEF RecordAgrees
  <2>1. CarriedOut(a) <=> rows[a] = "executed"
    BY DEF CarriedOut, IInv, LockInv, CarriedIsLocked, At, Carrying
  <2> QED  BY <2>1 DEF IInv, EffectsInv
<1> QED  BY <1>1, Invariance, PTL

(***************************************************************************)
(* No approval is committed without its outcome, so no crash leaves an     *)
(* action approved that nobody executes.                                   *)
(***************************************************************************)
THEOREM NoneIsStranded == Spec => []NothingIsStranded
<1>1. IInv => NothingIsStranded
  BY DEF IInv, LockInv, NeverApproved, NothingIsStranded
<1> QED  BY <1>1, Invariance, PTL

\* Whatever is committed was locked while its row said proposed: no row goes back to absent, and
\* what is closed stays as it is.
LEMMA RowsOnward ==
  ASSUME IInv, Next, NEW a \in Proposals
  PROVE  /\ rows[a] # "absent" => rows'[a] # "absent"
         /\ rows[a] \in Closed => rows'[a] = rows[a]
<1>1. "absent" \notin Closed /\ "proposed" \notin Closed
  BY DEF Closed
<1>2. ASSUME NEW b \in Proposals, Propose(b)
      PROVE  rows'[a] = rows[a] \/ rows[a] = "absent"
  BY <1>2 DEF Propose, IInv, TypeInv, TypeOK
<1>3. ASSUME NEW k \in Handlers, MarkExecuted(k) \/ MarkFailed(k)
      PROVE  rows'[a] = rows[a] \/ (rows[a] = "proposed" /\ rows'[a] # "absent")
  <2>1. reply[k].pc \in Carrying
    BY <1>3 DEF MarkExecuted, MarkFailed, Mark, At, Carrying
  <2>2. \E s \in {"executed", "failed"} : rows' = After(With(tx[k], This(k), s))
    BY <1>3 DEF MarkExecuted, MarkFailed, Mark
  <2> QED  BY <2>1, <2>2, CommitOutcome DEF IInv, Statuses, Closed
<1>4. ASSUME NEW k \in Handlers, Finish(k)
      PROVE  rows'[a] = rows[a] \/ (rows[a] = "proposed" /\ rows'[a] # "absent")
  <2>1. reply[k].pc \notin Carrying /\ (rows' = rows \/ rows' = After(tx[k]))
    BY <1>4 DEF Finish, At, Carrying
  <2> QED  BY <2>1, CommitAll DEF IInv
<1> QED
  BY <1>1, <1>2, <1>3, <1>4 DEF Next, Work, Lapse, Assemble, Decide, Converse, Get, Approve,
     ApproveTooLate, Reject, RejectTooLate, Deadlocked, Execute, ExecuteFails, LoseAnswer, Abort

(***************************************************************************)
(* What is executed, failed, rejected or expired stays so                  *)
(* (proposed_actions_repository.py:3-10): whatever is committed later was  *)
(* locked while its row still said proposed.                               *)
(***************************************************************************)
THEOREM ClosedStays == Spec => ClosedIsFinal
<1>1. IInv /\ [Next]_vars
      => [\A a \in Proposals : rows[a] \in Closed => rows'[a] = rows[a]]_vars
  <2> SUFFICES ASSUME IInv, Next, NEW a \in Proposals, rows[a] \in Closed PROVE rows'[a] = rows[a]
    BY DEF vars
  <2> QED  BY RowsOnward
<1> QED  BY <1>1, Invariance, PTL DEF Spec, ClosedIsFinal

-----------------------------------------------------------------------------
(* What the user was told *)

\* What a reply is about has a row.
Listed(j) ==
  /\ reply[j].pc = "read" => \A a \in reply[j].seen : rows[a] # "absent"
  /\ reply[j].pc \in Busy => \A i \in DOMAIN reply[j].todo : rows[reply[j].todo[i]] # "absent"

\* What a reply will say it skipped is closed, or its own transaction rejects it.
Accounted(j) ==
  reply[j].pc \in Busy =>
    \A a \in Proposals : <<a, "skipped">> \in reply[j].said =>
      \/ rows[a] \in Closed
      \/ reply[j].verdict = "no" /\ a \in DOMAIN tx[j] /\ tx[j][a] = "rejected"

ToldIsClosed == \A a \in Proposals : "skipped" \in told[a] => rows[a] \in Closed

SkipInv == ToldIsClosed /\ \A j \in Handlers : Listed(j) /\ Accounted(j)

\* Nobody was told anything in the first state.
LEMMA SkipInit == Init => SkipInv
  BY DEF Init, SkipInv, ToldIsClosed, Listed, Accounted, Idle, Busy

\* The reply and the transaction of a handler that does not move stay accounted for.
LEMMA SkipOthers ==
  ASSUME IInv, SkipInv, Next, NEW j \in Handlers, reply'[j] = reply[j], tx'[j] = tx[j]
  PROVE  Listed(j)' /\ Accounted(j)'
<1>1. reply[j].pc = "read" => reply[j].seen \subseteq Proposals
  BY DEF IInv, TypeInv, TypeOK, Reply, Idle
<1>2. reply[j].pc \in Busy => \A i \in DOMAIN reply[j].todo : reply[j].todo[i] \in Proposals
  BY BusyType DEF IInv, TypeInv
<1>3. Listed(j)'
  BY <1>1, <1>2, RowsOnward DEF SkipInv, Listed
<1>4. Accounted(j)'
  BY RowsOnward DEF SkipInv, Accounted
<1> QED  BY <1>3, <1>4

\* As long as nobody is told anything, what was told stays true.
LEMMA SkipTold ==
  ASSUME IInv, SkipInv, Next, told' = told
  PROVE  ToldIsClosed'
  BY RowsOnward DEF SkipInv, ToldIsClosed

\* A handler that goes on with the same proposal keeps what it has to say.
LEMMA SkipGoto ==
  ASSUME IInv, SkipInv, Next, NEW k \in Handlers, reply[k].pc \in Busy,
         NEW pc \in Busy, Goto(k, pc),
         tx'[k] = tx[k] \/ reply[k].verdict = "yes"
  PROVE  Listed(k)' /\ Accounted(k)'
<1>1. reply'[k].todo = reply[k].todo /\ reply'[k].said = reply[k].said
      /\ reply'[k].verdict = reply[k].verdict /\ reply'[k].pc = pc
  <2>1. TypeOK
    BY DEF IInv, TypeInv
  <2>2. /\ reply'[k] = [reply[k] EXCEPT !.pc = pc]
        /\ reply'[k].pc = pc /\ reply'[k].todo = reply[k].todo
        /\ reply'[k].verdict = reply[k].verdict
    BY <2>1, GotoType
  <2>3. [reply[k] EXCEPT !.pc = pc].said = reply[k].said
    BY <2>1, BusyType
  <2> QED  BY <2>2, <2>3
<1>2. \A i \in DOMAIN reply[k].todo : reply[k].todo[i] \in Proposals
  BY BusyType DEF IInv, TypeInv
<1>3. Listed(k)'
  BY <1>1, <1>2, RowsOnward DEF SkipInv, Listed, Busy
<1>4. Accounted(k)'
  BY <1>1, RowsOnward DEF SkipInv, Accounted
<1> QED  BY <1>3, <1>4

\* A handler that is done with a proposal has the rest of its list, and one more thing to say.
LEMMA SkipProceed ==
  ASSUME IInv, SkipInv, Next, NEW k \in Handlers, reply[k].pc \in Busy, reply[k].todo # << >>,
         NEW said \in SUBSET (Proposals \X Answers), Proceed(k, said)
  PROVE  /\ Listed(k)'
         /\ reply'[k].pc = "next" /\ reply'[k].verdict = reply[k].verdict
         /\ reply'[k].said = reply[k].said \cup said
<1>1. reply'[k] = [pc |-> "next", verdict |-> reply[k].verdict, todo |-> Tail(reply[k].todo),
                   said |-> reply[k].said \cup said]
  BY DEF Proceed, IInv, TypeInv, TypeOK
<1>2. reply[k].todo \in Seq(Proposals)
  BY BusyType DEF IInv, TypeInv
<1>3. \A i \in DOMAIN Tail(reply[k].todo) :
        /\ i + 1 \in DOMAIN reply[k].todo
        /\ Tail(reply[k].todo)[i] = reply[k].todo[i + 1]
        /\ reply[k].todo[i + 1] \in Proposals
  BY <1>2
<1>4. Listed(k)'
  BY <1>1, <1>3, RowsOnward DEF SkipInv, Listed, Busy
<1> QED  BY <1>1, <1>4

\* Every step keeps what was, and will be, told in step with the table.
LEMMA SkipStep == IInv /\ SkipInv /\ [Next]_vars => SkipInv'
<1> SUFFICES ASSUME IInv, SkipInv, [Next]_vars PROVE SkipInv'
  OBVIOUS
<1>0. CASE UNCHANGED vars
  BY <1>0 DEF vars, SkipInv, ToldIsClosed, Listed, Accounted
<1>1. ASSUME NEW a \in Proposals, Propose(a) \/ Lapse(a) PROVE SkipInv'
  <2>1. Next /\ told' = told /\ reply' = reply /\ tx' = tx
    BY <1>1 DEF Next, Propose, Lapse
  <2> QED  BY <2>1, SkipOthers, SkipTold DEF SkipInv
<1>2. ASSUME NEW k \in Handlers, Assemble(k) \/ Work(k) \/ LoseAnswer(k) \/ Abort(k)
      PROVE  SkipInv'
  <2>0. Next
    BY <1>2 DEF Next
  <2>1. TypeOK /\ InHand
    BY DEF IInv, TypeInv
  <2>2. \A j \in Handlers \ {k} : reply'[j] = reply[j] /\ tx'[j] = tx[j]
    BY <1>2, <2>1 DEF TypeOK, Work, Assemble, Decide, Converse, Get, Approve, ApproveTooLate,
       Reject, RejectTooLate, Deadlocked, Execute, ExecuteFails, LoseAnswer, Abort, Abandon,
       Goto, Proceed, Finish, MarkExecuted, MarkFailed, Mark
  <2>3. \A j \in Handlers \ {k} : Listed(j)' /\ Accounted(j)'
    BY <2>0, <2>2, SkipOthers
  <2>4. ~Finish(k) => ToldIsClosed'
    BY <1>2, <2>0, SkipTold DEF Work, Assemble, Decide, Converse, Get, Approve, ApproveTooLate,
       Reject, RejectTooLate, Deadlocked, Execute, ExecuteFails, LoseAnswer, Abort,
       MarkExecuted, MarkFailed, Mark
  <2>5. ASSUME Assemble(k) PROVE Listed(k)' /\ Accounted(k)'
    <3>1. reply'[k] = [pc |-> "read", seen |-> {a \in Proposals \ due : rows[a] = "proposed"}]
          /\ rows' = rows
      BY <2>5, <2>1 DEF Assemble, TypeOK
    <3> QED  BY <3>1 DEF Listed, Accounted, Busy
  <2>6. ASSUME Decide(k) PROVE Listed(k)' /\ Accounted(k)'
    <3>1. PICK S \in (SUBSET reply[k].seen) \ {{}}, v \in {"yes", "no"} : \E order \in SetToSeqs(S) :
            reply' = [reply EXCEPT ![k] = [pc |-> "next", verdict |-> v, todo |-> order, said |-> {}]]
      BY <2>6 DEF Decide
    <3>2. PICK order \in SetToSeqs(S) :
            reply' = [reply EXCEPT ![k] = [pc |-> "next", verdict |-> v, todo |-> order, said |-> {}]]
      BY <3>1
    <3>3. reply'[k] = [pc |-> "next", verdict |-> v, todo |-> order, said |-> {}] /\ rows' = rows
      BY <3>2, <2>1, <2>6 DEF TypeOK, Decide
    <3>4. \A i \in DOMAIN order : order[i] \in reply[k].seen
      BY DEF SetToSeqs
    <3>5. \A a \in reply[k].seen : rows[a] # "absent"
      BY <2>6 DEF SkipInv, Listed, Decide, At
    <3> QED  BY <3>3, <3>4, <3>5 DEF Listed, Accounted
  <2>7. ASSUME Abandon(k) PROVE Listed(k)' /\ Accounted(k)'
    BY <2>1, <2>7, AbandonType DEF Listed, Accounted, Idle, Busy
  <2>8. ASSUME Get(k) \/ Approve(k) \/ Execute(k) \/ ExecuteFails(k) \/ LoseAnswer(k) PROVE Listed(k)' /\ Accounted(k)'
    <3>1. reply[k].pc \in Busy /\ reply[k].todo # << >>
      BY <2>1, <2>8 DEF Get, Approve, Execute, ExecuteFails, LoseAnswer, At, Busy, InHand
    <3>2. CASE \E pc \in Busy : Goto(k, pc)
      <4>1. tx'[k] = tx[k] \/ reply[k].verdict = "yes"
        BY <2>8 DEF Get, Approve, Execute, ExecuteFails, LoseAnswer
      <4> QED  BY <2>0, <3>1, <3>2, <4>1, SkipGoto
    <3>3. CASE Get(k) /\ Proceed(k, {})
      <4>1. {} \in SUBSET (Proposals \X Answers) /\ rows' = rows /\ tx' = tx
        BY <3>3 DEF Get
      <4>2. Listed(k)' /\ reply'[k].verdict = reply[k].verdict
            /\ reply'[k].said = reply[k].said \cup {}
        BY <2>0, <3>1, <3>3, <4>1, SkipProceed
      <4> QED  BY <3>1, <4>1, <4>2 DEF SkipInv, Accounted
    <3> QED  BY <2>8, <3>2, <3>3 DEF Get, Approve, Execute, ExecuteFails, LoseAnswer, Busy
  <2>9. ASSUME Reject(k) \/ RejectTooLate(k) PROVE Listed(k)' /\ Accounted(k)'
    <3>1. /\ reply[k].pc = "update" /\ reply[k].pc \in Busy /\ reply[k].todo # << >>
          /\ reply[k].verdict = "no" /\ rows' = rows
      BY <2>1, <2>9 DEF Reject, RejectTooLate, At, Busy, InHand
    <3>2. This(k) \in Proposals
      BY <2>1, <3>1, ThisType
    <3>3. {<<This(k), "skipped">>} \in SUBSET (Proposals \X Answers)
          /\ Proceed(k, {<<This(k), "skipped">>})
      BY <2>9, <3>2 DEF Reject, RejectTooLate, Answers
    <3>4. /\ Listed(k)' /\ reply'[k].verdict = "no"
          /\ reply'[k].said = reply[k].said \cup {<<This(k), "skipped">>}
      BY <2>0, <3>1, <3>3, SkipProceed
    <3>5. \/ Reject(k) /\ tx'[k] = With(tx[k], This(k), "rejected")
          \/ RejectTooLate(k) /\ tx' = tx
      BY <2>1, <2>9 DEF Reject, RejectTooLate, TypeOK
    <3>6. /\ \A a \in Proposals \ {This(k)} :
               a \in DOMAIN tx[k] => a \in DOMAIN tx'[k] /\ tx'[k][a] = tx[k][a]
          /\ \/ rows[This(k)] \in Closed
             \/ This(k) \in DOMAIN tx'[k] /\ tx'[k][This(k)] = "rejected"
      <4>1. CASE Reject(k) /\ tx'[k] = With(tx[k], This(k), "rejected")
        <5>1. tx[k] \in Updates /\ "rejected" \in Statuses
          BY <2>1 DEF TypeOK, Statuses, Closed
        <5> DEFINE u == With(tx[k], This(k), "rejected")
        <5>2. /\ DOMAIN u = DOMAIN tx[k] \cup {This(k)} /\ u[This(k)] = "rejected"
              /\ \A b \in DOMAIN tx[k] \ {This(k)} : u[b] = tx[k][b]
          BY <5>1, <3>2, WithType, Zenon
        <5>3. tx'[k] = u
          BY <4>1
        <5> HIDE DEF u
        <5> QED  BY <5>2, <5>3
      <4>2. CASE RejectTooLate(k) /\ tx' = tx
        <5>1. rows[This(k)] # "proposed" /\ rows[This(k)] # "approved"
          BY <4>2, <3>2 DEF RejectTooLate, Miss, IInv, LockInv, NeverApproved
        <5>2. rows[This(k)] # "absent"
          <6>1. reply[k].todo \in Seq(Proposals)
            BY <3>1, <2>1, BusyType
          <6>2. 1 \in DOMAIN reply[k].todo /\ This(k) = reply[k].todo[1]
            BY <6>1, <3>1 DEF This
          <6> QED  BY <6>2, <3>1 DEF SkipInv, Listed
        <5>3. rows[This(k)] \in Statuses
          BY <3>2, <2>1 DEF TypeOK
        <5> QED  BY <4>2, <5>1, <5>2, <5>3 DEF Statuses
      <4> QED  BY <3>5, <4>1, <4>2
    <3>7. Accounted(k)'
      BY <3>1, <3>4, <3>6 DEF SkipInv, Accounted
    <3> QED  BY <3>4, <3>7
  <2>10. ASSUME MarkExecuted(k) \/ MarkFailed(k) PROVE Listed(k)' /\ Accounted(k)'
    <3>1. PICK pc \in {"mark", "fail"}, s \in {"executed", "failed"}, answer \in {"done", "error"} :
            Mark(k, pc, s, answer)
      BY <2>10 DEF MarkExecuted, MarkFailed
    <3>2. reply[k].pc \in Busy /\ reply[k].pc \in Carrying /\ reply[k].todo # << >>
      BY <2>1, <3>1 DEF Mark, At, Busy, Carrying, InHand
    <3>3. This(k) \in Proposals
      BY <2>1, <3>2, ThisType
    <3>4. {<<This(k), answer>>} \in SUBSET (Proposals \X Answers) /\ Proceed(k, {<<This(k), answer>>})
      BY <3>1, <3>3 DEF Mark, Answers
    <3>5. Listed(k)' /\ reply'[k].said = reply[k].said \cup {<<This(k), answer>>}
      BY <2>0, <3>2, <3>4, SkipProceed
    <3>6. \A a \in Proposals : a \in DOMAIN tx[k] => rows'[a] \in Closed
      BY <3>1, <3>2, CommitOutcome DEF Mark, IInv, Statuses, Closed
    <3>7. Accounted(k)'
      BY <3>2, <3>5, <3>6, <2>0, RowsOnward DEF SkipInv, Accounted
    <3> QED  BY <3>5, <3>7
  <2>11. CASE Finish(k)
    <3>1. ToldIsClosed'
      <4> SUFFICES ASSUME NEW a \in Proposals, "skipped" \in told'[a] PROVE rows'[a] \in Closed
        BY DEF ToldIsClosed
      <4>1. CASE rows[a] \in Closed
        BY <4>1, <2>0, RowsOnward
      <4>2. CASE rows[a] \notin Closed
        <5>1. <<a, "skipped">> \in reply[k].said
          BY <4>2, <2>11 DEF Finish, SkipInv, ToldIsClosed
        <5>2. reply[k].pc = "next" /\ reply[k].verdict = "no" /\ a \in DOMAIN tx[k]
          BY <2>11, <4>2, <5>1 DEF Finish, At, SkipInv, Accounted, Busy
        <5>3. rows' = After(tx[k]) /\ reply[k].pc \notin Carrying
          BY <2>11, <5>2 DEF Finish, Carrying
        <5> QED  BY <5>2, <5>3, CommitAll DEF IInv, Closed
      <4> QED  BY <4>1, <4>2
    <3>2. Abandon(k)
      BY <2>11 DEF Finish
    <3> QED  BY <3>1, <3>2, <2>3, <2>7 DEF SkipInv
  <2>12. CASE ~Finish(k)
    <3>1. Converse(k) \/ ApproveTooLate(k) \/ Deadlocked(k) \/ Abort(k) => Abandon(k)
      BY DEF Converse, ApproveTooLate, Deadlocked, Abort
    <3>2. Listed(k)' /\ Accounted(k)'
      BY <1>2, <2>12, <3>1, <2>5, <2>6, <2>7, <2>8, <2>9, <2>10 DEF Work
    <3> QED  BY <2>12, <2>3, <2>4, <3>2 DEF SkipInv
  <2> QED  BY <2>11, <2>12
<1> QED  BY <1>0, <1>1, <1>2 DEF Next

(***************************************************************************)
(* What the user was told is skipped is not carried out later              *)
(* (proposed_actions_repository.py:9-12): its row is closed for good, and  *)
(* only a row that still says proposed, and is locked, is carried out.     *)
(***************************************************************************)
THEOREM SkippedStays == Spec => SkippedIsOver
<1>1. Spec => [](IInv /\ SkipInv)
  <2>1. IInv /\ [Next]_vars => IInv'
    BY TypeStep, LockStep, EffectsStep DEF IInv
  <2>2. Init => IInv /\ SkipInv
    BY TypeInit, LockInit, EffectsInit, SkipInit DEF IInv
  <2> QED  BY <2>1, <2>2, SkipStep, PTL DEF Spec
<1>2. IInv /\ SkipInv /\ [Next]_vars
      => [\A a \in Proposals : "skipped" \in told[a] => effects'[a] = effects[a]]_vars
  <2> SUFFICES ASSUME IInv, SkipInv, Next, NEW a \in Proposals, "skipped" \in told[a]
               PROVE  effects'[a] = effects[a]
    BY DEF vars
  <2>1. rows[a] # "proposed"
    BY DEF SkipInv, ToldIsClosed, Closed
  <2>2. ASSUME NEW k \in Handlers, Execute(k) \/ LoseAnswer(k) PROVE effects'[a] = effects[a]
    <3>1. reply[k].pc \in Carrying
      BY <2>2 DEF Execute, LoseAnswer, At, Carrying
    <3>2. rows[This(k)] = "proposed"
      BY <3>1 DEF IInv, LockInv, CarriedIsLocked, LockedIsProposed
    <3> QED  BY <2>1, <2>2, <3>2 DEF Execute, LoseAnswer, IInv, TypeInv, TypeOK
  <2> QED
    BY <2>2 DEF Next, Work, Propose, Lapse, Assemble, Decide, Converse, Get, Approve,
       ApproveTooLate, Reject, RejectTooLate, Deadlocked, ExecuteFails, MarkExecuted, MarkFailed,
       Mark, Finish, Abort
<1> QED  BY <1>1, <1>2, PTL DEF Spec, SkippedIsOver

=============================================================================
