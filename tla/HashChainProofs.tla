-------------------------- MODULE HashChainProofs --------------------------
(***************************************************************************)
(* Theorems about HashChain: every link leads back to a committed row, and *)
(* the chain breaks only where transactions were open at the same time.    *)
(***************************************************************************)
EXTENDS HashChain, TLAPS

USE ChainAssumption

-----------------------------------------------------------------------------
(* The inductive invariant *)

\* Ids are given out in order, and a closed session keeps nothing.
IdsInv ==
  /\ \A r \in rows : r.id <= lastId
  /\ \A s \in Sessions :
       /\ \A r \in tx[s].own : r.id <= lastId
       /\ tx[s].pc = "closed" => tx[s].own = {}

\* What a row, or a session that is about to insert, follows is visible to its transaction.
Leads(id, S) == id = 0 \/ \E p \in S : p.id = id
LinksInv ==
  /\ \A r \in rows : Leads(r.prev, {p \in rows : p.id < r.id})
  /\ \A s \in Sessions :
       /\ tx[s].pc = "choosing" => Leads(tx[s].chose, Visible(s))
       /\ \A r \in tx[s].own : Leads(r.prev, {p \in Visible(s) : p.id < r.id})

\* Rows that are there, committed or not.
AllRows == rows \cup UNION {tx[s].own : s \in Sessions}

\* Open transactions have met; the rows of a session are its own; and what a session about to
\* insert did not see when it chose was written by a transaction that it met.
OverlapInv ==
  /\ \A s, o \in Sessions : s # o /\ IsOpen(s) /\ IsOpen(o) => <<tx[s].n, tx[o].n>> \in met
  /\ \A s \in Sessions : \A r \in tx[s].own : r.by = tx[s].n
  /\ \A s \in Sessions : tx[s].pc = "choosing" =>
       \A p \in Visible(s) : p.id <= tx[s].chose \/ <<p.by, tx[s].n>> \in met
  /\ \A p, r \in AllRows : p.id < r.id => p.id <= r.prev \/ <<p.by, r.by>> \in met

IInv == TypeOK /\ IdsInv /\ LinksInv /\ OverlapInv

-----------------------------------------------------------------------------
(* The type invariant *)

\* The initial state has the types.
LEMMA TypeInit == Init => TypeOK
BY DEF Init, TypeOK, Transactions, Closed, Ids

\* Every step keeps the types.
LEMMA TypeNext == TypeOK /\ [Next]_vars => TypeOK'
<1> SUFFICES ASSUME TypeOK, [Next]_vars PROVE TypeOK'
  OBVIOUS
<1> USE DEF TypeOK
<1>1. CASE UNCHANGED vars
  BY <1>1 DEF vars
<1>2. ASSUME NEW s \in Sessions, Begin(s) PROVE TypeOK'
  <2>1. \A o \in Sessions : tx[o].n \in Nat
    BY DEF Transactions
  <2>2. met' \subseteq Nat \X Nat
    BY <1>2, <2>1 DEF Begin
  <2>3. PICK id \in Ids \cup {0} :
          tx' = [tx EXCEPT ![s] = [pc |-> "choosing", n |-> begun + 1, chose |-> id,
                                   own |-> {}, locks |-> {}]]
    BY <1>2 DEF Begin
  <2>4. tx' \in [Sessions -> Transactions]
    BY <2>3 DEF Transactions
  <2>. QED BY <1>2, <2>2, <2>4 DEF Begin
<1>3. ASSUME NEW s \in Sessions, AppendAgain(s) PROVE TypeOK'
  <2>1. PICK id \in Ids \cup {0} : tx' = [tx EXCEPT ![s].pc = "choosing", ![s].chose = id]
    BY <1>3 DEF AppendAgain
  <2>2. [tx[s] EXCEPT !.pc = "choosing", !.chose = id] \in Transactions
    BY DEF Transactions
  <2>3. tx' \in [Sessions -> Transactions]
    BY <2>1, <2>2
  <2>. QED BY <1>3, <2>3 DEF AppendAgain
<1>4. ASSUME NEW s \in Sessions, Insert(s) PROVE TypeOK'
  <2>1. lastId' \in Ids /\ lastId' = lastId + 1
    BY <1>4 DEF Insert, Ids
  <2>2. tx[s] \in Transactions
    OBVIOUS
  <2>3. [id |-> lastId + 1, prev |-> PrevOf(s), by |-> tx[s].n] \in Rows
    BY <2>1, <2>2 DEF PrevOf, Rows, Transactions
  <2>. DEFINE new == [pc |-> "open", n |-> tx[s].n, chose |-> 0,
                     own |-> tx[s].own \cup {[id |-> lastId + 1, prev |-> PrevOf(s), by |-> tx[s].n]},
                     locks |-> tx[s].locks \cup ({tx[s].chose} \ {0})]
  <2>4. new \in Transactions
    BY <2>2, <2>3 DEF Transactions
  <2>5. tx' = [tx EXCEPT ![s] = new]
    BY <1>4 DEF Insert
  <2>. QED BY <1>4, <2>1, <2>4, <2>5 DEF Insert
<1>5. ASSUME NEW s \in Sessions, Commit(s) PROVE TypeOK'
  BY <1>5 DEF Commit, Transactions, Closed
<1>6. ASSUME NEW s \in Sessions, Rollback(s) PROVE TypeOK'
  BY <1>6 DEF Rollback, Transactions, Closed
<1>. QED BY <1>1, <1>2, <1>3, <1>4, <1>5, <1>6 DEF Next

\* Type correctness of the chain and of the transactions that append to it.
THEOREM TypeCorrect == Spec => []TypeOK
<1>. QED BY TypeInit, TypeNext, PTL DEF Spec
-----------------------------------------------------------------------------
(* Ids and links *)

\* What is visible to a session has an id the sequence gave out.
LEMMA VisibleIds ==
  ASSUME TypeOK, IdsInv, NEW s \in Sessions
  PROVE  \A r \in Visible(s) : r \in Rows /\ r.id \in Ids /\ r.id <= lastId
BY DEF TypeOK, IdsInv, Visible, Transactions, Rows

\* Whatever the SELECT chooses is visible to its transaction.
LEMMA ChooseLeads ==
  ASSUME NEW s \in Sessions, NEW id \in Ids \cup {0}, Choose(s, id)
  PROVE  Leads(id, Visible(s))
BY DEF Choose, IsTail, Leads

\* A row's link is kept when more rows can be seen.
LEMMA LeadsMore ==
  ASSUME NEW S, NEW T, S \subseteq T, NEW id, Leads(id, S)
  PROVE  Leads(id, T)
BY DEF Leads

\* Every step keeps the order of the ids.
LEMMA IdsNext == TypeOK /\ IdsInv /\ [Next]_vars => IdsInv'
<1> SUFFICES ASSUME TypeOK, IdsInv, [Next]_vars PROVE IdsInv'
  OBVIOUS
<1> USE DEF IdsInv
<1>1. CASE UNCHANGED vars
  BY <1>1 DEF vars
<1>2. ASSUME NEW s \in Sessions, Begin(s) PROVE IdsInv'
  BY <1>2 DEF Begin, TypeOK
<1>3. ASSUME NEW s \in Sessions, AppendAgain(s) PROVE IdsInv'
  <2>1. \A o \in Sessions : tx'[o].own = tx[o].own /\ (tx'[o].pc = "closed" => tx[o].pc = "closed")
    BY <1>3 DEF AppendAgain, TypeOK, Transactions
  <2>. QED BY <1>3, <2>1 DEF AppendAgain
<1>4. ASSUME NEW s \in Sessions, Insert(s) PROVE IdsInv'
  <2>1. lastId' = lastId + 1 /\ rows' = rows
    BY <1>4 DEF Insert
  <2>2. tx'[s].own = tx[s].own \cup {[id |-> lastId + 1, prev |-> PrevOf(s), by |-> tx[s].n]}
    BY <1>4 DEF Insert, TypeOK
  <2>3. tx'[s].pc # "closed"
    BY <1>4 DEF Insert, TypeOK
  <2>4. \A o \in Sessions \ {s} : tx'[o] = tx[o]
    BY <1>4 DEF Insert, TypeOK
  <2>5. \A o \in Sessions : \A r \in Visible(o) : r.id <= lastId'
    BY <2>1, VisibleIds DEF TypeOK, Ids
  <2>6. lastId + 1 <= lastId'
    BY <2>1 DEF TypeOK, Ids
  <2>7. \A r \in rows : r.id <= lastId'
    BY <2>1 DEF TypeOK, Ids, Rows
  <2>. QED BY <2>1, <2>2, <2>3, <2>4, <2>5, <2>6, <2>7 DEF Visible
<1>5. ASSUME NEW s \in Sessions, Commit(s) PROVE IdsInv'
  BY <1>5 DEF Commit, Closed, TypeOK
<1>6. ASSUME NEW s \in Sessions, Rollback(s) PROVE IdsInv'
  BY <1>6 DEF Rollback, Closed, TypeOK
<1>. QED BY <1>1, <1>2, <1>3, <1>4, <1>5, <1>6 DEF Next

\* Every step keeps the links.
LEMMA LinksNext == TypeOK /\ IdsInv /\ LinksInv /\ [Next]_vars => LinksInv'
<1> SUFFICES ASSUME TypeOK, IdsInv, LinksInv, [Next]_vars PROVE LinksInv'
  OBVIOUS
<1> USE DEF LinksInv, Visible
<1>1. CASE UNCHANGED vars
  BY <1>1 DEF vars
<1>2. ASSUME NEW s \in Sessions, Begin(s) PROVE LinksInv'
  <2>1. PICK id \in Ids \cup {0} :
          /\ Choose(s, id)
          /\ tx' = [tx EXCEPT ![s] = [pc |-> "choosing", n |-> begun + 1, chose |-> id,
                                      own |-> {}, locks |-> {}]]
    BY <1>2 DEF Begin
  <2>2. Leads(id, rows)
    BY <1>2, <2>1, ChooseLeads DEF Begin, IdsInv
  <2>3. \A o \in Sessions \ {s} : tx'[o] = tx[o]
    BY <2>1 DEF TypeOK
  <2>4. tx'[s].chose = id /\ tx'[s].own = {} /\ rows' = rows
    BY <1>2, <2>1 DEF TypeOK, Begin
  <2>. QED BY <2>2, <2>3, <2>4
<1>3. ASSUME NEW s \in Sessions, AppendAgain(s) PROVE LinksInv'
  <2>1. PICK id \in Ids \cup {0} :
          Choose(s, id) /\ tx' = [tx EXCEPT ![s].pc = "choosing", ![s].chose = id]
    BY <1>3 DEF AppendAgain
  <2>2. Leads(id, Visible(s))
    BY <2>1, ChooseLeads
  <2>3. \A o \in Sessions \ {s} : tx'[o] = tx[o]
    BY <2>1 DEF TypeOK
  <2>4. tx'[s].chose = id /\ tx'[s].own = tx[s].own /\ rows' = rows
    BY <1>3, <2>1 DEF TypeOK, AppendAgain, Transactions
  <2>. QED BY <2>2, <2>3, <2>4
<1>4. ASSUME NEW s \in Sessions, Insert(s) PROVE LinksInv'
  <2>. DEFINE new == [id |-> lastId + 1, prev |-> PrevOf(s), by |-> tx[s].n]
  <2>1. tx'[s].own = tx[s].own \cup {new} /\ tx'[s].pc = "open" /\ rows' = rows
    BY <1>4 DEF Insert, TypeOK
  <2>2. \A o \in Sessions \ {s} : tx'[o] = tx[o]
    BY <1>4 DEF Insert, TypeOK
  <2>3. Leads(new.prev, Visible(s))
    BY <1>4 DEF Insert, PrevOf
  <2>4. Visible(s) \subseteq {p \in Visible(s)' : p.id < new.id}
    BY <2>1, VisibleIds DEF TypeOK, Ids
  <2>5. Leads(new.prev, {p \in Visible(s)' : p.id < new.id})
    BY <2>3, <2>4, LeadsMore
  <2>6. \A r \in tx[s].own : Leads(r.prev, {p \in Visible(s)' : p.id < r.id})
    <3>1. Visible(s) \subseteq Visible(s)'
      BY <2>1
    <3>. QED BY <3>1, LeadsMore DEF Leads
  <2>. QED BY <2>1, <2>2, <2>5, <2>6
<1>5. ASSUME NEW s \in Sessions, Commit(s) PROVE LinksInv'
  <2>1. rows' = rows \cup tx[s].own /\ tx'[s].pc = "closed" /\ tx'[s].own = {}
    BY <1>5 DEF Commit, Closed, TypeOK
  <2>2. \A o \in Sessions \ {s} : tx'[o] = tx[o]
    BY <1>5 DEF Commit, TypeOK
  <2>. QED BY <2>1, <2>2 DEF Leads
<1>6. ASSUME NEW s \in Sessions, Rollback(s) PROVE LinksInv'
  <2>1. rows' = rows /\ tx'[s].pc = "closed" /\ tx'[s].own = {}
    BY <1>6 DEF Rollback, Closed, TypeOK
  <2>2. \A o \in Sessions \ {s} : tx'[o] = tx[o]
    BY <1>6 DEF Rollback, TypeOK
  <2>. QED BY <2>1, <2>2
<1>. QED BY <1>1, <1>2, <1>3, <1>4, <1>5, <1>6 DEF Next

-----------------------------------------------------------------------------
(* Overlaps *)

\* What the SELECT chooses is not below anything its transaction sees.
LEMMA ChooseIsLast ==
  ASSUME NEW s \in Sessions, NEW id \in Ids \cup {0}, Choose(s, id)
  PROVE  \A p \in Visible(s) : p.id <= id
BY DEF Choose, IsTail

\* What other sessions have not committed was written by transactions that an open one met.
LEMMA OthersMet ==
  ASSUME OverlapInv, IdsInv, NEW s \in Sessions, NEW o \in Sessions \ {s}, IsOpen(s),
         NEW p \in tx[o].own
  PROVE  <<p.by, tx[s].n>> \in met
<1>1. IsOpen(o)
  BY DEF IdsInv, IsOpen
<1>. QED BY <1>1 DEF OverlapInv

\* Every step keeps what is known of overlaps.
LEMMA OverlapNext == TypeOK /\ IdsInv /\ OverlapInv /\ [Next]_vars => OverlapInv'
<1> SUFFICES ASSUME TypeOK, IdsInv, OverlapInv, [Next]_vars PROVE OverlapInv'
  OBVIOUS
<1>1. CASE UNCHANGED vars
  BY <1>1 DEF vars, OverlapInv, IsOpen, Visible, AllRows
<1>2. ASSUME NEW s \in Sessions, Begin(s) PROVE OverlapInv'
  <2>1. PICK id \in Ids \cup {0} :
          /\ Choose(s, id)
          /\ tx' = [tx EXCEPT ![s] = [pc |-> "choosing", n |-> begun + 1, chose |-> id,
                                      own |-> {}, locks |-> {}]]
    BY <1>2 DEF Begin
  <2>2. \A o \in Sessions \ {s} : tx'[o] = tx[o]
    BY <2>1 DEF TypeOK
  <2>3. /\ tx'[s].chose = id /\ tx'[s].own = {} /\ tx[s].own = {} /\ tx'[s].n = begun + 1
        /\ rows' = rows /\ met \subseteq met'
    BY <1>2, <2>1 DEF TypeOK, Begin, IdsInv
  <2>4. \A o \in Sessions \ {s} : IsOpen(o) =>
          <<begun + 1, tx[o].n>> \in met' /\ <<tx[o].n, begun + 1>> \in met'
    BY <1>2 DEF Begin
  <2>5. \A p \in rows : p.id <= id
    BY <2>1, ChooseIsLast DEF Visible
  <2>6. AllRows' = AllRows
    BY <2>2, <2>3 DEF AllRows
  <2>7. \A p, r \in AllRows : p.id < r.id => p.id <= r.prev \/ <<p.by, r.by>> \in met'
    BY <2>3 DEF OverlapInv
  <2>8. \A a, o \in Sessions : a # o /\ IsOpen(a)' /\ IsOpen(o)' => <<tx'[a].n, tx'[o].n>> \in met'
    BY <2>2, <2>3, <2>4 DEF OverlapInv, IsOpen
  <2>9. \A o \in Sessions : \A r \in tx'[o].own : r.by = tx'[o].n
    BY <2>2, <2>3 DEF OverlapInv
  <2>10. \A o \in Sessions : tx'[o].pc = "choosing" =>
           \A p \in Visible(o)' : p.id <= tx'[o].chose \/ <<p.by, tx'[o].n>> \in met'
    BY <2>2, <2>3, <2>5 DEF OverlapInv, Visible
  <2>. QED BY <2>6, <2>7, <2>8, <2>9, <2>10 DEF OverlapInv
<1>3. ASSUME NEW s \in Sessions, AppendAgain(s) PROVE OverlapInv'
  <2>1. PICK id \in Ids \cup {0} :
          Choose(s, id) /\ tx' = [tx EXCEPT ![s].pc = "choosing", ![s].chose = id]
    BY <1>3 DEF AppendAgain
  <2>2. \A o \in Sessions \ {s} : tx'[o] = tx[o]
    BY <2>1 DEF TypeOK
  <2>3. /\ tx'[s].chose = id /\ tx'[s].own = tx[s].own /\ tx'[s].n = tx[s].n
        /\ IsOpen(s) /\ rows' = rows /\ met' = met
    BY <1>3, <2>1 DEF TypeOK, AppendAgain, Transactions, IsOpen
  <2>4. \A p \in Visible(s) : p.id <= id
    BY <2>1, ChooseIsLast
  <2>5. AllRows' = AllRows
    BY <2>2, <2>3 DEF AllRows
  <2>. QED BY <2>2, <2>3, <2>4, <2>5 DEF OverlapInv, IsOpen, Visible
<1>4. ASSUME NEW s \in Sessions, Insert(s) PROVE OverlapInv'
  <2>. DEFINE new == [id |-> lastId + 1, prev |-> PrevOf(s), by |-> tx[s].n]
  <2>1. /\ tx'[s].own = tx[s].own \cup {new} /\ tx'[s].pc = "open" /\ tx'[s].n = tx[s].n
        /\ rows' = rows /\ met' = met /\ IsOpen(s) /\ tx[s].pc = "choosing"
    BY <1>4 DEF Insert, TypeOK, IsOpen
  <2>2. \A o \in Sessions \ {s} : tx'[o] = tx[o]
    BY <1>4 DEF Insert, TypeOK
  <2>3. AllRows' = AllRows \cup {new}
    BY <2>1, <2>2 DEF AllRows
  <2>4. \A p \in AllRows : p.id \in Nat /\ p.id < new.id
    BY VisibleIds DEF AllRows, Visible, TypeOK, Ids
  <2>5. new.id \in Nat
    BY DEF TypeOK, Ids
  <2>6. \A p \in AllRows : p.id <= new.prev \/ <<p.by, new.by>> \in met
    <3>1. \A p \in Visible(s) : p.id <= new.prev \/ <<p.by, new.by>> \in met
      BY <2>1 DEF OverlapInv, PrevOf
    <3>2. \A o \in Sessions \ {s} : \A p \in tx[o].own : <<p.by, new.by>> \in met
      BY <2>1, OthersMet
    <3>. QED BY <3>1, <3>2 DEF AllRows, Visible
  <2>7. \A p, r \in AllRows' : p.id < r.id => p.id <= r.prev \/ <<p.by, r.by>> \in met
    <3>. SUFFICES ASSUME NEW p \in AllRows', NEW r \in AllRows', p.id < r.id
                  PROVE  p.id <= r.prev \/ <<p.by, r.by>> \in met
      OBVIOUS
    <3>1. CASE p \in AllRows /\ r \in AllRows
      BY <3>1 DEF OverlapInv
    <3>2. CASE p \in AllRows /\ r = new
      BY <3>2, <2>6
    <3>3. CASE p = new
      BY <3>3, <2>3, <2>4, <2>5
    <3>. QED BY <3>1, <3>2, <3>3, <2>3
  <2>. QED BY <2>1, <2>2, <2>7 DEF OverlapInv, IsOpen, Visible
<1>5. ASSUME NEW s \in Sessions, Commit(s) PROVE OverlapInv'
  <2>1. /\ rows' = rows \cup tx[s].own /\ tx'[s].pc = "closed" /\ tx'[s].own = {}
        /\ met' = met /\ IsOpen(s)
    BY <1>5 DEF Commit, Closed, TypeOK, IsOpen
  <2>2. \A o \in Sessions \ {s} : tx'[o] = tx[o]
    BY <1>5 DEF Commit, TypeOK
  <2>3. AllRows' \subseteq AllRows
    BY <2>1, <2>2 DEF AllRows
  <2>4. \A o \in Sessions : tx'[o].pc = "choosing" =>
          \A p \in Visible(o)' : p.id <= tx'[o].chose \/ <<p.by, tx'[o].n>> \in met'
    <3>. SUFFICES ASSUME NEW o \in Sessions, tx'[o].pc = "choosing", NEW p \in Visible(o)'
                  PROVE  p.id <= tx'[o].chose \/ <<p.by, tx'[o].n>> \in met'
      OBVIOUS
    <3>1. o # s /\ tx'[o] = tx[o] /\ IsOpen(o)
      BY <2>1, <2>2 DEF IsOpen
    <3>2. CASE p \in Visible(o)
      BY <3>1, <3>2, <2>1 DEF OverlapInv
    <3>3. CASE p \in tx[s].own
      BY <3>1, <3>3, <2>1, OthersMet
    <3>. QED BY <3>1, <3>2, <3>3, <2>1 DEF Visible
  <2>5. \A o \in Sessions : IsOpen(o)' => o # s /\ IsOpen(o)
    BY <2>1, <2>2 DEF IsOpen
  <2>. QED BY <2>1, <2>2, <2>3, <2>4, <2>5 DEF OverlapInv
<1>6. ASSUME NEW s \in Sessions, Rollback(s) PROVE OverlapInv'
  <2>1. /\ rows' = rows /\ tx'[s].pc = "closed" /\ tx'[s].own = {} /\ met' = met
    BY <1>6 DEF Rollback, Closed, TypeOK
  <2>2. \A o \in Sessions \ {s} : tx'[o] = tx[o]
    BY <1>6 DEF Rollback, TypeOK
  <2>3. AllRows' \subseteq AllRows
    BY <2>1, <2>2 DEF AllRows
  <2>. QED BY <2>1, <2>2, <2>3 DEF OverlapInv, IsOpen, Visible
<1>. QED BY <1>1, <1>2, <1>3, <1>4, <1>5, <1>6 DEF Next

-----------------------------------------------------------------------------
(* Theorems *)

\* The invariant holds of every reachable state.
LEMMA Inductive == Spec => []IInv
<1>1. Init => IInv
  <2>1. Init => IdsInv /\ LinksInv /\ OverlapInv
    BY DEF Init, Closed, IdsInv, LinksInv, OverlapInv, IsOpen, AllRows
  <2>. QED BY <2>1, TypeInit DEF IInv
<1>2. IInv /\ [Next]_vars => IInv'
  BY TypeNext, IdsNext, LinksNext, OverlapNext DEF IInv
<1>. QED BY <1>1, <1>2, PTL DEF Spec

\* Whatever is rolled back, a committed row follows a committed one with a lower id, or none.
THEOREM LinksAreKept == Spec => []LinksLeadBack
<1>1. IInv => LinksLeadBack
  BY DEF IInv, LinksInv, LinksLeadBack, Leads, Before
<1>. QED BY <1>1, Inductive, PTL

\* The lock on the tail may fail to order two appends only if their transactions overlap.
THEOREM BreaksNeedOverlap == Spec => []BreaksOnlyByOverlap
<1>1. IInv => BreaksOnlyByOverlap
  BY DEF IInv, OverlapInv, BreaksOnlyByOverlap, AllRows
<1>. QED BY <1>1, Inductive, PTL

\* A chain written by one transaction at a time verifies.
THEOREM SerialChainIsIntact == Spec => []SerialChainVerifies
<1>1. IInv => SerialChainVerifies
  <2>. SUFFICES ASSUME IInv, met = {}, NEW r \in rows PROVE IsTail(r.prev, Before(r))
    BY DEF SerialChainVerifies, ChainIntact
  <2>1. \A p \in Before(r) : p.id <= r.prev
    BY DEF IInv, OverlapInv, AllRows, Before
  <2>2. Leads(r.prev, Before(r))
    BY DEF IInv, LinksInv, Before
  <2>3. \A p \in Before(r) : p.id \in Nat /\ p.id > 0
    BY DEF IInv, TypeOK, Rows, Ids, Before
  <2>4. CASE r.prev = 0
    BY <2>1, <2>3, <2>4 DEF IsTail
  <2>5. CASE \E p \in Before(r) : p.id = r.prev
    BY <2>1, <2>5 DEF IsTail
  <2>. QED BY <2>2, <2>4, <2>5 DEF Leads
<1>. QED BY <1>1, Inductive, PTL

=============================================================================
