----------------------------- MODULE HashChain -----------------------------
(***************************************************************************)
(* The hash chain of memory/raw_inputs.py: every source of a memory is     *)
(* appended to a table, and each row carries the hash of the row before    *)
(* it, so that verify_chain (memory/hashchain.py) notices what was changed *)
(* or is missing.                                                          *)
(*                                                                         *)
(* Sessions of the web process and of the executors append to it, each in  *)
(* a transaction that may append several rows and do much else before it   *)
(* commits.  A row is appended by a SELECT ... ORDER BY id DESC LIMIT 1    *)
(* FOR UPDATE and an INSERT.  PostgreSQL, at READ COMMITTED, chooses the   *)
(* row when the SELECT begins, among those committed and those of its own  *)
(* transaction; if another has it locked it waits, and then returns the    *)
(* row it chose.  No two rows have the same hash, so a row's id stands for *)
(* it.  The archive takes payloads away and puts them back; hashes stay.   *)
(***************************************************************************)
EXTENDS Naturals, FiniteSets

CONSTANTS
  Sessions,   \* sessions that append
  MaxIds      \* bound on the ids the sequence gives out

ASSUME ChainAssumption == MaxIds \in Nat

VARIABLES
  rows,     \* raw_inputs, as committed
  lastId,   \* where the sequence of ids is; a rollback does not take it back
  tx,       \* the transaction of each session
  begun,    \* history: transactions begun
  met       \* history: pairs of transactions that were open at the same time

vars == <<rows, lastId, tx, begun, met>>

-----------------------------------------------------------------------------
(* Values *)

\* prev_hash: the id of the row whose hash it is; 0 is null.
Ids == 1..MaxIds
Rows == [id : Ids, prev : Ids \cup {0}, by : Nat]

\* n: its number; chose: the row its SELECT has chosen, until it has inserted; own: its
\* uncommitted rows; locks: the rows it has locked.
Closed == [pc |-> "closed", n |-> 0, chose |-> 0, own |-> {}, locks |-> {}]
Transactions == [pc : {"closed", "open", "choosing"}, n : Nat, chose : Ids \cup {0},
                 own : SUBSET Rows, locks : SUBSET Ids]

Init ==
  /\ rows = {} /\ lastId = 0
  /\ tx = [s \in Sessions |-> Closed]
  /\ begun = 0 /\ met = {}

IsOpen(s) == tx[s].pc # "closed"
Visible(s) == rows \cup tx[s].own

\* The row with the highest id, 0 if there is none.
IsTail(id, S) ==
  IF S = {} THEN id = 0 ELSE id \in {r.id : r \in S} /\ \A r \in S : r.id <= id

-----------------------------------------------------------------------------
(* insert_raw_input, and the transaction around it *)

\* Mutant of Choose: the tail is looked for among the committed rows only, as it would be in
\* a session of its own.
ChooseCommitted(s, id) == IsTail(id, rows)

Choose(s, id) == IsTail(id, Visible(s))

\* The first statement of a transaction that matters here is the SELECT of its first append.
Begin(s) ==
  /\ tx[s].pc = "closed"
  /\ \E id \in Ids \cup {0} :
       /\ Choose(s, id)
       /\ tx' = [tx EXCEPT ![s] = [pc |-> "choosing", n |-> begun + 1, chose |-> id,
                                   own |-> {}, locks |-> {}]]
  /\ begun' = begun + 1
  /\ met' = met \cup UNION {{<<begun + 1, tx[o].n>>, <<tx[o].n, begun + 1>>} :
                            o \in {o \in Sessions : IsOpen(o)}}
  /\ UNCHANGED <<rows, lastId>>

\* One more append in the same transaction.
AppendAgain(s) ==
  /\ tx[s].pc = "open"
  /\ \E id \in Ids \cup {0} :
       /\ Choose(s, id)
       /\ tx' = [tx EXCEPT ![s].pc = "choosing", ![s].chose = id]
  /\ UNCHANGED <<rows, lastId, begun, met>>

\* Mutant of PrevOf: the row before is the one with the id before.
PrevById(s) == lastId

\* prev_hash is the hash of the row the SELECT returned.
PrevOf(s) == tx[s].chose

\* Nobody else has the chosen row locked: the SELECT returns it, and the row is inserted.  With
\* an empty table there is nothing to lock.
Insert(s) ==
  /\ tx[s].pc = "choosing"
  /\ \A o \in Sessions \ {s} : tx[s].chose \notin tx[o].locks
  /\ lastId < MaxIds
  /\ lastId' = lastId + 1
  /\ tx' = [tx EXCEPT ![s] =
       [pc |-> "open", n |-> tx[s].n, chose |-> 0,
        own |-> tx[s].own \cup {[id |-> lastId + 1, prev |-> PrevOf(s), by |-> tx[s].n]},
        locks |-> tx[s].locks \cup ({tx[s].chose} \ {0})]]
  /\ UNCHANGED <<rows, begun, met>>

Commit(s) ==
  /\ tx[s].pc = "open"
  /\ rows' = rows \cup tx[s].own
  /\ tx' = [tx EXCEPT ![s] = Closed]
  /\ UNCHANGED <<lastId, begun, met>>

\* A later statement fails, or the process dies.
Rollback(s) ==
  /\ IsOpen(s)
  /\ tx' = [tx EXCEPT ![s] = Closed]
  /\ UNCHANGED <<rows, lastId, begun, met>>

\* Bound: no transaction begins when no id is left, or when there have been MaxIds.
Next ==
  \E s \in Sessions :
    \/ lastId < MaxIds /\ begun < MaxIds /\ Begin(s)
    \/ lastId < MaxIds /\ AppendAgain(s)
    \/ Insert(s) \/ Commit(s) \/ Rollback(s)

Spec == Init /\ [][Next]_vars

-----------------------------------------------------------------------------
(* verify_chain without a scope finds no break: every row has the hash of the one before it in
   the order of the ids *)

Before(r) == {p \in rows : p.id < r.id}
ChainIntact == \A r \in rows : IsTail(r.prev, Before(r))

-----------------------------------------------------------------------------
(* Properties *)

TypeOK ==
  /\ rows \subseteq Rows
  /\ lastId \in Ids \cup {0}
  /\ tx \in [Sessions -> Transactions]
  /\ begun \in Nat
  /\ met \subseteq Nat \X Nat

\* A committed row follows a committed row with a lower id, or none: whatever is rolled back, no
\* link leads to a row that never was, so following the links from any row leads to a first one.
LinksLeadBack ==
  \A r \in rows : r.prev = 0 \/ \E p \in Before(r) : p.id = r.prev

\* A row passes over an earlier one only if their transactions were open at the same time, so
\* that verify_chain never blames a row whose transaction met no other, whatever was rolled back
\* before it and however many rows the transaction appended.
BreaksOnlyByOverlap ==
  \A p, r \in rows : p.id < r.id => p.id <= r.prev \/ <<p.by, r.by>> \in met

\* In particular one transaction at a time writes a chain that verifies.
SerialChainVerifies == met = {} => ChainIntact
=============================================================================
