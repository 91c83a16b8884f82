------------------------ MODULE CrisisApprovalProofs ------------------------
(***************************************************************************)
(* Proofs about CrisisApproval, for every set of cards, texts and clickers *)
(* and every bound: no request is lost, none is repeated without a fault,  *)
(* and an approval is overruled only by a click that had not read it.      *)
(***************************************************************************)
EXTENDS CrisisApproval, SequenceTheorems, FiniteSetTheorems, WellFoundedInduction, TLAPS

(***************************************************************************)
(* A request that is in the ledger was posted.  What the open transaction  *)
(* has still to ask, has asked, or need not ask because somebody was asked *)
(* before, covers the copy, unless it will be rolled back.                 *)
(***************************************************************************)
AskedInv ==
  /\ \A q \in ledger : posts[q] > 0
  /\ ReadyRowWasAsked
  /\ tick.pc = "posting" =>
       /\ \A q \in tick.marked : posts[q] > 0
       /\ \/ tick.failed \/ "copy" \in tick.ask
          \/ tick.seen.status["copy"] # "Ready" \/ Asked("copy")

\* The request for route r that the open transaction has to post.
Due(r) == [card |-> tick.card, route |-> r, hash |-> tick.seen.hash]

\* The ledger has the request, or will have it when the open transaction commits.
Kept(q) == q \in ledger \/ (tick.pc = "posting" /\ ~tick.failed /\ q \in tick.marked)

(***************************************************************************)
(* All posts of a request but one are paid for by faults; all of them, as  *)
(* long as nobody remembers it.  A request that is posted after another of *)
(* its transaction was refused is paid for by that refusal.                *)
(***************************************************************************)
PostsInv ==
  /\ \A q \in Request : posts[q] <= faults + (IF Kept(q) THEN 1 ELSE 0)
  /\ tick.pc = "posting" =>
       \A r \in tick.ask : /\ Due(r) \notin ledger \cup tick.marked
                           /\ tick.failed => posts[Due(r)] < faults

\* Every approval of r among the first n decisions has been overruled, or is of an older text.
Informed(h, r, n) ==
  \A i \in DOMAIN h :
    /\ h[i].kind = "decision" /\ h[i].route = r /\ h[i].decision = "approved"
    /\ DecidedIn(SubSeq(h, 1, i)) <= n
    => \E j \in (i + 1)..Len(h) :
         h[j].kind = "version" \/ (h[j].kind = "decision" /\ h[j].route = r)

\* A click that is being handled is about a row that stays, and was allowed by what it had read.
ClicksInv ==
  \A k \in Clickers : click[k] # Idle =>
    LET x == click[k]
    IN /\ rows[x.card] # Absent
       /\ x.basis <= DecidedIn(history[x.card])
       /\ Informed(history[x.card], x.route, x.basis)

\* The version of the open transaction has its place in the history.
StampInv == tick.pc \in {"observed", "posting"} => tick.at <= Len(history[tick.card])

IInv == TypeOK /\ AskedInv /\ PostsInv /\ StampInv /\ ClicksInv /\ ApprovalSettles

-----------------------------------------------------------------------------
(* Type correctness *)

\* Where the poller is tells what it holds.
LEMMA TickShape ==
  ASSUME TypeOK
  PROVE  /\ tick.pc = "next" => tick \in [pc : {"next"}, export : Export]
         /\ tick.pc = "observed" =>
              tick \in [pc : {"observed"}, card : Cards, seen : Content, at : Nat, export : Export]
         /\ tick.pc = "posting" =>
              tick \in [pc : {"posting"}, card : Cards, seen : Content, at : Nat, export : Export,
                        failed : BOOLEAN, marked : SUBSET Request, ask : SUBSET Routes]
         /\ tick.pc \in {"idle", "next", "observed", "posting"}
  BY DEF TypeOK, TickType, Idle

\* A part of an export is an export.
LEMMA ExportPart ==
  ASSUME NEW f \in Export, NEW S \in SUBSET DOMAIN f
  PROVE  Restricted(f, S) \in Export
<1>1. PICK R \in SUBSET Cards : f \in [R -> Content]
  BY DEF Export
<1>2. S \in SUBSET Cards /\ Restricted(f, S) \in [S -> Content]
  BY <1>1 DEF Restricted
<1> QED  BY <1>2 DEF Export

\* What is exported of a card is a content.
LEMMA ExportContent ==
  ASSUME NEW f \in Export, NEW c \in DOMAIN f
  PROVE  c \in Cards /\ f[c] \in Content
  BY DEF Export

\* A click in progress is about a card and has a decision to record.
LEMMA ClickShape ==
  ASSUME TypeOK, NEW k \in Clickers, click[k] # Idle
  PROVE  click[k] \in [pc : {"deciding"}, card : Cards, route : Routes,
                       decision : Decisions, basis : 0..MaxDecisions]
  BY DEF TypeOK, ClickType

\* The route that is asked next is one of those to be asked.
LEMMA NextRouteIsDue ==
  ASSUME TypeOK, tick.pc = "posting", tick.ask # {}
  PROVE  NextRoute \in tick.ask /\ NextRoute \in Routes
<1>1. tick.ask \in SUBSET Routes
  BY TickShape
<1>2. \E r \in tick.ask : "asset" \in tick.ask => r = "asset"
  OBVIOUS
<1>3. NextRoute \in tick.ask
  BY <1>2 DEF NextRoute
<1> QED  BY <1>1, <1>3

\* The events are versions, requests and decisions.
LEMMA EventType ==
  /\ \A h \in Hashes : Version(h) \in Event
  /\ \A r \in Routes, h \in Hashes : Ask(r, h) \in Event
  /\ \A r \in Routes, d \in Decisions, n \in 0..MaxDecisions : Decide(r, d, n) \in Event
  BY DEF Event

-----------------------------------------------------------------------------
(* Events in a history *)

\* The decisions among the first events of a history are counted by a natural.
LEMMA CountType ==
  ASSUME NEW h \in Seq(Event), NEW n \in Nat
  PROVE  /\ IsFiniteSet({j \in 1..n : h[j].kind = "decision"})
         /\ Cardinality({j \in 1..n : h[j].kind = "decision"}) \in Nat
<1>1. IsFiniteSet(1..n)
  BY FS_Interval
<1>2. IsFiniteSet({j \in 1..n : h[j].kind = "decision"})
  BY <1>1, FS_Subset, Zenon
<1> QED  BY <1>2, FS_CardinalityType

\* DecidedIn of a first part of a history.
LEMMA DecidedBefore ==
  ASSUME NEW h \in Seq(Event), NEW i \in 0..Len(h)
  PROVE  /\ DecidedIn(SubSeq(h, 1, i)) = Cardinality({j \in 1..i : h[j].kind = "decision"})
         /\ DecidedIn(SubSeq(h, 1, i)) \in Nat
<1>1. /\ DOMAIN SubSeq(h, 1, i) = 1..i
      /\ \A j \in 1..i : SubSeq(h, 1, i)[j] = h[j]
  OBVIOUS
<1>2. {j \in DOMAIN SubSeq(h, 1, i) : SubSeq(h, 1, i)[j].kind = "decision"}
        = {j \in 1..i : h[j].kind = "decision"}
  BY <1>1
<1>3. DecidedIn(SubSeq(h, 1, i)) = Cardinality({j \in 1..i : h[j].kind = "decision"})
  BY <1>2 DEF DecidedIn
<1>4. i \in Nat
  OBVIOUS
<1> QED  BY <1>3, <1>4, CountType

\* DecidedIn of a whole history.
LEMMA DecidedInAll ==
  ASSUME NEW h \in Seq(Event)
  PROVE  /\ DecidedIn(h) = Cardinality({j \in 1..Len(h) : h[j].kind = "decision"})
         /\ DecidedIn(h) \in Nat
<1>1. DOMAIN h = 1..Len(h) /\ Len(h) \in Nat
  OBVIOUS
<1>2. DecidedIn(h) = Cardinality({j \in 1..Len(h) : h[j].kind = "decision"})
  BY <1>1 DEF DecidedIn
<1> QED  BY <1>1, <1>2, CountType

\* Among the first events there are as many decisions as among all, or fewer.
LEMMA DecidedGrows ==
  ASSUME NEW h \in Seq(Event), NEW i \in 0..Len(h)
  PROVE  DecidedIn(SubSeq(h, 1, i)) <= DecidedIn(h)
<1> DEFINE A == {j \in 1..i : h[j].kind = "decision"}
           B == {j \in 1..Len(h) : h[j].kind = "decision"}
<1>1. A \subseteq B /\ IsFiniteSet(B)
  BY CountType
<1>2. Cardinality(A) <= Cardinality(B)
  BY <1>1, FS_Subset
<1> QED  BY <1>2, DecidedBefore, DecidedInAll

\* An event that is added at the end changes nothing before it.
LEMMA AppendedEvent ==
  ASSUME NEW h \in Seq(Event), NEW e \in Event
  PROVE  /\ Append(h, e) \in Seq(Event)
         /\ Len(Append(h, e)) = Len(h) + 1
         /\ \A i \in 1..Len(h) : Append(h, e)[i] = h[i]
         /\ Append(h, e)[Len(h) + 1] = e
         /\ \A i \in 0..Len(h) : DecidedIn(SubSeq(Append(h, e), 1, i)) = DecidedIn(SubSeq(h, 1, i))
         /\ e.kind # "decision" => DecidedIn(Append(h, e)) = DecidedIn(h)
         /\ e.kind = "decision" => DecidedIn(Append(h, e)) = DecidedIn(h) + 1
         /\ DecidedIn(SubSeq(Append(h, e), 1, Len(h) + 1)) = DecidedIn(Append(h, e))
<1> DEFINE g == Append(h, e)
           B == {j \in 1..Len(h) : h[j].kind = "decision"}
           C == {j \in 1..(Len(h) + 1) : g[j].kind = "decision"}
<1>1. /\ g \in Seq(Event) /\ Len(g) = Len(h) + 1
      /\ \A i \in 1..Len(h) : g[i] = h[i]
      /\ g[Len(h) + 1] = e
  OBVIOUS
<1>2. ASSUME NEW i \in 0..Len(h)
      PROVE  DecidedIn(SubSeq(g, 1, i)) = DecidedIn(SubSeq(h, 1, i))
  <2>1. {j \in 1..i : g[j].kind = "decision"} = {j \in 1..i : h[j].kind = "decision"}
    BY <1>1
  <2>2. i \in 0..Len(g)
    BY <1>1
  <2>3. DecidedIn(SubSeq(g, 1, i)) = Cardinality({j \in 1..i : g[j].kind = "decision"})
    BY <1>1, <2>2, DecidedBefore
  <2>4. DecidedIn(SubSeq(h, 1, i)) = Cardinality({j \in 1..i : h[j].kind = "decision"})
    BY DecidedBefore
  <2> QED  BY <2>1, <2>3, <2>4
<1>3. IsFiniteSet(B) /\ Cardinality(B) \in Nat
  BY CountType
<1>4. DecidedIn(g) = Cardinality(C) /\ DecidedIn(h) = Cardinality(B)
  BY <1>1, DecidedInAll
<1>5. ASSUME e.kind # "decision" PROVE DecidedIn(g) = DecidedIn(h)
  <2>1. B = C
    BY <1>1, <1>5
  <2> QED  BY <1>4, <2>1
<1>6. ASSUME e.kind = "decision" PROVE DecidedIn(g) = DecidedIn(h) + 1
  <2>1. C = B \cup {Len(h) + 1}
    BY <1>1, <1>6
  <2>2. Len(h) + 1 \notin B
    OBVIOUS
  <2>3. Cardinality(B \cup {Len(h) + 1}) = Cardinality(B) + 1
    BY <1>3, <2>2, FS_AddElement
  <2> QED  BY <1>4, <2>1, <2>3
<1>7. DecidedIn(SubSeq(g, 1, Len(h) + 1)) = DecidedIn(g)
  <2>1. SubSeq(g, 1, Len(h) + 1) = g
    BY <1>1
  <2> QED  BY <2>1
<1> QED  BY <1>1, <1>2, <1>5, <1>6, <1>7

\* The elements of three sequences in a row, of which the second has one.
LEMMA BetweenTwo ==
  ASSUME NEW S, NEW u \in Seq(S), NEW m \in Seq(S), NEW w \in Seq(S), Len(m) = 1
  PROVE  /\ (u \o m) \o w \in Seq(S)
         /\ Len((u \o m) \o w) = Len(u) + 1 + Len(w)
         /\ \A i \in 1..Len(u) : ((u \o m) \o w)[i] = u[i]
         /\ ((u \o m) \o w)[Len(u) + 1] = m[1]
         /\ \A i \in 1..Len(w) : ((u \o m) \o w)[Len(u) + 1 + i] = w[i]
<1> DEFINE y == u \o m
           g == y \o w
<1>2. /\ y \in Seq(S) /\ Len(y) = Len(u) + 1
      /\ \A i \in 1..(Len(u) + 1) : y[i] = IF i <= Len(u) THEN u[i] ELSE m[i - Len(u)]
  BY ConcatProperties
<1>3. (\A i \in 1..Len(u) : y[i] = u[i]) /\ y[Len(u) + 1] = m[1]
  <2>1. Len(u) \in Nat /\ (Len(u) + 1) - Len(u) = 1
    OBVIOUS
  <2> HIDE DEF y
  <2> QED  BY <1>2, <2>1
<1>4. /\ g \in Seq(S) /\ Len(g) = Len(y) + Len(w)
      /\ \A i \in 1..(Len(y) + Len(w)) : g[i] = IF i <= Len(y) THEN y[i] ELSE w[i - Len(y)]
  <2>1. y \in Seq(S)
    BY <1>2
  <2> HIDE DEF y
  <2> QED  BY <2>1, ConcatProperties, Zenon
<1>5. g = (u \o m) \o w
  OBVIOUS
<1> HIDE DEF y, g
<1>7. Len(u) \in Nat /\ Len(w) \in Nat
  OBVIOUS
<1>8. Len(g) = Len(u) + 1 + Len(w)
  BY <1>2, <1>4
<1>9. ASSUME NEW i \in 1..(Len(u) + 1) PROVE g[i] = y[i]
  BY <1>2, <1>4, <1>7
<1>10. ASSUME NEW i \in 1..Len(w) PROVE g[Len(u) + 1 + i] = w[i]
  <2>1. /\ Len(u) + 1 + i \in 1..(Len(y) + Len(w)) /\ ~(Len(u) + 1 + i <= Len(y))
        /\ (Len(u) + 1 + i) - Len(y) = i
    BY <1>2, <1>7
  <2> QED  BY <1>4, <2>1
<1>11. Len(u) + 1 \in 1..(Len(u) + 1) /\ \A i \in 1..Len(u) : i \in 1..(Len(u) + 1)
  BY <1>7
<1>12. /\ g \in Seq(S) /\ Len(g) = Len(u) + 1 + Len(w)
       /\ \A i \in 1..Len(u) : g[i] = u[i]
       /\ g[Len(u) + 1] = m[1]
       /\ \A i \in 1..Len(w) : g[Len(u) + 1 + i] = w[i]
  BY <1>3, <1>4, <1>8, <1>9, <1>10, <1>11
<1> QED  BY <1>5, <1>12, Zenon

\* A history with a version put behind its first a events.
Inserted(h, a, x) == InsertAt(h, a + 1, Version(x))

\* A version that is inserted moves what is after it, and counts for nothing.
LEMMA InsertedVersion ==
  ASSUME NEW h \in Seq(Event), NEW a \in 0..Len(h), NEW x \in Hashes
  PROVE  /\ Inserted(h, a, x) \in Seq(Event)
         /\ Len(Inserted(h, a, x)) = Len(h) + 1
         /\ \A i \in 1..a : Inserted(h, a, x)[i] = h[i]
         /\ Inserted(h, a, x)[a + 1] = Version(x)
         /\ \A i \in (a + 1)..Len(h) : Inserted(h, a, x)[i + 1] = h[i]
         /\ \A i \in 0..a :
              DecidedIn(SubSeq(Inserted(h, a, x), 1, i)) = DecidedIn(SubSeq(h, 1, i))
         /\ \A i \in a..Len(h) :
              DecidedIn(SubSeq(Inserted(h, a, x), 1, i + 1)) = DecidedIn(SubSeq(h, 1, i))
         /\ DecidedIn(Inserted(h, a, x)) = DecidedIn(h)
<1>0. PICK g : g = Inserted(h, a, x)
  OBVIOUS
<1>1. Version(x) \in Event /\ Version(x).kind = "version"
  BY EventType DEF Version
<1>2. g = SubSeq(h, 1, a) \o <<Version(x)>> \o SubSeq(h, a + 1, Len(h))
  <2>1. (a + 1) - 1 = a
    OBVIOUS
  <2> QED  BY <1>0, <2>1 DEF Inserted, InsertAt
<1>3. /\ SubSeq(h, 1, a) \in Seq(Event) /\ Len(SubSeq(h, 1, a)) = a
      /\ \A i \in 1..a : SubSeq(h, 1, a)[i] = h[i]
  OBVIOUS
<1>4. /\ SubSeq(h, a + 1, Len(h)) \in Seq(Event) /\ Len(SubSeq(h, a + 1, Len(h))) = Len(h) - a
      /\ \A i \in 1..(Len(h) - a) : SubSeq(h, a + 1, Len(h))[i] = h[i + a]
  OBVIOUS
<1>5. /\ g \in Seq(Event)
      /\ Len(g) = Len(h) + 1
      /\ \A i \in 1..a : g[i] = h[i]
      /\ g[a + 1] = Version(x)
      /\ \A i \in (a + 1)..Len(h) : g[i + 1] = h[i]
  <2>1. PICK u \in Seq(Event) : u = SubSeq(h, 1, a)
    BY <1>3
  <2>2. PICK m \in Seq(Event) : m = <<Version(x)>> /\ Len(m) = 1 /\ m[1] = Version(x)
    <3>1. <<Version(x)>> \in Seq(Event) /\ Len(<<Version(x)>>) = 1 /\ <<Version(x)>>[1] = Version(x)
      BY <1>1
    <3> QED  BY <3>1, Zenon
  <2>3. PICK v \in Seq(Event) : v = SubSeq(h, a + 1, Len(h))
    BY <1>4
  <2>4. g = (u \o m) \o v
    BY <1>2, <2>1, <2>2, <2>3
  <2>5. /\ (u \o m) \o v \in Seq(Event)
        /\ Len((u \o m) \o v) = Len(u) + 1 + Len(v)
        /\ \A i \in 1..Len(u) : ((u \o m) \o v)[i] = u[i]
        /\ ((u \o m) \o v)[Len(u) + 1] = m[1]
        /\ \A i \in 1..Len(v) : ((u \o m) \o v)[Len(u) + 1 + i] = v[i]
    BY <2>2, BetweenTwo
  <2>6. /\ g \in Seq(Event) /\ Len(g) = Len(u) + 1 + Len(v)
        /\ \A i \in 1..Len(u) : g[i] = u[i]
        /\ g[Len(u) + 1] = Version(x)
        /\ \A i \in 1..Len(v) : g[Len(u) + 1 + i] = v[i]
    BY <2>2, <2>4, <2>5, Zenon
  <2>7. /\ Len(u) = a /\ Len(v) = Len(h) - a
        /\ \A i \in 1..a : u[i] = h[i]
        /\ \A i \in 1..(Len(h) - a) : v[i] = h[i + a]
    BY <1>3, <1>4, <2>1, <2>3
  <2>8. Len(h) \in Nat /\ a + 1 + (Len(h) - a) = Len(h) + 1
    OBVIOUS
  <2>9. ASSUME NEW i \in (a + 1)..Len(h) PROVE g[i + 1] = h[i]
    <3>1. i - a \in 1..(Len(h) - a) /\ (i - a) + a = i /\ a + 1 + (i - a) = i + 1
      OBVIOUS
    <3>2. g[a + 1 + (i - a)] = v[i - a]
      BY <2>6, <2>7, <3>1
    <3>3. v[i - a] = h[i]
      BY <2>7, <3>1
    <3> QED  BY <3>1, <3>2, <3>3
  <2> QED  BY <2>6, <2>7, <2>8, <2>9
<1>6. ASSUME NEW i \in 0..a
      PROVE  DecidedIn(SubSeq(g, 1, i)) = DecidedIn(SubSeq(h, 1, i))
  <2>1. {j \in 1..i : g[j].kind = "decision"} = {j \in 1..i : h[j].kind = "decision"}
    <3>1. \A j \in 1..i : g[j] = h[j]
      BY <1>5
    <3> QED  BY <3>1
  <2>2. i \in 0..Len(g) /\ i \in 0..Len(h)
    BY <1>5
  <2>3. DecidedIn(SubSeq(g, 1, i)) = Cardinality({j \in 1..i : g[j].kind = "decision"})
    BY <1>5, <2>2, DecidedBefore
  <2>4. DecidedIn(SubSeq(h, 1, i)) = Cardinality({j \in 1..i : h[j].kind = "decision"})
    BY <2>2, DecidedBefore
  <2> QED  BY <2>1, <2>3, <2>4
<1>7. ASSUME NEW i \in a..Len(h)
      PROVE  DecidedIn(SubSeq(g, 1, i + 1)) = DecidedIn(SubSeq(h, 1, i))
  <2> DEFINE A == {j \in 1..i : h[j].kind = "decision"}
             B == {j \in 1..(i + 1) : g[j].kind = "decision"}
             f == [j \in A |-> IF j <= a THEN j ELSE j + 1]
  <2>1. f \in [A -> B]
    <3> SUFFICES ASSUME NEW j \in A PROVE (IF j <= a THEN j ELSE j + 1) \in B
      OBVIOUS
    <3>1. CASE j <= a
      <4>1. g[j] = h[j] /\ j \in 1..(i + 1)
        BY <1>5, <3>1
      <4> QED  BY <3>1, <4>1
    <3>2. CASE ~(j <= a)
      <4>1. g[j + 1] = h[j] /\ j + 1 \in 1..(i + 1)
        BY <1>5, <3>2
      <4> QED  BY <3>2, <4>1
    <3> QED  BY <3>1, <3>2
  <2>2. \A j, k \in A : f[j] = f[k] => j = k
    OBVIOUS
  <2>3. \A k \in B : \E j \in A : f[j] = k
    <3> SUFFICES ASSUME NEW k \in B PROVE \E j \in A : f[j] = k
      OBVIOUS
    <3>1. k # a + 1
      BY <1>1, <1>5
    <3>2. CASE k <= a
      <4>1. k \in A
        BY <1>5, <3>2
      <4> QED  BY <4>1, <3>2
    <3>3. CASE k > a + 1
      <4>1. k - 1 \in (a + 1)..Len(h) /\ k - 1 \in 1..i /\ (k - 1) + 1 = k
        BY <3>3
      <4>2. k - 1 \in A
        BY <1>5, <4>1
      <4>3. f[k - 1] = k
        BY <4>1, <4>2
      <4> QED  BY <4>2, <4>3
    <3>4. k <= a \/ k > a + 1
      BY <3>1
    <3> HIDE DEF f, A, B
    <3> QED  BY <3>2, <3>3, <3>4
  <2>4. f \in Bijection(A, B)
    <3> HIDE DEF f, A, B
    <3> QED  BY <2>1, <2>2, <2>3 DEF Bijection, Injection, Surjection, IsInjective
  <2>5. i \in Nat /\ i + 1 \in 0..Len(g) /\ i \in 0..Len(h)
    BY <1>5
  <2>6. IsFiniteSet(A) /\ ExistsBijection(A, B)
    BY <2>4, <2>5, CountType DEF ExistsBijection
  <2>7. Cardinality(B) = Cardinality(A)
    BY <2>6, FS_Bijection
  <2>8. DecidedIn(SubSeq(g, 1, i + 1)) = Cardinality(B)
    BY <1>5, <2>5, DecidedBefore
  <2>9. DecidedIn(SubSeq(h, 1, i)) = Cardinality(A)
    BY <2>5, DecidedBefore
  <2> QED  BY <2>7, <2>8, <2>9
<1>8. DecidedIn(g) = DecidedIn(h)
  <2>1. SubSeq(g, 1, Len(h) + 1) = g /\ SubSeq(h, 1, Len(h)) = h
    BY <1>5
  <2>2. Len(h) \in a..Len(h)
    OBVIOUS
  <2>3. DecidedIn(SubSeq(g, 1, Len(h) + 1)) = DecidedIn(SubSeq(h, 1, Len(h)))
    BY <1>7, <2>2
  <2> QED  BY <2>1, <2>3
<1> QED  BY <1>0, <1>5, <1>6, <1>7, <1>8, Zenon

-----------------------------------------------------------------------------
(* Type correctness of the steps *)

\* What a commit puts into the history, and where.
LEMMA StampedType ==
  ASSUME TypeOK, StampInv, tick.pc \in {"observed", "posting"}
  PROVE  /\ tick.card \in Cards /\ history[tick.card] \in Seq(Event)
         /\ tick.at \in 0..Len(history[tick.card]) /\ tick.seen.hash \in Hashes
         /\ Stamped(history[tick.card]) \in Seq(Event)
<1>1. tick.card \in Cards /\ tick.seen \in Content /\ tick.at \in Nat
  BY TickShape
<1>2. history[tick.card] \in Seq(Event) /\ tick.seen.hash \in Hashes
  BY <1>1 DEF TypeOK, Content
<1>3. tick.at \in 0..Len(history[tick.card])
  BY <1>1, <1>2 DEF StampInv
<1>4. Inserted(history[tick.card], tick.at, tick.seen.hash) \in Seq(Event)
  BY <1>2, <1>3, InsertedVersion
<1> QED  BY <1>1, <1>2, <1>3, <1>4 DEF Stamped, Inserted

\* A history without dead buttons has the type of a history.
LEMMA DeadButtonsType ==
  ASSUME TypeOK
  PROVE  WithoutDeadButtons \in [Cards -> Seq(Event)]
<1>1. << >> \in Seq(Event)
  OBVIOUS
<1> QED  BY <1>1 DEF TypeOK, WithoutDeadButtons

LEMMA TypeInit == Init => TypeOK
<1> SUFFICES ASSUME Init PROVE TypeOK
  OBVIOUS
<1> USE DEF Init
<1>1. doc \in [Cards -> Content \cup {Absent}]
  BY CrisisAssumption
<1>2. rows \in [Cards -> Row \cup {Absent}] /\ ledger \subseteq Request /\ posts \in [Request -> Nat]
  OBVIOUS
<1>3. history \in [Cards -> Seq(Event)]
  OBVIOUS
<1>4. TickType /\ ClickType
  BY DEF TickType, ClickType
<1>5. edits \in 0..MaxEdits /\ faults \in 0..MaxFaults
  BY CrisisAssumption
<1> QED  BY <1>1, <1>2, <1>3, <1>4, <1>5 DEF TypeOK

\* Each step of the poller leaves it where a poller can be.
LEMMA TypeNext == TypeOK /\ StampInv /\ [Next]_vars => TypeOK'
<1> SUFFICES ASSUME TypeOK, StampInv, [Next]_vars PROVE TypeOK'
  OBVIOUS
<1> USE CrisisAssumption
<1>1. ASSUME NEW c \in Cards, Edit(c) PROVE TypeOK'
  <2>1. doc \in [Cards -> Content \cup {Absent}] /\ doc[c] \in Content /\ edits' \in 0..MaxEdits
    BY <1>1 DEF Edit, TypeOK
  <2>2. doc' \in [Cards -> Content \cup {Absent}]
    <3>1. CASE \E r \in Routes : \E st \in {"Draft", "Ready"} \ {doc[c].status[r]} :
                 doc' = [doc EXCEPT ![c].status[r] = st]
      <4>1. PICK r \in Routes, st \in {"Draft", "Ready"} :
                   doc' = [doc EXCEPT ![c].status[r] = st]
        BY <3>1
      <4>2. [doc[c] EXCEPT !.status[r] = st] \in Content
        BY <2>1 DEF Content
      <4> QED  BY <2>1, <4>1, <4>2
    <3>2. CASE doc' = [doc EXCEPT ![c].visual = ~@]
      <4>1. [doc[c] EXCEPT !.visual = ~@] \in Content
        BY <2>1 DEF Content
      <4> QED  BY <2>1, <3>2, <4>1
    <3>3. CASE \E x \in Hashes \ {doc[c].hash} : doc' = [doc EXCEPT ![c].hash = x]
      <4>1. PICK x \in Hashes : doc' = [doc EXCEPT ![c].hash = x]
        BY <3>3
      <4>2. [doc[c] EXCEPT !.hash = x] \in Content
        BY <2>1 DEF Content
      <4> QED  BY <2>1, <4>1, <4>2
    <3> QED  BY <1>1, <3>1, <3>2, <3>3 DEF Edit
  <2>3. UNCHANGED <<rows, history, ledger, posts, tick, click, faults>>
    BY <1>1 DEF Edit
  <2> QED  BY <2>1, <2>2, <2>3 DEF TypeOK, TickType, ClickType
<1>2. ASSUME NEW c \in Cards, NEW d \in Cards, Rename(c, d) PROVE TypeOK'
  <2>1. doc \in [Cards -> Content \cup {Absent}] /\ edits' \in 0..MaxEdits
        /\ doc' = [doc EXCEPT ![c] = Absent, ![d] = doc[c]]
    BY <1>2 DEF Rename, TypeOK
  <2>3. doc' \in [Cards -> Content \cup {Absent}]
    BY <2>1
  <2>2. UNCHANGED <<rows, history, ledger, posts, tick, click, faults>>
    BY <1>2 DEF Rename
  <2> QED  BY <2>1, <2>2, <2>3 DEF TypeOK, TickType, ClickType
<1>3. CASE Fetch
  <2>1. PICK readable \in SUBSET {c \in Cards : doc[c] # Absent} :
          /\ faults' = faults \/ Fault
          /\ tick' = [pc |-> "next", export |-> Restricted(doc, readable)]
    BY <1>3, Zenon DEF Fetch
  <2>2. Restricted(doc, readable) \in [readable -> Content] /\ readable \in SUBSET Cards
    BY DEF Restricted, TypeOK
  <2>3. Restricted(doc, readable) \in Export
    BY <2>2 DEF Export
  <2>4. TickType' /\ faults' \in 0..MaxFaults
    BY <2>1, <2>3 DEF TickType, Fault, TypeOK
  <2>5. UNCHANGED <<doc, rows, history, ledger, posts, click, edits>>
    BY <1>3 DEF Fetch
  <2> QED  BY <2>4, <2>5 DEF TypeOK, ClickType
<1>4. ASSUME NEW c \in Cards, Observe(c) PROVE TypeOK'
  <2>1. tick \in [pc : {"next"}, export : Export] /\ c \in DOMAIN tick.export
    BY <1>4, TickShape DEF Observe
  <2>2. Restricted(tick.export, DOMAIN tick.export \ {c}) \in Export /\ tick.export[c] \in Content
    BY <2>1, ExportPart, ExportContent
  <2>3. Len(history[c]) \in Nat
    BY DEF TypeOK
  <2>4. TickType'
    BY <1>4, <2>2, <2>3 DEF Observe, TickType
  <2> QED  BY <1>4, <2>4 DEF Observe, TypeOK, ClickType
<1>5. CASE Evaluate
  <2>1. tick \in [pc : {"observed"}, card : Cards, seen : Content, at : Nat, export : Export]
    BY <1>5, TickShape DEF Evaluate
  <2>2. Wanted(tick.card, tick.seen, Stamped(history[tick.card])) \in SUBSET Routes
    BY DEF Wanted
  <2>3. TickType'
    BY <1>5, <2>1, <2>2 DEF Evaluate, TickType
  <2> QED  BY <1>5, <2>3 DEF Evaluate, TypeOK, ClickType
<1>6. CASE Post
  <2>1. tick \in [pc : {"posting"}, card : Cards, seen : Content, at : Nat, export : Export,
                  failed : BOOLEAN, marked : SUBSET Request, ask : SUBSET Routes]
    BY <1>6, TickShape DEF Post
  <2>2. PICK r \in Routes : r = NextRoute
    BY <1>6, NextRouteIsDue DEF Post
  <2>3. PICK q \in Request : q = Due(r)
    BY <2>1 DEF Due, Request, Content
  <2>4. /\ posts' = [posts EXCEPT ![q] = @ + 1]
        /\ history' = [history EXCEPT ![q.card] = Append(@, Ask(r, q.hash))]
        /\ tick' = [tick EXCEPT !.ask = @ \ {r}, !.marked = @ \cup {q}]
        /\ UNCHANGED <<doc, rows, ledger, click, edits, faults>>
    BY <1>6, <2>2, <2>3 DEF Post, Due
  <2>5. posts' \in [Request -> Nat]
    BY <2>4 DEF TypeOK
  <2>6. history' \in [Cards -> Seq(Event)]
    <3>1. q.card \in Cards /\ q.hash \in Hashes
      BY DEF Request
    <3>2. Ask(r, q.hash) \in Event
      BY <3>1, EventType
    <3> QED  BY <2>4, <3>1, <3>2 DEF TypeOK
  <2>7. TickType'
    BY <2>1, <2>4 DEF TickType
  <2> QED  BY <2>4, <2>5, <2>6, <2>7 DEF TypeOK, ClickType
<1>7. CASE PostFails
  <2>1. tick \in [pc : {"posting"}, card : Cards, seen : Content, at : Nat, export : Export,
                  failed : BOOLEAN, marked : SUBSET Request, ask : SUBSET Routes]
    BY <1>7, TickShape DEF PostFails
  <2>2. faults' \in 0..MaxFaults
    BY <1>7 DEF PostFails, Fault, TypeOK
  <2>3. TickType'
    <3>1. tick' = [tick EXCEPT !.ask = @ \ {NextRoute}, !.failed = TRUE]
      BY <1>7 DEF PostFails
    <3>2. tick.ask \ {NextRoute} \in SUBSET Routes
      BY <2>1
    <3> QED  BY <2>1, <3>1, <3>2 DEF TickType
  <2> QED  BY <1>7, <2>2, <2>3 DEF PostFails, TypeOK, ClickType
<1>8. CASE Commit
  <2>1. tick \in [pc : {"posting"}, card : Cards, seen : Content, at : Nat, export : Export,
                  failed : BOOLEAN, marked : SUBSET Request, ask : SUBSET Routes]
    BY <1>8, TickShape DEF Commit
  <2>2. [status |-> tick.seen.status, hash |-> tick.seen.hash] \in Row
    BY <2>1 DEF Row, Content
  <2>3. rows' \in [Cards -> Row \cup {Absent}]
    BY <1>8, <2>1, <2>2 DEF Commit, TypeOK
  <2>4. Stamped(history[tick.card]) \in Seq(Event)
    BY <2>1, StampedType
  <2>5. history' \in [Cards -> Seq(Event)]
    BY <1>8, <2>1, <2>4 DEF Commit, TypeOK
  <2>6. ledger' \subseteq Request
    BY <1>8, <2>1 DEF Commit, TypeOK
  <2>7. TickType'
    BY <1>8, <2>1 DEF Commit, TickType
  <2> QED  BY <1>8, <2>3, <2>5, <2>6, <2>7 DEF Commit, TypeOK, ClickType
<1>9. CASE Rollback
  <2>1. tick \in [pc : {"posting"}, card : Cards, seen : Content, at : Nat, export : Export,
                  failed : BOOLEAN, marked : SUBSET Request, ask : SUBSET Routes]
    BY <1>9, TickShape DEF Rollback
  <2>2. history' \in [Cards -> Seq(Event)]
    BY <1>9, DeadButtonsType DEF Rollback
  <2>3. TickType'
    BY <1>9, <2>1 DEF Rollback, TickType
  <2> QED  BY <1>9, <2>2, <2>3 DEF Rollback, TypeOK, ClickType
<1>10. CASE EndTick
  BY <1>10 DEF EndTick, TypeOK, TickType, ClickType
<1>11. ASSUME NEW k \in Clickers, NEW c \in Cards, NEW r \in Routes, NEW d \in Decisions,
              Click(k, c, r, d)
       PROVE  TypeOK'
  <2>1. DecidedIn(history[c]) \in Nat
    BY DecidedInAll DEF TypeOK
  <2>2. Cardinality({j \in Clickers : click[j] # Idle}) \in Nat
    <3>1. IsFiniteSet({j \in Clickers : click[j] # Idle})
      BY FS_Subset, Zenon
    <3> QED  BY <3>1, FS_CardinalityType
  <2>3. DecidedIn(history[c]) \in 0..MaxDecisions
    BY <1>11, <2>1, <2>2 DEF Click
  <2>4. ClickType'
    BY <1>11, <2>3 DEF Click, TypeOK, ClickType
  <2> QED  BY <1>11, <2>4 DEF Click, TypeOK, TickType
<1>12. ASSUME NEW k \in Clickers, Record(k) PROVE TypeOK'
  <2>1. PICK x \in [pc : {"deciding"}, card : Cards, route : Routes, decision : Decisions,
                    basis : 0..MaxDecisions] : x = click[k]
    BY <1>12, ClickShape DEF Record
  <2>2. Decide(x.route, x.decision, x.basis) \in Event
    BY EventType
  <2>3. history' = [history EXCEPT ![x.card] = Append(@, Decide(x.route, x.decision, x.basis))]
    BY <1>12, <2>1 DEF Record
  <2>4. history' \in [Cards -> Seq(Event)]
    BY <2>2, <2>3 DEF TypeOK
  <2>5. ClickType'
    BY <1>12 DEF Record, TypeOK, ClickType
  <2> QED  BY <1>12, <2>4, <2>5 DEF Record, TypeOK, TickType
<1>13. CASE Crash
  <2>1. history' \in [Cards -> Seq(Event)]
    BY <1>13, DeadButtonsType DEF Crash
  <2>2. TickType' /\ ClickType' /\ faults' \in 0..MaxFaults
    BY <1>13 DEF Crash, TickType, ClickType, Fault, TypeOK
  <2> QED  BY <1>13, <2>1, <2>2 DEF Crash, TypeOK
<1>14. CASE UNCHANGED vars
  BY <1>14 DEF vars, TypeOK, TickType, ClickType
<1> QED  BY <1>1, <1>2, <1>3, <1>4, <1>5, <1>6, <1>7, <1>8, <1>9, <1>10, <1>11, <1>12, <1>13, <1>14
         DEF Next, Writer, Poller, Approvers

-----------------------------------------------------------------------------
(* Requests: none is lost, none is repeated without a fault *)

\* A post is one of the requests that are due, which is then marked.
LEMMA PostStep ==
  ASSUME TypeOK, Post
  PROVE  \E r \in tick.ask, q \in Request :
           /\ q = Due(r) /\ q.card = tick.card /\ q.route = r /\ q.hash = tick.seen.hash
           /\ r \in Routes
           /\ posts' = [posts EXCEPT ![q] = @ + 1]
           /\ history' = [history EXCEPT ![q.card] = Append(@, Ask(r, q.hash))]
           /\ tick' = [tick EXCEPT !.ask = @ \ {r}, !.marked = @ \cup {q}]
           /\ tick'.pc = "posting" /\ tick'.ask = tick.ask \ {r} /\ tick'.marked = tick.marked \cup {q}
           /\ tick'.failed = tick.failed /\ tick'.card = tick.card /\ tick'.seen = tick.seen
           /\ tick'.at = tick.at
<1>1. tick \in [pc : {"posting"}, card : Cards, seen : Content, at : Nat, export : Export,
                failed : BOOLEAN, marked : SUBSET Request, ask : SUBSET Routes]
  BY TickShape DEF Post
<1>2. PICK r \in tick.ask : r = NextRoute /\ r \in Routes
  BY NextRouteIsDue DEF Post
<1>3. tick.card \in Cards /\ tick.seen.hash \in Hashes
  BY <1>1 DEF Content
<1>4. PICK q \in Request : /\ q = Due(r) /\ q.card = tick.card /\ q.route = r
                           /\ q.hash = tick.seen.hash
  <2>1. Due(r) \in Request /\ Due(r).card = tick.card /\ Due(r).route = r
        /\ Due(r).hash = tick.seen.hash
    BY <1>2, <1>3 DEF Due, Request
  <2> QED  BY <2>1, Zenon
<1>5. /\ posts' = [posts EXCEPT ![q] = @ + 1]
      /\ history' = [history EXCEPT ![q.card] = Append(@, Ask(r, q.hash))]
      /\ tick' = [tick EXCEPT !.ask = @ \ {r}, !.marked = @ \cup {q}]
  BY <1>2, <1>4 DEF Post, Due
<1>6. /\ tick'.pc = "posting" /\ tick'.ask = tick.ask \ {r} /\ tick'.marked = tick.marked \cup {q}
      /\ tick'.failed = tick.failed /\ tick'.card = tick.card /\ tick'.seen = tick.seen
      /\ tick'.at = tick.at
  BY <1>1, <1>5
<1> QED  BY <1>2, <1>4, <1>5, <1>6

\* A refusal forgets what it refused, and is remembered.
LEMMA RefusalStep ==
  ASSUME TypeOK, PostFails
  PROVE  /\ tick'.pc = "posting" /\ tick'.failed /\ tick'.ask \subseteq tick.ask
         /\ tick'.marked = tick.marked /\ tick'.card = tick.card /\ tick'.seen = tick.seen
         /\ tick'.at = tick.at /\ faults' = faults + 1
<1>1. tick \in [pc : {"posting"}, card : Cards, seen : Content, at : Nat, export : Export,
                failed : BOOLEAN, marked : SUBSET Request, ask : SUBSET Routes]
  BY TickShape DEF PostFails
<1>2. tick' = [tick EXCEPT !.ask = @ \ {NextRoute}, !.failed = TRUE] /\ faults' = faults + 1
  BY DEF PostFails, Fault
<1> QED  BY <1>1, <1>2

\* Only a post shows a request.
LEMMA OnlyPosts == [Next]_vars => Post \/ UNCHANGED posts
  BY DEF Next, Writer, Poller, Approvers, Edit, Rename, Fetch, Observe, Evaluate, PostFails,
         Commit, Rollback, EndTick, Click, Record, Crash, vars

\* Posts are never taken back, so who was asked stays asked.
LEMMA AskedStays ==
  ASSUME TypeOK, [Next]_vars
  PROVE  /\ \A q \in Request : posts[q] > 0 => posts'[q] > 0
         /\ \A r \in Routes : Asked(r) => Asked(r)'
<1>1. \A q \in Request : posts[q] > 0 => posts'[q] > 0
  <2>1. CASE Post
    <3>1. PICK q \in Request : posts' = [posts EXCEPT ![q] = @ + 1]
      BY <2>1, PostStep
    <3> QED  BY <3>1 DEF TypeOK
  <2>2. CASE UNCHANGED posts
    BY <2>2
  <2> QED  BY <2>1, <2>2, OnlyPosts
<1> QED  BY <1>1 DEF Asked

\* What the poller does not ask about the copy was asked before, or is not Ready.
LEMMA UnwantedCopyWasAsked ==
  ASSUME TypeOK, AskedInv, NEW c \in Cards, NEW seen \in Content, NEW h,
         "copy" \notin Wanted(c, seen, h), seen.status["copy"] = "Ready"
  PROVE  Asked("copy")
<1>1. \/ rows[c] = Absent /\ "copy" \in NotifiedForSameCopy(c, seen.hash)
      \/ rows[c] # Absent /\ rows[c].status["copy"] = "Ready"
      \/ [card |-> c, route |-> "copy", hash |-> seen.hash] \in ledger
  BY DEF Wanted, Routes
<1>2. CASE rows[c] = Absent /\ "copy" \in NotifiedForSameCopy(c, seen.hash)
  <2>1. PICK n \in ledger : n.route = "copy"
    BY <1>2 DEF NotifiedForSameCopy
  <2> QED  BY <2>1 DEF Asked, AskedInv, TypeOK
<1>3. CASE rows[c] # Absent /\ rows[c].status["copy"] = "Ready"
  BY <1>3 DEF AskedInv, ReadyRowWasAsked
<1>4. CASE [card |-> c, route |-> "copy", hash |-> seen.hash] \in ledger
  <2>1. PICK n \in ledger : n.route = "copy"
    BY <1>4
  <2> QED  BY <2>1 DEF Asked, AskedInv, TypeOK
<1> QED  BY <1>1, <1>2, <1>3, <1>4

LEMMA AskedNext == TypeOK /\ AskedInv /\ [Next]_vars => AskedInv'
<1> SUFFICES ASSUME TypeOK, AskedInv, [Next]_vars PROVE AskedInv'
  OBVIOUS
<1>1. /\ \A q \in Request : posts[q] > 0 => posts'[q] > 0
      /\ Asked("copy") => Asked("copy")'
  BY AskedStays DEF Routes
<1>2. /\ ledger \subseteq Request
      /\ tick.pc = "posting" => tick.marked \subseteq Request
  BY TickShape DEF TypeOK
<1>3. \* a step that leaves the tables alone
  ASSUME ledger' = ledger, rows' = rows,
         tick'.pc = "posting" =>
           /\ \A q \in tick'.marked : posts'[q] > 0
           /\ \/ tick'.failed \/ "copy" \in tick'.ask
              \/ tick'.seen.status["copy"] # "Ready" \/ Asked("copy")'
  PROVE  AskedInv'
  <2>1. \A q \in ledger' : posts'[q] > 0
    BY <1>1, <1>2, <1>3 DEF AskedInv
  <2>2. ReadyRowWasAsked'
    BY <1>1, <1>3 DEF AskedInv, ReadyRowWasAsked
  <2> QED  BY <1>3, <2>1, <2>2 DEF AskedInv
<1>4. CASE ~(tick' = tick)
  <2>1. CASE Fetch \/ (\E c \in Cards : Observe(c)) \/ EndTick \/ Rollback \/ Crash
    <3>1. tick'.pc # "posting" /\ ledger' = ledger /\ rows' = rows
      <4>1. Fetch => tick'.pc = "next" /\ ledger' = ledger /\ rows' = rows
        BY DEF Fetch
      <4>2. \A c \in Cards : Observe(c) => tick'.pc = "observed" /\ ledger' = ledger /\ rows' = rows
        BY DEF Observe
      <4>3. EndTick \/ Crash => tick'.pc = "idle" /\ ledger' = ledger /\ rows' = rows
        BY DEF EndTick, Crash, Idle
      <4>4. Rollback => tick'.pc = "next" /\ ledger' = ledger /\ rows' = rows
        BY DEF Rollback
      <4> QED  BY <2>1, <4>1, <4>2, <4>3, <4>4
    <3> QED  BY <1>3, <3>1
  <2>2. CASE Evaluate
    <3>1. tick.card \in Cards /\ tick.seen \in Content
      BY <2>2, TickShape DEF Evaluate
    <3>2. PICK h : h = Stamped(history[tick.card])
      OBVIOUS
    <3>3. tick'.marked = {} /\ tick'.seen = tick.seen /\ tick'.ask = Wanted(tick.card, tick.seen, h)
      BY <2>2, <3>2 DEF Evaluate
    <3>4. "copy" \in tick'.ask \/ tick'.seen.status["copy"] # "Ready" \/ Asked("copy")
      BY <3>1, <3>3, UnwantedCopyWasAsked
    <3> QED  BY <1>1, <1>3, <2>2, <3>3, <3>4 DEF Evaluate
  <2>3. CASE Post
    <3>1. PICK r \in tick.ask, q \in Request :
            /\ q.route = r
            /\ posts' = [posts EXCEPT ![q] = @ + 1]
            /\ tick'.ask = tick.ask \ {r} /\ tick'.marked = tick.marked \cup {q}
            /\ tick'.failed = tick.failed /\ tick'.seen = tick.seen
      BY <2>3, PostStep
    <3>2. posts'[q] > 0
      BY <3>1 DEF TypeOK
    <3>3. \A n \in tick'.marked : posts'[n] > 0
      BY <1>1, <1>2, <2>3, <3>1, <3>2 DEF AskedInv, Post
    <3>4. r = "copy" => Asked("copy")'
      BY <3>1, <3>2 DEF Asked
    <3>5. \/ tick'.failed \/ "copy" \in tick'.ask
          \/ tick'.seen.status["copy"] # "Ready" \/ Asked("copy")'
      BY <1>1, <2>3, <3>1, <3>4 DEF AskedInv, Post
    <3> QED  BY <1>3, <2>3, <3>3, <3>5 DEF Post
  <2>4. CASE PostFails
    <3>1. tick'.failed /\ tick'.marked = tick.marked
      BY <2>4, RefusalStep
    <3> QED  BY <1>1, <1>2, <1>3, <2>4, <3>1 DEF PostFails, AskedInv
  <2>5. CASE Commit
    <3>1. /\ ledger' = ledger \cup tick.marked
          /\ rows' = [rows EXCEPT ![tick.card] = [status |-> tick.seen.status,
                                                  hash |-> tick.seen.hash]]
          /\ tick.ask = {} /\ ~tick.failed /\ tick'.pc = "next" /\ tick.pc = "posting"
      BY <2>5 DEF Commit
    <3>2. \A q \in ledger' : posts'[q] > 0
      BY <1>1, <1>2, <3>1 DEF AskedInv
    <3>3. tick.seen.status["copy"] = "Ready" => Asked("copy")'
      BY <1>1, <3>1 DEF AskedInv
    <3>4. ASSUME NEW c \in Cards, rows'[c] # Absent, rows'[c].status["copy"] = "Ready"
          PROVE  Asked("copy")'
      <4>1. CASE c = tick.card
        <5>1. rows'[c].status = tick.seen.status
          BY <3>1, <4>1 DEF TypeOK
        <5> QED  BY <3>3, <3>4, <5>1
      <4>2. CASE c # tick.card
        <5>1. rows'[c] = rows[c]
          BY <3>1, <4>2 DEF TypeOK
        <5> QED  BY <1>1, <3>4, <5>1 DEF AskedInv, ReadyRowWasAsked
      <4> QED  BY <4>1, <4>2
    <3>5. ReadyRowWasAsked'
      BY <3>4 DEF ReadyRowWasAsked
    <3> QED  BY <3>1, <3>2, <3>5 DEF AskedInv
  <2> QED  BY <1>4, <2>1, <2>2, <2>3, <2>4, <2>5
           DEF Next, Writer, Poller, Approvers, Edit, Rename, Click, Record, vars
<1>5. CASE tick' = tick
  <2>1. Post \/ Commit \/ (ledger' = ledger /\ rows' = rows)
    BY DEF Next, Writer, Poller, Approvers, Edit, Rename, Fetch, Observe, Evaluate, PostFails,
           Rollback, EndTick, Click, Record, Crash, vars
  <2>2. ~Commit
    BY <1>5 DEF Commit
  <2>3. ledger' = ledger /\ rows' = rows
    BY <2>1, <2>2 DEF Post
  <2> QED  BY <1>1, <1>2, <1>3, <1>5, <2>3 DEF AskedInv
<1> QED  BY <1>4, <1>5

\* The posts of a request, the faults so far, and one post that is remembered.
LEMMA PostsNext == TypeOK /\ TypeOK' /\ PostsInv /\ [Next]_vars => PostsInv'
<1> SUFFICES ASSUME TypeOK, TypeOK', PostsInv, [Next]_vars PROVE PostsInv'
  OBVIOUS
<1>1. /\ \A q \in Request : posts[q] \in Nat /\ posts'[q] \in Nat
      /\ faults \in Nat /\ faults' \in Nat /\ ledger \subseteq Request
  BY CrisisAssumption DEF TypeOK
<1>2. ASSUME posts' = posts, ledger' = ledger, tick'.pc # "posting",
             \/ faults' = faults /\ (tick.pc # "posting" \/ tick.failed)
             \/ faults' = faults + 1
      PROVE  PostsInv'
  <2>1. ASSUME NEW q \in Request
        PROVE  posts'[q] <= faults' + (IF Kept(q)' THEN 1 ELSE 0)
    <3>1. posts[q] <= faults + (IF Kept(q) THEN 1 ELSE 0)
      BY DEF PostsInv
    <3>2. Kept(q) => Kept(q)' \/ faults' = faults + 1
      BY <1>2 DEF Kept
    <3>3. posts'[q] = posts[q] /\ (faults' = faults \/ faults' = faults + 1)
      BY <1>2
    <3> QED  BY <1>1, <3>1, <3>2, <3>3
  <2> QED  BY <1>2, <2>1 DEF PostsInv
<1>3. CASE Fetch
  BY <1>2, <1>3 DEF Fetch, Fault
<1>4. ASSUME NEW c \in Cards, Observe(c) PROVE PostsInv'
  BY <1>2, <1>4 DEF Observe
<1>5. CASE EndTick
  BY <1>2, <1>5 DEF EndTick, Idle
<1>6. CASE Rollback
  BY <1>2, <1>6 DEF Rollback
<1>7. CASE Crash
  <2>1. posts' = posts /\ ledger' = ledger /\ tick' = Idle /\ faults' = faults + 1
    BY <1>7 DEF Crash, Fault
  <2> QED  BY <1>2, <2>1 DEF Idle
<1>8. CASE Evaluate
  <2>1. /\ tick.pc = "observed" /\ tick'.pc = "posting" /\ ~tick'.failed /\ tick'.marked = {}
        /\ tick'.card = tick.card /\ tick'.seen = tick.seen
        /\ posts' = posts /\ ledger' = ledger /\ faults' = faults
        /\ tick'.ask = Wanted(tick.card, tick.seen, Stamped(history[tick.card]))
    BY <1>8 DEF Evaluate
  <2>2. ASSUME NEW q \in Request
        PROVE  posts'[q] <= faults' + (IF Kept(q)' THEN 1 ELSE 0)
    <3>1. posts[q] <= faults + (IF Kept(q) THEN 1 ELSE 0)
      BY DEF PostsInv
    <3>2. Kept(q)' <=> Kept(q)
      BY <2>1 DEF Kept
    <3> QED  BY <2>1, <3>1, <3>2
  <2>3. ASSUME NEW r \in tick'.ask
        PROVE  Due(r)' \notin ledger' \cup tick'.marked
    BY <2>1 DEF Wanted, Due
  <2> QED  BY <2>1, <2>2, <2>3 DEF PostsInv
<1>9. CASE Post
  <2>1. PICK r \in tick.ask, q \in Request :
          /\ q = Due(r) /\ q.route = r
          /\ posts' = [posts EXCEPT ![q] = @ + 1]
          /\ tick'.pc = "posting" /\ tick'.ask = tick.ask \ {r} /\ tick'.marked = tick.marked \cup {q}
          /\ tick'.failed = tick.failed /\ tick'.card = tick.card /\ tick'.seen = tick.seen
    BY <1>9, PostStep
  <2>2. tick.pc = "posting" /\ ledger' = ledger /\ faults' = faults
    BY <1>9 DEF Post
  <2>3. q \notin ledger \cup tick.marked /\ (tick.failed => posts[q] < faults)
    BY <2>1, <2>2 DEF PostsInv
  <2>4. ASSUME NEW n \in Request
        PROVE  posts'[n] <= faults' + (IF Kept(n)' THEN 1 ELSE 0)
    <3>1. posts[n] <= faults + (IF Kept(n) THEN 1 ELSE 0)
      BY DEF PostsInv
    <3>2. CASE n = q
      <4>1. posts'[q] = posts[q] + 1
        BY <2>1 DEF TypeOK
      <4>2. ~Kept(q)
        BY <2>3 DEF Kept
      <4>3. tick.failed \/ Kept(q)'
        BY <2>1 DEF Kept
      <4> QED  BY <1>1, <2>2, <2>3, <3>1, <3>2, <4>1, <4>2, <4>3
    <3>3. CASE n # q
      <4>1. posts'[n] = posts[n]
        BY <2>1, <3>3 DEF TypeOK
      <4>2. Kept(n) => Kept(n)'
        BY <2>1, <2>2 DEF Kept
      <4> QED  BY <1>1, <2>2, <3>1, <4>1, <4>2
    <3> QED  BY <3>2, <3>3
  <2>5. ASSUME NEW s \in tick'.ask
        PROVE  /\ Due(s)' \notin ledger' \cup tick'.marked
               /\ tick'.failed => posts'[Due(s)'] < faults'
    <3>1. Due(s)' = Due(s) /\ s \in tick.ask /\ s # r
      BY <2>1 DEF Due
    <3>2. Due(s) # q
      BY <2>1, <3>1 DEF Due
    <3>3. Due(s) \notin ledger \cup tick.marked /\ (tick.failed => posts[Due(s)] < faults)
      BY <2>2, <3>1 DEF PostsInv
    <3>4. posts'[Due(s)] = posts[Due(s)]
      <4>1. Due(s) \in Request
        <5>1. tick.ask \subseteq Routes /\ tick.card \in Cards /\ tick.seen.hash \in Hashes
          BY <2>2, TickShape DEF Content
        <5> QED  BY <3>1, <5>1 DEF Due, Request
      <4> QED  BY <2>1, <3>2, <4>1 DEF TypeOK
    <3> QED  BY <2>1, <2>2, <3>1, <3>2, <3>3, <3>4
  <2> QED  BY <2>4, <2>5 DEF PostsInv
<1>10. CASE PostFails
  <2>1. /\ tick'.pc = "posting" /\ tick'.failed /\ tick'.ask \subseteq tick.ask
        /\ tick'.marked = tick.marked /\ tick'.card = tick.card /\ tick'.seen = tick.seen
        /\ faults' = faults + 1
    BY <1>10, RefusalStep
  <2>2. tick.pc = "posting" /\ ledger' = ledger /\ posts' = posts
    BY <1>10 DEF PostFails
  <2>3. ASSUME NEW n \in Request
        PROVE  posts'[n] <= faults' + (IF Kept(n)' THEN 1 ELSE 0)
    <3>1. posts[n] <= faults + (IF Kept(n) THEN 1 ELSE 0)
      BY DEF PostsInv
    <3>2. posts'[n] = posts[n]
      BY <2>2
    <3> QED  BY <1>1, <2>1, <3>1, <3>2
  <2>4. ASSUME NEW s \in tick'.ask
        PROVE  /\ Due(s)' \notin ledger' \cup tick'.marked
               /\ tick'.failed => posts'[Due(s)'] < faults'
    <3>1. Due(s)' = Due(s) /\ s \in tick.ask
      BY <2>1 DEF Due
    <3>2. Due(s) \notin ledger \cup tick.marked
      BY <2>2, <3>1 DEF PostsInv
    <3>3. Due(s) \in Request
      <4>1. tick.ask \subseteq Routes /\ tick.card \in Cards /\ tick.seen.hash \in Hashes
        BY <2>2, TickShape DEF Content
      <4> QED  BY <3>1, <4>1 DEF Due, Request
    <3>4. posts[Due(s)] <= faults + (IF Kept(Due(s)) THEN 1 ELSE 0)
      BY <3>3 DEF PostsInv
    <3>5. ~Kept(Due(s))
      BY <3>2 DEF Kept
    <3>6. posts[Due(s)] < faults'
      BY <1>1, <2>1, <3>3, <3>4, <3>5
    <3> QED  BY <2>1, <2>2, <3>1, <3>2, <3>6
  <2> QED  BY <2>3, <2>4 DEF PostsInv
<1>11. CASE Commit
  <2>1. /\ tick.pc = "posting" /\ ~tick.failed /\ tick'.pc = "next"
        /\ ledger' = ledger \cup tick.marked /\ posts' = posts /\ faults' = faults
    BY <1>11 DEF Commit
  <2>2. ASSUME NEW n \in Request
        PROVE  posts'[n] <= faults' + (IF Kept(n)' THEN 1 ELSE 0)
    <3>1. posts[n] <= faults + (IF Kept(n) THEN 1 ELSE 0)
      BY DEF PostsInv
    <3>2. Kept(n)' <=> Kept(n)
      BY <2>1 DEF Kept
    <3> QED  BY <2>1, <3>1, <3>2
  <2> QED  BY <2>1, <2>2 DEF PostsInv
<1>12. CASE Writer \/ Approvers \/ UNCHANGED vars
  <2>1. UNCHANGED <<posts, ledger, tick, faults>>
    BY <1>12 DEF Writer, Approvers, Edit, Rename, Click, Record, vars
  <2> QED  BY <2>1 DEF PostsInv, Kept, Due
<1> QED  BY <1>3, <1>4, <1>5, <1>6, <1>7, <1>8, <1>9, <1>10, <1>11, <1>12 DEF Next, Poller

-----------------------------------------------------------------------------
(* Decisions: what a click had read *)

\* Positions in a history have a last one.
LEMMA Greatest ==
  ASSUME NEW n \in Nat, NEW T \in SUBSET (1..n), T # {}
  PROVE  \E x \in T : \A y \in T : y <= x
<1>1. IsWellFoundedOn(StrictSubsetOrdering(Nat), FiniteSubsetsOf(Nat))
  BY FS_StrictSubsetOrderingWellFounded
<1> DEFINE U == {x..n : x \in T}
<1>2. ASSUME NEW x \in T PROVE x..n \in FiniteSubsetsOf(Nat)
  <2>1. x \in Nat /\ x \in Int /\ n \in Int
    OBVIOUS
  <2>2. IsFiniteSet(x..n)
    BY <2>1, FS_Interval
  <2>3. x..n \in SUBSET Nat
    BY <2>1
  <2> QED  BY <2>2, <2>3 DEF FiniteSubsetsOf
<1>3. U \subseteq FiniteSubsetsOf(Nat) /\ U # {}
  BY <1>2
<1> HIDE DEF U
<1>4. PICK u \in U : \A w \in U : <<w, u>> \notin StrictSubsetOrdering(Nat)
  BY <1>1, <1>3, WFMin
<1>5. PICK x \in T : u = x..n
  BY <1>4 DEF U
<1>6. ASSUME NEW y \in T, y > x PROVE FALSE
  <2>1. y..n \subseteq x..n /\ x \in x..n /\ x \notin y..n
    BY <1>6
  <2>2. y..n \in SUBSET Nat /\ x..n \in SUBSET Nat
    OBVIOUS
  <2>3. <<y..n, x..n>> \in StrictSubsetOrdering(Nat)
    BY <2>1, <2>2 DEF StrictSubsetOrdering
  <2>4. y..n \in U
    BY <1>6 DEF U
  <2> QED  BY <1>4, <1>5, <2>3, <2>4
<1> QED  BY <1>6

\* The latest decision about a route comes after all the others.
LEMMA LatestIsLast ==
  ASSUME NEW h \in Seq(Event), NEW r \in Routes, NEW i \in DOMAIN h,
         h[i].kind = "decision", h[i].route = r
  PROVE  /\ LatestDecision(h, r) \in DOMAIN h /\ LatestDecision(h, r) # 0
         /\ h[LatestDecision(h, r)].kind = "decision" /\ h[LatestDecision(h, r)].route = r
         /\ i <= LatestDecision(h, r)
<1> DEFINE at == {j \in DOMAIN h : h[j].kind = "decision" /\ h[j].route = r}
<1>1. i \in at /\ at \in SUBSET (1..Len(h)) /\ Len(h) \in Nat
  OBVIOUS
<1>2. \E x \in at : \A y \in at : y <= x
  <2> HIDE DEF at
  <2>1. at # {}
    BY <1>1
  <2> QED  BY <1>1, <2>1, Greatest
<1>3. LatestDecision(h, r) = CHOOSE x \in at : \A y \in at : y <= x
  BY <1>1 DEF LatestDecision
<1>4. LatestDecision(h, r) \in at /\ \A y \in at : y <= LatestDecision(h, r)
  <2> HIDE DEF at
  <2> QED  BY <1>2, <1>3
<1>5. LatestDecision(h, r) \in DOMAIN h /\ LatestDecision(h, r) # 0
  BY <1>1, <1>4
<1> QED  BY <1>1, <1>4, <1>5

\* A click that is not refused has read that no approval of its route is in force.
LEMMA AllowedIsInformed ==
  ASSUME NEW h \in Seq(Event), NEW r \in Routes, NEW d, ~Blocked(h, r, d), NEW n
  PROVE  Informed(h, r, n)
<1> SUFFICES ASSUME NEW i \in DOMAIN h,
                    h[i].kind = "decision", h[i].route = r, h[i].decision = "approved"
             PROVE  \E j \in (i + 1)..Len(h) :
                      h[j].kind = "version" \/ (h[j].kind = "decision" /\ h[j].route = r)
  BY DEF Informed
<1> DEFINE last == LatestDecision(h, r)
<1>1. /\ last \in DOMAIN h /\ last # 0 /\ h[last].kind = "decision" /\ h[last].route = r
      /\ i <= last
  BY LatestIsLast
<1>2. i \in 1..Len(h) /\ last \in 1..Len(h) /\ Len(h) \in Nat
  BY <1>1
<1> HIDE DEF last
<1>3. CASE i < last
  <2>1. last \in (i + 1)..Len(h)
    BY <1>2, <1>3
  <2> QED  BY <1>1, <2>1
<1>4. CASE i = last
  <2>1. Reopened(h, r)
    BY <1>1, <1>4 DEF Blocked, last
  <2>2. PICK j \in DOMAIN h : j > last /\ h[j].kind = "version"
    BY <2>1 DEF Reopened, last
  <2>3. j \in (i + 1)..Len(h)
    BY <1>2, <1>4, <2>2
  <2> QED  BY <2>2, <2>3
<1> QED  BY <1>1, <1>2, <1>3, <1>4

\* What follows an approval in one history had not read it, or did not come next.
Settled(h) ==
  \A i, j \in DOMAIN h :
    DecidedNext(h, i, j) /\ h[i].decision = "approved"
    => h[j].basis < DecidedIn(SubSeq(h, 1, i))

\* A click that had read n decisions stays informed, whatever is added.
LEMMA InformedAppend ==
  ASSUME NEW h \in Seq(Event), NEW e \in Event, NEW r, NEW n \in Nat,
         n <= DecidedIn(h), Informed(h, r, n)
  PROVE  Informed(Append(h, e), r, n)
<1>1. PICK g : g = Append(h, e)
  OBVIOUS
<1>2. /\ g \in Seq(Event) /\ Len(g) = Len(h) + 1 /\ Len(h) \in Nat
      /\ \A i \in 1..Len(h) : g[i] = h[i]
      /\ g[Len(h) + 1] = e
      /\ \A i \in 0..Len(h) : DecidedIn(SubSeq(g, 1, i)) = DecidedIn(SubSeq(h, 1, i))
      /\ e.kind = "decision" => DecidedIn(g) = DecidedIn(h) + 1
      /\ DecidedIn(SubSeq(g, 1, Len(h) + 1)) = DecidedIn(g)
  BY <1>1, AppendedEvent
<1>3. DecidedIn(h) \in Nat
  BY DecidedInAll
<1> SUFFICES ASSUME NEW i \in DOMAIN g,
                    g[i].kind = "decision", g[i].route = r, g[i].decision = "approved",
                    DecidedIn(SubSeq(g, 1, i)) <= n
             PROVE  \E j \in (i + 1)..Len(g) :
                      g[j].kind = "version" \/ (g[j].kind = "decision" /\ g[j].route = r)
  BY <1>1 DEF Informed
<1>4. i \in 1..(Len(h) + 1)
  BY <1>2
<1>5. i # Len(h) + 1
  BY <1>2, <1>3
<1>6. i \in DOMAIN h /\ i \in 1..Len(h) /\ i \in 0..Len(h)
  BY <1>2, <1>4, <1>5
<1>7. PICK j \in (i + 1)..Len(h) :
        h[j].kind = "version" \/ (h[j].kind = "decision" /\ h[j].route = r)
  BY <1>2, <1>6 DEF Informed
<1>8. j \in 1..Len(h) /\ j \in (i + 1)..Len(g)
  BY <1>2, <1>6
<1> QED  BY <1>2, <1>7, <1>8

\* A history stays settled when a decision is added whose click is informed, or another event.
LEMMA SettledAppend ==
  ASSUME NEW h \in Seq(Event), NEW e \in Event, Settled(h),
         e.kind = "decision" => e.basis \in Nat /\ Informed(h, e.route, e.basis)
  PROVE  Settled(Append(h, e))
<1>1. PICK g : g = Append(h, e)
  OBVIOUS
<1>2. /\ g \in Seq(Event) /\ Len(g) = Len(h) + 1 /\ Len(h) \in Nat
      /\ \A i \in 1..Len(h) : g[i] = h[i]
      /\ g[Len(h) + 1] = e
      /\ \A i \in 0..Len(h) : DecidedIn(SubSeq(g, 1, i)) = DecidedIn(SubSeq(h, 1, i))
  BY <1>1, AppendedEvent
<1> SUFFICES ASSUME NEW i \in DOMAIN g, NEW j \in DOMAIN g,
                    DecidedNext(g, i, j), g[i].decision = "approved"
             PROVE  g[j].basis < DecidedIn(SubSeq(g, 1, i))
  BY <1>1 DEF Settled
<1>3. /\ i < j /\ i \in 1..Len(h) /\ i \in DOMAIN h /\ j \in 1..(Len(h) + 1)
      /\ g[i] = h[i] /\ DecidedIn(SubSeq(g, 1, i)) = DecidedIn(SubSeq(h, 1, i))
  <2>1. i < j /\ i \in 1..(Len(h) + 1) /\ j \in 1..(Len(h) + 1)
    BY <1>2 DEF DecidedNext
  <2>2. i \in 1..Len(h) /\ i \in 0..Len(h)
    BY <1>2, <2>1
  <2> QED  BY <1>2, <2>1, <2>2
<1>4. CASE j \in 1..Len(h)
  <2>1. \A x \in (i + 1)..(j - 1) : g[x] = h[x]
    BY <1>2, <1>3, <1>4
  <2>2. g[j] = h[j] /\ j \in DOMAIN h
    BY <1>2, <1>4
  <2>3. DecidedNext(h, i, j)
    BY <1>3, <2>1, <2>2 DEF DecidedNext
  <2> QED  BY <1>3, <2>2, <2>3 DEF Settled
<1>5. CASE j = Len(h) + 1
  <2>1. g[j] = e
    BY <1>2, <1>5
  <2>2. /\ e.kind = "decision" /\ h[i].kind = "decision" /\ h[i].route = e.route
        /\ h[i].decision = "approved"
    BY <1>3, <2>1 DEF DecidedNext
  <2>3. ASSUME NEW x \in (i + 1)..Len(h)
        PROVE  h[x].kind # "version" /\ ~(h[x].kind = "decision" /\ h[x].route = e.route)
    <3>1. x \in (i + 1)..(j - 1) /\ x \in 1..Len(h)
      BY <1>2, <1>3, <1>5
    <3>2. g[x] = h[x]
      BY <1>2, <3>1
    <3>3. g[x].kind # "version" /\ ~(g[x].kind = "decision" /\ g[x].route = g[i].route)
      BY <3>1 DEF DecidedNext
    <3> QED  BY <1>3, <2>2, <3>2, <3>3
  <2>4. Informed(h, e.route, e.basis) /\ e.basis \in Nat
    BY <2>2
  <2>5. ~(DecidedIn(SubSeq(h, 1, i)) <= e.basis)
    BY <1>3, <2>2, <2>3, <2>4 DEF Informed
  <2>6. DecidedIn(SubSeq(h, 1, i)) \in Nat
    <3>1. i \in 0..Len(h)
      BY <1>3
    <3> QED  BY <3>1, DecidedBefore
  <2> QED  BY <1>3, <2>1, <2>4, <2>5, <2>6
<1> QED  BY <1>3, <1>4, <1>5

\* A version that is inserted neither disturbs what a click had read nor what is settled.
LEMMA InformedInsert ==
  ASSUME NEW h \in Seq(Event), NEW a \in 0..Len(h), NEW x \in Hashes
  PROVE  /\ \A r, n : Informed(h, r, n) => Informed(Inserted(h, a, x), r, n)
         /\ Settled(h) => Settled(Inserted(h, a, x))
<1>0. PICK g : g = Inserted(h, a, x)
  OBVIOUS
<1>1. /\ g \in Seq(Event)
      /\ Len(g) = Len(h) + 1
      /\ \A i \in 1..a : g[i] = h[i]
      /\ g[a + 1] = Version(x)
      /\ \A i \in (a + 1)..Len(h) : g[i + 1] = h[i]
      /\ \A i \in 0..a : DecidedIn(SubSeq(g, 1, i)) = DecidedIn(SubSeq(h, 1, i))
      /\ \A i \in a..Len(h) : DecidedIn(SubSeq(g, 1, i + 1)) = DecidedIn(SubSeq(h, 1, i))
  BY <1>0, InsertedVersion
<1>2. g[a + 1].kind = "version" /\ Len(h) \in Nat
  BY <1>1 DEF Version
<1>3. \* where an event of g that is no version was
  ASSUME NEW i \in DOMAIN g, g[i].kind = "decision"
  PROVE  \E k \in DOMAIN h :
           /\ (k = i /\ i <= a) \/ (i = k + 1 /\ k > a)
           /\ h[k] = g[i] /\ DecidedIn(SubSeq(g, 1, i)) = DecidedIn(SubSeq(h, 1, k))
  <2>1. i \in 1..(Len(h) + 1) /\ i # a + 1
    BY <1>1, <1>2, <1>3
  <2>2. CASE i <= a
    <3>1. i \in DOMAIN h /\ i \in 1..a /\ i \in 0..a
      BY <1>2, <2>1, <2>2
    <3> QED  BY <1>1, <2>2, <3>1
  <2>3. CASE i > a + 1
    <3>1. i - 1 \in DOMAIN h /\ i - 1 \in (a + 1)..Len(h) /\ i - 1 \in a..Len(h)
          /\ (i - 1) + 1 = i /\ i - 1 > a
      BY <1>2, <2>1, <2>3
    <3>2. g[(i - 1) + 1] = h[i - 1]
      BY <1>1, <3>1
    <3>3. DecidedIn(SubSeq(g, 1, (i - 1) + 1)) = DecidedIn(SubSeq(h, 1, i - 1))
      BY <1>1, <3>1
    <3> QED  BY <3>1, <3>2, <3>3
  <2> QED  BY <2>1, <2>2, <2>3
<1>4. ASSUME NEW r, NEW n, Informed(h, r, n) PROVE Informed(g, r, n)
  <2> SUFFICES ASSUME NEW i \in DOMAIN g,
                      g[i].kind = "decision", g[i].route = r, g[i].decision = "approved",
                      DecidedIn(SubSeq(g, 1, i)) <= n
               PROVE  \E j \in (i + 1)..Len(g) :
                        g[j].kind = "version" \/ (g[j].kind = "decision" /\ g[j].route = r)
    BY DEF Informed
  <2>1. PICK k \in DOMAIN h :
           /\ (k = i /\ i <= a) \/ (i = k + 1 /\ k > a)
           /\ h[k] = g[i] /\ DecidedIn(SubSeq(g, 1, i)) = DecidedIn(SubSeq(h, 1, k))
    BY <1>3
  <2>2. PICK j \in (k + 1)..Len(h) :
          h[j].kind = "version" \/ (h[j].kind = "decision" /\ h[j].route = r)
    BY <1>4, <2>1 DEF Informed
  <2>3. k \in 1..Len(h) /\ j \in 1..Len(h)
    BY <2>1, <2>2
  <2>4. CASE j <= a
    <3>1. g[j] = h[j] /\ j \in (i + 1)..Len(g)
      BY <1>1, <2>1, <2>3, <2>4
    <3> QED  BY <2>2, <3>1
  <2>5. CASE j > a
    <3>1. g[j + 1] = h[j] /\ j + 1 \in (i + 1)..Len(g)
      BY <1>1, <2>1, <2>3, <2>5
    <3> QED  BY <2>2, <3>1
  <2> QED  BY <2>3, <2>4, <2>5
<1>5. ASSUME Settled(h) PROVE Settled(g)
  <2> SUFFICES ASSUME NEW i \in DOMAIN g, NEW j \in DOMAIN g,
                      DecidedNext(g, i, j), g[i].decision = "approved"
               PROVE  g[j].basis < DecidedIn(SubSeq(g, 1, i))
    BY DEF Settled
  <2>1. /\ i < j /\ i \in Nat /\ j \in Nat /\ g[i].kind = "decision" /\ g[j].kind = "decision"
        /\ \A y \in (i + 1)..(j - 1) : g[y].kind # "version"
    BY <1>1 DEF DecidedNext
  <2>2. PICK k \in DOMAIN h :
           /\ (k = i /\ i <= a) \/ (i = k + 1 /\ k > a)
           /\ h[k] = g[i] /\ DecidedIn(SubSeq(g, 1, i)) = DecidedIn(SubSeq(h, 1, k))
    BY <1>3, <2>1
  <2>3. PICK l \in DOMAIN h :
           /\ (l = j /\ j <= a) \/ (j = l + 1 /\ l > a)
           /\ h[l] = g[j] /\ DecidedIn(SubSeq(g, 1, j)) = DecidedIn(SubSeq(h, 1, l))
    BY <1>3, <2>1
  <2>4. k \in 1..Len(h) /\ l \in 1..Len(h)
    BY <2>2, <2>3
  <2>5. ~(i <= a /\ j > a)
    <3>1. i <= a /\ j > a + 1 => a + 1 \in (i + 1)..(j - 1)
      BY <2>1
    <3>2. j # a + 1
      BY <1>2, <2>1
    <3> QED  BY <1>2, <2>1, <3>1, <3>2
  <2>6. k < l
    BY <2>1, <2>2, <2>3, <2>4, <2>5
  <2>7. ASSUME NEW y \in (k + 1)..(l - 1)
        PROVE  h[y].kind # "version" /\ ~(h[y].kind = "decision" /\ h[y].route = h[k].route)
    <3>1. CASE l <= a
      <4>1. g[y] = h[y] /\ y \in (i + 1)..(j - 1)
        BY <1>1, <2>2, <2>3, <2>4, <2>5, <2>1, <3>1
      <4> QED  BY <2>2, <4>1 DEF DecidedNext
    <3>2. CASE l > a
      <4>1. i = k + 1 /\ k > a /\ j = l + 1
        BY <2>1, <2>2, <2>3, <2>4, <2>5, <3>2
      <4>2. y \in (a + 1)..Len(h) /\ y + 1 \in (i + 1)..(j - 1)
        BY <1>2, <2>4, <4>1
      <4>3. g[y + 1] = h[y]
        BY <1>1, <4>2
      <4> QED  BY <2>2, <4>2, <4>3 DEF DecidedNext
    <3> QED  BY <2>4, <3>1, <3>2
  <2>8. DecidedNext(h, k, l)
    BY <2>2, <2>3, <2>6, <2>7 DEF DecidedNext
  <2> QED  BY <1>5, <2>2, <2>3, <2>8 DEF Settled
<1> QED  BY <1>0, <1>4, <1>5, Zenon

\* What a step can do to the history of a card.
LEMMA HistoryStep ==
  ASSUME TypeOK, StampInv, [Next]_vars, NEW c \in Cards
  PROVE  \/ history'[c] = history[c]
         \/ \E e \in Event : /\ Post /\ c = tick.card /\ e.kind = "ask"
                             /\ history'[c] = Append(history[c], e)
         \/ \E k \in Clickers, e \in Event :
              /\ Record(k) /\ click[k].card = c
              /\ e = Decide(click[k].route, click[k].decision, click[k].basis)
              /\ history'[c] = Append(history[c], e)
         \/ /\ Commit /\ c = tick.card /\ tick.at \in 0..Len(history[c])
            /\ tick.seen.hash \in Hashes
            /\ history'[c] = Inserted(history[c], tick.at, tick.seen.hash)
         \/ /\ Rollback \/ Crash
            /\ rows[c] = Absent /\ history'[c] = << >>
<1>1. history \in [Cards -> Seq(Event)]
  BY DEF TypeOK
<1>2. CASE Post
  <2>1. PICK r \in tick.ask, q \in Request :
          /\ q.card = tick.card /\ r \in Routes
          /\ history' = [history EXCEPT ![q.card] = Append(@, Ask(r, q.hash))]
    BY <1>2, PostStep
  <2>2. Ask(r, q.hash) \in Event /\ Ask(r, q.hash).kind = "ask"
    BY <2>1, EventType DEF Request, Ask
  <2> QED  BY <1>1, <1>2, <2>1, <2>2
<1>3. ASSUME NEW k \in Clickers, Record(k)
      PROVE  \/ history'[c] = history[c]
             \/ \E e \in Event :
                  /\ click[k].card = c
                  /\ e = Decide(click[k].route, click[k].decision, click[k].basis)
                  /\ history'[c] = Append(history[c], e)
  <2>1. PICK x \in [pc : {"deciding"}, card : Cards, route : Routes, decision : Decisions,
                    basis : 0..MaxDecisions] : x = click[k]
    BY <1>3, ClickShape DEF Record
  <2>2. Decide(x.route, x.decision, x.basis) \in Event
    BY EventType
  <2>3. history' = [history EXCEPT ![x.card] = Append(@, Decide(x.route, x.decision, x.basis))]
    BY <1>3, <2>1 DEF Record
  <2> QED  BY <1>1, <2>1, <2>2, <2>3
<1>4. CASE Commit
  <2>1. tick.pc \in {"observed", "posting"}
    BY <1>4 DEF Commit
  <2>2. /\ tick.card \in Cards /\ tick.at \in 0..Len(history[tick.card])
        /\ tick.seen.hash \in Hashes
    BY <2>1, StampedType
  <2>3. history' = [history EXCEPT ![tick.card] = Stamped(@)]
    BY <1>4 DEF Commit
  <2>4. \/ history'[tick.card] = history[tick.card]
        \/ history'[tick.card] = Inserted(history[tick.card], tick.at, tick.seen.hash)
    BY <1>1, <2>2, <2>3 DEF Stamped, Inserted
  <2>5. c # tick.card => history'[c] = history[c]
    BY <1>1, <2>3
  <2> QED  BY <1>4, <2>2, <2>4, <2>5
<1>5. CASE Rollback \/ Crash
  <2>1. history' = WithoutDeadButtons
    BY <1>5 DEF Rollback, Crash
  <2>2. history'[c] = history[c] \/ (rows[c] = Absent /\ history'[c] = << >>)
    BY <1>1, <2>1 DEF WithoutDeadButtons
  <2> QED  BY <1>5, <2>2
<1>6. Post \/ (\E k \in Clickers : Record(k)) \/ Commit \/ Rollback \/ Crash \/ history' = history
  BY DEF Next, Writer, Poller, Approvers, Edit, Rename, Fetch, Observe, Evaluate, PostFails,
         EndTick, Click, vars
<1> QED  BY <1>2, <1>3, <1>4, <1>5, <1>6

\* The history of a card loses events only while it has no row and its transaction ends.
LEMMA HistoryGrows ==
  ASSUME TypeOK, TypeOK', StampInv, [Next]_vars, NEW c \in Cards, ~(Rollback \/ Crash) \/ rows[c] # Absent
  PROVE  Len(history[c]) <= Len(history'[c])
<1>1. history[c] \in Seq(Event) /\ Len(history[c]) \in Nat
  BY DEF TypeOK
<1>2. \A e \in Event : Len(Append(history[c], e)) = Len(history[c]) + 1
  BY <1>1, AppendedEvent
<1>3. ASSUME tick.at \in 0..Len(history[c]), tick.seen.hash \in Hashes
      PROVE  Len(Inserted(history[c], tick.at, tick.seen.hash)) = Len(history[c]) + 1
  BY <1>1, <1>3, InsertedVersion
<1> QED  BY <1>1, <1>2, <1>3, HistoryStep

LEMMA StampNext == TypeOK /\ TypeOK' /\ StampInv /\ [Next]_vars => StampInv'
<1> SUFFICES ASSUME TypeOK, TypeOK', StampInv, [Next]_vars, tick'.pc \in {"observed", "posting"}
             PROVE  tick'.at <= Len(history'[tick'.card])
  BY DEF StampInv
<1>1. CASE \E c \in Cards : Observe(c)
  <2>1. PICK c \in Cards : Observe(c)
    BY <1>1
  <2>2. tick'.card = c /\ tick'.at = Len(history[c]) /\ history' = history
    BY <2>1 DEF Observe
  <2>3. Len(history[c]) \in Nat
    BY DEF TypeOK
  <2> QED  BY <2>2, <2>3
<1>2. ASSUME tick.pc \in {"observed", "posting"}, tick'.at = tick.at, tick'.card = tick.card,
             ~(Rollback \/ Crash)
      PROVE  tick'.at <= Len(history'[tick'.card])
  <2>1. tick.at <= Len(history[tick.card])
    BY <1>2 DEF StampInv
  <2>2. tick.card \in Cards /\ tick.at \in Nat
    BY <1>2, TickShape
  <2>3. Len(history[tick.card]) <= Len(history'[tick.card])
    BY <1>2, <2>2, HistoryGrows
  <2>4. Len(history[tick.card]) \in Nat /\ Len(history'[tick.card]) \in Nat
    BY <2>2 DEF TypeOK
  <2> QED  BY <1>2, <2>1, <2>2, <2>3, <2>4
<1>3. ~(Fetch \/ EndTick \/ Rollback \/ Crash \/ Commit)
  BY DEF Fetch, EndTick, Rollback, Crash, Commit, Idle
<1>4. CASE Evaluate
  <2>1. tick.pc = "observed" /\ tick'.at = tick.at /\ tick'.card = tick.card
    BY <1>4 DEF Evaluate
  <2> QED  BY <1>2, <1>3, <2>1
<1>5. CASE Post
  <2>1. tick.pc = "posting" /\ tick'.at = tick.at /\ tick'.card = tick.card
    BY <1>5, PostStep DEF Post
  <2> QED  BY <1>2, <1>3, <2>1
<1>6. CASE PostFails
  <2>1. tick.pc = "posting" /\ tick'.at = tick.at /\ tick'.card = tick.card
    BY <1>6, RefusalStep DEF PostFails
  <2> QED  BY <1>2, <1>3, <2>1
<1>7. CASE tick' = tick
  BY <1>2, <1>3, <1>7
<1> QED  BY <1>1, <1>3, <1>4, <1>5, <1>6, <1>7
         DEF Next, Writer, Poller, Approvers, Edit, Rename, Click, Record, vars

\* A row stays a row.
LEMMA RowStays ==
  ASSUME TypeOK, [Next]_vars, NEW c \in Cards, rows[c] # Absent
  PROVE  rows'[c] # Absent
<1>1. CASE Commit
  <2>1. tick \in [pc : {"posting"}, card : Cards, seen : Content, at : Nat, export : Export,
                  failed : BOOLEAN, marked : SUBSET Request, ask : SUBSET Routes]
    BY <1>1, TickShape DEF Commit
  <2>2. [status |-> tick.seen.status, hash |-> tick.seen.hash] \in Row
    BY <2>1 DEF Row, Content
  <2> QED  BY <1>1, <2>1, <2>2, CrisisAssumption DEF Commit, TypeOK
<1>2. CASE ~Commit
  BY <1>2 DEF Next, Writer, Poller, Approvers, Edit, Rename, Fetch, Observe, Evaluate, Post,
           PostFails, Rollback, EndTick, Click, Record, Crash, vars
<1> QED  BY <1>1, <1>2

\* A click that was being handled, and is handled still.
LEMMA ClickStays ==
  ASSUME TypeOK, StampInv, ClicksInv, [Next]_vars, NEW k \in Clickers, click[k] # Idle,
         click'[k] = click[k]
  PROVE  LET x == click[k]
         IN /\ rows'[x.card] # Absent
            /\ x.basis <= DecidedIn(history'[x.card])
            /\ Informed(history'[x.card], x.route, x.basis)
<1>1. PICK x \in [pc : {"deciding"}, card : Cards, route : Routes, decision : Decisions,
                  basis : 0..MaxDecisions] : x = click[k]
  BY ClickShape
<1>2. /\ rows[x.card] # Absent /\ x.basis <= DecidedIn(history[x.card])
      /\ Informed(history[x.card], x.route, x.basis)
  BY <1>1 DEF ClicksInv
<1>3. PICK h \in Seq(Event) : h = history[x.card]
  BY DEF TypeOK
<1>4. DecidedIn(h) \in Nat /\ x.basis \in Nat
  <2>1. x.basis \in 0..MaxDecisions
    OBVIOUS
  <2>2. x.basis \in Nat
    BY <2>1
  <2>3. DecidedIn(h) \in Nat
    BY DecidedInAll
  <2> QED  BY <2>2, <2>3
<1>5. ASSUME NEW e \in Event
      PROVE  x.basis <= DecidedIn(Append(h, e)) /\ Informed(Append(h, e), x.route, x.basis)
  <2>1. DecidedIn(Append(h, e)) = DecidedIn(h) \/ DecidedIn(Append(h, e)) = DecidedIn(h) + 1
    BY AppendedEvent
  <2>2. Informed(Append(h, e), x.route, x.basis)
    BY <1>2, <1>3, <1>4, InformedAppend
  <2> QED  BY <1>2, <1>3, <1>4, <2>1, <2>2
<1>6. ASSUME NEW a \in 0..Len(h), NEW y \in Hashes
      PROVE  x.basis <= DecidedIn(Inserted(h, a, y)) /\ Informed(Inserted(h, a, y), x.route, x.basis)
  BY <1>2, <1>3, InsertedVersion, InformedInsert
<1>7. /\ x.basis <= DecidedIn(history'[x.card])
      /\ Informed(history'[x.card], x.route, x.basis)
  BY <1>2, <1>3, <1>5, <1>6, HistoryStep
<1>8. rows'[x.card] # Absent
  BY <1>2, RowStays
<1> QED  BY <1>1, <1>7, <1>8

LEMMA ClicksNext == TypeOK /\ TypeOK' /\ StampInv /\ ClicksInv /\ [Next]_vars => ClicksInv'
<1> SUFFICES ASSUME TypeOK, TypeOK', StampInv, ClicksInv, [Next]_vars,
                    NEW k \in Clickers, click'[k] # Idle
             PROVE  LET x == click'[k]
                    IN /\ rows'[x.card] # Absent
                       /\ x.basis <= DecidedIn(history'[x.card])
                       /\ Informed(history'[x.card], x.route, x.basis)
  BY DEF ClicksInv, Informed, Idle
<1>1. CASE click'[k] = click[k]
  <2>1. click[k] # Idle
    BY <1>1
  <2> QED  BY <1>1, <2>1, ClickStays
<1>2. CASE click'[k] # click[k]
  <2>1. PICK c \in Cards, r \in Routes, d \in Decisions : Click(k, c, r, d)
    <3>1. ASSUME NEW j \in Clickers, Record(j) PROVE FALSE
      BY <1>2, <3>1 DEF Record, TypeOK, ClickType
    <3>2. ASSUME NEW j \in Clickers, NEW c \in Cards, NEW r \in Routes, NEW d \in Decisions,
                 Click(j, c, r, d)
          PROVE  j = k
      BY <1>2, <3>2 DEF Click, TypeOK, ClickType
    <3>3. ~Crash
      BY DEF Crash
    <3>4. click' # click
      BY <1>2
    <3> QED  BY <3>1, <3>2, <3>3, <3>4
             DEF Next, Writer, Poller, Approvers, Edit, Rename, Fetch, Observe, Evaluate, Post,
                 PostFails, Commit, Rollback, EndTick, vars
  <2>2. /\ click'[k] = [pc |-> "deciding", card |-> c, route |-> r, decision |-> d,
                        basis |-> DecidedIn(history[c])]
        /\ rows' = rows /\ history' = history /\ rows[c] # Absent /\ ~Blocked(history[c], r, d)
    BY <2>1 DEF Click, TypeOK, ClickType
  <2>3. history[c] \in Seq(Event) /\ DecidedIn(history[c]) \in Nat
    BY DecidedInAll DEF TypeOK
  <2>4. Informed(history[c], r, DecidedIn(history[c]))
    BY <2>2, <2>3, AllowedIsInformed
  <2> QED  BY <2>2, <2>3, <2>4
<1> QED  BY <1>1, <1>2

\* Of every card the history is settled.
LEMMA SettledIs == ApprovalSettles <=> \A c \in Cards : Settled(history[c])
  BY DEF ApprovalSettles, Settled

LEMMA SettlesNext ==
  TypeOK /\ StampInv /\ ClicksInv /\ ApprovalSettles /\ [Next]_vars => ApprovalSettles'
<1> SUFFICES ASSUME TypeOK, StampInv, ClicksInv, ApprovalSettles, [Next]_vars, NEW c \in Cards
             PROVE  Settled(history'[c])
  BY DEF ApprovalSettles, Settled
<1>1. PICK h \in Seq(Event) : h = history[c] /\ Settled(h)
  BY SettledIs DEF TypeOK
<1>2. ASSUME NEW e \in Event, e.kind = "ask" PROVE Settled(Append(h, e))
  BY <1>1, <1>2, SettledAppend
<1>3. ASSUME NEW k \in Clickers, Record(k), click[k].card = c, NEW e \in Event,
             e = Decide(click[k].route, click[k].decision, click[k].basis)
      PROVE  Settled(Append(h, e))
  <2>1. PICK x \in [pc : {"deciding"}, card : Cards, route : Routes, decision : Decisions,
                    basis : 0..MaxDecisions] : x = click[k]
    BY <1>3, ClickShape DEF Record
  <2>2. e.route = x.route /\ e.basis = x.basis /\ x.basis \in Nat
    BY <1>3, <2>1 DEF Decide
  <2>3. Informed(h, x.route, x.basis)
    BY <1>1, <1>3, <2>1 DEF ClicksInv, Record
  <2> QED  BY <1>1, <2>2, <2>3, SettledAppend
<1>4. ASSUME NEW a \in 0..Len(h), NEW y \in Hashes PROVE Settled(Inserted(h, a, y))
  BY <1>1, InformedInsert
<1>5. Settled(<< >>)
  BY DEF Settled
<1> QED  BY <1>1, <1>2, <1>3, <1>4, <1>5, HistoryStep

-----------------------------------------------------------------------------
(* The theorems *)

LEMMA IInvInit == Init => IInv
<1> SUFFICES ASSUME Init PROVE IInv
  OBVIOUS
<1>1. TypeOK
  BY TypeInit
<1>2. tick.pc = "idle" /\ (\A k \in Clickers : click[k] = Idle) /\ (\A c \in Cards : rows[c] = Absent)
  BY DEF Init, Idle
<1>3. AskedInv /\ StampInv /\ ClicksInv
  BY <1>2 DEF AskedInv, ReadyRowWasAsked, StampInv, ClicksInv, Init
<1>4. PostsInv
  <2>1. faults = 0 /\ \A q \in Request : posts[q] = 0
    BY DEF Init
  <2> QED  BY <1>2, <2>1 DEF PostsInv
<1>5. ApprovalSettles
  BY DEF Init, ApprovalSettles
<1> QED  BY <1>1, <1>3, <1>4, <1>5 DEF IInv

LEMMA IInvNext == IInv /\ [Next]_vars => IInv'
<1> SUFFICES ASSUME IInv, [Next]_vars PROVE IInv'
  OBVIOUS
<1> USE DEF IInv
<1>1. TypeOK'
  BY TypeNext
<1>2. AskedInv'
  BY AskedNext
<1>3. PostsInv'
  BY <1>1, PostsNext
<1>4. StampInv' /\ ClicksInv'
  BY <1>1, StampNext, ClicksNext
<1>5. ApprovalSettles'
  BY SettlesNext
<1> QED  BY <1>1, <1>2, <1>3, <1>4, <1>5

LEMMA IInvAlways == Spec => []IInv
  BY IInvInit, IInvNext, PTL DEF Spec

(***************************************************************************)
(* The tables, the open transaction and the clicks keep their shape        *)
(* (orm.py), whatever fails and however ticks and clicks interleave.       *)
(***************************************************************************)
THEOREM TypeCorrect == Spec => []TypeOK
<1>1. IInv => TypeOK
  BY DEF IInv
<1> QED  BY <1>1, IInvAlways, PTL

(***************************************************************************)
(* No request is lost (poller.py:21-38): whatever Slack refuses and        *)
(* wherever the process dies, a row is committed with a copy that is Ready *)
(* only after somebody was shown a request about a copy.                   *)
(***************************************************************************)
THEOREM NoRequestIsLost == Spec => []ReadyRowWasAsked
<1>1. IInv => ReadyRowWasAsked
  BY DEF IInv, AskedInv
<1> QED  BY <1>1, IInvAlways, PTL

(***************************************************************************)
(* Marking a request in the transaction of its card (poller.py:571-586) is *)
(* enough: Slack shows it once, and once more for each refusal or crash.   *)
(***************************************************************************)
THEOREM RepeatsNeedFaults == Spec => []RepeatedOnlyAfterFault
<1>1. IInv => RepeatedOnlyAfterFault
  <2> SUFFICES ASSUME IInv, NEW q \in Request PROVE posts[q] <= 1 + faults
    BY DEF RepeatedOnlyAfterFault
  <2>1. posts[q] <= faults + (IF Kept(q) THEN 1 ELSE 0)
    BY DEF IInv, PostsInv
  <2>2. posts[q] \in Nat /\ faults \in Nat
    BY CrisisAssumption DEF IInv, TypeOK
  <2> QED  BY <2>1, <2>2
<1> QED  BY <1>1, IInvAlways, PTL

(***************************************************************************)
(* For any number of clicks at once and any number of decisions, the first *)
(* decision after an approval of an unchanged text is that of a click that *)
(* had read the decisions before the approval (slack_actions.py:436).      *)
(***************************************************************************)
THEOREM ApprovalsSettle == Spec => []ApprovalSettles
<1>1. IInv => ApprovalSettles
  BY DEF IInv
<1> QED  BY <1>1, IInvAlways, PTL

=============================================================================
