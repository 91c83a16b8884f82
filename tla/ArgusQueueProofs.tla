-------------------------- MODULE ArgusQueueProofs --------------------------
(***************************************************************************)
(* Proofs about ArgusQueue, for every number of processes, attempts and    *)
(* requests and every bound on faults and slow runs.                       *)
(***************************************************************************)
EXTENDS ArgusQueue, FiniteSetTheorems, SequenceTheorems, TLAPS

-----------------------------------------------------------------------------
(* Type correctness *)

\* A job that is not idle is one of Job.
LEMMA BusyType ==
  ASSUME TypeOK, NEW p \in Processes, job[p].pc # "idle"
  PROVE  /\ job[p] # Idle /\ job[p] \in Job
         /\ job[p].id \in Ids /\ job[p].id \in DOMAIN queue
         /\ queue[job[p].id] \in Row
<1>1. job[p] # Idle /\ job[p] \in Job /\ job[p].id \in DOMAIN queue
  BY DEF TypeOK, Idle
<1>2. queue[job[p].id] \in Row
  BY <1>1 DEF TypeOK
<1>3. DOMAIN queue = 1..Len(queue) /\ Len(queue) \in Nat /\ Len(queue) <= MaxRequests
  BY DEF TypeOK
<1> QED  BY <1>1, <1>2, <1>3, ArgusAssumption DEF Ids

\* A transaction that closes a row has read one.
LEMMA SeenType ==
  ASSUME TypeOK, NEW p \in Processes, job[p].pc \in {"done", "failed", "exhausted"}
  PROVE  job[p].seen \in Row
<1>1. job[p].pc # "idle"
  OBVIOUS
<1>2. job[p] \in Job
  BY <1>1, BusyType
<1> QED  BY <1>2 DEF Job

\* What a claim or a failure makes of a row is a row.
LEMMA RowTypes ==
  ASSUME NEW row \in Row
  PROVE  /\ Claimed(row) \in Row /\ Failed(row) \in Row
         /\ \A s \in Statuses : [row EXCEPT !.status = s] \in Row
<1>1. Claimed(row) \in Row
  BY DEF Claimed, Row, Statuses, Fresh, Stale
<1>2. Failed(row) \in Row
  <2>1. row.attempts + 1 \in Nat
    BY DEF Row
  <2>2. (IF row.attempts + 1 >= MaxAttempts THEN "failed" ELSE "pending") \in Statuses
    BY DEF Statuses
  <2>3. ASSUME NEW s \in Statuses PROVE [row EXCEPT !.attempts = @ + 1, !.status = s] \in Row
    BY <2>1 DEF Row
  <2> QED  BY <2>2, <2>3 DEF Failed
<1>3. \A s \in Statuses : [row EXCEPT !.status = s] \in Row
  BY DEF Row
<1> QED  BY <1>1, <1>2, <1>3

\* So is what a transaction writes back.
LEMMA FlushType ==
  ASSUME NEW row \in Row, NEW seen \in Row, NEW new \in Row
  PROVE  Flush(row, seen, new) \in Row
<1>1. (IF new.status # seen.status THEN new.status ELSE row.status) \in Statuses
  BY DEF Row
<1>2. (IF new.attempts # seen.attempts THEN new.attempts ELSE row.attempts) \in Nat
  BY DEF Row
<1>3. ASSUME NEW s \in Statuses, NEW n \in Nat
      PROVE  [row EXCEPT !.status = s, !.attempts = n] \in Row
  BY DEF Row
<1> QED  BY <1>1, <1>2, <1>3 DEF Flush

\* The history of a request keeps its type.
LEMMA LogTypes ==
  ASSUME NEW l \in Log
  PROVE  /\ [l EXCEPT !.runs = @ + 1] \in Log
         /\ [l EXCEPT !.told = TRUE] \in Log
         /\ [l EXCEPT !.findings = @ + 1, !.told = TRUE] \in Log
<1> USE DEF Log
<1>1. [l EXCEPT !.runs = @ + 1] \in Log
  OBVIOUS
<1>2. [l EXCEPT !.told = TRUE] \in Log
  OBVIOUS
<1>3. l.findings + 1 \in Nat
  OBVIOUS
<1>4. ASSUME NEW n \in Nat PROVE [l EXCEPT !.findings = n, !.told = TRUE] \in Log
  OBVIOUS
<1>5. [l EXCEPT !.findings = @ + 1, !.told = TRUE] \in Log
  BY <1>3, <1>4
<1> QED  BY <1>1, <1>2, <1>5

LEMMA JobTypes ==
  ASSUME NEW i \in Ids
  PROVE  /\ \A pc \in {"research", "fallback"} : [pc |-> pc, id |-> i] \in Job
         /\ \A pc \in {"done", "failed", "exhausted"}, row \in Row :
              [pc |-> pc, id |-> i, seen |-> row] \in Job
  BY DEF Job

LEMMA TypeInit == Init => TypeOK
<1> SUFFICES ASSUME Init PROVE TypeOK
  OBVIOUS
<1>1. NewLog \in Log
  BY DEF NewLog, Log
<1>2. queue \in Seq(Row) /\ Len(queue) = 0
  BY DEF Init
<1> QED  BY <1>1, <1>2, ArgusAssumption DEF Init, TypeOK, Idle

\* A write keeps the types, whatever row is written.
LEMMA WriteType ==
  ASSUME TypeOK, NEW i \in DOMAIN queue, NEW row \in Row, queue' = [queue EXCEPT ![i] = row]
  PROVE  /\ queue' \in Seq(Row) /\ Len(queue') = Len(queue)
         /\ DOMAIN queue' = DOMAIN queue /\ queue'[i] = row
         /\ \A j \in DOMAIN queue : j # i => queue'[j] = queue[j]
<1>1. queue \in Seq(Row)
  BY DEF TypeOK
<1>2. /\ queue' \in Seq(Row) /\ Len(queue') = Len(queue)
  BY <1>1, ExceptSeq
<1> QED  BY <1>1, <1>2

LEMMA TypeNext == TypeOK /\ [Next]_vars => TypeOK'
<1> SUFFICES ASSUME TypeOK, [Next]_vars PROVE TypeOK'
  OBVIOUS
<1> USE ArgusAssumption
<1>1. CASE Dispatch
  <2>1. NewRow \in Row
    BY DEF NewRow, Row, Statuses, Fresh, Stale
  <2>2. /\ queue' \in Seq(Row) /\ Len(queue') = Len(queue) + 1
    BY <1>1, <2>1 DEF Dispatch, TypeOK
  <2>3. \A i \in DOMAIN queue : i \in DOMAIN queue'
    BY <2>2 DEF TypeOK
  <2>4. Len(queue') <= MaxRequests
    BY <1>1, <2>2 DEF Dispatch, TypeOK
  <2> QED  BY <1>1, <2>2, <2>3, <2>4 DEF Dispatch, TypeOK
<1>2. ASSUME NEW p \in Processes, Claim(p) PROVE TypeOK'
  <2>1. PICK i \in NextClaim :
           /\ queue' = [queue EXCEPT ![i] = Claimed(queue[i])]
           /\ \/ /\ Begin(p, "research", i) /\ log' = [log EXCEPT ![i].runs = @ + 1]
              \/ Read(p, "exhausted", i) /\ UNCHANGED log
           /\ UNCHANGED <<faults, slow>>
    BY <1>2 DEF Claim
  <2>2. i \in DOMAIN queue /\ i \in Ids /\ queue[i] \in Row /\ Claimed(queue[i]) \in Row
    <3>1. i \in DOMAIN queue
      BY DEF NextClaim
    <3>2. DOMAIN queue = 1..Len(queue) /\ Len(queue) \in Nat /\ Len(queue) <= MaxRequests
          /\ queue[i] \in Row
      BY <3>1 DEF TypeOK
    <3>3. Claimed(queue[i]) \in Row
      BY <3>2, RowTypes
    <3> QED  BY <3>1, <3>2, <3>3 DEF Ids
  <2>3. queue' \in Seq(Row) /\ Len(queue') = Len(queue) /\ DOMAIN queue' = DOMAIN queue
        /\ queue'[i] \in Row
    BY <2>1, <2>2, WriteType
  <2>4. CASE Begin(p, "research", i) /\ log' = [log EXCEPT ![i].runs = @ + 1]
    <3>1. [pc |-> "research", id |-> i] \in Job
      BY <2>2, JobTypes
    <3>2. log' \in [Ids -> Log]
      BY <2>4, <2>2, LogTypes DEF TypeOK
    <3> QED  BY <2>1, <2>2, <2>3, <2>4, <3>1, <3>2 DEF TypeOK, Begin, Idle
  <2>5. CASE Read(p, "exhausted", i) /\ UNCHANGED log
    <3>1. [pc |-> "exhausted", id |-> i, seen |-> queue'[i]] \in Job
      BY <2>2, <2>3, JobTypes
    <3> QED  BY <2>1, <2>2, <2>3, <2>5, <3>1 DEF TypeOK, Read, Idle
  <2> QED  BY <2>1, <2>4, <2>5
\* The log is written for the request of p, and the row is read.
<1>3. ASSUME NEW p \in Processes, NEW pc \in {"done", "failed"}, Ends(p, pc),
             log' \in [Ids -> Log], faults' \in 0..MaxFaults, UNCHANGED slow
      PROVE  TypeOK'
  <2>1. /\ job[p].id \in Ids /\ job[p].id \in DOMAIN queue /\ queue[job[p].id] \in Row
    BY <1>3, BusyType DEF Ends, At
  <2>2. [pc |-> pc, id |-> job[p].id, seen |-> queue'[job[p].id]] \in Job
    BY <1>3, <2>1 DEF Job, Ends
  <2> QED  BY <1>3, <2>1, <2>2 DEF TypeOK, Ends, Read, Idle
<1>4. ASSUME NEW p \in Processes, Post(p) \/ PostNothing(p) \/ Fail(p) \/ LoseAnswer(p)
      PROVE  TypeOK'
  <2>1. job[p].id \in Ids
    BY <1>4, BusyType DEF Post, PostNothing, Fail, LoseAnswer, Ends, At
  <2>2. log[job[p].id] \in Log
    BY <2>1 DEF TypeOK
  <2>3. log' \in [Ids -> Log]
    BY <1>4, <2>1, <2>2, LogTypes DEF Post, PostNothing, Fail, LoseAnswer, TypeOK
  <2>4. faults' \in 0..MaxFaults /\ slow' = slow
    BY <1>4 DEF Post, PostNothing, Fail, LoseAnswer, Fault, TypeOK
  <2> QED  BY <1>3, <1>4, <2>3, <2>4 DEF Post, PostNothing, Fail, LoseAnswer
<1>5. ASSUME NEW p \in Processes, NEW new \in Row, Write(p, new), UNCHANGED log,
             job[p].pc \in {"done", "failed", "exhausted"},
             Stop(p) \/ Begin(p, "fallback", job[p].id)
      PROVE  TypeOK'
  <2>1. /\ job[p].id \in Ids /\ job[p].id \in DOMAIN queue /\ queue[job[p].id] \in Row
        /\ job[p].seen \in Row
    BY <1>5, BusyType, SeenType
  <2>2. queue' = [queue EXCEPT ![job[p].id] = Flush(queue[job[p].id], job[p].seen, new)]
    BY <1>5 DEF Write
  <2>3. queue' \in Seq(Row) /\ Len(queue') = Len(queue) /\ DOMAIN queue' = DOMAIN queue
    BY <2>1, <2>2, FlushType, WriteType, <1>5
  <2>4. [pc |-> "fallback", id |-> job[p].id] \in Job
    BY <2>1, JobTypes
  <2>5. job' \in [Processes -> Job \cup {Idle}]
    BY <1>5, <2>4 DEF TypeOK, Stop, Begin
  <2>6. \A q \in Processes : job'[q] # Idle => job'[q].id \in DOMAIN queue'
    BY <1>5, <2>1, <2>3, SMTT(30) DEF TypeOK, Stop, Begin
  <2> QED  BY <1>5, <2>3, <2>5, <2>6 DEF TypeOK, Write
<1>6. ASSUME NEW p \in Processes, MarkDone(p) \/ MarkFailed(p) \/ FinalizeExhausted(p)
      PROVE  TypeOK'
  <2>1. job[p].pc \in {"done", "failed", "exhausted"}
    BY <1>6 DEF MarkDone, MarkFailed, FinalizeExhausted, At
  <2>2. /\ [job[p].seen EXCEPT !.status = "done"] \in Row
        /\ [job[p].seen EXCEPT !.status = "failed"] \in Row
        /\ Failed(job[p].seen) \in Row
    BY <2>1, SeenType, RowTypes DEF Statuses
  <2> QED  BY <1>5, <1>6, <2>1, <2>2 DEF MarkDone, MarkFailed, FinalizeExhausted
<1>7. ASSUME NEW p \in Processes, CloseFails(p) \/ GiveUp(p) \/ GiveUpFails(p) \/ Crash(p)
      PROVE  TypeOK'
  <2>1. job[p].pc # "idle" \/ job[p] # Idle
    BY <1>7 DEF CloseFails, GiveUp, GiveUpFails, Crash, At
  <2>2. job[p].pc # "idle"
    <3>1. job[p] \in Job => job[p].pc # "idle"
      BY DEF Job
    <3> QED  BY <2>1, <3>1 DEF TypeOK
  <2>3. /\ job[p].id \in Ids /\ job[p].id \in DOMAIN queue
    BY <2>2, BusyType
  <2>4. [pc |-> "fallback", id |-> job[p].id] \in Job
    BY <2>3 DEF Job
  <2>5. UNCHANGED <<queue, slow>> /\ faults' \in 0..MaxFaults
    BY <1>7 DEF CloseFails, GiveUp, GiveUpFails, Crash, Fault, TypeOK
  <2>7. log[job[p].id] \in Log
    BY <2>3 DEF TypeOK
  <2>8. log' \in [Ids -> Log]
    BY <1>7, <2>3, <2>7, LogTypes DEF CloseFails, GiveUp, GiveUpFails, Crash, TypeOK
  <2>6. Stop(p) \/ Begin(p, "fallback", job[p].id)
    BY <1>7 DEF CloseFails, GiveUp, GiveUpFails, Crash
  <2> QED  BY <2>3, <2>4, <2>5, <2>6, <2>8, SMTT(30) DEF TypeOK, Stop, Begin, Idle
<1>8. ASSUME NEW i \in DOMAIN queue, Elapse(i) PROVE TypeOK'
  <2>1. queue[i] \in Row /\ [queue[i] EXCEPT !.age = @ + 1] \in Row
    <3>1. queue[i] \in Row /\ queue[i].age < Stale
      BY <1>8 DEF TypeOK, Elapse
    <3>2. queue[i].age + 1 \in Fresh..Stale
      BY <3>1 DEF Row, Fresh, Stale
    <3> QED  BY <3>1, <3>2 DEF Row
  <2>2. queue' \in Seq(Row) /\ Len(queue') = Len(queue) /\ DOMAIN queue' = DOMAIN queue
    BY <1>8, <2>1, WriteType DEF Elapse
  <2>3. slow' \in 0..MaxSlow
    BY <1>8 DEF Elapse, TypeOK
  <2> QED  BY <1>8, <2>2, <2>3 DEF TypeOK, Elapse
<1>9. CASE UNCHANGED vars
  BY <1>9 DEF vars, TypeOK
<1> QED  BY <1>1, <1>2, <1>4, <1>6, <1>7, <1>8, <1>9 DEF Next, Work, Trouble

\* Every variable keeps its type, and a process works on a request that exists.
THEOREM TypeCorrect == Spec => []TypeOK
  BY TypeInit, TypeNext, PTL DEF Spec

-----------------------------------------------------------------------------
(* What one step of a process changes *)

\* Only the row and the history of request i and the job of p, who works on i afterwards
\* or on nothing.
Touches(p, i) ==
  /\ i \in DOMAIN queue /\ i \in Ids /\ queue[i] \in Row /\ log[i] \in Log
  /\ DOMAIN queue' = DOMAIN queue
  /\ \A j \in DOMAIN queue : j # i => queue'[j] = queue[j]
  /\ \A j \in Ids : j # i => log'[j] = log[j]
  /\ \A q \in Processes : q # p => job'[q] = job[q]
  /\ job'[p] = Idle \/ job'[p].id = i

LEMMA IdleType ==
  ASSUME TypeOK, NEW p \in Processes
  PROVE  job[p].pc = "idle" <=> job[p] = Idle
<1>1. job[p] \in Job => job[p].pc # "idle"
  BY DEF Job
<1> QED  BY <1>1 DEF TypeOK, Idle

\* An idle process claims a row that is pending, or running and stale.
LEMMA ClaimStep ==
  ASSUME TypeOK, NEW p \in Processes, Claim(p)
  PROVE  /\ job[p] = Idle /\ UNCHANGED <<faults, slow>>
         /\ \E i \in DOMAIN queue :
              /\ Touches(p, i)
              /\ queue[i].status = "pending" \/ (queue[i].status = "running" /\ queue[i].age = Stale)
              /\ queue'[i] = Claimed(queue[i])
              /\ \/ /\ queue'[i].attempts < MaxAttempts
                    /\ job'[p] = [pc |-> "research", id |-> i]
                    /\ log'[i] = [log[i] EXCEPT !.runs = @ + 1]
                 \/ /\ queue'[i].attempts >= MaxAttempts
                    /\ job'[p] = [pc |-> "exhausted", id |-> i, seen |-> queue'[i]]
                    /\ log' = log
<1>1. PICK i \in NextClaim :
        /\ queue' = [queue EXCEPT ![i] = Claimed(queue[i])]
        /\ \/ /\ Claimed(queue[i]).attempts < MaxAttempts
              /\ Begin(p, "research", i) /\ log' = [log EXCEPT ![i].runs = @ + 1]
           \/ /\ ~(Claimed(queue[i]).attempts < MaxAttempts)
              /\ Read(p, "exhausted", i) /\ UNCHANGED log
  BY DEF Claim
<1>2. /\ i \in DOMAIN queue /\ i \in Ids /\ queue[i] \in Row /\ log[i] \in Log
      /\ Claimed(queue[i]) \in Row
  <2>1. i \in DOMAIN queue
    BY DEF NextClaim
  <2>2. DOMAIN queue = 1..Len(queue) /\ Len(queue) \in Nat /\ Len(queue) <= MaxRequests
        /\ queue[i] \in Row
    BY <2>1 DEF TypeOK
  <2>3. i \in Ids
    BY <2>1, <2>2, ArgusAssumption DEF Ids
  <2>4. log[i] \in Log
    BY <2>3 DEF TypeOK
  <2>5. Claimed(queue[i]) \in Row
    BY <2>2, RowTypes
  <2> QED  BY <2>1, <2>2, <2>3, <2>4, <2>5
<1>3. /\ DOMAIN queue' = DOMAIN queue /\ queue'[i] = Claimed(queue[i])
      /\ \A j \in DOMAIN queue : j # i => queue'[j] = queue[j]
  BY <1>1, <1>2, WriteType
<1>4. queue[i].status = "pending" \/ (queue[i].status = "running" /\ queue[i].age = Stale)
  BY DEF NextClaim, Claimable
<1>5. Claimed(queue[i]).attempts \in Nat /\ MaxAttempts \in Nat
  BY <1>2, ArgusAssumption DEF Row
<1>6. CASE /\ Claimed(queue[i]).attempts < MaxAttempts
           /\ Begin(p, "research", i) /\ log' = [log EXCEPT ![i].runs = @ + 1]
  <2>1. /\ job'[p] = [pc |-> "research", id |-> i] /\ job'[p].id = i
        /\ \A q \in Processes : q # p => job'[q] = job[q]
    BY <1>6 DEF Begin, TypeOK
  <2>2. /\ log'[i] = [log[i] EXCEPT !.runs = @ + 1]
        /\ \A j \in Ids : j # i => log'[j] = log[j]
    BY <1>6, <1>2 DEF TypeOK
  <2>3. Touches(p, i)
    BY <1>2, <1>3, <2>1, <2>2 DEF Touches
  <2>4. queue'[i].attempts < MaxAttempts
    BY <1>3, <1>6
  <2> QED  BY <1>2, <1>3, <1>4, <2>1, <2>2, <2>3, <2>4, IdleType DEF Claim, At
<1>7. CASE /\ ~(Claimed(queue[i]).attempts < MaxAttempts)
           /\ Read(p, "exhausted", i) /\ UNCHANGED log
  <2>1. /\ job'[p] = [pc |-> "exhausted", id |-> i, seen |-> queue'[i]] /\ job'[p].id = i
        /\ \A q \in Processes : q # p => job'[q] = job[q]
    BY <1>7 DEF Read, TypeOK
  <2>2. Touches(p, i)
    BY <1>2, <1>3, <1>7, <2>1 DEF Touches
  <2>3. queue'[i].attempts >= MaxAttempts
    BY <1>3, <1>5, <1>7
  <2> QED  BY <1>2, <1>3, <1>4, <1>7, <2>1, <2>2, <2>3, IdleType DEF Claim, At
<1> QED  BY <1>1, <1>6, <1>7

\* A process that ends its research leaves the row alone and has read it.
LEMMA EndsStep ==
  ASSUME TypeOK, NEW p \in Processes, NEW pc \in {"done", "failed"}, Ends(p, pc),
         \A j \in Ids : j # job[p].id => log'[j] = log[j]
  PROVE  /\ Touches(p, job[p].id) /\ job[p] # Idle /\ job[p].pc = "research"
         /\ queue' = queue
         /\ job'[p] = [pc |-> pc, id |-> job[p].id, seen |-> queue[job[p].id]]
<1>1. job[p].pc = "research"
  BY DEF Ends, At
<1>2. /\ job[p] # Idle /\ job[p].id \in Ids /\ job[p].id \in DOMAIN queue
      /\ queue[job[p].id] \in Row
  BY <1>1, BusyType
<1>3. log[job[p].id] \in Log
  BY <1>2 DEF TypeOK
<1>4. queue' = queue
  BY DEF Ends
<1>5. /\ job'[p] = [pc |-> pc, id |-> job[p].id, seen |-> queue[job[p].id]]
      /\ \A q \in Processes : q # p => job'[q] = job[q]
  BY <1>4 DEF Ends, Read, TypeOK
<1> QED  BY <1>1, <1>2, <1>3, <1>4, <1>5 DEF Touches

\* A process that closes its row writes what differs from what it has read.
LEMMA CloseStep ==
  ASSUME TypeOK, NEW p \in Processes, job[p].pc \in {"done", "failed", "exhausted"},
         NEW new \in Row, Write(p, new), UNCHANGED log,
         Stop(p) \/ Begin(p, "fallback", job[p].id)
  PROVE  /\ Touches(p, job[p].id) /\ job[p] # Idle /\ UNCHANGED <<faults, slow>>
         /\ queue'[job[p].id] = Flush(queue[job[p].id], job[p].seen, new)
         /\ job[p].seen \in Row
         /\ Stop(p) => job'[p] = Idle
         /\ Begin(p, "fallback", job[p].id) => job'[p] = [pc |-> "fallback", id |-> job[p].id]
<1>1. job[p].pc # "idle"
  OBVIOUS
<1>2. /\ job[p] # Idle /\ job[p].id \in Ids /\ job[p].id \in DOMAIN queue
      /\ queue[job[p].id] \in Row
  BY <1>1, BusyType
<1>3. log[job[p].id] \in Log
  BY <1>2 DEF TypeOK
<1>4. job[p].seen \in Row
  BY SeenType
<1>5. Flush(queue[job[p].id], job[p].seen, new) \in Row
  BY <1>2, <1>4, FlushType
<1>6. queue' = [queue EXCEPT ![job[p].id] = Flush(queue[job[p].id], job[p].seen, new)]
  BY DEF Write
<1>7. /\ DOMAIN queue' = DOMAIN queue
      /\ queue'[job[p].id] = Flush(queue[job[p].id], job[p].seen, new)
      /\ \A j \in DOMAIN queue : j # job[p].id => queue'[j] = queue[j]
  BY <1>2, <1>5, <1>6, WriteType
<1>8. /\ Stop(p) => job'[p] = Idle
      /\ Begin(p, "fallback", job[p].id) => job'[p] = [pc |-> "fallback", id |-> job[p].id]
      /\ \A q \in Processes : q # p => job'[q] = job[q]
  BY DEF Stop, Begin, TypeOK
<1>9. job'[p] = Idle \/ job'[p].id = job[p].id
  BY <1>8
<1> QED  BY <1>2, <1>3, <1>4, <1>7, <1>8, <1>9 DEF Touches, Write

\* A process that drops its work, or goes on to give up, leaves the row alone.
LEMMA DropStep ==
  ASSUME TypeOK, NEW p \in Processes, job[p] # Idle, queue' = queue,
         \A j \in Ids : j # job[p].id => log'[j] = log[j],
         Stop(p) \/ Begin(p, "fallback", job[p].id)
  PROVE  /\ Touches(p, job[p].id)
         /\ Stop(p) => job'[p] = Idle
         /\ Begin(p, "fallback", job[p].id) => job'[p] = [pc |-> "fallback", id |-> job[p].id]
<1>1. /\ job[p].id \in Ids /\ job[p].id \in DOMAIN queue /\ queue[job[p].id] \in Row
  BY BusyType, IdleType
<1>2. log[job[p].id] \in Log
  BY <1>1 DEF TypeOK
<1>3. /\ Stop(p) => job'[p] = Idle
      /\ Begin(p, "fallback", job[p].id) => job'[p] = [pc |-> "fallback", id |-> job[p].id]
      /\ \A q \in Processes : q # p => job'[q] = job[q]
  BY DEF Stop, Begin, TypeOK
<1>4. job'[p] = Idle \/ job'[p].id = job[p].id
  BY <1>3
<1> QED  BY <1>1, <1>2, <1>3, <1>4 DEF Touches

\* Time passes for one row.
LEMMA ElapseStep ==
  ASSUME TypeOK, NEW i \in DOMAIN queue, Elapse(i)
  PROVE  /\ queue[i] \in Row /\ queue[i].age < Stale
         /\ DOMAIN queue' = DOMAIN queue /\ queue'[i] = [queue[i] EXCEPT !.age = @ + 1]
         /\ \A j \in DOMAIN queue : j # i => queue'[j] = queue[j]
         /\ queue'[i].age = queue[i].age + 1
         /\ UNCHANGED <<job, log, faults>>
<1>1. queue[i] \in Row /\ queue[i].age < Stale
  BY DEF TypeOK, Elapse
<1>2. queue[i].age + 1 \in Fresh..Stale
  BY <1>1 DEF Row, Fresh, Stale
<1>3. [queue[i] EXCEPT !.age = @ + 1] \in Row
  BY <1>1, <1>2 DEF Row
<1>4. queue' = [queue EXCEPT ![i] = [queue[i] EXCEPT !.age = @ + 1]]
  BY DEF Elapse
<1>5. /\ DOMAIN queue' = DOMAIN queue /\ queue'[i] = [queue[i] EXCEPT !.age = @ + 1]
      /\ \A j \in DOMAIN queue : j # i => queue'[j] = queue[j]
  BY <1>3, <1>4, WriteType
<1>6. queue'[i].age = queue[i].age + 1
  BY <1>1, <1>5 DEF Row
<1> QED  BY <1>1, <1>5, <1>6 DEF Elapse

\* A request is added behind the others.
LEMMA DispatchStep ==
  ASSUME TypeOK, Dispatch
  PROVE  /\ DOMAIN queue' = DOMAIN queue \cup {Len(queue) + 1}
         /\ Len(queue) + 1 \in Ids \ DOMAIN queue
         /\ queue'[Len(queue) + 1] = NewRow
         /\ \A i \in DOMAIN queue : queue'[i] = queue[i]
         /\ UNCHANGED <<job, log, faults, slow>>
<1>1. queue \in Seq(Row) /\ Len(queue) \in Nat /\ DOMAIN queue = 1..Len(queue)
  BY DEF TypeOK
<1>2. Len(queue) < MaxRequests /\ queue' = Append(queue, NewRow)
  BY DEF Dispatch
<1>3. Len(queue) + 1 \in Ids \ DOMAIN queue
  BY <1>1, <1>2, ArgusAssumption DEF Ids
<1>4. NewRow \in Row
  BY DEF NewRow, Row, Statuses, Fresh, Stale
<1>5. /\ Len(queue') = Len(queue) + 1 /\ queue' \in Seq(Row)
      /\ queue'[Len(queue) + 1] = NewRow
      /\ \A i \in 1..Len(queue) : queue'[i] = queue[i]
  BY <1>1, <1>2, <1>4, AppendProperties
<1>6. DOMAIN queue' = 1..(Len(queue) + 1)
  BY <1>5
<1>7. DOMAIN queue' = DOMAIN queue \cup {Len(queue) + 1}
  BY <1>1, <1>6
<1> QED  BY <1>1, <1>3, <1>5, <1>7 DEF Dispatch

-----------------------------------------------------------------------------
(* How often a request is researched, as long as no run outlives its claim *)

\* Nobody else works on the row that p works on, ...
OneHolder == \A i \in Ids : \A p, q \in Processes : Holds(p, i) /\ Holds(q, i) => p = q

\* ... which is still claimed, as p has read it, and counted as far as p believes.
HolderKnows(p) ==
  LET row == queue[job[p].id]
      claimed == row.status = "running" /\ row.age # Stale
  IN  /\ job[p].pc \in {"research", "done", "failed"} => claimed /\ row.attempts < MaxAttempts
      /\ job[p].pc = "exhausted" => claimed /\ row.attempts >= MaxAttempts
      /\ job[p].pc \in {"done", "failed", "exhausted"} =>
           job[p].seen.status = row.status /\ job[p].seen.attempts = row.attempts
      /\ job[p].pc = "fallback" =>
           row.status = "failed" \/ (claimed /\ row.attempts >= MaxAttempts)

\* The attempts of a row say how often the research was started.
RowCounts(i) ==
  LET row == queue[i] IN
  /\ row.status = "pending" => row.attempts < MaxAttempts /\ log[i].runs = row.attempts
  /\ row.status = "running" =>
       log[i].runs = IF row.attempts < MaxAttempts THEN row.attempts + 1 ELSE MaxAttempts
  /\ row.status = "failed" => log[i].runs = MaxAttempts
  /\ row.status = "done" => log[i].runs <= MaxAttempts

CountInv ==
  slow = 0 => /\ OneHolder
              /\ \A p \in Processes : HolderKnows(p)
              /\ \A i \in DOMAIN queue : RowCounts(i)
              /\ \A i \in Ids \ DOMAIN queue : log[i].runs = 0

\* A step that touches a row nobody else works on leaves the rest as it was.
LEMMA CountFrame ==
  ASSUME TypeOK, CountInv, slow = 0, NEW p \in Processes, NEW i, Touches(p, i),
         \A q \in Processes : q # p => ~Holds(q, i),
         RowCounts(i)', HolderKnows(p)'
  PROVE  CountInv'
<1>1. OneHolder'
  <2> SUFFICES ASSUME NEW j \in Ids, NEW q \in Processes, NEW r \in Processes,
                      Holds(q, j)', Holds(r, j)'
               PROVE  q = r
    BY DEF OneHolder
  <2>1. CASE q # p /\ r # p
    BY <2>1 DEF CountInv, OneHolder, Touches, Holds
  <2>2. CASE q = p
    BY <2>2 DEF Touches, Holds
  <2>3. CASE r = p
    BY <2>3 DEF Touches, Holds
  <2> QED  BY <2>1, <2>2, <2>3
<1>2. ASSUME NEW q \in Processes PROVE HolderKnows(q)'
  <2>1. CASE q = p
    BY <2>1
  <2>2. CASE q # p /\ job[q] = Idle
    BY <2>2 DEF HolderKnows, Touches, Idle
  <2>3. CASE q # p /\ job[q] # Idle
    <3>1. job[q].id # i /\ job[q].id \in DOMAIN queue /\ job'[q] = job[q]
      BY <2>3 DEF TypeOK, Holds, Touches
    <3>2. queue'[job'[q].id] = queue[job[q].id]
      BY <3>1 DEF Touches
    <3> QED  BY <3>1, <3>2 DEF HolderKnows, CountInv
  <2> QED  BY <2>1, <2>2, <2>3
<1>3. ASSUME NEW j \in DOMAIN queue' PROVE RowCounts(j)'
  <2>1. CASE j = i
    BY <2>1
  <2>2. CASE j # i
    <3>1. j \in DOMAIN queue /\ j \in Ids
      BY ArgusAssumption DEF Touches, TypeOK, Ids
    <3> QED  BY <2>2, <3>1 DEF Touches, RowCounts, CountInv
  <2> QED  BY <2>1, <2>2
<1>4. \A j \in Ids \ DOMAIN queue' : log'[j].runs = 0
  BY DEF Touches, CountInv
<1> QED  BY <1>1, <1>2, <1>3, <1>4 DEF CountInv

\* What a process may be doing.
LEMMA JobKinds ==
  ASSUME TypeOK, NEW p \in Processes, job[p] # Idle
  PROVE  job[p].pc \in {"research", "done", "failed", "exhausted", "fallback"}
  BY DEF TypeOK, Job

LEMMA CountInit == Init => CountInv
<1> SUFFICES ASSUME Init PROVE CountInv
  OBVIOUS
<1>1. \A p \in Processes : job[p] = Idle
  BY DEF Init
<1>2. DOMAIN queue = {}
  BY DEF Init
<1>3. \A i \in Ids : log[i].runs = 0
  BY DEF Init, NewLog
<1> QED  BY <1>1, <1>2, <1>3 DEF CountInv, OneHolder, HolderKnows, Holds, Idle

LEMMA CountNext ==
  ASSUME TypeOK, TypeOK', CountInv, [Next]_vars
  PROVE  CountInv'
<1> SUFFICES ASSUME slow' = 0 PROVE CountInv'
  BY DEF CountInv
<1>0. MaxAttempts \in Nat /\ MaxAttempts > 0
  BY ArgusAssumption
<1>1. CASE Dispatch
  <2>1. slow = 0 /\ job' = job /\ log' = log
    BY <1>1, DispatchStep
  <2>2. PICK n : /\ DOMAIN queue' = DOMAIN queue \cup {n} /\ n \in Ids \ DOMAIN queue
                 /\ queue'[n] = NewRow /\ \A i \in DOMAIN queue : queue'[i] = queue[i]
    BY <1>1, DispatchStep
  <2>3. OneHolder'
    BY <2>1 DEF CountInv, OneHolder, Holds
  <2>4. ASSUME NEW p \in Processes PROVE HolderKnows(p)'
    <3>1. CASE job[p] = Idle
      BY <2>1, <3>1 DEF HolderKnows, Idle
    <3>2. CASE job[p] # Idle
      <4>1. job[p].id \in DOMAIN queue
        BY <3>2 DEF TypeOK
      <4> QED  BY <2>1, <2>2, <4>1 DEF HolderKnows, CountInv
    <3> QED  BY <3>1, <3>2
  <2>5. RowCounts(n)'
    BY <1>0, <2>1, <2>2 DEF RowCounts, NewRow, CountInv
  <2>6. \A i \in DOMAIN queue : RowCounts(i)'
    BY <2>1, <2>2 DEF RowCounts, CountInv
  <2>7. \A j \in Ids \ DOMAIN queue' : log'[j].runs = 0
    BY <2>1, <2>2 DEF CountInv
  <2> QED  BY <2>2, <2>3, <2>4, <2>5, <2>6, <2>7 DEF CountInv
<1>2. ASSUME NEW p \in Processes, Claim(p) PROVE CountInv'
  <2>1. job[p] = Idle /\ slow = 0
    BY <1>2, ClaimStep
  <2>2. PICK i \in DOMAIN queue :
          /\ Touches(p, i)
          /\ queue[i].status = "pending" \/ (queue[i].status = "running" /\ queue[i].age = Stale)
          /\ queue'[i] = Claimed(queue[i])
          /\ \/ /\ queue'[i].attempts < MaxAttempts
                /\ job'[p] = [pc |-> "research", id |-> i]
                /\ log'[i] = [log[i] EXCEPT !.runs = @ + 1]
             \/ /\ queue'[i].attempts >= MaxAttempts
                /\ job'[p] = [pc |-> "exhausted", id |-> i, seen |-> queue'[i]]
                /\ log' = log
    BY <1>2, ClaimStep
  <2>3. ASSUME NEW q \in Processes, Holds(q, i) PROVE FALSE
    <3>1. job[q].pc \in {"research", "done", "failed", "exhausted", "fallback"}
      BY <2>3, JobKinds DEF Holds
    <3>2. HolderKnows(q)
      BY <2>1 DEF CountInv
    <3> QED  BY <2>2, <2>3, <3>1, <3>2 DEF HolderKnows, Holds
  <2>4. /\ queue'[i].status = "running" /\ queue'[i].age # Stale
        /\ queue'[i].attempts = IF queue[i].status = "running"
                               THEN queue[i].attempts + 1 ELSE queue[i].attempts
    BY <2>2 DEF Claimed, Fresh, Stale
  <2>5. HolderKnows(p)'
    BY <2>2, <2>4 DEF HolderKnows
  <2>6. RowCounts(i) /\ queue[i].attempts \in Nat /\ log[i].runs \in Nat
    BY <2>1, <2>2 DEF CountInv, Touches, Row, Log
  <2>7. RowCounts(i)'
    <3>1. CASE /\ queue'[i].attempts < MaxAttempts
               /\ log'[i] = [log[i] EXCEPT !.runs = @ + 1]
      <4>1. log'[i].runs = log[i].runs + 1
        BY <2>2, <3>1 DEF Touches, Log
      <4> QED  BY <1>0, <2>2, <2>4, <2>6, <3>1, <4>1 DEF RowCounts
    <3>2. CASE queue'[i].attempts >= MaxAttempts /\ log' = log
      BY <1>0, <2>2, <2>4, <2>6, <3>2 DEF RowCounts
    <3> QED  BY <2>2, <3>1, <3>2
  <2> QED  BY <2>1, <2>2, <2>3, <2>5, <2>7, CountFrame
\* Who holds a row alone.
<1>3. ASSUME slow = 0, NEW p \in Processes, job[p] # Idle
      PROVE  /\ job[p].id \in DOMAIN queue /\ RowCounts(job[p].id) /\ HolderKnows(p)
             /\ \A q \in Processes : q # p => ~Holds(q, job[p].id)
  <2>1. job[p].id \in Ids /\ job[p].id \in DOMAIN queue
    BY <1>3, BusyType, IdleType
  <2> QED  BY <1>3, <2>1 DEF CountInv, OneHolder, Holds
<1>4. ASSUME NEW p \in Processes, Post(p) \/ PostNothing(p) \/ Fail(p) \/ LoseAnswer(p)
      PROVE  CountInv'
  <2>i. PICK i : i = job[p].id
    OBVIOUS
  <2>1. PICK pc \in {"done", "failed"} : Ends(p, pc)
    BY <1>4 DEF Post, PostNothing, Fail, LoseAnswer
  <2>2. \A j \in Ids : j # job[p].id => log'[j] = log[j]
    BY <1>4 DEF Post, PostNothing, Fail, LoseAnswer, TypeOK
  <2>3. /\ Touches(p, job[p].id) /\ job[p] # Idle /\ job[p].pc = "research" /\ queue' = queue
        /\ job'[p] = [pc |-> pc, id |-> job[p].id, seen |-> queue[job[p].id]]
    BY <2>1, <2>2, EndsStep
  <2>4. slow = 0
    BY <1>4 DEF Post, PostNothing, Fail, LoseAnswer
  <2>5. /\ RowCounts(job[p].id) /\ HolderKnows(p)
        /\ \A q \in Processes : q # p => ~Holds(q, job[p].id)
    BY <1>3, <2>3, <2>4
  <2>6. HolderKnows(p)'
    BY <2>3, <2>5 DEF HolderKnows
  <2>7. log'[job[p].id].runs = log[job[p].id].runs
    BY <1>4, <2>3, SMTT(30) DEF Post, PostNothing, Fail, LoseAnswer, TypeOK, Touches, Log
  <2>8. RowCounts(i)'
    BY <2>i, <2>3, <2>5, <2>7 DEF RowCounts
  <2> QED  BY <2>i, <2>3, <2>4, <2>5, <2>6, <2>8, CountFrame
<1>5. ASSUME NEW p \in Processes, MarkDone(p) PROVE CountInv'
  <2>i. PICK i : i = job[p].id
    OBVIOUS
  <2>1. /\ job[p].pc = "done" /\ UNCHANGED log /\ Stop(p)
        /\ Write(p, [job[p].seen EXCEPT !.status = "done"])
    BY <1>5 DEF MarkDone, At
  <2>2. [job[p].seen EXCEPT !.status = "done"] \in Row
    BY <2>1, SeenType, RowTypes DEF Statuses
  <2>3. /\ Touches(p, job[p].id) /\ job[p] # Idle /\ slow = 0 /\ job'[p] = Idle
        /\ queue'[job[p].id] = Flush(queue[job[p].id], job[p].seen,
                                    [job[p].seen EXCEPT !.status = "done"])
        /\ job[p].seen \in Row
    BY <2>1, <2>2, CloseStep
  <2>4. /\ RowCounts(job[p].id) /\ HolderKnows(p)
        /\ \A q \in Processes : q # p => ~Holds(q, job[p].id)
    BY <1>3, <2>3
  <2>5. HolderKnows(p)'
    BY <2>3 DEF HolderKnows, Idle
  <2>6. queue'[job[p].id].status = "done"
    BY <2>1, <2>3, <2>4 DEF Flush, Row, HolderKnows, Touches
  <2>7. RowCounts(i)'
    <3>1. log[job[p].id].runs <= MaxAttempts
      BY <1>0, <2>1, <2>3, <2>4 DEF HolderKnows, RowCounts, Touches, Row
    <3> QED  BY <2>i, <2>1, <2>6, <3>1 DEF RowCounts
  <2> QED  BY <2>i, <2>3, <2>4, <2>5, <2>7, CountFrame
<1>6. ASSUME NEW p \in Processes, MarkFailed(p) PROVE CountInv'
  <2>i. PICK i : i = job[p].id
    OBVIOUS
  <2> DEFINE new == Failed(job[p].seen)
  <2>1. /\ job[p].pc = "failed" /\ UNCHANGED log /\ Write(p, new)
        /\ IF new.status = "failed" THEN Begin(p, "fallback", job[p].id) ELSE Stop(p)
    BY <1>6 DEF MarkFailed, At
  <2>2. new \in Row
    BY <2>1, SeenType, RowTypes
  <2>3. /\ Touches(p, job[p].id) /\ job[p] # Idle /\ slow = 0
        /\ queue'[job[p].id] = Flush(queue[job[p].id], job[p].seen, new)
        /\ job[p].seen \in Row
        /\ IF new.status = "failed" THEN job'[p] = [pc |-> "fallback", id |-> job[p].id]
                                   ELSE job'[p] = Idle
    BY <2>1, <2>2, CloseStep
  <2>4. /\ RowCounts(job[p].id) /\ HolderKnows(p)
        /\ \A q \in Processes : q # p => ~Holds(q, job[p].id)
    BY <1>3, <2>3
  <2>5. /\ new.attempts = queue[job[p].id].attempts + 1
        /\ queue[job[p].id].attempts < MaxAttempts
        /\ job[p].seen.status = "running" /\ queue[job[p].id].status = "running"
        /\ job[p].seen.attempts = queue[job[p].id].attempts
        /\ new.status = IF queue[job[p].id].attempts + 1 >= MaxAttempts THEN "failed" ELSE "pending"
    BY <2>1, <2>3, <2>4 DEF HolderKnows, Failed, Row
  <2>6. queue[job[p].id].attempts \in Nat /\ queue[job[p].id] \in Row
    BY <2>3 DEF Touches, Row
  <2> HIDE DEF new
  <2>7. /\ queue'[job[p].id].status = new.status
        /\ queue'[job[p].id].attempts = queue[job[p].id].attempts + 1
    BY <2>3, <2>5, <2>6 DEF Flush, Row
  <2>8. RowCounts(i)'
    BY <2>i, <1>0, <2>1, <2>4, <2>5, <2>6, <2>7 DEF RowCounts
  <2>9. HolderKnows(p)'
    BY <2>3, <2>7 DEF HolderKnows, Idle
  <2> QED  BY <2>i, <2>3, <2>4, <2>8, <2>9, CountFrame
<1>7. ASSUME NEW p \in Processes, FinalizeExhausted(p) PROVE CountInv'
  <2>i. PICK i : i = job[p].id
    OBVIOUS
  <2>1. /\ job[p].pc = "exhausted" /\ UNCHANGED log /\ Begin(p, "fallback", job[p].id)
        /\ Write(p, [job[p].seen EXCEPT !.status = "failed"])
    BY <1>7 DEF FinalizeExhausted, At
  <2>2. [job[p].seen EXCEPT !.status = "failed"] \in Row
    BY <2>1, SeenType, RowTypes DEF Statuses
  <2>3. /\ Touches(p, job[p].id) /\ job[p] # Idle /\ slow = 0
        /\ job'[p] = [pc |-> "fallback", id |-> job[p].id]
        /\ queue'[job[p].id] = Flush(queue[job[p].id], job[p].seen,
                                    [job[p].seen EXCEPT !.status = "failed"])
        /\ job[p].seen \in Row
    BY <2>1, <2>2, CloseStep
  <2>4. /\ RowCounts(job[p].id) /\ HolderKnows(p)
        /\ \A q \in Processes : q # p => ~Holds(q, job[p].id)
    BY <1>3, <2>3
  <2>6. queue'[job[p].id].status = "failed"
    BY <2>1, <2>3, <2>4 DEF Flush, Row, HolderKnows, Touches
  <2>5. HolderKnows(p)'
    BY <2>3, <2>6 DEF HolderKnows
  <2>7. RowCounts(i)'
    <3>1. log[job[p].id].runs = MaxAttempts
      BY <1>0, <2>1, <2>3, <2>4 DEF HolderKnows, RowCounts, Touches, Row
    <3> QED  BY <2>i, <2>1, <2>6, <3>1 DEF RowCounts
  <2> QED  BY <2>i, <2>3, <2>4, <2>5, <2>7, CountFrame
<1>8. ASSUME NEW p \in Processes, CloseFails(p) \/ GiveUp(p) \/ GiveUpFails(p) \/ Crash(p)
      PROVE  CountInv'
  <2>i. PICK i : i = job[p].id
    OBVIOUS
  <2>1. /\ slow = 0 /\ queue' = queue /\ job[p] # Idle
        /\ \A j \in Ids : j # job[p].id => log'[j] = log[j]
    BY <1>8, IdleType DEF CloseFails, GiveUp, GiveUpFails, Crash, At, TypeOK
  <2>2. Stop(p) \/ (job[p].pc = "exhausted" /\ Begin(p, "fallback", job[p].id))
    BY <1>8 DEF CloseFails, GiveUp, GiveUpFails, Crash, At
  <2>3. /\ Touches(p, job[p].id)
        /\ \/ job'[p] = Idle
           \/ job[p].pc = "exhausted" /\ job'[p] = [pc |-> "fallback", id |-> job[p].id]
    BY <2>1, <2>2, DropStep
  <2>4. /\ RowCounts(job[p].id) /\ HolderKnows(p)
        /\ \A q \in Processes : q # p => ~Holds(q, job[p].id)
    BY <1>3, <2>1
  <2>5. log'[job[p].id].runs = log[job[p].id].runs
    BY <1>8, <2>3, ZenonT(40) DEF CloseFails, GiveUp, GiveUpFails, Crash, TypeOK, Touches, Log
  <2>6. RowCounts(i)'
    BY <2>i, <2>1, <2>4, <2>5 DEF RowCounts
  <2>7. HolderKnows(p)'
    BY <2>1, <2>3, <2>4 DEF HolderKnows, Idle
  <2> QED  BY <2>i, <2>1, <2>3, <2>4, <2>6, <2>7, CountFrame
<1>9. ASSUME NEW i \in DOMAIN queue, Elapse(i) PROVE CountInv'
  <2>1. /\ queue[i] \in Row /\ DOMAIN queue' = DOMAIN queue
        /\ queue'[i] = [queue[i] EXCEPT !.age = @ + 1]
        /\ queue'[i].age = queue[i].age + 1 /\ queue[i].age < Stale
        /\ \A j \in DOMAIN queue : j # i => queue'[j] = queue[j]
        /\ job' = job /\ log' = log
    BY <1>9, ElapseStep
  <2>2. /\ slow = 0
        /\ queue[i].age = BackoffOver => \A p \in Processes : ~Holds(p, i)
    BY <1>9 DEF Elapse, TypeOK
  <2>3. queue'[i].status = queue[i].status /\ queue'[i].attempts = queue[i].attempts
    BY <2>1 DEF Row
  <2>4. queue'[i].age = Stale => \A p \in Processes : ~Holds(p, i)
    BY <2>1, <2>2 DEF Row, Fresh, Stale, BackoffOver
  <2>5. ASSUME NEW p \in Processes PROVE HolderKnows(p)'
    <3>1. CASE job[p] = Idle
      BY <2>1, <3>1 DEF HolderKnows, Idle
    <3>2. CASE job[p] # Idle /\ job[p].id # i
      <4>1. job[p].id \in DOMAIN queue
        BY <3>2 DEF TypeOK
      <4> QED  BY <2>1, <2>2, <3>2, <4>1 DEF HolderKnows, CountInv
    <3>3. CASE job[p] # Idle /\ job[p].id = i
      <4>1. queue'[i].age # Stale /\ HolderKnows(p)
        BY <2>2, <2>4, <3>3 DEF Holds, CountInv
      <4> QED  BY <2>1, <2>3, <3>3, <4>1 DEF HolderKnows
    <3> QED  BY <3>1, <3>2, <3>3
  <2>6. ASSUME NEW j \in DOMAIN queue PROVE RowCounts(j)'
    <3>1. slow = 0 /\ RowCounts(j) /\ log'[j] = log[j]
      BY <2>1, <2>2 DEF CountInv
    <3>2. queue'[j].status = queue[j].status /\ queue'[j].attempts = queue[j].attempts
      BY <2>1, <2>3
    <3> QED  BY <3>1, <3>2 DEF RowCounts
  <2> QED  BY <2>1, <2>2, <2>5, <2>6 DEF CountInv, OneHolder, Holds
<1>10. CASE UNCHANGED vars
  BY <1>10 DEF vars, CountInv, OneHolder, Holds, HolderKnows, RowCounts
<1> QED  BY <1>1, <1>2, <1>4, <1>5, <1>6, <1>7, <1>8, <1>9, <1>10 DEF Next, Work, Trouble

\* CountInv is an invariant of the queue.
LEMMA CountInvariant == Spec => []CountInv
<1>1. TypeOK /\ TypeOK' /\ CountInv /\ [Next]_vars => CountInv'
  BY CountNext
<1> QED  BY CountInit, TypeCorrect, <1>1, PTL DEF Spec

\* run_claim_tick and _finalize_exhausted_claim: however often a process dies, a transaction
\* fails or the research raises, a request is researched at most MaxAttempts times, as long
\* as no run outlives its claim.
THEOREM ResearchIsCapped == Spec => []RunsAreCapped
<1>1. TypeOK /\ CountInv => RunsAreCapped
  <2> SUFFICES ASSUME TypeOK, CountInv, slow = 0, NEW i \in Ids PROVE log[i].runs <= MaxAttempts
    BY DEF RunsAreCapped
  <2>0. MaxAttempts \in Nat
    BY ArgusAssumption
  <2>1. CASE i \in DOMAIN queue
    <3>1. queue[i] \in Row /\ RowCounts(i)
      BY <2>1 DEF TypeOK, CountInv
    <3> QED  BY <2>0, <3>1 DEF RowCounts, Row, Statuses
  <2>2. CASE i \notin DOMAIN queue
    BY <2>0, <2>2 DEF CountInv
  <2> QED  BY <2>1, <2>2
<1> QED  BY <1>1, TypeCorrect, CountInvariant, PTL

\* _mark_request_failed: a request is given up only after it was tried MaxAttempts times: no
\* failure is counted twice, by the failure and by the reclaim.
THEOREM GivenUpLate == Spec => []GivenUpAfterAllRuns
<1>1. TypeOK /\ CountInv => GivenUpAfterAllRuns
  <2> SUFFICES ASSUME TypeOK, CountInv, slow = 0, NEW i \in DOMAIN queue,
                      queue[i].status = "failed"
               PROVE  log[i].runs >= MaxAttempts
    BY DEF GivenUpAfterAllRuns
  <2> QED  BY ArgusAssumption DEF CountInv, RowCounts
<1> QED  BY <1>1, TypeCorrect, CountInvariant, PTL

-----------------------------------------------------------------------------
(* How often the findings can be shown *)

\* The processes that may still show findings of request i.
Working(i) == {p \in Processes : job[p].pc \in {"research", "failed"} /\ job[p].id = i}

\* Somebody who took the row for claimed will close it or hand it back.
Attended(i) ==
  \E p \in Processes :
    /\ Holds(p, i)
    /\ \/ job[p].pc = "research"
       \/ job[p].pc \in {"done", "failed", "exhausted"} /\ job[p].seen.status = "running"

\* 1 while the row is still to be claimed: not inserted yet, pending, or left running.
Unclaimed(i) ==
  IF \/ i \notin DOMAIN queue
     \/ queue[i].status = "pending"
     \/ queue[i].status = "running" /\ (queue[i].age = Stale \/ ~Attended(i))
  THEN 1 ELSE 0

\* What was shown and what may still be shown never exceeds one and the faults and slow runs.
TokenInv ==
  \A i \in Ids : log[i].findings + Cardinality(Working(i)) + Unclaimed(i) <= 1 + faults + slow

\* The three counts are numbers.
LEMMA TokenTypes ==
  ASSUME TypeOK, NEW i \in Ids
  PROVE  /\ IsFiniteSet(Working(i)) /\ Cardinality(Working(i)) \in Nat
         /\ Unclaimed(i) \in 0..1
         /\ log[i].findings \in Nat /\ faults \in Nat /\ slow \in Nat
<1>1. Working(i) \subseteq Processes
  BY DEF Working
<1>2. IsFiniteSet(Working(i)) /\ Cardinality(Working(i)) \in Nat
  BY <1>1, FS_Subset, FS_CardinalityType, ArgusAssumption
<1>3. Unclaimed(i) \in 0..1
  BY DEF Unclaimed
<1> QED  BY <1>2, <1>3, ArgusAssumption DEF TypeOK, Log

\* Only p comes to the workers of a request or leaves them.
LEMMA WorkingStep ==
  ASSUME TypeOK, NEW p \in Processes, NEW i, Touches(p, i), NEW k \in Ids
  PROVE  Cardinality(Working(k))' =
           Cardinality(Working(k)) + (IF p \in Working(k)' THEN 1 ELSE 0)
                                   - (IF p \in Working(k) THEN 1 ELSE 0)
<1>1. IsFiniteSet(Working(k)) /\ Cardinality(Working(k)) \in Nat
  BY TokenTypes
<1>2. \A q \in Processes : q # p => (q \in Working(k)' <=> q \in Working(k))
  BY DEF Working, Touches
<1>3. Working(k) \subseteq Processes /\ Working(k)' \subseteq Processes
  BY DEF Working
<1>4. CASE p \in Working(k)'
  <2>1. Working(k)' = Working(k) \cup {p}
    BY <1>2, <1>3, <1>4
  <2>2. Cardinality(Working(k) \cup {p}) =
          IF p \in Working(k) THEN Cardinality(Working(k)) ELSE Cardinality(Working(k)) + 1
    BY <1>1, FS_AddElement
  <2> QED  BY <1>1, <1>4, <2>1, <2>2
<1>5. CASE p \notin Working(k)'
  <2>1. Working(k)' = Working(k) \ {p}
    BY <1>2, <1>3, <1>5
  <2>2. Cardinality(Working(k) \ {p}) =
          IF p \in Working(k) THEN Cardinality(Working(k)) - 1 ELSE Cardinality(Working(k))
    BY <1>1, FS_RemoveElement
  <2> QED  BY <1>1, <1>5, <2>1, <2>2
<1> QED  BY <1>4, <1>5

\* A step that touches the row of i concerns no other request.
LEMMA TokenFrame ==
  ASSUME TypeOK, TypeOK', TokenInv, NEW p \in Processes, NEW i, Touches(p, i),
         job[p] = Idle \/ job[p].id = i,
         faults' >= faults, slow' >= slow,
         log'[i].findings + Cardinality(Working(i))' + Unclaimed(i)' <= 1 + faults' + slow'
  PROVE  TokenInv'
<1> SUFFICES ASSUME NEW k \in Ids, k # i
             PROVE  log'[k].findings + Cardinality(Working(k))' + Unclaimed(k)' <= 1 + faults' + slow'
  BY DEF TokenInv
<1>1. p \notin Working(k) /\ p \notin Working(k)'
  BY DEF Working, Touches, Idle
<1>2. Cardinality(Working(k))' = Cardinality(Working(k))
  BY <1>1, WorkingStep, TokenTypes
<1>3. Attended(k)' <=> Attended(k)
  BY DEF Attended, Holds, Touches
<1>4. Unclaimed(k)' = Unclaimed(k)
  BY <1>3 DEF Unclaimed, Touches
<1>5. log'[k] = log[k]
  BY DEF Touches
<1>6. log[k].findings + Cardinality(Working(k)) + Unclaimed(k) <= 1 + faults + slow
  BY DEF TokenInv
<1>7. faults \in Nat /\ slow \in Nat /\ faults' \in Nat /\ slow' \in Nat
      /\ log[k].findings \in Nat /\ Unclaimed(k) \in Nat /\ Cardinality(Working(k)) \in Nat
  BY TokenTypes, ArgusAssumption, SMTT(30) DEF TypeOK
<1> QED  BY <1>2, <1>4, <1>5, <1>6, <1>7

\* While the row stays as it is, or is closed, it does not come free unless p leaves it.
LEMMA StillAttended ==
  ASSUME NEW p \in Processes, NEW i, Touches(p, i),
         queue'[i].status = queue[i].status, queue'[i].age = queue[i].age,
         \/ /\ job[p].pc # "research"
            /\ job[p].pc \in {"done", "failed", "exhausted"} => job[p].seen.status # "running"
         \/ /\ job'[p] # Idle /\ job'[p].pc \in {"done", "failed", "exhausted"}
            /\ job'[p].id = i /\ job'[p].seen.status = queue[i].status
  PROVE  Unclaimed(i)' <= Unclaimed(i)
<1>1. ASSUME queue[i].status = "running", Attended(i) PROVE Attended(i)'
  <2>1. PICK q \in Processes :
          /\ Holds(q, i)
          /\ \/ job[q].pc = "research"
             \/ job[q].pc \in {"done", "failed", "exhausted"} /\ job[q].seen.status = "running"
    BY <1>1 DEF Attended
  <2>2. CASE q # p
    BY <2>1, <2>2 DEF Attended, Holds, Touches
  <2>3. CASE q = p
    BY <1>1, <2>1, <2>3 DEF Attended, Holds
  <2> QED  BY <2>2, <2>3
<1> QED  BY <1>1 DEF Unclaimed, Touches

LEMMA TokenInit == Init => TokenInv
<1> SUFFICES ASSUME Init, NEW i \in Ids
             PROVE  log[i].findings + Cardinality(Working(i)) + Unclaimed(i) <= 1 + faults + slow
  BY DEF TokenInv
<1>1. Working(i) = {}
  BY DEF Init, Working, Idle
<1>2. log[i].findings = 0 /\ faults = 0 /\ slow = 0 /\ Unclaimed(i) \in 0..1
  BY DEF Init, NewLog, Unclaimed
<1> QED  BY <1>1, <1>2, FS_EmptySet

LEMMA TokenNext ==
  ASSUME TypeOK, TypeOK', TokenInv, [Next]_vars
  PROVE  TokenInv'
\* What is known of a request before and after the step.
<1>0. ASSUME NEW i \in Ids
      PROVE  /\ log[i].findings \in Nat /\ Cardinality(Working(i)) \in Nat
             /\ Unclaimed(i) \in 0..1 /\ Unclaimed(i)' \in 0..1
             /\ faults \in Nat /\ slow \in Nat
             /\ log[i].findings + Cardinality(Working(i)) + Unclaimed(i) <= 1 + faults + slow
  <2>1. Unclaimed(i)' \in 0..1
    BY DEF Unclaimed
  <2> QED  BY <2>1, TokenTypes DEF TokenInv
<1>1. CASE Dispatch
  <2>1. PICK n : /\ DOMAIN queue' = DOMAIN queue \cup {n} /\ n \in Ids \ DOMAIN queue
                 /\ \A i \in DOMAIN queue : queue'[i] = queue[i]
                 /\ job' = job /\ log' = log /\ faults' = faults /\ slow' = slow
    BY <1>1, DispatchStep
  <2> SUFFICES ASSUME NEW i \in Ids
               PROVE  log'[i].findings + Cardinality(Working(i))' + Unclaimed(i)' <= 1 + faults' + slow'
    BY DEF TokenInv
  <2>2. Working(i)' = Working(i) /\ (Attended(i)' <=> Attended(i))
    BY <2>1 DEF Working, Attended, Holds
  <2>3. Unclaimed(i)' <= Unclaimed(i)
    BY <2>1, <2>2 DEF Unclaimed
  <2> QED  BY <1>0, <2>1, <2>2, <2>3
<1>2. ASSUME NEW p \in Processes, Claim(p) PROVE TokenInv'
  <2>1. job[p] = Idle /\ faults' = faults /\ slow' = slow
    BY <1>2, ClaimStep
  <2>2. PICK i \in DOMAIN queue :
          /\ Touches(p, i)
          /\ queue[i].status = "pending" \/ (queue[i].status = "running" /\ queue[i].age = Stale)
          /\ queue'[i] = Claimed(queue[i])
          /\ \/ /\ job'[p] = [pc |-> "research", id |-> i]
                /\ log'[i] = [log[i] EXCEPT !.runs = @ + 1]
             \/ /\ job'[p] = [pc |-> "exhausted", id |-> i, seen |-> queue'[i]]
                /\ log' = log
    BY <1>2, ClaimStep
  <2>3. i \in Ids /\ log'[i].findings = log[i].findings
    BY <2>2 DEF Touches, Log
  <2>4. p \notin Working(i) /\ Unclaimed(i) = 1
    BY <2>1, <2>2 DEF Working, Unclaimed, Idle
  <2>5. Cardinality(Working(i))' + Unclaimed(i)' <= Cardinality(Working(i)) + Unclaimed(i)
    <3>1. CASE job'[p] = [pc |-> "research", id |-> i]
      <4>1. Attended(i)'
        BY <3>1 DEF Attended, Holds, Idle
      <4>2. Unclaimed(i)' = 0
        BY <2>2, <4>1 DEF Unclaimed, Claimed, Fresh, Stale, Touches
      <4> QED  BY <1>0, <2>2, <2>3, <2>4, <4>2, WorkingStep
    <3>2. CASE job'[p] = [pc |-> "exhausted", id |-> i, seen |-> queue'[i]]
      <4>1. p \notin Working(i)'
        BY <3>2 DEF Working
      <4> QED  BY <1>0, <2>2, <2>3, <2>4, <4>1, WorkingStep
    <3> QED  BY <2>2, <3>1, <3>2
  <2>6. Cardinality(Working(i))' \in Int
    BY <1>0, <2>2, <2>3, WorkingStep
  <2>7. log'[i].findings + Cardinality(Working(i))' + Unclaimed(i)' <= 1 + faults' + slow'
    BY <1>0, <2>1, <2>3, <2>5, <2>6
  <2>8. faults' >= faults /\ slow' >= slow
    BY <1>0, <2>1, <2>3
  <2> QED  BY <2>1, <2>2, <2>7, <2>8, TokenFrame
\* What the end of the research means for the workers of its request.
<1>3. ASSUME NEW p \in Processes, NEW pc \in {"done", "failed"}, Ends(p, pc),
             \A j \in Ids : j # job[p].id => log'[j] = log[j], NEW i, i = job[p].id
      PROVE  /\ i \in Ids /\ Touches(p, i) /\ job[p] # Idle
             /\ Cardinality(Working(i))' = Cardinality(Working(i)) - (IF pc = "done" THEN 1 ELSE 0)
             /\ Unclaimed(i)' <= Unclaimed(i)
  <2>1. /\ Touches(p, i) /\ job[p] # Idle /\ job[p].pc = "research" /\ queue' = queue
        /\ job'[p] = [pc |-> pc, id |-> i, seen |-> queue[i]]
    BY <1>3, EndsStep
  <2>2. p \in Working(i) /\ (p \in Working(i)' <=> pc = "failed")
    BY <1>3, <2>1 DEF Working
  <2>3. i \in Ids
    BY <2>1 DEF Touches
  <2>4. Cardinality(Working(i))' = Cardinality(Working(i)) - (IF pc = "done" THEN 1 ELSE 0)
    BY <1>0, <2>1, <2>2, <2>3, WorkingStep
  <2>5. Unclaimed(i)' <= Unclaimed(i)
    BY <2>1, StillAttended DEF Idle
  <2> QED  BY <2>1, <2>3, <2>4, <2>5
<1>4. ASSUME NEW p \in Processes, Post(p) \/ PostNothing(p) PROVE TokenInv'
  <2>1. PICK i : i = job[p].id
    OBVIOUS
  <2>2. /\ Ends(p, "done") /\ faults' = faults /\ slow' = slow
        /\ \A j \in Ids : j # job[p].id => log'[j] = log[j]
    BY <1>4 DEF Post, PostNothing, TypeOK
  <2>3. /\ i \in Ids /\ Touches(p, i) /\ job[p] # Idle
        /\ Cardinality(Working(i))' = Cardinality(Working(i)) - 1
        /\ Unclaimed(i)' <= Unclaimed(i)
    BY <1>3, <2>1, <2>2
  <2>4. log'[i].findings \in {log[i].findings, log[i].findings + 1}
    BY <1>4, <2>1, <2>3, SMTT(30) DEF Post, PostNothing, TypeOK, Touches, Log
  <2>5. log'[i].findings + Cardinality(Working(i))' + Unclaimed(i)' <= 1 + faults' + slow'
    BY <1>0, <2>2, <2>3, <2>4
  <2>6. faults' >= faults /\ slow' >= slow
    BY <1>0, <2>2, <2>3
  <2> QED  BY <2>1, <2>3, <2>5, <2>6, TokenFrame
<1>5. ASSUME NEW p \in Processes, Fail(p) \/ LoseAnswer(p) PROVE TokenInv'
  <2>1. PICK i : i = job[p].id
    OBVIOUS
  <2>2. /\ Ends(p, "failed") /\ slow' = slow
        /\ \A j \in Ids : j # job[p].id => log'[j] = log[j]
    BY <1>5 DEF Fail, LoseAnswer, TypeOK
  <2>3. /\ i \in Ids /\ Touches(p, i) /\ job[p] # Idle
        /\ Cardinality(Working(i))' = Cardinality(Working(i))
        /\ Unclaimed(i)' <= Unclaimed(i)
    <3>1. /\ i \in Ids /\ Touches(p, i) /\ job[p] # Idle
          /\ Cardinality(Working(i))' = Cardinality(Working(i)) - 0
          /\ Unclaimed(i)' <= Unclaimed(i)
      BY <1>3, <2>1, <2>2
    <3> QED  BY <1>0, <3>1
  <2>4. \/ log'[i].findings = log[i].findings /\ faults' = faults
        \/ log'[i].findings = log[i].findings + 1 /\ faults' = faults + 1
    BY <1>5, <2>1, <2>3 DEF Fail, LoseAnswer, Fault, TypeOK, Touches, Log
  <2>5. log'[i].findings + Cardinality(Working(i))' + Unclaimed(i)' <= 1 + faults' + slow'
    BY <1>0, <2>2, <2>3, <2>4
  <2>6. faults' >= faults /\ slow' >= slow
    BY <1>0, <2>2, <2>3, <2>4
  <2> QED  BY <2>1, <2>3, <2>5, <2>6, TokenFrame
\* MarkDone and FinalizeExhausted close the row, or leave it as it is.
<1>6. ASSUME NEW p \in Processes, NEW s \in {"done", "failed"},
             job[p].pc \in {"done", "exhausted"}, UNCHANGED log,
             Write(p, [job[p].seen EXCEPT !.status = s]),
             Stop(p) \/ Begin(p, "fallback", job[p].id)
      PROVE  TokenInv'
  <2>1. PICK i : i = job[p].id
    OBVIOUS
  <2> DEFINE new == [job[p].seen EXCEPT !.status = s]
  <2>2. job[p].pc \in {"done", "failed", "exhausted"}
    BY <1>6
  <2>3. job[p].seen \in Row /\ new \in Row
    BY <2>2, SeenType, RowTypes DEF Statuses
  <2>4. /\ Touches(p, i) /\ job[p] # Idle /\ faults' = faults /\ slow' = slow
        /\ queue'[i] = Flush(queue[i], job[p].seen, new)
        /\ job'[p] = Idle \/ job'[p] = [pc |-> "fallback", id |-> i]
    BY <1>6, <2>1, <2>2, <2>3, CloseStep
  <2>5. i \in Ids /\ queue[i] \in Row
    BY <2>4 DEF Touches
  <2>6. p \notin Working(i) /\ p \notin Working(i)'
    BY <1>6, <2>4 DEF Working, Idle
  <2>7. Cardinality(Working(i))' = Cardinality(Working(i))
    BY <1>0, <2>4, <2>5, <2>6, WorkingStep
  <2>8. Unclaimed(i)' <= Unclaimed(i)
    <3>1. CASE job[p].seen.status # s
      <4>1. queue'[i].status = s
        BY <2>3, <2>4, <2>5, <3>1 DEF Flush, Row
      <4>2. Unclaimed(i)' = 0
        BY <2>4, <4>1 DEF Unclaimed, Touches
      <4> QED  BY <1>0, <2>5, <4>2
    <3>2. CASE job[p].seen.status = s
      <4>1. queue'[i].status = queue[i].status /\ queue'[i].age = queue[i].age
        BY <2>3, <2>4, <2>5, <3>2 DEF Flush, Row
      <4> QED  BY <1>6, <2>4, <3>2, <4>1, StillAttended
    <3> QED  BY <3>1, <3>2
  <2>9. log'[i].findings + Cardinality(Working(i))' + Unclaimed(i)' <= 1 + faults' + slow'
    BY <1>0, <1>6, <2>4, <2>5, <2>7, <2>8
  <2>10. faults' >= faults /\ slow' >= slow
    BY <1>0, <2>4, <2>5
  <2> QED  BY <2>1, <2>4, <2>9, <2>10, TokenFrame
<1>7. ASSUME NEW p \in Processes, MarkFailed(p) PROVE TokenInv'
  <2>1. PICK i : i = job[p].id
    OBVIOUS
  <2> DEFINE new == Failed(job[p].seen)
  <2>2. /\ job[p].pc = "failed" /\ UNCHANGED log /\ Write(p, new)
        /\ Stop(p) \/ Begin(p, "fallback", job[p].id)
    BY <1>7 DEF MarkFailed, At
  <2>3. new \in Row
    BY <2>2, SeenType, RowTypes
  <2>4. /\ Touches(p, i) /\ job[p] # Idle /\ faults' = faults /\ slow' = slow
        /\ job'[p] = Idle \/ job'[p] = [pc |-> "fallback", id |-> i]
    BY <2>1, <2>2, <2>3, CloseStep
  <2>5. i \in Ids
    BY <2>4 DEF Touches
  <2>6. p \in Working(i) /\ p \notin Working(i)'
    BY <2>1, <2>2, <2>4 DEF Working, Idle
  <2>7. Cardinality(Working(i))' = Cardinality(Working(i)) - 1
    BY <1>0, <2>4, <2>5, <2>6, WorkingStep
  <2>8. log'[i].findings + Cardinality(Working(i))' + Unclaimed(i)' <= 1 + faults' + slow'
    BY <1>0, <2>2, <2>4, <2>5, <2>7
  <2>9. faults' >= faults /\ slow' >= slow
    BY <1>0, <2>4, <2>5
  <2> QED  BY <2>1, <2>4, <2>8, <2>9, TokenFrame
<1>8. ASSUME NEW p \in Processes, CloseFails(p) \/ GiveUpFails(p) \/ Crash(p) \/ GiveUp(p)
      PROVE  TokenInv'
  <2>1. PICK i : i = job[p].id
    OBVIOUS
  <2>2. /\ slow' = slow /\ queue' = queue /\ job[p] # Idle
        /\ \A j \in Ids : j # job[p].id => log'[j] = log[j]
        /\ Stop(p) \/ Begin(p, "fallback", job[p].id)
    BY <1>8, IdleType DEF CloseFails, GiveUp, GiveUpFails, Crash, At, TypeOK
  <2>3. /\ Touches(p, i)
        /\ job'[p] = Idle \/ job'[p] = [pc |-> "fallback", id |-> i]
    BY <2>1, <2>2, DropStep
  <2>4. i \in Ids /\ log'[i].findings = log[i].findings
    BY <1>8, <2>1, <2>3, ZenonT(40) DEF CloseFails, GiveUp, GiveUpFails, Crash, TypeOK, Touches, Log
  <2>5. p \notin Working(i)'
    BY <2>3 DEF Working, Idle
  <2>6. Cardinality(Working(i))' <= Cardinality(Working(i)) /\ Cardinality(Working(i))' \in Int
    BY <1>0, <2>3, <2>4, <2>5, WorkingStep
  <2>7. \/ faults' = faults + 1
        \/ faults' = faults /\ Unclaimed(i)' <= Unclaimed(i)
    <3>1. CASE CloseFails(p) \/ GiveUpFails(p) \/ Crash(p)
      BY <3>1 DEF CloseFails, GiveUpFails, Crash, Fault
    <3>2. CASE GiveUp(p)
      <4>1. job[p].pc = "fallback" /\ faults' = faults
        BY <3>2 DEF GiveUp, At
      <4> QED  BY <2>2, <2>3, <4>1, StillAttended
    <3> QED  BY <1>8, <3>1, <3>2
  <2>8. log'[i].findings + Cardinality(Working(i))' + Unclaimed(i)' <= 1 + faults' + slow'
    BY <1>0, <2>2, <2>4, <2>6, <2>7
  <2>9. faults' >= faults /\ slow' >= slow
    BY <1>0, <2>2, <2>4, <2>7
  <2> QED  BY <2>1, <2>3, <2>8, <2>9, TokenFrame
<1>9. ASSUME NEW i \in DOMAIN queue, Elapse(i) PROVE TokenInv'
  <2>1. /\ queue[i] \in Row /\ DOMAIN queue' = DOMAIN queue
        /\ queue'[i].age = queue[i].age + 1 /\ queue[i].age < Stale
        /\ queue'[i] = [queue[i] EXCEPT !.age = @ + 1]
        /\ \A j \in DOMAIN queue : j # i => queue'[j] = queue[j]
        /\ job' = job /\ log' = log /\ faults' = faults
    BY <1>9, ElapseStep
  <2>2. IF queue[i].age = BackoffOver /\ \E p \in Processes : Holds(p, i)
        THEN slow' = slow + 1 ELSE slow' = slow
    BY <1>9 DEF Elapse
  <2>3. queue'[i].status = queue[i].status
    BY <2>1 DEF Row
  <2> SUFFICES ASSUME NEW k \in Ids
               PROVE  log'[k].findings + Cardinality(Working(k))' + Unclaimed(k)' <= 1 + faults' + slow'
    BY DEF TokenInv
  <2>4. Working(k)' = Working(k) /\ (Attended(k)' <=> Attended(k))
    BY <2>1 DEF Working, Attended, Holds
  <2>5. Unclaimed(k)' <= Unclaimed(k) \/ slow' = slow + 1
    <3>1. CASE k # i
      BY <2>1, <2>4, <3>1 DEF Unclaimed
    <3>2. CASE k = i /\ Attended(i) /\ queue'[i].age = Stale
      <4>1. \E p \in Processes : Holds(p, i)
        BY <3>2 DEF Attended
      <4>2. queue[i].age = BackoffOver
        BY <2>1, <3>2 DEF Row, Fresh, Stale, BackoffOver
      <4> QED  BY <2>2, <4>1, <4>2
    <3>3. CASE k = i /\ ~(Attended(i) /\ queue'[i].age = Stale)
      <4>1. k \in DOMAIN queue /\ k \in DOMAIN queue' /\ queue'[k].status = queue[k].status
        BY <2>1, <2>3, <3>3
      <4>2. queue[k].status = "pending" \/ ~Attended(k) => Unclaimed(k)' \in {0, Unclaimed(k)}
        BY <2>4, <4>1 DEF Unclaimed
      <4>3. queue[k].status # "pending" /\ Attended(k) => Unclaimed(k)' = 0
        BY <2>4, <3>3, <4>1 DEF Unclaimed
      <4> QED  BY <1>0, <4>2, <4>3
    <3> QED  BY <3>1, <3>2, <3>3
  <2> QED  BY <1>0, <2>1, <2>2, <2>4, <2>5
<1>10. CASE UNCHANGED vars
  BY <1>10 DEF vars, TokenInv, Working, Unclaimed, Attended, Holds
<1>11. ASSUME NEW p \in Processes, MarkDone(p) \/ FinalizeExhausted(p) PROVE TokenInv'
  BY <1>6, <1>11 DEF MarkDone, FinalizeExhausted, At
<1> QED  BY <1>1, <1>2, <1>4, <1>5, <1>7, <1>8, <1>9, <1>10, <1>11 DEF Next, Work, Trouble

\* argus_research_requests and the claims on it: the channel sees the findings of a request
\* once, and once more at most for every fault and every run that outlives its claim.
THEOREM FindingsShownOnce == Spec => []FindingsOnce
<1>1. TypeOK /\ TypeOK' /\ TokenInv /\ [Next]_vars => TokenInv'
  BY TokenNext
<1>2. TypeOK /\ TokenInv => FindingsOnce
  <2> SUFFICES ASSUME TypeOK, TokenInv, NEW i \in Ids
               PROVE  log[i].findings <= 1 + faults + slow
    BY DEF FindingsOnce
  <2> QED  BY TokenTypes DEF TokenInv
<1> QED  BY TokenInit, TypeCorrect, <1>1, <1>2, PTL DEF Spec

-----------------------------------------------------------------------------
(* Who still has to tell the channel *)

ToldInv ==
  faults = 0 =>
    /\ \A p \in Processes : job[p].pc = "done" => log[job[p].id].told
    /\ \A i \in DOMAIN queue :
         /\ queue[i].status = "done" => log[i].told
         /\ queue[i].status = "failed" =>
              log[i].told \/ \E p \in Processes : job[p].pc = "fallback" /\ job[p].id = i

LEMMA ToldInit == Init => ToldInv
  BY DEF Init, ToldInv, Idle

\* A step that touches one request leaves the others told, or somebody about to tell.
LEMMA ToldFrame ==
  ASSUME TypeOK, ToldInv, faults = 0, NEW p \in Processes, NEW i, Touches(p, i),
         job[p] = Idle \/ job[p].id = i,
         log[i].told => log'[i].told,
         job'[p].pc = "done" => log'[i].told,
         queue'[i].status = "done" => log'[i].told,
         queue'[i].status = "failed" =>
           \/ log'[i].told \/ job'[p].pc = "fallback"
           \/ queue[i].status = "failed" /\ job[p].pc # "fallback"
  PROVE  ToldInv'
<1>1. ASSUME NEW q \in Processes, job'[q].pc = "done" PROVE log'[job'[q].id].told
  <2>1. CASE q = p
    BY <1>1, <2>1 DEF Touches, Idle
  <2>2. CASE q # p
    <3>1. job'[q] = job[q] /\ log[job[q].id].told
      BY <1>1, <2>2 DEF Touches, ToldInv
    <3>2. job[q].id \in Ids
      BY <1>1, <3>1, BusyType
    <3> QED  BY <3>1, <3>2 DEF Touches
  <2> QED  BY <2>1, <2>2
<1>2. ASSUME NEW j \in DOMAIN queue'
      PROVE  /\ queue'[j].status = "done" => log'[j].told
             /\ queue'[j].status = "failed" =>
                  log'[j].told \/ \E q \in Processes : job'[q].pc = "fallback" /\ job'[q].id = j
  <2>1. CASE j # i
    <3>1. j \in DOMAIN queue /\ j \in Ids /\ queue'[j] = queue[j] /\ log'[j] = log[j]
      <4>1. j \in DOMAIN queue /\ j \in Ids
        BY ArgusAssumption DEF Touches, TypeOK, Ids
      <4> QED  BY <2>1, <4>1 DEF Touches
    <3>2. ASSUME NEW q \in Processes, job[q].pc = "fallback", job[q].id = j PROVE job'[q] = job[q]
      BY <2>1, <3>2 DEF Touches, Idle
    <3> QED  BY <3>1, <3>2 DEF ToldInv
  <2>2. CASE j = i
    <3>1. ASSUME queue'[i].status = "failed", ~log'[i].told
          PROVE  \E q \in Processes : job'[q].pc = "fallback" /\ job'[q].id = i
      <4>1. CASE job'[p].pc = "fallback"
        BY <4>1 DEF Touches, Idle
      <4>2. CASE queue[i].status = "failed" /\ job[p].pc # "fallback"
        <5>1. PICK q \in Processes : job[q].pc = "fallback" /\ job[q].id = i
          BY <3>1, <4>2 DEF ToldInv, Touches
        <5> QED  BY <4>2, <5>1 DEF Touches
      <4> QED  BY <3>1, <4>1, <4>2
    <3> QED  BY <2>2, <3>1
  <2> QED  BY <2>1, <2>2
<1> QED  BY <1>1, <1>2 DEF ToldInv

LEMMA ToldNext ==
  ASSUME TypeOK, TypeOK', ToldInv, [Next]_vars
  PROVE  ToldInv'
<1> SUFFICES ASSUME faults' = 0 PROVE ToldInv'
  BY DEF ToldInv
<1>1. CASE Dispatch
  <2>1. PICK n : /\ DOMAIN queue' = DOMAIN queue \cup {n} /\ queue'[n] = NewRow
                 /\ \A i \in DOMAIN queue : queue'[i] = queue[i]
                 /\ job' = job /\ log' = log /\ faults' = faults
    BY <1>1, DispatchStep
  <2> QED  BY <2>1 DEF ToldInv, NewRow
<1>2. ASSUME NEW p \in Processes, Claim(p) PROVE ToldInv'
  <2>1. PICK i \in DOMAIN queue :
          /\ Touches(p, i) /\ queue'[i] = Claimed(queue[i])
          /\ \/ /\ job'[p] = [pc |-> "research", id |-> i]
                /\ log'[i] = [log[i] EXCEPT !.runs = @ + 1]
             \/ /\ job'[p] = [pc |-> "exhausted", id |-> i, seen |-> queue'[i]]
                /\ log' = log
    BY <1>2, ClaimStep
  <2>2. job[p] = Idle /\ faults = 0
    BY <1>2, ClaimStep
  <2>3. queue'[i].status = "running" /\ job'[p].pc \in {"research", "exhausted"}
    BY <2>1 DEF Claimed
  <2>4. log'[i].told = log[i].told
    BY <2>1 DEF Touches, Log
  <2> QED  BY <2>1, <2>2, <2>3, <2>4, ToldFrame
<1>3. ASSUME NEW p \in Processes, Post(p) \/ PostNothing(p) \/ Fail(p) PROVE ToldInv'
  <2>1. PICK i : i = job[p].id
    OBVIOUS
  <2>2. PICK pc \in {"done", "failed"} : Ends(p, pc) /\ (pc = "done" => Post(p) \/ PostNothing(p))
    BY <1>3 DEF Post, PostNothing, Fail
  <2>3. /\ \A j \in Ids : j # job[p].id => log'[j] = log[j]
        /\ faults = 0
    BY <1>3 DEF Post, PostNothing, Fail, TypeOK
  <2>4. /\ Touches(p, i) /\ job[p] # Idle /\ job[p].pc = "research" /\ queue' = queue
        /\ job'[p] = [pc |-> pc, id |-> i, seen |-> queue[i]]
    BY <2>1, <2>2, <2>3, EndsStep
  <2>5. /\ log[i].told => log'[i].told
        /\ pc = "done" => log'[i].told
    BY <1>3, <2>1, <2>2, <2>4 DEF Post, PostNothing, Fail, TypeOK, Touches, Log
  <2>6. queue[i].status = "done" => log'[i].told
    BY <2>3, <2>4, <2>5 DEF ToldInv, Touches
  <2> QED  BY <2>1, <2>3, <2>4, <2>5, <2>6, ToldFrame
<1>4. ASSUME NEW p \in Processes, MarkDone(p) PROVE ToldInv'
  <2>1. PICK i : i = job[p].id
    OBVIOUS
  <2>2. /\ job[p].pc = "done" /\ UNCHANGED log /\ Stop(p)
        /\ Write(p, [job[p].seen EXCEPT !.status = "done"])
    BY <1>4 DEF MarkDone, At
  <2>3. [job[p].seen EXCEPT !.status = "done"] \in Row
    BY <2>2, SeenType, RowTypes DEF Statuses
  <2>4. Touches(p, i) /\ faults = 0 /\ job'[p] = Idle
    BY <2>1, <2>2, <2>3, CloseStep
  <2>5. log'[i].told /\ log[i].told
    BY <2>1, <2>2, <2>4 DEF ToldInv
  <2> QED  BY <2>1, <2>4, <2>5, ToldFrame
<1>5. ASSUME NEW p \in Processes, MarkFailed(p) PROVE ToldInv'
  <2>1. PICK i : i = job[p].id
    OBVIOUS
  <2> DEFINE new == Failed(job[p].seen)
  <2>2. /\ job[p].pc = "failed" /\ UNCHANGED log /\ Write(p, new)
        /\ IF new.status = "failed" THEN Begin(p, "fallback", job[p].id) ELSE Stop(p)
    BY <1>5 DEF MarkFailed, At
  <2>3. new \in Row
    BY <2>2, SeenType, RowTypes
  <2>4. /\ Touches(p, i) /\ faults = 0
        /\ queue'[i] = Flush(queue[i], job[p].seen, new)
        /\ IF new.status = "failed" THEN job'[p] = [pc |-> "fallback", id |-> i]
                                   ELSE job'[p] = Idle
    BY <2>1, <2>2, <2>3, CloseStep
  <2>5. new.status \in {"failed", "pending"}
    BY <2>2, SeenType DEF Failed, Row
  <2>6. queue[i] \in Row
    BY <2>4 DEF Touches
  <2> HIDE DEF new
  <2>7. queue'[i].status \in {new.status, queue[i].status}
    BY <2>4, <2>6 DEF Flush, Row
  <2>8. job'[p].pc \in {"fallback", "idle"} /\ log' = log
        /\ (new.status = "failed" => job'[p].pc = "fallback")
    BY <2>2, <2>4 DEF Idle
  <2>9. queue'[i].status = "done" => log'[i].told
    BY <2>4, <2>5, <2>7, <2>8 DEF ToldInv, Touches
  <2>10. queue'[i].status = "failed" =>
           job'[p].pc = "fallback" \/ (queue[i].status = "failed" /\ job[p].pc # "fallback")
    BY <2>2, <2>7, <2>8
  <2> QED  BY <2>1, <2>4, <2>8, <2>9, <2>10, ToldFrame
<1>6. ASSUME NEW p \in Processes, FinalizeExhausted(p) PROVE ToldInv'
  <2>1. PICK i : i = job[p].id
    OBVIOUS
  <2>2. /\ job[p].pc = "exhausted" /\ UNCHANGED log /\ Begin(p, "fallback", job[p].id)
        /\ Write(p, [job[p].seen EXCEPT !.status = "failed"])
    BY <1>6 DEF FinalizeExhausted, At
  <2>3. [job[p].seen EXCEPT !.status = "failed"] \in Row
    BY <2>2, SeenType, RowTypes DEF Statuses
  <2>4. /\ Touches(p, i) /\ faults = 0 /\ job'[p] = [pc |-> "fallback", id |-> i]
        /\ queue'[i] = Flush(queue[i], job[p].seen, [job[p].seen EXCEPT !.status = "failed"])
        /\ job[p].seen \in Row
    BY <2>1, <2>2, <2>3, CloseStep
  <2>5. queue'[i].status \in {"failed", queue[i].status}
    BY <2>4 DEF Flush, Row, Touches
  <2>6. queue'[i].status = "done" => log'[i].told
    BY <2>2, <2>4, <2>5 DEF ToldInv, Touches
  <2> QED  BY <2>1, <2>2, <2>4, <2>6, ToldFrame
<1>7. ASSUME NEW p \in Processes, GiveUp(p) PROVE ToldInv'
  <2>1. PICK i : i = job[p].id
    OBVIOUS
  <2>2. /\ queue' = queue /\ job[p] # Idle /\ Stop(p) /\ faults = 0
        /\ \A j \in Ids : j # job[p].id => log'[j] = log[j]
    BY <1>7, IdleType DEF GiveUp, At, TypeOK
  <2>3. Touches(p, i) /\ job'[p] = Idle
    BY <2>1, <2>2, DropStep
  <2>4. log'[i].told
    BY <1>7, <2>1, <2>3 DEF GiveUp, TypeOK, Touches, Log
  <2> QED  BY <2>1, <2>2, <2>3, <2>4, ToldFrame
\* The other steps of a process are faults.
<1>8. ASSUME NEW p \in Processes, Trouble(p) PROVE FALSE
  <2>1. faults' = faults + 1
    BY <1>8 DEF Trouble, LoseAnswer, CloseFails, GiveUpFails, Crash, Fault
  <2> QED  BY <2>1, ArgusAssumption DEF TypeOK
<1>9. ASSUME NEW i \in DOMAIN queue, Elapse(i) PROVE ToldInv'
  <2>1. /\ queue[i] \in Row /\ DOMAIN queue' = DOMAIN queue
        /\ queue'[i] = [queue[i] EXCEPT !.age = @ + 1]
        /\ \A j \in DOMAIN queue : j # i => queue'[j] = queue[j]
        /\ job' = job /\ log' = log /\ faults = 0
    BY <1>9, ElapseStep
  <2>2. \A j \in DOMAIN queue : queue'[j].status = queue[j].status
    BY <2>1 DEF Row
  <2> QED  BY <2>1, <2>2 DEF ToldInv
<1>10. CASE UNCHANGED vars
  BY <1>10 DEF vars, ToldInv
<1> QED  BY <1>1, <1>2, <1>3, <1>4, <1>5, <1>6, <1>7, <1>8, <1>9, <1>10 DEF Next, Work

\* _send_fallback and the claimer: a request that is closed and that nobody works on any more
\* was answered in the channel, or there was nothing to say, or a fault came between.
THEOREM ClosedWasTold == Spec => []ClosedIsTold
<1>1. TypeOK /\ TypeOK' /\ ToldInv /\ [Next]_vars => ToldInv'
  BY ToldNext
<1>2. ToldInv => ClosedIsTold
  BY DEF ToldInv, ClosedIsTold, Closed, Holds, Idle
<1> QED  BY ToldInit, TypeCorrect, <1>1, <1>2, PTL DEF Spec
=============================================================================
