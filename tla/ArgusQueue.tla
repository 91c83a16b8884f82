----------------------------- MODULE ArgusQueue -----------------------------
(***************************************************************************)
(* The queue of research requests (floating_artemis/tools/argus_tools.py): *)
(* dispatch_research inserts a row, and the claimer of every application   *)
(* process takes one row at a time, researches the district, posts the     *)
(* findings to Slack and closes the row.  A row whose claim has grown old  *)
(* is presumed orphaned and claimed again.                                 *)
(*                                                                         *)
(* The claim is one UPDATE.  Everything else reads the row, forgets the    *)
(* transaction and writes it later, whoever holds the row by then.         *)
(***************************************************************************)
EXTENDS Naturals, Sequences, FiniteSets

CONSTANTS
  Processes,    \* application processes that run a claimer
  MaxAttempts,  \* _MAX_ATTEMPTS
  MaxRequests,  \* bound on the requests
  MaxFaults,    \* bound on crashes, failed transactions and lost answers
  MaxSlow       \* bound on the runs that outlive argus_claim_stale_minutes

ASSUME ArgusAssumption ==
  /\ IsFiniteSet(Processes)
  /\ MaxAttempts \in Nat \ {0}
  /\ MaxRequests \in Nat /\ MaxFaults \in Nat /\ MaxSlow \in Nat

VARIABLES
  queue,   \* argus_research_requests, by id
  job,     \* what each process is doing
  log,     \* history of each request: see Log
  faults,  \* faults so far
  slow     \* runs that were mistaken for orphaned so far

vars == <<queue, job, log, faults, slow>>

-----------------------------------------------------------------------------
(* Values *)

Ids == 1..MaxRequests
Statuses == {"pending", "running", "done", "failed"}

\* Time since claimed_at: fresh, past the retry backoff, past the stale limit.
Fresh == 0
BackoffOver == 1
Stale == 2

\* age: Stale for a row never claimed, whose attempts are 0 and whose age nobody asks for.
Row == [status : Statuses, attempts : Nat, age : Fresh..Stale]
NewRow == [status |-> "pending", attempts |-> 0, age |-> Stale]

\* runs: how often the research was started; findings: messages with findings the channel shows;
\* told: the channel was told how the request ended, or there was nothing to tell.
Log == [runs : Nat, findings : Nat, told : BOOLEAN]
NewLog == [runs |-> 0, findings |-> 0, told |-> FALSE]

\* "research": up to the post; "done", "failed", "exhausted": the transaction that closes the
\* row has read it, as seen, and not written it; "fallback": about to give up aloud.
Idle == [pc |-> "idle"]
Job == [pc : {"research", "fallback"}, id : Ids]
       \cup [pc : {"done", "failed", "exhausted"}, id : Ids, seen : Row]

Init ==
  /\ queue = << >>
  /\ job = [p \in Processes |-> Idle]
  /\ log = [i \in Ids |-> NewLog]
  /\ faults = 0 /\ slow = 0

At(p, pc) == job[p].pc = pc
Begin(p, pc, i) == job' = [job EXCEPT ![p] = [pc |-> pc, id |-> i]]
\* session.get of _mark_request_done, _mark_request_failed and _finalize_exhausted_claim
Read(p, pc, i) == job' = [job EXCEPT ![p] = [pc |-> pc, id |-> i, seen |-> queue'[i]]]
Stop(p) == job' = [job EXCEPT ![p] = Idle]
Holds(p, i) == job[p] # Idle /\ job[p].id = i
Fault == faults < MaxFaults /\ faults' = faults + 1

-----------------------------------------------------------------------------
(* The table *)

\* Mutants of Claimable: the retry backoff serves for the stale limit too; nobody takes up
\* a row that was left running.
ClaimableSoon(row) ==
  \/ row.status = "pending" /\ (row.attempts = 0 \/ row.age >= BackoffOver)
  \/ row.status = "running" /\ row.age >= BackoffOver
ClaimableIfPending(row) ==
  row.status = "pending" /\ (row.attempts = 0 \/ row.age >= BackoffOver)

Claimable(row) ==
  \/ row.status = "pending" /\ (row.attempts = 0 \/ row.age >= BackoffOver)
  \/ row.status = "running" /\ row.age = Stale

\* ORDER BY attempts, id
Before(i, j) == \/ queue[i].attempts < queue[j].attempts
                \/ queue[i].attempts = queue[j].attempts /\ i <= j

NextClaim == {i \in DOMAIN queue : /\ Claimable(queue[i])
                                   /\ \A j \in DOMAIN queue : Claimable(queue[j]) => Before(i, j)}

\* Mutants of Claimed: a reclaim is not counted; every claim is counted.
ClaimedUncounted(row) == [row EXCEPT !.status = "running", !.age = Fresh]
ClaimedAlwaysCounted(row) == [status |-> "running", age |-> Fresh, attempts |-> row.attempts + 1]

Claimed(row) ==
  [status |-> "running", age |-> Fresh,
   attempts |-> IF row.status = "running" THEN row.attempts + 1 ELSE row.attempts]

\* The row after a failure that read it as seen.
Failed(seen) ==
  [seen EXCEPT !.attempts = @ + 1,
               !.status = IF seen.attempts + 1 >= MaxAttempts THEN "failed" ELSE "pending"]

\* The UPDATE names the columns whose value differs from the one that was read.
Flush(row, seen, new) ==
  [row EXCEPT !.status = IF new.status # seen.status THEN new.status ELSE @,
              !.attempts = IF new.attempts # seen.attempts THEN new.attempts ELSE @]

-----------------------------------------------------------------------------
(* dispatch_research *)

Dispatch ==
  /\ Len(queue) < MaxRequests
  /\ queue' = Append(queue, NewRow)
  /\ UNCHANGED <<job, log, faults, slow>>

-----------------------------------------------------------------------------
(* The claimer of a process: run_claim_tick takes one row after another *)

Claim(p) ==
  /\ At(p, "idle")
  /\ \E i \in NextClaim :
       LET row == Claimed(queue[i])
           runs == row.attempts < MaxAttempts IN
       /\ queue' = [queue EXCEPT ![i] = row]
       /\ \/ runs /\ Begin(p, "research", i) /\ log' = [log EXCEPT ![i].runs = @ + 1]
          \/ ~runs /\ Read(p, "exhausted", i) /\ UNCHANGED log
  /\ UNCHANGED <<faults, slow>>

\* How the research may end: the row is read next, and written in a step of its own.
Ends(p, pc) ==
  /\ At(p, "research")
  /\ UNCHANGED queue
  /\ Read(p, pc, job[p].id)

\* Research, summary and post have gone well.
Post(p) ==
  /\ Ends(p, "done")
  /\ log' = [log EXCEPT ![job[p].id].findings = @ + 1, ![job[p].id].told = TRUE]
  /\ UNCHANGED <<faults, slow>>

\* The text is empty or Callie has no token: the function returns without a word.
PostNothing(p) ==
  /\ Ends(p, "done")
  /\ log' = [log EXCEPT ![job[p].id].told = TRUE]
  /\ UNCHANGED <<faults, slow>>

\* Research, summary or post raises, before Slack shows the findings.
Fail(p) ==
  /\ Ends(p, "failed")
  /\ UNCHANGED <<log, faults, slow>>

\* Slack shows the findings and its answer is lost.
LoseAnswer(p) ==
  /\ Ends(p, "failed") /\ Fault
  /\ log' = [log EXCEPT ![job[p].id].findings = @ + 1, ![job[p].id].told = TRUE]
  /\ UNCHANGED slow

Write(p, new) ==
  /\ queue' = [queue EXCEPT ![job[p].id] = Flush(@, job[p].seen, new)]
  /\ UNCHANGED <<faults, slow>>

MarkDone(p) ==
  /\ At(p, "done") /\ Write(p, [job[p].seen EXCEPT !.status = "done"])
  /\ Stop(p) /\ UNCHANGED log

\* Mutant of MarkFailed: it answers False at the cap too.
MarkFailedSilently(p) ==
  /\ At(p, "failed")
  /\ Write(p, Failed(job[p].seen))
  /\ Stop(p) /\ UNCHANGED log

\* claimed_at is not among the columns it sets.
MarkFailed(p) ==
  /\ At(p, "failed")
  /\ LET new == Failed(job[p].seen) IN
     /\ Write(p, new)
     /\ IF new.status = "failed" THEN Begin(p, "fallback", job[p].id) ELSE Stop(p)
  /\ UNCHANGED log

FinalizeExhausted(p) ==
  /\ At(p, "exhausted") /\ Write(p, [job[p].seen EXCEPT !.status = "failed"])
  /\ Begin(p, "fallback", job[p].id) /\ UNCHANGED log

\* The transaction that closes the row fails, which only the log learns.
CloseFails(p) ==
  /\ job[p].pc \in {"done", "failed", "exhausted"} /\ Fault
  /\ IF At(p, "exhausted") THEN Begin(p, "fallback", job[p].id) ELSE Stop(p)
  /\ UNCHANGED <<queue, log, slow>>

GiveUp(p) ==
  /\ At(p, "fallback")
  /\ log' = [log EXCEPT ![job[p].id].told = TRUE]
  /\ Stop(p)
  /\ UNCHANGED <<queue, faults, slow>>

GiveUpFails(p) ==
  /\ At(p, "fallback") /\ Fault
  /\ Stop(p)
  /\ UNCHANGED <<queue, log, slow>>

\* The process dies and is started again: recover_pending_requests is a claim like any other.
Crash(p) ==
  /\ job[p] # Idle /\ Fault
  /\ Stop(p)
  /\ UNCHANGED <<queue, log, slow>>

-----------------------------------------------------------------------------
(* Time passes for an open row; to grow stale in the hands of a live process is to be slow. *)

Elapse(i) ==
  /\ queue[i].status \in {"pending", "running"} /\ queue[i].age < Stale
  /\ queue' = [queue EXCEPT ![i].age = @ + 1]
  /\ IF queue[i].age = BackoffOver /\ \E p \in Processes : Holds(p, i)
     THEN slow < MaxSlow /\ slow' = slow + 1
     ELSE UNCHANGED slow
  /\ UNCHANGED <<job, log, faults>>

-----------------------------------------------------------------------------

Work(p) == \/ Claim(p) \/ Post(p) \/ PostNothing(p) \/ Fail(p)
           \/ MarkDone(p) \/ MarkFailed(p) \/ FinalizeExhausted(p) \/ GiveUp(p)

Trouble(p) == LoseAnswer(p) \/ CloseFails(p) \/ GiveUpFails(p) \/ Crash(p)

Next == \/ Dispatch
        \/ \E p \in Processes : Work(p) \/ Trouble(p)
        \/ \E i \in DOMAIN queue : Elapse(i)

\* The scheduler polls for ever, a run that did not die ends (every call it makes has a
\* timeout), and time passes.  Nobody need ask for anything, and no fault need happen.
Spec == /\ Init /\ [][Next]_vars
        /\ \A p \in Processes : WF_vars(Work(p))
        /\ \A i \in Ids : WF_vars(i \in DOMAIN queue /\ Elapse(i))

-----------------------------------------------------------------------------
(* Properties *)

Closed(i) == i \in DOMAIN queue /\ queue[i].status \in {"done", "failed"}

\* Every variable has its type, and a process works on a request that exists.
TypeOK ==
  /\ queue \in Seq(Row) /\ Len(queue) <= MaxRequests
  /\ job \in [Processes -> Job \cup {Idle}]
  /\ \A p \in Processes : job[p] # Idle => job[p].id \in DOMAIN queue
  /\ log \in [Ids -> Log]
  /\ faults \in 0..MaxFaults /\ slow \in 0..MaxSlow

\* However often the process dies, a transaction fails or the research raises, a request
\* is researched at most MaxAttempts times ("bounded by the same cap"), unless a run outlives
\* the stale limit: the count it then writes back may be behind what others have counted.
RunsAreCapped == slow = 0 => \A i \in Ids : log[i].runs <= MaxAttempts

\* The queue gives a request up only after it has tried MaxAttempts times: no failure is
\* counted twice, not by the failure and the reclaim together either.
GivenUpAfterAllRuns ==
  \A i \in DOMAIN queue : queue[i].status = "failed" /\ slow = 0 => log[i].runs >= MaxAttempts

\* Two claimers do not work on the same row: the channel sees the findings of a request
\* once, and once more at most for every fault or slow run.
FindingsOnce == \A i \in Ids : log[i].findings <= 1 + faults + slow

\* When a request is closed and nobody is working on it, the channel was told how it ended,
\* unless there was nothing to say or a fault came between the commit and the message.
ClosedIsTold ==
  \A i \in Ids :
    /\ Closed(i)
    /\ faults = 0
    /\ \A p \in Processes : ~Holds(p, i)
    => log[i].told

\* Every request is closed in the end and stays so, whatever fails on the way: no claim is
\* left with nobody to take it up.
RequestEnds ==
  \A i \in Ids : (i \in DOMAIN queue) ~> []Closed(i)
=============================================================================
