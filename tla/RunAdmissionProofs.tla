------------------------- MODULE RunAdmissionProofs -------------------------
(***************************************************************************)
(* Proofs about RunAdmission, for every set of pipelines, handlers and     *)
(* processes and every bound: how two runs of a pipeline can be in flight, *)
(* how a candidate can lose its run, and what becomes of sub-runs.         *)
(***************************************************************************)
EXTENDS RunAdmission, FiniteSetTheorems, TLAPS

\* Every id that somebody keeps is that of a run, and only a run with a gate waits for one.
KnownInv ==
  /\ \A i \in Ids : /\ runs[i].parent < i /\ runs[i].seen < i
                    /\ runs[i].gate # "pending" => runs[i].of \in Gated
  /\ \A h \in Handlers : At(h, "dispatch") => req[h].run \in Ids
  /\ \A h \in Handlers : At(h, "admitted") => req[h].seen <= Len(runs)

\* A process is inside of all walks on its stack but the top one, each of the next run's parent.
StackInv ==
  \A e \in Executors : \A k \in 1..Len(exec[e]) :
    LET frame == exec[e][k] IN
    /\ frame.run \in Ids
    /\ frame.place = "inside" <=> k < Len(exec[e])
    /\ frame.place = "over" => k > 1
    /\ frame.place = "sub" => Calls[runs[frame.run].of] # NoCall
    /\ k > 1 => runs[frame.run].parent = exec[e][k - 1].run

Shape == TypeOK /\ KnownInv /\ StackInv

-----------------------------------------------------------------------------
(* Stacks *)

\* What the top of a process' stack is.
LEMMA TopOf ==
  ASSUME Shape, NEW e \in Executors, exec[e] # << >>
  PROVE  /\ exec[e] \in Seq(Frame) /\ Len(exec[e]) \in Nat \ {0}
         /\ Top(e) = exec[e][Len(exec[e])] /\ Top(e) \in Frame /\ This(e) = Top(e).run
         /\ This(e) \in Ids /\ runs[This(e)] \in Run /\ runs[This(e)].of \in Pipelines
<1>1. exec[e] \in Seq(Frame) /\ Len(exec[e]) \in Nat \ {0}
  BY DEF Shape, TypeOK
<1>2. Top(e) = exec[e][Len(exec[e])] /\ Top(e) \in Frame
  BY <1>1 DEF Top, Last
<1>3. This(e) = Top(e).run
  BY DEF This
<1>4. This(e) \in Ids
  BY <1>1, <1>2, <1>3 DEF Shape, StackInv
<1>5. runs[This(e)] \in Run
  BY <1>4 DEF Shape, TypeOK, Ids
<1>6. runs[This(e)].of \in Pipelines
  BY <1>5 DEF Run
<1> QED  BY <1>1, <1>2, <1>3, <1>4, <1>5, <1>6

\* What is below it.
LEMMA BelowTop ==
  ASSUME Shape, NEW e \in Executors, exec[e] # << >>, Len(exec[e]) # 1
  PROVE  /\ Len(exec[e]) - 1 \in 1..Len(exec[e]) /\ Len(exec[e]) >= 2
         /\ Parent(e) = exec[e][Len(exec[e]) - 1] /\ Parent(e) \in Frame
         /\ Parent(e).run \in Ids /\ Parent(e).place = "inside"
         /\ runs[This(e)].parent = Parent(e).run
<1>0. Len(exec[e]) \in Nat \ {0}
  BY TopOf
<1>1. Len(exec[e]) - 1 \in 1..Len(exec[e]) /\ Len(exec[e]) >= 2
  <2>1. \A n \in Nat \ {0} : n # 1 => n - 1 \in 1..n /\ n >= 2
    OBVIOUS
  <2> QED  BY <1>0, <2>1, Zenon
<1>2. Parent(e) = exec[e][Len(exec[e]) - 1] /\ Parent(e) \in Frame
  BY <1>1, TopOf DEF Parent
<1>3. Parent(e).run \in Ids /\ Parent(e).place = "inside"
  BY <1>1, <1>2 DEF Shape, StackInv
<1>4. runs[This(e)].parent = Parent(e).run
  BY <1>1, <1>2, TopOf DEF Shape, StackInv
<1> QED  BY <1>1, <1>2, <1>3, <1>4

\* A stack with another top.
LEMMA MovedStack ==
  ASSUME Shape, NEW e \in Executors, exec[e] # << >>, NEW f \in Frame
  PROVE  /\ Moved(e, f) \in [Executors -> Seq(Frame)]
         /\ \A g \in Executors : Len(Moved(e, f)[g]) = Len(exec[g])
         /\ \A g \in Executors : \A k \in 1..Len(exec[g]) :
              Moved(e, f)[g][k] = IF g = e /\ k = Len(exec[e]) THEN f ELSE exec[g][k]
<1>0. exec \in [Executors -> Seq(Frame)]
  BY DEF Shape, TypeOK
<1> DEFINE s == [exec[e] EXCEPT ![Len(exec[e])] = f]
<1>1. /\ s \in Seq(Frame) /\ Len(s) = Len(exec[e])
      /\ \A k \in 1..Len(exec[e]) : s[k] = IF k = Len(exec[e]) THEN f ELSE exec[e][k]
  BY TopOf
<1>2. Moved(e, f) = [exec EXCEPT ![e] = s]
  BY DEF Moved
<1> HIDE DEF s
<1> QED  BY <1>0, <1>1, <1>2

\* A stack without its top, and with another one below.
LEMMA PoppedStack ==
  ASSUME Shape, NEW e \in Executors, exec[e] # << >>, Len(exec[e]) # 1, NEW f \in Frame
  PROVE  /\ Popped(e, f) \in [Executors -> Seq(Frame)]
         /\ \A g \in Executors : Len(Popped(e, f)[g]) = IF g = e THEN Len(exec[e]) - 1 ELSE Len(exec[g])
         /\ \A g \in Executors : \A k \in 1..Len(Popped(e, f)[g]) :
              Popped(e, f)[g][k] = IF g = e /\ k = Len(exec[e]) - 1 THEN f ELSE exec[g][k]
<1>0. exec \in [Executors -> Seq(Frame)]
  BY DEF Shape, TypeOK
<1>1. exec[e] \in Seq(Frame) /\ Len(exec[e]) \in Nat /\ Len(exec[e]) >= 2
  BY TopOf, BelowTop
<1> DEFINE r == Front(exec[e])
           s == [r EXCEPT ![Len(exec[e]) - 1] = f]
<1>2. /\ r \in Seq(Frame) /\ Len(r) = Len(exec[e]) - 1
      /\ \A k \in 1..(Len(exec[e]) - 1) : r[k] = exec[e][k]
  BY <1>1 DEF Front
<1> HIDE DEF r
<1>3. /\ s \in Seq(Frame) /\ Len(s) = Len(exec[e]) - 1
      /\ \A k \in 1..(Len(exec[e]) - 1) : s[k] = IF k = Len(exec[e]) - 1 THEN f ELSE exec[e][k]
  BY <1>1, <1>2
<1>4. Popped(e, f) = [exec EXCEPT ![e] = s]
  BY DEF Popped, r
<1> HIDE DEF s
<1> QED  BY <1>0, <1>1, <1>3, <1>4

\* A stack that is emptied.
LEMMA EmptyStack ==
  ASSUME Shape, NEW e \in Executors
  PROVE  /\ [exec EXCEPT ![e] = << >>] \in [Executors -> Seq(Frame)]
         /\ [exec EXCEPT ![e] = << >>][e] = << >>
         /\ \A g \in Executors \ {e} : [exec EXCEPT ![e] = << >>][g] = exec[g]
  BY DEF Shape, TypeOK

\* What all steps of a process but a call do to its stack: it has f on top at height n, where the
\* walk of f was before, or it is empty and that walk was the lowest.
StackStep(e, n, f) ==
  /\ n \in 1..Len(exec[e]) /\ f \in Frame /\ f.run = exec[e][n].run /\ f.place # "inside"
  /\ exec' \in [Executors -> Seq(Frame)]
  /\ \A g \in Executors \ {e} : exec'[g] = exec[g]
  /\ \/ n = 1 /\ exec'[e] = << >>
     \/ /\ Len(exec'[e]) = n
        /\ f.place = "over" => n > 1
        /\ \A k \in 1..n : exec'[e][k] = IF k = n THEN f ELSE exec[e][k]

LEMMA MovedStep ==
  ASSUME Shape, NEW e \in Executors, exec[e] # << >>, NEW f \in Frame,
         f.run = This(e), f.place \notin {"inside", "over"}, exec' = Moved(e, f)
  PROVE  StackStep(e, Len(exec[e]), f)
<1>1. Len(exec[e]) \in 1..Len(exec[e]) /\ f.run = exec[e][Len(exec[e])].run
  BY TopOf
<1>2. exec' \in [Executors -> Seq(Frame)] /\ Len(exec'[e]) = Len(exec[e])
  BY MovedStack
<1>3. \A k \in 1..Len(exec[e]) : exec'[e][k] = IF k = Len(exec[e]) THEN f ELSE exec[e][k]
  BY MovedStack
<1>4. \A g \in Executors \ {e} : exec'[g] = exec[g]
  BY DEF Moved, Shape, TypeOK
<1> QED  BY <1>1, <1>2, <1>3, <1>4 DEF StackStep

LEMMA EmptiedStep ==
  ASSUME Shape, NEW e \in Executors, exec[e] # << >>, exec' = [exec EXCEPT ![e] = << >>],
         NEW n, n = 1, NEW f \in Frame, f.run = exec[e][n].run, f.place # "inside"
  PROVE  StackStep(e, n, f)
<1>1. 1 \in 1..Len(exec[e])
  BY TopOf
<1> QED  BY <1>1, EmptyStack DEF StackStep

LEMMA OverStep ==
  ASSUME Shape, NEW e \in Executors, exec[e] # << >>, NEW s \in InFlightStatuses \cup Ended,
         exec' = Over(e, s)
  PROVE  StackStep(e, Len(exec[e]), [Top(e) EXCEPT !.place = "over", !.status = s])
<1> DEFINE f == [Top(e) EXCEPT !.place = "over", !.status = s]
<1>1. f \in Frame /\ f.run = This(e) /\ f.place = "over"
  BY TopOf DEF Frame
<1>2. Len(exec[e]) \in 1..Len(exec[e]) /\ f.run = exec[e][Len(exec[e])].run
  BY <1>1, TopOf
<1> HIDE DEF f
<1>3. CASE Len(exec[e]) = 1
  <2>1. exec' = [exec EXCEPT ![e] = << >>]
    BY <1>3 DEF Over
  <2>2. StackStep(e, Len(exec[e]), f)
    BY <1>1, <1>2, <1>3, <2>1, EmptiedStep
  <2> QED  BY <2>2 DEF f
<1>4. CASE Len(exec[e]) # 1
  <2>1. exec' = Moved(e, f)
    BY <1>4 DEF Over, f
  <2>2. exec' \in [Executors -> Seq(Frame)] /\ Len(exec'[e]) = Len(exec[e])
    BY <1>1, <2>1, MovedStack
  <2>3. \A k \in 1..Len(exec[e]) : exec'[e][k] = IF k = Len(exec[e]) THEN f ELSE exec[e][k]
    BY <1>1, <2>1, MovedStack
  <2>4. \A g \in Executors \ {e} : exec'[g] = exec[g]
    BY <2>1 DEF Moved, Shape, TypeOK
  <2>5. Len(exec[e]) > 1
    BY <1>4, BelowTop
  <2>6. StackStep(e, Len(exec[e]), f)
    BY <1>1, <1>2, <2>2, <2>3, <2>4, <2>5 DEF StackStep
  <2> QED  BY <2>6 DEF f
<1> QED  BY <1>3, <1>4

LEMMA PoppedStep ==
  ASSUME Shape, NEW e \in Executors, exec[e] # << >>, Len(exec[e]) # 1, NEW f \in Frame,
         f.run = Parent(e).run, f.place # "inside", f.place = "over" => Len(exec[e]) # 2,
         exec' = Popped(e, f)
  PROVE  StackStep(e, Len(exec[e]) - 1, f)
<1>1. /\ Len(exec[e]) - 1 \in 1..Len(exec[e]) /\ f.run = exec[e][Len(exec[e]) - 1].run
      /\ Len(exec[e]) \in Nat /\ Len(exec[e]) >= 2
  BY TopOf, BelowTop
<1>2. exec' \in [Executors -> Seq(Frame)] /\ Len(exec'[e]) = Len(exec[e]) - 1
  BY PoppedStack
<1>3. \A k \in 1..(Len(exec[e]) - 1) :
        exec'[e][k] = IF k = Len(exec[e]) - 1 THEN f ELSE exec[e][k]
  BY <1>2, PoppedStack, SMTT(30)
<1>4. \A g \in Executors \ {e} : exec'[g] = exec[g]
  BY DEF Popped, Shape, TypeOK
<1>5. f.place = "over" => Len(exec[e]) - 1 > 1
  <2>1. \A n \in Nat : n >= 2 /\ n # 2 => n - 1 > 1
    OBVIOUS
  <2> QED  BY <1>1, <2>1, Zenon
<1> QED  BY <1>1, <1>2, <1>3, <1>4, <1>5 DEF StackStep

LEMMA UnwoundStep ==
  ASSUME Shape, NEW e \in Executors, exec[e] # << >>, Len(exec[e]) # 1, exec' = Unwound(e)
  PROVE  StackStep(e, Len(exec[e]) - 1, [Parent(e) EXCEPT !.place = "over", !.status = "failed"])
<1> DEFINE f == [Parent(e) EXCEPT !.place = "over", !.status = "failed"]
<1>1. f \in Frame /\ f.run = Parent(e).run /\ f.place = "over"
  BY BelowTop DEF Frame, Ended
<1>2. Len(exec[e]) - 1 \in 1..Len(exec[e]) /\ f.run = exec[e][Len(exec[e]) - 1].run
  BY <1>1, BelowTop
<1> HIDE DEF f
<1>3. CASE Len(exec[e]) = 2
  <2>1. exec' = [exec EXCEPT ![e] = << >>]
    BY <1>3 DEF Unwound
  <2>2. Len(exec[e]) - 1 = 1
    BY <1>3
  <2>3. StackStep(e, Len(exec[e]) - 1, f)
    BY <1>1, <1>2, <2>1, <2>2, EmptiedStep
  <2> QED  BY <2>3 DEF f
<1>4. CASE Len(exec[e]) # 2
  <2>1. exec' = Popped(e, f)
    BY <1>4 DEF Unwound, f
  <2>2. StackStep(e, Len(exec[e]) - 1, f)
    BY <1>1, <1>4, <2>1, PoppedStep
  <2> QED  BY <2>2 DEF f
<1> QED  BY <1>3, <1>4

-----------------------------------------------------------------------------
(* Rows *)

\* What a row keeps: everything but its status, its node and its gate.
SameRun(new, old) ==
  /\ new.of = old.of /\ new.how = old.how /\ new.parent = old.parent
  /\ new.cand = old.cand /\ new.seen = old.seen
  /\ new.gate # "pending" => old.gate # "pending" \/ old.of \in Gated
  /\ new.gate = "pending" => old.gate = "pending"

\* Every step keeps the rows there are, and adds at most one.
RowsStep ==
  /\ runs' \in Seq(Run) /\ Len(runs') \in {Len(runs), Len(runs) + 1}
  /\ \A i \in Ids : SameRun(runs'[i], runs[i])
  /\ \A i \in 1..Len(runs') : i \notin Ids =>
       runs'[i].parent < i /\ runs'[i].seen < i /\ runs'[i].gate = "pending"

LEMMA RowType ==
  ASSUME Shape, NEW i \in Ids
  PROVE  runs[i] \in Run /\ runs \in Seq(Run) /\ Len(runs) \in Nat
  BY DEF Shape, TypeOK, Ids

\* A row that is written.
LEMMA WrittenRow ==
  ASSUME Shape, NEW i \in Ids, NEW row \in Run, SameRun(row, runs[i]),
         runs' = [runs EXCEPT ![i] = row]
  PROVE  /\ RowsStep /\ Len(runs') = Len(runs)
         /\ \A j \in Ids : runs'[j] = IF j = i THEN row ELSE runs[j]
<1>1. runs \in Seq(Run) /\ Len(runs) \in Nat
  BY RowType
<1>2. runs' \in Seq(Run) /\ Len(runs') = Len(runs)
  BY <1>1 DEF Ids
<1>3. \A j \in Ids : runs'[j] = IF j = i THEN row ELSE runs[j]
  BY <1>1 DEF Ids
<1>4. \A j \in Ids : SameRun(runs'[j], runs[j])
  BY <1>3 DEF SameRun
<1> QED  BY <1>1, <1>2, <1>3, <1>4 DEF RowsStep, Ids

\* A row that is added, while another is written.
LEMMA AddedRow ==
  ASSUME Shape, NEW i \in Ids, NEW row \in Run, SameRun(row, runs[i]),
         NEW new \in Run, new.parent \in 0..Len(runs), new.seen \in 0..Len(runs),
         new.gate = "pending", runs' = Append([runs EXCEPT ![i] = row], new)
  PROVE  /\ RowsStep /\ Len(runs') = Len(runs) + 1 /\ runs'[Len(runs) + 1] = new
         /\ \A j \in Ids : runs'[j] = IF j = i THEN row ELSE runs[j]
<1>1. runs \in Seq(Run) /\ Len(runs) \in Nat
  BY RowType
<1> DEFINE r == [runs EXCEPT ![i] = row]
<1>2. /\ r \in Seq(Run) /\ Len(r) = Len(runs)
      /\ \A j \in Ids : r[j] = IF j = i THEN row ELSE runs[j]
  BY <1>1 DEF Ids
<1> HIDE DEF r
<1>3. runs' \in Seq(Run) /\ Len(runs') = Len(runs) + 1 /\ runs'[Len(runs) + 1] = new
  BY <1>1, <1>2 DEF r
<1>4. \A j \in Ids : runs'[j] = IF j = i THEN row ELSE runs[j]
  BY <1>1, <1>2 DEF r, Ids
<1>5. \A j \in Ids : SameRun(runs'[j], runs[j])
  BY <1>4 DEF SameRun
<1>6. \A j \in 1..Len(runs') : j \notin Ids => j = Len(runs) + 1
  BY <1>1, <1>3 DEF Ids
<1>7. new.parent < Len(runs) + 1 /\ new.seen < Len(runs) + 1
  BY <1>1
<1> QED  BY <1>1, <1>3, <1>4, <1>5, <1>6, <1>7 DEF RowsStep

\* A row that is only added.
LEMMA NewRow ==
  ASSUME Shape, NEW new \in Run, new.parent \in 0..Len(runs), new.seen \in 0..Len(runs),
         new.gate = "pending", runs' = Append(runs, new)
  PROVE  /\ RowsStep /\ Len(runs') = Len(runs) + 1 /\ runs'[Len(runs) + 1] = new
         /\ \A j \in Ids : runs'[j] = runs[j]
<1>1. runs \in Seq(Run) /\ Len(runs) \in Nat
  BY DEF Shape, TypeOK
<1>3. runs' \in Seq(Run) /\ Len(runs') = Len(runs) + 1 /\ runs'[Len(runs) + 1] = new
  BY <1>1
<1>4. \A j \in Ids : runs'[j] = runs[j]
  BY <1>1 DEF Ids
<1>5. \A j \in Ids : SameRun(runs'[j], runs[j])
  BY <1>4 DEF SameRun
<1>6. \A j \in 1..Len(runs') : j \notin Ids => j = Len(runs) + 1
  BY <1>1, <1>3 DEF Ids
<1>7. new.parent < Len(runs) + 1 /\ new.seen < Len(runs) + 1
  BY <1>1
<1> QED  BY <1>1, <1>3, <1>4, <1>5, <1>6, <1>7 DEF RowsStep

LEMMA NoNewRow ==
  ASSUME Shape, runs' = runs
  PROVE  RowsStep /\ Len(runs') = Len(runs)
  BY DEF Shape, TypeOK, RowsStep, SameRun, Ids

-----------------------------------------------------------------------------
(* What each step of a walk does to the rows and to its stack *)

LEMMA LoadStep ==
  ASSUME Shape, NEW e \in Executors, Load(e)
  PROVE  /\ RowsStep /\ runs' = runs /\ exec[e] # << >>
         /\ StackStep(e, Len(exec[e]), [Top(e) EXCEPT !.place = "begin",
              !.status = runs[This(e)].status, !.sub = runs[This(e)].sub])
<1> DEFINE f == [Top(e) EXCEPT !.place = "begin", !.status = runs[This(e)].status,
                               !.sub = runs[This(e)].sub]
<1>1. exec[e] # << >> /\ exec' = Moved(e, f) /\ runs' = runs
  BY DEF Load, AtPlace
<1>2. f \in Frame /\ f.run = This(e) /\ f.place = "begin"
  BY <1>1, TopOf DEF Frame, Run, SubStatuses
<1> HIDE DEF f
<1>3. StackStep(e, Len(exec[e]), f)
  BY <1>1, <1>2, MovedStep
<1> QED  BY <1>1, <1>3, NoNewRow DEF f

\* Whether a run was loaded as queued.
LoadedQueued(e) == Top(e).status = "queued"
BegunRow(e) == [runs[This(e)] EXCEPT !.status = IF LoadedQueued(e) THEN "running" ELSE @,
                                     !.sub = IF Pending(e) THEN "running" ELSE @]
BegunStatus(e) == IF LoadedQueued(e) THEN "running" ELSE Top(e).status
BegunFrame(e) ==
  IF Pending(e) THEN [Top(e) EXCEPT !.place = "sub", !.status = BegunStatus(e), !.sub = "running"]
  ELSE [Top(e) EXCEPT !.place = "gate", !.status = BegunStatus(e)]

LEMMA BeginStep ==
  ASSUME Shape, NEW e \in Executors, Begin(e)
  PROVE  /\ RowsStep /\ Len(runs') = Len(runs) /\ exec[e] # << >>
         /\ \A j \in Ids : runs'[j] = IF j = This(e) THEN BegunRow(e) ELSE runs[j]
         /\ StackStep(e, Len(exec[e]), BegunFrame(e))
<1>1. exec[e] # << >> /\ exec' = Moved(e, BegunFrame(e))
  BY DEF Begin, AtPlace, BegunFrame, BegunStatus, LoadedQueued
<1>2. BegunFrame(e) \in Frame /\ BegunFrame(e).run = This(e)
      /\ BegunFrame(e).place \notin {"inside", "over"}
  BY <1>1, TopOf DEF BegunFrame, BegunStatus, Frame, SubStatuses, InFlightStatuses
<1>3. StackStep(e, Len(exec[e]), BegunFrame(e))
  BY <1>1, <1>2, MovedStep
<1>4. This(e) \in Ids /\ runs[This(e)] \in Run
  BY <1>1, TopOf
<1>5. BegunRow(e) \in Run /\ SameRun(BegunRow(e), runs[This(e)])
  BY <1>4 DEF BegunRow, Run, SameRun, InFlightStatuses
<1>6. runs' = [runs EXCEPT ![This(e)] = BegunRow(e)]
  BY <1>4, RowType DEF Begin, BegunRow, LoadedQueued
<1> QED  BY <1>1, <1>3, <1>4, <1>5, <1>6, WrittenRow

\* The row of a run whose node failed.
FailedRow(i) == [runs[i] EXCEPT !.sub = "failed", !.status = "failed"]

LEMMA FailedStep ==
  ASSUME Shape, NEW i \in Ids, NodeFailed(i)
  PROVE  /\ RowsStep /\ Len(runs') = Len(runs)
         /\ \A j \in Ids : runs'[j] = IF j = i THEN FailedRow(i) ELSE runs[j]
<1>1. FailedRow(i) \in Run /\ SameRun(FailedRow(i), runs[i])
  BY RowType DEF FailedRow, Run, SameRun, Ended
<1>2. runs' = [runs EXCEPT ![i] = FailedRow(i)]
  BY RowType DEF NodeFailed, FailedRow
<1> QED  BY <1>1, <1>2, WrittenRow

LEMMA CallsItselfStep ==
  ASSUME Shape, NEW e \in Executors, CallsItself(e)
  PROVE  /\ RowsStep /\ Len(runs') = Len(runs) /\ exec[e] # << >>
         /\ \A j \in Ids : runs'[j] = IF j = This(e) THEN FailedRow(j) ELSE runs[j]
         /\ StackStep(e, Len(exec[e]), [Top(e) EXCEPT !.place = "over", !.status = "failed"])
<1>1. exec[e] # << >> /\ exec' = Over(e, "failed") /\ NodeFailed(This(e))
  BY DEF CallsItself, AtPlace
<1>2. StackStep(e, Len(exec[e]), [Top(e) EXCEPT !.place = "over", !.status = "failed"])
  BY <1>1, OverStep DEF Ended
<1> QED  BY <1>1, <1>2, TopOf, FailedStep

\* The row of a run that starts another without waiting for it.
DoneRow(i) == [runs[i] EXCEPT !.sub = "succeeded"]

LEMMA DueChild ==
  ASSUME Shape, NEW e \in Executors, NEW mode \in {"inline", "async"}, IsDue(e, mode)
  PROVE  /\ exec[e] # << >> /\ Top(e).place = "sub" /\ Child(e) \in Run
         /\ Child(e).parent = This(e) /\ Child(e).seen = 0 /\ Child(e).gate = "pending"
         /\ Child(e).how = mode /\ Child(e).status = "queued" /\ Child(e).cand = NoCandidate
         /\ Child(e).parent \in 0..Len(runs) /\ Child(e).seen \in 0..Len(runs)
<1>1. exec[e] # << >> /\ Top(e).place = "sub" /\ Call(e).mode = mode
  BY DEF IsDue, AtPlace
<1>2. Call(e) # NoCall
  BY <1>1, TopOf DEF Shape, StackInv, Call
<1>3. Call(e) \in [to : Pipelines, mode : {"inline", "async"}]
  BY <1>1, <1>2, TopOf, AdmissionAssumption DEF Call
<1>4. Call(e).to \in Pipelines
  BY <1>3
<1>5. This(e) \in 1..Len(runs) /\ Len(runs) \in Nat /\ This(e) \in Nat
  BY <1>1, TopOf, RowType DEF Ids
<1>6. Child(e) \in Run
  BY <1>1, <1>4, <1>5 DEF Child, NewRun, Run, InFlightStatuses
<1>7. /\ Child(e).parent = This(e) /\ Child(e).seen = 0 /\ Child(e).gate = "pending"
      /\ Child(e).how = mode /\ Child(e).status = "queued" /\ Child(e).cand = NoCandidate
  BY <1>1 DEF Child, NewRun
<1> QED  BY <1>1, <1>5, <1>6, <1>7

LEMMA FireStep ==
  ASSUME Shape, NEW e \in Executors, Fire(e)
  PROVE  /\ RowsStep /\ Len(runs') = Len(runs) + 1 /\ runs'[Len(runs) + 1] = Child(e)
         /\ Child(e).how = "async" /\ Child(e).parent = This(e) /\ Child(e).seen = 0
         /\ Child(e).cand = NoCandidate
         /\ exec[e] # << >> /\ Top(e).place = "sub"
         /\ \A j \in Ids : runs'[j] = IF j = This(e) THEN DoneRow(j) ELSE runs[j]
         /\ StackStep(e, Len(exec[e]), [Top(e) EXCEPT !.place = "gate", !.sub = "succeeded"])
<1> DEFINE f == [Top(e) EXCEPT !.place = "gate", !.sub = "succeeded"]
<1>1. IsDue(e, "async") /\ exec' = Moved(e, f)
  BY DEF Fire, GoesOn
<1>2. /\ exec[e] # << >> /\ Top(e).place = "sub" /\ Child(e) \in Run /\ Child(e).how = "async"
      /\ Child(e).parent = This(e) /\ Child(e).seen = 0 /\ Child(e).gate = "pending"
      /\ Child(e).parent \in 0..Len(runs) /\ Child(e).seen \in 0..Len(runs)
      /\ Child(e).cand = NoCandidate
  BY <1>1, DueChild
<1>3. f \in Frame /\ f.run = This(e) /\ f.place \notin {"inside", "over"}
  BY <1>2, TopOf DEF Frame, SubStatuses
<1>4. StackStep(e, Len(exec[e]), f)
  BY <1>1, <1>2, <1>3, MovedStep
<1> HIDE DEF f
<1>5. This(e) \in Ids /\ runs[This(e)] \in Run
  BY <1>2, TopOf
<1>6. DoneRow(This(e)) \in Run /\ SameRun(DoneRow(This(e)), runs[This(e)])
  BY <1>5 DEF DoneRow, Run, SameRun
<1>7. runs' = Append([runs EXCEPT ![This(e)] = DoneRow(This(e))], Child(e))
  BY <1>5, RowType DEF Fire, GoesOn, DoneRow
<1> DEFINE row == DoneRow(This(e))
           new == Child(e)
<1> HIDE DEF row, new
<1>8. /\ RowsStep /\ Len(runs') = Len(runs) + 1 /\ runs'[Len(runs) + 1] = new
      /\ \A j \in Ids : runs'[j] = IF j = This(e) THEN row ELSE runs[j]
  <2>1. /\ new \in Run /\ new.parent \in 0..Len(runs) /\ new.seen \in 0..Len(runs)
        /\ new.gate = "pending"
    BY <1>2 DEF new
  <2>2. /\ row \in Run /\ SameRun(row, runs[This(e)])
        /\ runs' = Append([runs EXCEPT ![This(e)] = row], new)
    BY <1>6, <1>7 DEF row, new
  <2> QED  BY <1>5, <2>1, <2>2, AddedRow
<1>9. \A j \in Ids : runs'[j] = IF j = This(e) THEN DoneRow(j) ELSE runs[j]
  BY <1>8 DEF row
<1> QED  BY <1>2, <1>4, <1>8, <1>9 DEF f, new

\* The child's walk is put on top of its parent's.
PushStep(e) ==
  /\ exec' \in [Executors -> Seq(Frame)]
  /\ \A g \in Executors \ {e} : exec'[g] = exec[g]
  /\ Len(exec'[e]) = Len(exec[e]) + 1
  /\ \A k \in 1..Len(exec[e]) :
       exec'[e][k] = IF k = Len(exec[e]) THEN [Top(e) EXCEPT !.place = "inside"] ELSE exec[e][k]
  /\ exec'[e][Len(exec[e]) + 1] = NewFrame(Len(runs) + 1)

LEMMA CallInlineStep ==
  ASSUME Shape, NEW e \in Executors, CallInline(e)
  PROVE  /\ RowsStep /\ Len(runs') = Len(runs) + 1 /\ runs'[Len(runs) + 1] = Child(e)
         /\ Child(e).how = "inline" /\ Child(e).parent = This(e) /\ Child(e).seen = 0
         /\ Child(e).status = "queued" /\ Child(e).cand = NoCandidate
         /\ exec[e] # << >> /\ Top(e).place = "sub"
         /\ \A j \in Ids : runs'[j] = runs[j]
         /\ PushStep(e)
<1> DEFINE f == [Top(e) EXCEPT !.place = "inside"]
           s == Moved(e, f)[e]
<1>1. /\ IsDue(e, "inline") /\ runs' = Append(runs, Child(e))
      /\ exec' = [exec EXCEPT ![e] = Append(s, NewFrame(Len(runs) + 1))]
  BY DEF CallInline
<1>2. /\ exec[e] # << >> /\ Top(e).place = "sub" /\ Child(e) \in Run /\ Child(e).how = "inline"
      /\ Child(e).parent = This(e) /\ Child(e).seen = 0 /\ Child(e).gate = "pending"
      /\ Child(e).parent \in 0..Len(runs) /\ Child(e).seen \in 0..Len(runs)
      /\ Child(e).status = "queued" /\ Child(e).cand = NoCandidate
  BY <1>1, DueChild
<1>3. f \in Frame
  BY <1>2, TopOf DEF Frame
<1> HIDE DEF f
<1>4. /\ s \in Seq(Frame) /\ Len(s) = Len(exec[e]) /\ Len(s) \in Nat
      /\ \A k \in 1..Len(exec[e]) : s[k] = IF k = Len(exec[e]) THEN f ELSE exec[e][k]
  <2>1. Moved(e, f) \in [Executors -> Seq(Frame)] /\ Len(Moved(e, f)[e]) = Len(exec[e])
    BY <1>2, <1>3, MovedStack
  <2>2. \A k \in 1..Len(exec[e]) :
          Moved(e, f)[e][k] = IF k = Len(exec[e]) THEN f ELSE exec[e][k]
    BY <1>2, <1>3, MovedStack
  <2> QED  BY <1>2, <2>1, <2>2, TopOf
<1>5. Len(runs) + 1 \in Nat
  BY DEF Shape, TypeOK
<1>6. NewFrame(Len(runs) + 1) \in Frame
  BY <1>5 DEF NewFrame, Frame, SubStatuses, InFlightStatuses
<1>7. exec \in [Executors -> Seq(Frame)]
  BY DEF Shape, TypeOK
<1> HIDE DEF s
<1> DEFINE n == NewFrame(Len(runs) + 1)
<1> HIDE DEF n
<1>8. exec' = [exec EXCEPT ![e] = Append(s, n)] /\ n \in Frame
  BY <1>1, <1>6 DEF n
<1>9. /\ Append(s, n) \in Seq(Frame) /\ Len(Append(s, n)) = Len(s) + 1
      /\ \A k \in 1..Len(s) : Append(s, n)[k] = s[k]
      /\ Append(s, n)[Len(s) + 1] = n
  BY <1>4, <1>8
<1>10. /\ exec' \in [Executors -> Seq(Frame)] /\ exec'[e] = Append(s, n)
       /\ \A g \in Executors \ {e} : exec'[g] = exec[g]
  BY <1>7, <1>8, <1>9
<1>11. PushStep(e)
  BY <1>4, <1>9, <1>10 DEF PushStep, n, f
<1>12. RowsStep /\ Len(runs') = Len(runs) + 1 /\ runs'[Len(runs) + 1] = Child(e)
       /\ \A j \in Ids : runs'[j] = runs[j]
  BY <1>1, <1>2, NewRow
<1> QED  BY <1>2, <1>11, <1>12

LEMMA OverIsChild ==
  ASSUME Shape, NEW e \in Executors, AtPlace(e, "over")
  PROVE  exec[e] # << >> /\ Len(exec[e]) # 1
<1>1. exec[e] # << >> /\ Top(e).place = "over"
  BY DEF AtPlace
<1>2. Len(exec[e]) > 1 /\ Len(exec[e]) \in Nat
  <2>1. /\ exec[e] # << >> /\ Top(e) = exec[e][Len(exec[e])] /\ Len(exec[e]) \in Nat
        /\ Len(exec[e]) \in 1..Len(exec[e])
    BY <1>1, TopOf
  <2>2. \A k \in 1..Len(exec[e]) : exec[e][k].place = "over" => k > 1
    BY DEF Shape, StackInv
  <2> QED  BY <1>1, <2>1, <2>2
<1>3. \A n \in Nat : n > 1 => n # 1
  OBVIOUS
<1> QED  BY <1>1, <1>2, <1>3, Zenon

LEMMA ReturnStep ==
  ASSUME Shape, NEW e \in Executors, Return(e)
  PROVE  /\ RowsStep /\ Len(runs') = Len(runs)
         /\ exec[e] # << >> /\ Len(exec[e]) # 1 /\ Top(e).place = "over"
         /\ \/ /\ \A j \in Ids : runs'[j] = IF j = Parent(e).run THEN DoneRow(j) ELSE runs[j]
               /\ StackStep(e, Len(exec[e]) - 1,
                    [Parent(e) EXCEPT !.place = "gate", !.sub = "succeeded"])
            \/ /\ \A j \in Ids : runs'[j] = IF j = Parent(e).run THEN FailedRow(j) ELSE runs[j]
               /\ StackStep(e, Len(exec[e]) - 1,
                    [Parent(e) EXCEPT !.place = "over", !.status = "failed"])
<1>1. exec[e] # << >> /\ Len(exec[e]) # 1 /\ Top(e).place = "over"
  BY OverIsChild DEF Return, AtPlace
<1>2. CASE CountsAsDone(Top(e).status)
  <2> DEFINE f == [Parent(e) EXCEPT !.place = "gate", !.sub = "succeeded"]
             i == Parent(e).run
             row == DoneRow(i)
  <2>1. exec' = Popped(e, f)
    BY <1>2 DEF Return
  <2>2. f \in Frame /\ f.run = Parent(e).run /\ f.place = "gate"
    BY <1>1, BelowTop DEF Frame, SubStatuses
  <2>3. i \in Ids
    BY <1>1, BelowTop
  <2>4. row \in Run /\ SameRun(row, runs[i])
    BY <2>3, RowType DEF DoneRow, Run, SameRun
  <2>5. runs' = [runs EXCEPT ![i] = row]
    BY <1>2, <2>3, RowType DEF Return, DoneRow
  <2> HIDE DEF f, i, row
  <2>6. StackStep(e, Len(exec[e]) - 1, f)
    BY <1>1, <2>1, <2>2, PoppedStep
  <2>7. /\ RowsStep /\ Len(runs') = Len(runs)
        /\ \A j \in Ids : runs'[j] = IF j = i THEN row ELSE runs[j]
    BY <2>3, <2>4, <2>5, WrittenRow
  <2>8. \A j \in Ids : runs'[j] = IF j = Parent(e).run THEN DoneRow(j) ELSE runs[j]
    BY <2>7 DEF i, row
  <2> QED  BY <1>1, <2>6, <2>7, <2>8 DEF f
<1>3. CASE ~CountsAsDone(Top(e).status)
  <2>1. NodeFailed(Parent(e).run) /\ exec' = Unwound(e)
    BY <1>3 DEF Return
  <2>2. Parent(e).run \in Ids
    BY <1>1, BelowTop
  <2>3. StackStep(e, Len(exec[e]) - 1, [Parent(e) EXCEPT !.place = "over", !.status = "failed"])
    BY <1>1, <2>1, UnwoundStep
  <2> QED  BY <1>1, <2>1, <2>2, <2>3, FailedStep
<1> QED  BY <1>2, <1>3

SuspendedRow(e) == [runs[This(e)] EXCEPT !.gate = "suspended", !.sub = Top(e).sub,
                                         !.status = "awaiting_approval"]

LEMMA SuspendStep ==
  ASSUME Shape, NEW e \in Executors, Suspend(e)
  PROVE  /\ RowsStep /\ Len(runs') = Len(runs) /\ exec[e] # << >> /\ Top(e).place = "gate"
         /\ \A j \in Ids : runs'[j] = IF j = This(e) THEN SuspendedRow(e) ELSE runs[j]
         /\ runs[This(e)].of \in Gated
         /\ StackStep(e, Len(exec[e]),
              [Top(e) EXCEPT !.place = "over", !.status = "awaiting_approval"])
<1>1. /\ exec[e] # << >> /\ Top(e).place = "gate" /\ runs[This(e)].of \in Gated
      /\ exec' = Over(e, "awaiting_approval")
  BY DEF Suspend, AtPlace
<1>2. This(e) \in Ids /\ runs[This(e)] \in Run /\ Top(e) \in Frame
  BY <1>1, TopOf
<1>3. SuspendedRow(e) \in Run /\ SameRun(SuspendedRow(e), runs[This(e)])
  BY <1>1, <1>2 DEF SuspendedRow, Run, SameRun, InFlightStatuses, Frame, SubStatuses
<1>4. runs' = [runs EXCEPT ![This(e)] = SuspendedRow(e)]
  BY <1>2, RowType DEF Suspend, SuspendedRow
<1>5. StackStep(e, Len(exec[e]), [Top(e) EXCEPT !.place = "over", !.status = "awaiting_approval"])
  BY <1>1, OverStep DEF InFlightStatuses
<1> QED  BY <1>1, <1>2, <1>3, <1>4, <1>5, WrittenRow

\* The row of a run that ends with status s, and the frame that is left of its walk.
EndedRow(e, s) == [runs[This(e)] EXCEPT !.status = s, !.sub = Top(e).sub]
EndedFrame(e, s) == [Top(e) EXCEPT !.place = "over", !.status = s]

LEMMA FinishStep ==
  ASSUME Shape, NEW e \in Executors, Finish(e)
  PROVE  /\ RowsStep /\ Len(runs') = Len(runs) /\ exec[e] # << >> /\ Top(e).place = "gate"
         /\ \E s \in Ended :
              /\ StackStep(e, Len(exec[e]), EndedFrame(e, s))
              /\ \/ runs' = runs /\ Top(e).status \in Ended
                 \/ \A j \in Ids : runs'[j] = IF j = This(e) THEN EndedRow(e, s) ELSE runs[j]
<1>1. exec[e] # << >> /\ Top(e).place = "gate"
  BY DEF Finish, AtPlace
<1>2. PICK s \in {"succeeded", "failed"} :
        LET keeps == s = "succeeded" /\ Top(e).status \in {"succeeded", "failed"}
        IN  /\ runs' = IF keeps THEN runs
                       ELSE [runs EXCEPT ![This(e)].status = s, ![This(e)].sub = Top(e).sub]
            /\ exec' = Over(e, IF keeps THEN Top(e).status ELSE s)
  BY Zenon DEF Finish
<1>3. This(e) \in Ids /\ runs[This(e)] \in Run /\ Top(e) \in Frame
  BY <1>1, TopOf
<1>4. CASE s = "succeeded" /\ Top(e).status \in {"succeeded", "failed"}
  <2>1. runs' = runs /\ exec' = Over(e, Top(e).status) /\ Top(e).status \in Ended
    BY <1>2, <1>4 DEF Ended
  <2>2. StackStep(e, Len(exec[e]), EndedFrame(e, Top(e).status))
    BY <1>1, <2>1, OverStep DEF EndedFrame
  <2> QED  BY <1>1, <2>1, <2>2, NoNewRow
<1>5. CASE ~(s = "succeeded" /\ Top(e).status \in {"succeeded", "failed"})
  <2>1. /\ runs' = [runs EXCEPT ![This(e)].status = s, ![This(e)].sub = Top(e).sub]
        /\ exec' = Over(e, s) /\ s \in Ended
    BY <1>2, <1>5 DEF Ended
  <2>2. StackStep(e, Len(exec[e]), EndedFrame(e, s))
    BY <1>1, <2>1, OverStep DEF EndedFrame
  <2>3. EndedRow(e, s) \in Run /\ SameRun(EndedRow(e, s), runs[This(e)])
    BY <1>3, <2>1 DEF EndedRow, Run, SameRun, Frame, SubStatuses
  <2>4. runs' = [runs EXCEPT ![This(e)] = EndedRow(e, s)]
    BY <1>3, <2>1, RowType DEF EndedRow
  <2>5. /\ RowsStep /\ Len(runs') = Len(runs)
        /\ \A j \in Ids : runs'[j] = IF j = This(e) THEN EndedRow(e, s) ELSE runs[j]
    BY <1>3, <2>3, <2>4, WrittenRow
  <2> QED  BY <1>1, <2>1, <2>2, <2>5
<1> QED  BY <1>4, <1>5

\* The row of a run whose process ended before it had begun.
NeverBegunRow(i) == [runs[i] EXCEPT !.status = "failed"]

\* What is left is the walk of n, which is over; only its row has changed.
CutStep(e, n, f) ==
  /\ StackStep(e, n, f)
  /\ exec'[e] # << >> => f.place = "over"
  /\ \A j \in Ids :
       \/ runs'[j] = runs[j]
       \/ j = exec[e][n].run /\ (runs'[j] = FailedRow(j) \/ runs'[j] = NeverBegunRow(j))

LEMMA RaiseStep ==
  ASSUME Shape, NEW e \in Executors, Raise(e)
  PROVE  /\ RowsStep /\ Len(runs') = Len(runs) /\ exec[e] # << >> /\ Top(e).place # "over"
         /\ \E n \in 1..Len(exec[e]) : \E f \in Frame : CutStep(e, n, f)
<1>1. exec[e] # << >> /\ Top(e).place # "over"
  BY DEF Raise
<1>2. CASE Len(exec[e]) = 1
  <2>0. This(e) \in Ids /\ runs[This(e)] \in Run /\ Top(e) \in Frame /\ 1 \in 1..Len(exec[e])
        /\ This(e) = exec[e][1].run /\ exec[e][1] \in Frame /\ exec[e][1].place # "inside"
    BY <1>1, <1>2, TopOf DEF Shape, StackInv
  <2>1. /\ runs' = IF runs[This(e)].status = "queued"
                   THEN [runs EXCEPT ![This(e)].status = "failed"] ELSE runs
        /\ exec' = [exec EXCEPT ![e] = << >>]
    BY <1>2 DEF Raise
  <2>2. StackStep(e, 1, exec[e][1])
    BY <1>1, <2>0, <2>1, EmptiedStep
  <2>3. exec'[e] = << >>
    BY <2>1, EmptyStack
  <2>4. NeverBegunRow(This(e)) \in Run /\ SameRun(NeverBegunRow(This(e)), runs[This(e)])
    BY <2>0 DEF NeverBegunRow, Run, SameRun, Ended
  <2>5. runs' = runs \/ runs' = [runs EXCEPT ![This(e)] = NeverBegunRow(This(e))]
    BY <2>0, <2>1, RowType DEF NeverBegunRow
  <2>6. /\ RowsStep /\ Len(runs') = Len(runs)
        /\ \A j \in Ids : runs'[j] = runs[j] \/ (j = This(e) /\ runs'[j] = NeverBegunRow(j))
    <3>1. CASE runs' = runs
      BY <3>1, NoNewRow
    <3>2. CASE runs' = [runs EXCEPT ![This(e)] = NeverBegunRow(This(e))]
      <4> DEFINE i == This(e)
                 row == NeverBegunRow(i)
      <4>1. i \in Ids /\ row \in Run /\ SameRun(row, runs[i]) /\ runs' = [runs EXCEPT ![i] = row]
        BY <2>0, <2>4, <3>2
      <4> HIDE DEF i, row
      <4>2. /\ RowsStep /\ Len(runs') = Len(runs)
            /\ \A j \in Ids : runs'[j] = IF j = i THEN row ELSE runs[j]
        BY <4>1, WrittenRow
      <4> QED  BY <4>2 DEF i, row
    <3> QED  BY <2>5, <3>1, <3>2
  <2>7. CutStep(e, 1, exec[e][1])
    BY <2>0, <2>2, <2>3, <2>6 DEF CutStep
  <2> QED  BY <1>1, <2>0, <2>6, <2>7, Zenon
<1>3. CASE Len(exec[e]) # 1
  <2>1. NodeFailed(Parent(e).run) /\ exec' = Unwound(e)
    BY <1>3 DEF Raise
  <2>2. /\ Parent(e).run \in Ids /\ Len(exec[e]) - 1 \in 1..Len(exec[e]) /\ Len(exec[e]) >= 2
        /\ Len(exec[e]) - 1 < Len(exec[e]) /\ Parent(e) = exec[e][Len(exec[e]) - 1]
    BY <1>1, <1>3, BelowTop, TopOf
  <2> DEFINE f == [Parent(e) EXCEPT !.place = "over", !.status = "failed"]
             n == Len(exec[e]) - 1
  <2>3. f \in Frame /\ f.place = "over"
    BY <1>1, <1>3, BelowTop DEF Frame, Ended
  <2>4. StackStep(e, n, f)
    BY <1>1, <1>3, <2>1, UnwoundStep
  <2>5. /\ RowsStep /\ Len(runs') = Len(runs)
        /\ \A j \in Ids : runs'[j] = IF j = Parent(e).run THEN FailedRow(Parent(e).run) ELSE runs[j]
    BY <2>1, <2>2, FailedStep
  <2> HIDE DEF f, n
  <2>6. n \in 1..Len(exec[e]) /\ n < Len(exec[e]) /\ exec[e][n].run = Parent(e).run
    BY <2>2 DEF n
  <2>7. \A j \in Ids : runs'[j] = runs[j] \/ (j = exec[e][n].run /\ runs'[j] = FailedRow(j))
    BY <2>5, <2>6
  <2>8. CutStep(e, n, f)
    BY <2>3, <2>4, <2>7, Zenon DEF CutStep
  <2> QED  BY <1>1, <2>3, <2>5, <2>6, <2>8, Zenon
<1> QED  BY <1>2, <1>3

-----------------------------------------------------------------------------
(* Type correctness *)

\* A new run's walk is put on an empty stack.
DispatchStep(e, i) ==
  /\ exec[e] = << >> /\ exec' \in [Executors -> Seq(Frame)]
  /\ \A g \in Executors \ {e} : exec'[g] = exec[g]
  /\ Len(exec'[e]) = 1 /\ exec'[e][1] = NewFrame(i)

LEMMA DispatchedStep ==
  ASSUME Shape, NEW i \in Ids, Dispatched(i)
  PROVE  \E e \in Executors : DispatchStep(e, i)
<1>1. PICK e \in Executors : exec[e] = << >> /\ exec' = [exec EXCEPT ![e] = <<NewFrame(i)>>]
  BY DEF Dispatched
<1>2. i \in Nat
  BY DEF Ids, Shape, TypeOK
<1>3. NewFrame(i) \in Frame
  BY <1>2 DEF NewFrame, Frame, SubStatuses, InFlightStatuses
<1> DEFINE n == NewFrame(i)
<1> HIDE DEF n
<1>4. <<n>> \in Seq(Frame) /\ Len(<<n>>) = 1 /\ <<n>>[1] = n
  BY <1>3 DEF n
<1>5. exec' = [exec EXCEPT ![e] = <<n>>] /\ exec \in [Executors -> Seq(Frame)]
  BY <1>1 DEF n, Shape, TypeOK
<1>6. DispatchStep(e, i)
  BY <1>1, <1>4, <1>5 DEF DispatchStep, n
<1> QED  BY <1>6

LEMMA RowsKept ==
  ASSUME Shape, RowsStep
  PROVE  /\ \A i \in Ids : i \in Ids' /\ runs'[i].of = runs[i].of /\ runs'[i].parent = runs[i].parent
         /\ Len(runs') \in Nat /\ Len(runs') >= Len(runs)
<1>1. Len(runs) \in Nat
  BY DEF Shape, TypeOK
<1>2. Len(runs') \in Nat /\ Len(runs') >= Len(runs)
  BY <1>1 DEF RowsStep
<1> QED  BY <1>1, <1>2 DEF RowsStep, SameRun, Ids

\* A frame that stays where it is.
LEMMA FrameKept ==
  ASSUME Shape, RowsStep, NEW g \in Executors, NEW k \in 1..Len(exec[g])
  PROVE  /\ exec[g][k].run \in Ids'
         /\ exec[g][k].place = "inside" <=> k < Len(exec[g])
         /\ exec[g][k].place = "over" => k > 1
         /\ exec[g][k].place = "sub" => Calls[runs'[exec[g][k].run].of] # NoCall
         /\ k > 1 => runs'[exec[g][k].run].parent = exec[g][k - 1].run
<1>1. exec[g][k].run \in Ids
  BY DEF Shape, StackInv
<1>2. /\ exec[g][k].run \in Ids' /\ runs'[exec[g][k].run].of = runs[exec[g][k].run].of
      /\ runs'[exec[g][k].run].parent = runs[exec[g][k].run].parent
  BY <1>1, RowsKept
<1> QED  BY <1>2 DEF Shape, StackInv

\* Each step leaves the stacks in order.
LEMMA StacksSame ==
  ASSUME Shape, RowsStep, exec' = exec
  PROVE  StackInv'
  BY RowsKept, ZenonT(60) DEF Shape, StackInv

LEMMA StacksStep ==
  ASSUME Shape, RowsStep, NEW e \in Executors, NEW n, NEW f, StackStep(e, n, f),
         f.place = "sub" => Calls[runs[f.run].of] # NoCall
  PROVE  StackInv'
<1>1. ASSUME NEW g \in Executors, g # e PROVE exec'[g] = exec[g]
  BY <1>1 DEF StackStep
<1>2. Len(exec[e]) \in Nat /\ n \in 1..Len(exec[e])
  BY DEF Shape, TypeOK, StackStep
<1>3. ASSUME NEW g \in Executors, NEW k \in 1..Len(exec'[g]),
             ~(g = e /\ k = n)
      PROVE  /\ k \in 1..Len(exec[g]) /\ exec'[g][k] = exec[g][k]
             /\ k < Len(exec'[g]) <=> k < Len(exec[g])
  BY <1>1, <1>2, <1>3 DEF StackStep
<1>4. ASSUME e \in Executors, n \in 1..Len(exec'[e])
      PROVE  exec'[e][n] = f /\ Len(exec'[e]) = n /\ (f.place = "over" => n > 1)
  BY <1>4 DEF StackStep
<1>5. ASSUME NEW g \in Executors, NEW k \in 1..Len(exec'[g])
      PROVE  exec'[g][k].run = exec[g][k].run /\ k \in 1..Len(exec[g])
  BY <1>2, <1>3, <1>4, <1>5 DEF StackStep
<1>6. ASSUME NEW g \in Executors, NEW k \in 1..Len(exec'[g])
      PROVE  LET frame == exec'[g][k] IN
             /\ frame.run \in Ids'
             /\ frame.place = "inside" <=> k < Len(exec'[g])
             /\ frame.place = "over" => k > 1
             /\ frame.place = "sub" => Calls[runs'[frame.run].of] # NoCall
  <2>0. exec[g][k].run \in Ids /\ exec'[g][k].run = exec[g][k].run
    BY <1>5, <1>6 DEF Shape, StackInv
  <2>1. exec'[g][k].run \in Ids' /\ runs'[exec'[g][k].run].of = runs[exec[g][k].run].of
    BY <2>0, RowsKept
  <2>2. CASE g = e /\ k = n
    <3>1. exec'[g][k] = f /\ Len(exec'[g]) = k /\ (f.place = "over" => k > 1) /\ f.place # "inside"
      BY <1>4, <1>6, <2>2 DEF StackStep
    <3>2. ~(k < Len(exec'[g]))
      BY <1>2, <2>2, <3>1
    <3> QED  BY <2>0, <2>1, <3>1, <3>2
  <2>3. CASE ~(g = e /\ k = n)
    <3>1. /\ k \in 1..Len(exec[g]) /\ exec'[g][k] = exec[g][k]
          /\ k < Len(exec'[g]) <=> k < Len(exec[g])
      BY <1>3, <1>6, <2>3
    <3> QED  BY <2>0, <2>1, <3>1 DEF Shape, StackInv
  <2> QED  BY <2>2, <2>3
<1>7. ASSUME NEW g \in Executors, NEW k \in 1..Len(exec'[g]), k > 1
      PROVE  runs'[exec'[g][k].run].parent = exec'[g][k - 1].run
  <2>1. Len(exec'[g]) \in Nat
    BY DEF StackStep
  <2>2. k - 1 \in 1..Len(exec'[g])
    BY <1>7, <2>1
  <2>3. /\ exec'[g][k].run = exec[g][k].run /\ exec'[g][k - 1].run = exec[g][k - 1].run
        /\ k \in 1..Len(exec[g])
    BY <1>5, <2>2
  <2>4. exec[g][k].run \in Ids /\ runs[exec[g][k].run].parent = exec[g][k - 1].run
    BY <1>7, <2>3 DEF Shape, StackInv
  <2> QED  BY <2>3, <2>4, RowsKept
<1> QED  BY <1>6, <1>7 DEF StackInv

LEMMA StacksPushed ==
  ASSUME Shape, NEW e \in Executors, CallInline(e)
  PROVE  StackInv'
<1>1. /\ RowsStep /\ Len(runs') = Len(runs) + 1 /\ runs'[Len(runs) + 1].parent = This(e)
      /\ exec[e] # << >> /\ PushStep(e)
  BY CallInlineStep
<1>2. /\ Len(exec[e]) \in Nat \ {0} /\ This(e) \in Ids /\ This(e) = exec[e][Len(exec[e])].run
      /\ Top(e) \in Frame /\ Top(e).run = This(e) /\ Len(runs) \in Nat
  BY <1>1, TopOf, RowType
<1> DEFINE m == Len(exec[e])
           f == [Top(e) EXCEPT !.place = "inside"]
           n == NewFrame(Len(runs) + 1)
<1>3. f.run = This(e) /\ f.place = "inside" /\ n.run = Len(runs) + 1 /\ n.place = "load"
  BY <1>2 DEF Frame, NewFrame
<1>4. /\ Len(exec'[e]) = m + 1 /\ exec'[e][m] = f /\ exec'[e][m + 1] = n
      /\ \A k \in 1..m : k # m => exec'[e][k] = exec[e][k]
  <2>1. m \in 1..Len(exec[e])
    BY <1>2
  <2> QED  BY <1>1, <2>1 DEF PushStep
<1>5. \A g \in Executors \ {e} : exec'[g] = exec[g]
  BY <1>1 DEF PushStep
<1> HIDE DEF m, f, n
<1>6. m \in Nat \ {0} /\ m = Len(exec[e]) /\ f.run = exec[e][m].run
  BY <1>2, <1>3 DEF m
<1>7. Len(runs) + 1 \in Ids'
  BY <1>1, <1>2 DEF Ids
<1>8. ASSUME NEW g \in Executors, NEW k \in 1..Len(exec'[g])
      PROVE  LET frame == exec'[g][k] IN
             /\ frame.run \in Ids'
             /\ frame.place = "inside" <=> k < Len(exec'[g])
             /\ frame.place = "over" => k > 1
             /\ frame.place = "sub" => Calls[runs'[frame.run].of] # NoCall
             /\ k > 1 => runs'[frame.run].parent = exec'[g][k - 1].run
  <2>1. CASE g # e
    <3>1. exec'[g] = exec[g]
      BY <1>5, <2>1
    <3> QED  BY <1>1, <1>8, <3>1, FrameKept
  <2>2. CASE g = e /\ k = m + 1
    <3>1. exec'[g][k] = n /\ k - 1 = m /\ exec'[g][k - 1] = f /\ Len(exec'[g]) = k
      BY <1>4, <1>6, <2>2
    <3>2. ~(k < Len(exec'[g]))
      BY <1>6, <2>2, <3>1
    <3> QED  BY <1>1, <1>3, <1>7, <3>1, <3>2
  <2>3. CASE g = e /\ k = m
    <3>1. exec'[g][k] = f /\ Len(exec'[g]) = m + 1 /\ k < Len(exec'[g]) /\ f.run \in Ids
      BY <1>2, <1>3, <1>4, <1>6, <2>3
    <3>2. ASSUME k > 1 PROVE runs'[f.run].parent = exec'[g][k - 1].run
      <4>1. k - 1 \in 1..m /\ k - 1 # m /\ k \in 1..m
        BY <1>6, <2>3, <3>2
      <4>2. exec'[e][k - 1] = exec[e][k - 1]
        BY <1>4, <4>1
      <4>3. runs[exec[e][k].run].parent = exec[e][k - 1].run
        BY <1>6, <3>2, <4>1 DEF Shape, StackInv
      <4> QED  BY <1>1, <1>6, <2>3, <3>1, <4>2, <4>3, RowsKept
    <3> QED  BY <1>1, <1>3, <3>1, <3>2, RowsKept
  <2>4. CASE g = e /\ k # m /\ k # m + 1
    <3>1. k \in 1..m /\ k < m
      BY <1>4, <1>6, <1>8, <2>4
    <3>2. exec'[g][k] = exec[e][k] /\ k < Len(exec'[g]) /\ k < Len(exec[e])
      BY <1>4, <1>6, <2>4, <3>1
    <3>3. ASSUME k > 1 PROVE exec'[g][k - 1] = exec[e][k - 1]
      <4>1. k - 1 \in 1..m /\ k - 1 # m
        BY <1>6, <3>1, <3>3
      <4> QED  BY <1>4, <2>4, <4>1
    <3>4. k \in 1..Len(exec[e])
      BY <1>6, <3>1
    <3> QED  BY <1>1, <2>4, <3>2, <3>3, <3>4, FrameKept
  <2> QED  BY <2>1, <2>2, <2>3, <2>4
<1> QED  BY <1>8 DEF StackInv

LEMMA StacksDispatched ==
  ASSUME Shape, RowsStep, NEW i \in Ids, NEW e \in Executors, DispatchStep(e, i)
  PROVE  StackInv'
<1>1. ASSUME NEW g \in Executors, g # e, NEW k \in 1..Len(exec'[g])
      PROVE  exec'[g] = exec[g] /\ k \in 1..Len(exec[g])
  BY <1>1 DEF DispatchStep
<1>2. ASSUME NEW k \in 1..Len(exec'[e])
      PROVE  /\ k = 1 /\ Len(exec'[e]) = 1
             /\ exec'[e][k].run = i /\ exec'[e][k].place = "load"
  BY <1>2 DEF DispatchStep, NewFrame
<1>3. i \in Ids'
  BY RowsKept
<1>4. ASSUME NEW g \in Executors, NEW k \in 1..Len(exec'[g])
      PROVE  LET frame == exec'[g][k] IN
             /\ frame.run \in Ids'
             /\ frame.place = "inside" <=> k < Len(exec'[g])
             /\ frame.place = "over" => k > 1
             /\ frame.place = "sub" => Calls[runs'[frame.run].of] # NoCall
             /\ k > 1 => runs'[frame.run].parent = exec'[g][k - 1].run
  <2>1. CASE g # e
    BY <1>1, <1>4, <2>1, FrameKept
  <2>2. CASE g = e
    BY <1>2, <1>3, <1>4, <2>2
  <2> QED  BY <2>1, <2>2
<1> QED  BY <1>4 DEF StackInv

LEMMA StacksCut ==
  ASSUME Shape, RowsStep, \A e \in Executors : exec'[e] = exec[e] \/ exec'[e] = << >>
  PROVE  StackInv'
<1>1. ASSUME NEW g \in Executors, NEW k \in 1..Len(exec'[g])
      PROVE  exec'[g] = exec[g] /\ k \in 1..Len(exec[g])
  BY <1>1
<1>2. ASSUME NEW g \in Executors, NEW k \in 1..Len(exec'[g])
      PROVE  LET frame == exec'[g][k] IN
             /\ frame.run \in Ids'
             /\ frame.place = "inside" <=> k < Len(exec'[g])
             /\ frame.place = "over" => k > 1
             /\ frame.place = "sub" => Calls[runs'[frame.run].of] # NoCall
             /\ k > 1 => runs'[frame.run].parent = exec'[g][k - 1].run
  BY <1>1, <1>2, FrameKept, SMTT(30)
<1> QED  BY <1>2 DEF StackInv

\* What has to be shown of a step.
LEMMA ShapeFrom ==
  ASSUME Shape, RowsStep, StackInv', exec' \in [Executors -> Seq(Frame)],
         candidates' \in [Candidates -> {"open", "initiated"}],
         req' \in [Handlers -> Request],
         \A h \in Handlers : (At(h, "dispatch"))' => (req[h].run)' \in 1..Len(runs'),
         \A h \in Handlers : (At(h, "admitted"))' => (req[h].seen)' <= Len(runs'),
         web'.pc \in {"up", "sweeping", "recovering"}, web'.todo \subseteq Ids,
         web' = [pc |-> web'.pc, todo |-> web'.todo],
         disturbed' \subseteq Ids, faults' \in 0..MaxFaults
  PROVE  Shape'
<1>1. Ids \subseteq Ids' /\ Len(runs) \in Nat /\ Len(runs') \in Nat
  BY RowsKept, RowType DEF Shape, TypeOK
<1>2. web' \in [pc : {"up", "sweeping", "recovering"}, todo : SUBSET Ids']
  <2>1. web'.todo \in SUBSET Ids'
    BY <1>1
  <2> DEFINE p == web'.pc
             t == web'.todo
  <2> HIDE DEF p, t
  <2>2. p \in {"up", "sweeping", "recovering"} /\ t \in SUBSET Ids' /\ web' = [pc |-> p, todo |-> t]
    BY <2>1 DEF p, t
  <2> QED  BY <2>2
<1>3. TypeOK'
  BY <1>1, <1>2 DEF TypeOK, RowsStep
<1>4. \A i \in Ids' : /\ runs'[i].parent < i /\ runs'[i].seen < i
                      /\ runs'[i].gate # "pending" => runs'[i].of \in Gated
  BY DEF RowsStep, SameRun, Shape, KnownInv, Ids
<1>5. KnownInv'
  BY <1>4 DEF KnownInv, Ids
<1> QED  BY <1>3, <1>5 DEF Shape

LEMMA WalkShape ==
  ASSUME Shape, RowsStep, StackInv', exec' \in [Executors -> Seq(Frame)],
         UNCHANGED <<candidates, req, web, disturbed>>, faults' \in 0..MaxFaults
  PROVE  Shape'
<1>1. Len(runs) \in Nat /\ Len(runs') \in Nat /\ Len(runs') >= Len(runs)
  BY RowsKept DEF Shape, TypeOK
<1>2. /\ \A h \in Handlers : (At(h, "dispatch"))' => (req[h].run)' \in 1..Len(runs')
      /\ \A h \in Handlers : (At(h, "admitted"))' => (req[h].seen)' <= Len(runs')
  <2>1. ASSUME NEW h \in Handlers, At(h, "dispatch") PROVE req[h].run \in 1..Len(runs')
    BY <1>1, <2>1 DEF Shape, KnownInv, Ids
  <2>2. ASSUME NEW h \in Handlers, At(h, "admitted") PROVE req[h].seen <= Len(runs')
    <3>1. req[h].pc = "admitted" /\ req[h] \in Request
      BY <2>2 DEF At, Shape, TypeOK
    <3>2. req[h].seen \in Nat
      BY <3>1 DEF Request, Idle
    <3>3. req[h].seen <= Len(runs)
      BY <2>2 DEF Shape, KnownInv
    <3> QED  BY <1>1, <3>2, <3>3
  <2> QED  BY <2>1, <2>2 DEF At
<1>3. /\ web'.pc \in {"up", "sweeping", "recovering"} /\ web'.todo \subseteq Ids
      /\ web' = [pc |-> web'.pc, todo |-> web'.todo] /\ disturbed' \subseteq Ids
      /\ candidates' \in [Candidates -> {"open", "initiated"}] /\ req' \in [Handlers -> Request]
  BY DEF Shape, TypeOK
<1> QED  BY <1>2, <1>3, ShapeFrom

LEMMA ShapeInit == Init => Shape
<1> SUFFICES ASSUME Init PROVE Shape
  OBVIOUS
<1>1. Len(runs) = 0 /\ runs \in Seq(Run)
  BY DEF Init
<1>2. exec \in [Executors -> Seq(Frame)] /\ \A e \in Executors : Len(exec[e]) = 0
  BY DEF Init
<1>3. req \in [Handlers -> Request] /\ \A h \in Handlers : ~At(h, "dispatch") /\ ~At(h, "admitted")
  BY DEF Init, Request, Idle, At
<1>4. TypeOK
  BY <1>1, <1>2, <1>3, AdmissionAssumption DEF Init, TypeOK
<1>5. KnownInv
  BY <1>1, <1>3 DEF KnownInv, Ids
<1>6. StackInv
  BY <1>2 DEF StackInv
<1> QED  BY <1>4, <1>5, <1>6 DEF Shape

LEMMA ShapeWalk ==
  ASSUME Shape, NEW e \in Executors, Walk(e) \/ Kill(e) \/ Raise(e)
  PROVE  Shape'
<1>0. faults \in 0..MaxFaults /\ (Fault => faults' \in 0..MaxFaults)
  BY AdmissionAssumption DEF Shape, TypeOK, Fault
<1>1. ASSUME RowsStep, UNCHANGED <<candidates, req, web, disturbed>>, faults' \in 0..MaxFaults,
             NEW n, NEW f, StackStep(e, n, f), f.place # "sub"
      PROVE  Shape'
  BY <1>1, StacksStep, WalkShape DEF StackStep
<1>2. CASE Load(e)
  <2> DEFINE f == [Top(e) EXCEPT !.place = "begin", !.status = runs[This(e)].status,
                                 !.sub = runs[This(e)].sub]
  <2>1. RowsStep /\ StackStep(e, Len(exec[e]), f) /\ exec[e] # << >>
    BY <1>2, LoadStep
  <2>2. f.place = "begin"
    BY <2>1, TopOf DEF Frame
  <2> HIDE DEF f
  <2> QED  BY <1>0, <1>1, <1>2, <2>1, <2>2 DEF Load
<1>3. CASE Begin(e)
  <2>1. RowsStep /\ StackStep(e, Len(exec[e]), BegunFrame(e)) /\ exec[e] # << >>
    BY <1>3, BeginStep
  <2>2. /\ BegunFrame(e).run = This(e)
        /\ BegunFrame(e).place = "sub" => Calls[runs[This(e)].of] # NoCall
    BY <2>1, TopOf DEF BegunFrame, Pending, Call, Frame
  <2>3. StackInv' /\ exec' \in [Executors -> Seq(Frame)]
    <3>1. BegunFrame(e).place = "sub" => Calls[runs[BegunFrame(e).run].of] # NoCall
      BY <2>2
    <3>2. StackInv'
      BY <2>1, <3>1, StacksStep
    <3> QED  BY <2>1, <3>2 DEF StackStep
  <2> QED  BY <1>0, <1>3, <2>1, <2>3, WalkShape DEF Begin
<1>4. CASE CallsItself(e)
  <2> DEFINE f == [Top(e) EXCEPT !.place = "over", !.status = "failed"]
  <2>1. RowsStep /\ StackStep(e, Len(exec[e]), f) /\ exec[e] # << >>
    BY <1>4, CallsItselfStep
  <2>2. f.place = "over"
    BY <2>1, TopOf DEF Frame
  <2> HIDE DEF f
  <2> QED  BY <1>0, <1>1, <1>4, <2>1, <2>2 DEF CallsItself
<1>5. CASE CallInline(e)
  <2>1. RowsStep /\ PushStep(e) /\ StackInv'
    BY <1>5, CallInlineStep, StacksPushed
  <2> QED  BY <1>0, <1>5, <2>1, WalkShape DEF CallInline, PushStep
<1>6. CASE Fire(e)
  <2> DEFINE f == [Top(e) EXCEPT !.place = "gate", !.sub = "succeeded"]
  <2>1. RowsStep /\ StackStep(e, Len(exec[e]), f) /\ exec[e] # << >>
    BY <1>6, FireStep
  <2>2. f.place = "gate"
    BY <2>1, TopOf DEF Frame
  <2> HIDE DEF f
  <2> QED  BY <1>0, <1>1, <1>6, <2>1, <2>2 DEF Fire, GoesOn
<1>7. CASE Return(e)
  <2> DEFINE f == [Parent(e) EXCEPT !.place = "gate", !.sub = "succeeded"]
             g == [Parent(e) EXCEPT !.place = "over", !.status = "failed"]
  <2>1. /\ RowsStep /\ exec[e] # << >> /\ Len(exec[e]) # 1
        /\ StackStep(e, Len(exec[e]) - 1, f) \/ StackStep(e, Len(exec[e]) - 1, g)
    BY <1>7, ReturnStep
  <2>2. f.place = "gate" /\ g.place = "over"
    BY <2>1, BelowTop DEF Frame
  <2> HIDE DEF f, g
  <2> QED  BY <1>0, <1>1, <1>7, <2>1, <2>2 DEF Return
<1>8. CASE Suspend(e)
  <2> DEFINE f == [Top(e) EXCEPT !.place = "over", !.status = "awaiting_approval"]
  <2>1. RowsStep /\ StackStep(e, Len(exec[e]), f) /\ exec[e] # << >>
    BY <1>8, SuspendStep
  <2>2. f.place = "over"
    BY <2>1, TopOf DEF Frame
  <2> HIDE DEF f
  <2> QED  BY <1>0, <1>1, <1>8, <2>1, <2>2 DEF Suspend
<1>9. CASE Finish(e)
  <2>1. RowsStep /\ exec[e] # << >>
    BY <1>9, FinishStep
  <2>2. PICK s \in Ended : StackStep(e, Len(exec[e]), EndedFrame(e, s))
    BY <1>9, FinishStep
  <2>3. EndedFrame(e, s).place = "over"
    BY <2>1, TopOf DEF Frame, EndedFrame
  <2> QED  BY <1>0, <1>1, <1>9, <2>1, <2>2, <2>3 DEF Finish
<1>10. CASE Kill(e)
  <2>1. /\ \A g \in Executors : exec'[g] = exec[g] \/ exec'[g] = << >>
        /\ exec' \in [Executors -> Seq(Frame)] /\ RowsStep
    BY <1>10, NoNewRow, EmptyStack DEF Kill
  <2>2. StackInv'
    BY <2>1, StacksCut
  <2> QED  BY <1>0, <1>10, <2>1, <2>2, WalkShape DEF Kill
<1>11. CASE Raise(e)
  <2>1. RowsStep
    BY <1>11, RaiseStep
  <2>2. PICK n \in 1..Len(exec[e]), f \in Frame : CutStep(e, n, f)
    BY <1>11, RaiseStep
  <2>3. StackInv' /\ exec' \in [Executors -> Seq(Frame)]
    <3>1. StackStep(e, n, f)
      BY <2>2 DEF CutStep
    <3>2. CASE f.place = "over"
      BY <2>1, <3>1, <3>2, StacksStep DEF StackStep
    <3>3. CASE exec'[e] = << >>
      <4>1. /\ \A g \in Executors : exec'[g] = exec[g] \/ exec'[g] = << >>
            /\ exec' \in [Executors -> Seq(Frame)]
        BY <3>1, <3>3 DEF StackStep
      <4> QED  BY <2>1, <4>1, StacksCut
    <3> QED  BY <2>2, <3>2, <3>3 DEF CutStep
  <2> QED  BY <1>0, <1>11, <2>1, <2>3, WalkShape DEF Raise
<1> QED  BY <1>2, <1>3, <1>4, <1>5, <1>6, <1>7, <1>8, <1>9, <1>10, <1>11 DEF Walk

\* What a request may become.
LEMMA RequestType ==
  /\ Idle \in Request
  /\ \A p \in Pipelines, n \in Nat : [pc |-> "admitted", of |-> p, seen |-> n] \in Request
  /\ \A c \in Candidates : [pc |-> "initiating", cand |-> c] \in Request
  /\ \A c \in Candidates : [pc |-> "initiated", cand |-> c] \in Request
  /\ \A i \in Nat : [pc |-> "dispatch", run |-> i] \in Request
  BY DEF Request

LEMMA RequestShape ==
  ASSUME Shape, NEW h \in Handlers
  PROVE  /\ At(h, "admitted") => req[h].of \in Pipelines /\ req[h].seen \in 0..Len(runs)
         /\ At(h, "initiating") => /\ req[h].cand \in Candidates
                                  /\ req[h] = [pc |-> "initiating", cand |-> req[h].cand]
         /\ At(h, "initiated") => req[h].cand \in Candidates
         /\ At(h, "dispatch") => req[h].run \in Ids
<1>1. req[h] \in Request /\ Len(runs) \in Nat
  BY DEF Shape, TypeOK
<1>2. At(h, "admitted") => req[h].of \in Pipelines /\ req[h].seen \in Nat
  BY <1>1 DEF At, Request, Idle
<1>3. At(h, "initiating") => req[h] \in [pc : {"initiating", "initiated"}, cand : Candidates]
  BY <1>1 DEF At, Request, Idle
<1>4. At(h, "initiated") => req[h].cand \in Candidates
  BY <1>1 DEF At, Request, Idle
<1>5. At(h, "admitted") => req[h].seen <= Len(runs)
  BY DEF Shape, KnownInv
<1>6. At(h, "dispatch") => req[h].run \in Ids
  BY DEF Shape, KnownInv
<1> QED  BY <1>1, <1>2, <1>3, <1>4, <1>5, <1>6 DEF At

\* A request that becomes x, while the stacks stay or one of them gets a new run's walk.
LEMMA HandlerShape ==
  ASSUME Shape, RowsStep, StackInv', exec' \in [Executors -> Seq(Frame)],
         NEW h \in Handlers, NEW x \in Request, req' = [req EXCEPT ![h] = x],
         x.pc = "dispatch" => x.run \in 1..Len(runs'),
         x.pc = "admitted" => x.seen <= Len(runs'),
         candidates' \in [Candidates -> {"open", "initiated"}],
         disturbed' \subseteq Ids, web' = web, faults' \in 0..MaxFaults
  PROVE  Shape'
<1>1. Len(runs) \in Nat /\ Len(runs') \in Nat /\ Len(runs') >= Len(runs)
  BY RowsKept DEF Shape, TypeOK
<1>2. /\ req' \in [Handlers -> Request]
      /\ \A g \in Handlers : req'[g] = IF g = h THEN x ELSE req[g]
  BY DEF Shape, TypeOK
<1>3. \A g \in Handlers : (At(g, "dispatch"))' => (req[g].run)' \in 1..Len(runs')
  BY <1>1, <1>2, RequestShape DEF At, Ids
<1>4. \A g \in Handlers : (At(g, "admitted"))' => (req[g].seen)' <= Len(runs')
  <2>1. ASSUME NEW g \in Handlers, g # h, At(g, "admitted") PROVE req[g].seen <= Len(runs')
    <3>1. req[g].seen \in 0..Len(runs)
      BY <2>1, RequestShape
    <3> QED  BY <1>1, <3>1
  <2> QED  BY <1>2, <2>1 DEF At
<1>5. /\ web'.pc \in {"up", "sweeping", "recovering"} /\ web'.todo \subseteq Ids
      /\ web' = [pc |-> web'.pc, todo |-> web'.todo]
  BY DEF Shape, TypeOK
<1> QED  BY <1>2, <1>3, <1>4, <1>5, ShapeFrom

LEMMA NewRunType ==
  ASSUME Shape, NEW p \in Pipelines, NEW how \in {"trigger", "initiation"},
         NEW c \in Candidates \cup {NoCandidate}, NEW n \in 0..Len(runs)
  PROVE  /\ NewRun(p, how, 0, c, n) \in Run /\ NewRun(p, how, 0, c, n).parent = 0
         /\ NewRun(p, how, 0, c, n).of = p /\ NewRun(p, how, 0, c, n).how = how
         /\ NewRun(p, how, 0, c, n).cand = c /\ NewRun(p, how, 0, c, n).seen = n
         /\ NewRun(p, how, 0, c, n).gate = "pending" /\ NewRun(p, how, 0, c, n).status = "queued"
<1>1. n \in Nat
  BY DEF Shape, TypeOK
<1> QED  BY <1>1 DEF NewRun, Run, InFlightStatuses

\* What the actions that create a run do to the rows.
CreatedStep(new) ==
  /\ RowsStep /\ Len(runs') = Len(runs) + 1 /\ runs'[Len(runs) + 1] = new
  /\ \A j \in Ids : runs'[j] = runs[j]

LEMMA CreateStep ==
  ASSUME Shape, NEW h \in Handlers, Create(h)
  PROVE  LET new == NewRun(req[h].of, "trigger", 0, NoCandidate, req[h].seen)
         IN  /\ CreatedStep(new) /\ new.of = req[h].of /\ new.how = "trigger" /\ new.parent = 0
             /\ new.cand = NoCandidate /\ new.seen = req[h].seen
<1>1. At(h, "admitted") /\ req[h].of \in Pipelines /\ req[h].seen \in 0..Len(runs)
  BY RequestShape DEF Create
<1> DEFINE new == NewRun(req[h].of, "trigger", 0, NoCandidate, req[h].seen)
<1>2. /\ new \in Run /\ new.parent = 0 /\ new.seen = req[h].seen /\ new.gate = "pending"
      /\ new.of = req[h].of /\ new.how = "trigger" /\ new.cand = NoCandidate
  <2> DEFINE p == req[h].of
             n == req[h].seen
  <2>1. p \in Pipelines /\ n \in 0..Len(runs) /\ NoCandidate \in Candidates \cup {NoCandidate}
    BY <1>1
  <2> HIDE DEF p, n
  <2>2. LET r == NewRun(p, "trigger", 0, NoCandidate, n)
        IN  /\ r \in Run /\ r.parent = 0 /\ r.seen = n /\ r.gate = "pending"
            /\ r.of = p /\ r.how = "trigger" /\ r.cand = NoCandidate
    BY <2>1, NewRunType
  <2> QED  BY <2>2 DEF p, n
<1>3. runs' = Append(runs, new)
  BY DEF Create
<1>4. 0 \in 0..Len(runs)
  BY DEF Shape, TypeOK
<1> HIDE DEF new
<1>5. CreatedStep(new)
  BY <1>1, <1>2, <1>3, <1>4, NewRow DEF CreatedStep
<1> QED  BY <1>2, <1>5 DEF new

LEMMA DeliveryStep ==
  ASSUME Shape, NEW h \in Handlers, CreateDelivery(h)
  PROVE  LET new == NewRun(Delivery, "initiation", 0, req[h].cand, 0)
         IN  /\ CreatedStep(new) /\ new.how = "initiation" /\ new.parent = 0
             /\ new.cand = req[h].cand /\ new.seen = 0
<1>1. At(h, "initiated") /\ req[h].cand \in Candidates
  BY RequestShape DEF CreateDelivery
<1>4. 0 \in 0..Len(runs)
  BY DEF Shape, TypeOK
<1> DEFINE new == NewRun(Delivery, "initiation", 0, req[h].cand, 0)
<1>2. /\ new \in Run /\ new.parent = 0 /\ new.seen = 0 /\ new.gate = "pending"
      /\ new.how = "initiation" /\ new.cand = req[h].cand
  BY <1>1, <1>4, NewRunType, AdmissionAssumption
<1>3. runs' = Append(runs, new)
  BY DEF CreateDelivery
<1> HIDE DEF new
<1>5. CreatedStep(new)
  BY <1>2, <1>3, <1>4, NewRow DEF CreatedStep
<1> QED  BY <1>2, <1>5 DEF new

LEMMA ShapeServe ==
  ASSUME Shape, NEW h \in Handlers, Serve(h) \/ Proceed(h) \/ SpawnFails(h)
  PROVE  Shape'
<1>0. /\ faults \in 0..MaxFaults /\ (Fault => faults' \in 0..MaxFaults)
      /\ candidates \in [Candidates -> {"open", "initiated"}] /\ disturbed \subseteq Ids
      /\ exec \in [Executors -> Seq(Frame)] /\ Len(runs) \in Nat
  BY AdmissionAssumption DEF Shape, TypeOK, Fault
<1>1. ASSUME RowsStep, exec' = exec, UNCHANGED <<web, disturbed>>, faults' \in 0..MaxFaults,
             candidates' \in [Candidates -> {"open", "initiated"}],
             NEW x \in Request, req' = [req EXCEPT ![h] = x],
             x.pc = "dispatch" => x.run \in 1..Len(runs'), x.pc = "admitted" => x.seen <= Len(runs')
      PROVE  Shape'
  BY <1>0, <1>1, StacksSame, HandlerShape
<1>2. ASSUME NEW p \in Pipelines, Check(h, p) PROVE Shape'
  <2> DEFINE x == [pc |-> "admitted", of |-> p, seen |-> Len(runs)]
  <2>1. x \in Request /\ x.pc = "admitted" /\ x.seen = Len(runs)
    BY <1>0, RequestType
  <2>2. req' = [req EXCEPT ![h] = x] /\ RowsStep /\ Len(runs') = Len(runs) /\ exec' = exec
        /\ UNCHANGED <<web, disturbed, faults, candidates>>
    BY <1>2, NoNewRow DEF Check
  <2> HIDE DEF x
  <2>3. x.seen <= Len(runs') /\ x.pc # "dispatch"
    BY <1>0, <2>1, <2>2
  <2> QED  BY <1>0, <1>1, <2>1, <2>2, <2>3
<1>3. ASSUME NEW c \in Candidates, ReadCandidate(h, c) PROVE Shape'
  <2>1. [pc |-> "initiating", cand |-> c] \in Request
    BY RequestType
  <2> QED  BY <1>0, <1>1, <1>3, <2>1, NoNewRow DEF ReadCandidate
<1>4. ASSUME NEW i \in Ids, Decide(h, i) PROVE Shape'
  <2>1. PICK d \in {"approved", "rejected"} :
          runs' = [runs EXCEPT ![i].gate = d, ![i].status = "running"]
    BY <1>4 DEF Decide
  <2> DEFINE row == [runs[i] EXCEPT !.gate = d, !.status = "running"]
  <2>2. runs' = [runs EXCEPT ![i] = row]
    BY <2>1, RowType
  <2>3. row \in Run /\ SameRun(row, runs[i])
    BY <1>4, RowType DEF Decide, Run, SameRun, InFlightStatuses
  <2> HIDE DEF row
  <2>4. RowsStep /\ Len(runs') = Len(runs)
    BY <2>2, <2>3, WrittenRow
  <2>5. [pc |-> "dispatch", run |-> i] \in Request /\ i \in 1..Len(runs')
    BY <1>0, <2>4, RequestType DEF Ids
  <2> QED  BY <1>0, <1>1, <1>4, <2>4, <2>5 DEF Decide
<1>5. CASE Create(h)
  <2>1. RowsStep /\ Len(runs') = Len(runs) + 1
    BY <1>5, CreateStep DEF CreatedStep
  <2>2. [pc |-> "dispatch", run |-> Len(runs) + 1] \in Request /\ Len(runs) + 1 \in 1..Len(runs')
    BY <1>0, <2>1, RequestType
  <2> QED  BY <1>0, <1>1, <1>5, <2>1, <2>2 DEF Create
<1>6. CASE Initiate(h)
  <2>1. At(h, "initiating") /\ req[h].cand \in Candidates
        /\ req[h] = [pc |-> "initiating", cand |-> req[h].cand]
    BY <1>6, RequestShape DEF Initiate
  <2>2. [pc |-> "initiated", cand |-> req[h].cand] \in Request
    BY <2>1, RequestType
  <2>3. [req[h] EXCEPT !.pc = "initiated"] = [pc |-> "initiated", cand |-> req[h].cand]
    BY <2>1
  <2>4. req' = [req EXCEPT ![h] = [pc |-> "initiated", cand |-> req[h].cand]]
    BY <1>6, <2>3 DEF Initiate, Shape, TypeOK
  <2>5. candidates' \in [Candidates -> {"open", "initiated"}]
    BY <1>0, <1>6, <2>1 DEF Initiate
  <2> QED  BY <1>0, <1>1, <1>6, <2>2, <2>4, <2>5, NoNewRow DEF Initiate
<1>7. CASE CreateDelivery(h)
  <2>1. RowsStep /\ Len(runs') = Len(runs) + 1
    BY <1>7, DeliveryStep DEF CreatedStep
  <2>2. [pc |-> "dispatch", run |-> Len(runs) + 1] \in Request /\ Len(runs) + 1 \in 1..Len(runs')
    BY <1>0, <2>1, RequestType
  <2> QED  BY <1>0, <1>1, <1>7, <2>1, <2>2 DEF CreateDelivery
<1>8. CASE Spawn(h)
  <2>1. req[h].run \in Ids /\ Dispatched(req[h].run) /\ req' = [req EXCEPT ![h] = Idle]
        /\ RowsStep /\ Len(runs') = Len(runs)
    BY <1>8, RequestShape, NoNewRow DEF Spawn
  <2>2. PICK e \in Executors : DispatchStep(e, req[h].run)
    BY <2>1, DispatchedStep
  <2>3. StackInv' /\ exec' \in [Executors -> Seq(Frame)]
    BY <2>1, <2>2, StacksDispatched DEF DispatchStep
  <2>4. disturbed' \subseteq Ids
    BY <1>0, <2>1 DEF Dispatched
  <2>5. Idle \in Request /\ Idle.pc = "idle"
    BY RequestType DEF Idle
  <2> QED  BY <1>0, <1>8, <2>1, <2>3, <2>4, <2>5, HandlerShape DEF Spawn
<1>9. CASE SpawnFails(h)
  <2>1. Idle \in Request /\ Idle.pc = "idle" /\ req' = [req EXCEPT ![h] = Idle]
    BY <1>9, RequestType DEF Idle, SpawnFails
  <2> QED  BY <1>0, <1>1, <1>9, <2>1, NoNewRow DEF SpawnFails
<1> QED  BY <1>2, <1>3, <1>4, <1>5, <1>6, <1>7, <1>8, <1>9 DEF Serve, Proceed

\* A cancelled run, and the runs S that are swept.
LEMMA CancelStep ==
  ASSUME Shape, NEW i \in Ids, Cancel(i)
  PROVE  /\ RowsStep /\ Len(runs') = Len(runs)
         /\ \A j \in Ids : runs'[j] = IF j = i THEN [runs[i] EXCEPT !.status = "cancelled"] ELSE runs[j]
<1> DEFINE row == [runs[i] EXCEPT !.status = "cancelled"]
<1>1. row \in Run /\ SameRun(row, runs[i])
  BY RowType DEF Run, SameRun, Ended
<1>2. runs' = [runs EXCEPT ![i] = row]
  BY RowType DEF Cancel
<1> HIDE DEF row
<1>3. /\ RowsStep /\ Len(runs') = Len(runs)
      /\ \A j \in Ids : runs'[j] = IF j = i THEN row ELSE runs[j]
  BY <1>1, <1>2, WrittenRow
<1> QED  BY <1>3 DEF row

SweptStep(S) ==
  /\ RowsStep /\ Len(runs') = Len(runs) /\ disturbed' = disturbed \cup S
  /\ \A j \in Ids : runs'[j] = IF j \in S THEN [runs[j] EXCEPT !.status = "failed"] ELSE runs[j]
  /\ web' = [pc |-> "recovering",
             todo |-> {j \in Ids \ S : runs[j].status \in {"queued", "running"}}]

LEMMA SweepStep ==
  ASSUME Shape, Sweep
  PROVE  \E S \in SUBSET Ids : SweptStep(S)
<1>1. PICK S \in SUBSET {i \in Ids : runs[i].status = "queued"} :
        /\ runs' = [i \in Ids |-> IF i \in S THEN [runs[i] EXCEPT !.status = "failed"] ELSE runs[i]]
        /\ disturbed' = disturbed \cup S
        /\ web' = [pc |-> "recovering",
                   todo |-> {i \in Ids \ S : runs[i].status \in {"queued", "running"}}]
  BY Zenon DEF Sweep
<1>2. Len(runs) \in Nat /\ \A j \in Ids : runs[j] \in Run
  BY RowType DEF Shape, TypeOK
<1>3. \A j \in Ids : /\ [runs[j] EXCEPT !.status = "failed"] \in Run
                     /\ SameRun([runs[j] EXCEPT !.status = "failed"], runs[j])
                     /\ SameRun(runs[j], runs[j])
  BY <1>2 DEF Run, SameRun, Ended
<1>4. \A j \in Ids : /\ runs'[j] = IF j \in S THEN [runs[j] EXCEPT !.status = "failed"] ELSE runs[j]
                     /\ runs'[j] \in Run /\ SameRun(runs'[j], runs[j])
  BY <1>1, <1>2, <1>3
<1>5. runs' \in Seq(Run) /\ Len(runs') = Len(runs)
  <2>1. runs' \in [1..Len(runs) -> Run]
    BY <1>1, <1>4 DEF Ids
  <2> QED  BY <1>2, <2>1
<1>6. RowsStep
  BY <1>2, <1>4, <1>5, ZenonT(60) DEF RowsStep, Ids
<1>7. S \in SUBSET Ids
  BY <1>1
<1>8. SweptStep(S)
  BY <1>1, <1>4, <1>5, <1>6, ZenonT(60) DEF SweptStep
<1> QED  BY <1>7, <1>8

LEMMA ShapeTrouble ==
  ASSUME Shape, (\E i \in Ids : Cancel(i)) \/ Restart \/ Sweep \/ Recover \/ UNCHANGED vars
  PROVE  Shape'
<1>0. /\ faults \in 0..MaxFaults /\ (Fault => faults' \in 0..MaxFaults)
      /\ candidates \in [Candidates -> {"open", "initiated"}] /\ disturbed \subseteq Ids
      /\ exec \in [Executors -> Seq(Frame)] /\ req \in [Handlers -> Request] /\ Len(runs) \in Nat
      /\ web.pc \in {"up", "sweeping", "recovering"} /\ web.todo \subseteq Ids
      /\ web = [pc |-> web.pc, todo |-> web.todo]
  BY AdmissionAssumption DEF Shape, TypeOK, Fault
<1>1. ASSUME RowsStep, Len(runs') = Len(runs), req' = req, StackInv',
             exec' \in [Executors -> Seq(Frame)], candidates' = candidates, faults' = faults,
             disturbed' \subseteq Ids, web'.pc \in {"up", "sweeping", "recovering"},
             web'.todo \subseteq Ids, web' = [pc |-> web'.pc, todo |-> web'.todo]
      PROVE  Shape'
  <2>1. /\ \A h \in Handlers : (At(h, "dispatch"))' => (req[h].run)' \in 1..Len(runs')
        /\ \A h \in Handlers : (At(h, "admitted"))' => (req[h].seen)' <= Len(runs')
    BY <1>1 DEF Shape, KnownInv, At, Ids
  <2> QED  BY <1>0, <1>1, <2>1, ShapeFrom
<1>2. ASSUME NEW i \in Ids, Cancel(i) PROVE Shape'
  <2>1. RowsStep /\ Len(runs') = Len(runs)
    BY <1>2, CancelStep
  <2>2. disturbed' \subseteq Ids
    BY <1>0, <1>2 DEF Cancel
  <2> QED  BY <1>0, <1>1, <1>2, <2>1, <2>2, StacksSame DEF Cancel
<1>3. CASE Restart
  <2>1. /\ \A e \in Executors : exec'[e] = exec[e] \/ exec'[e] = << >>
        /\ exec' \in [Executors -> Seq(Frame)]
    BY <1>0, <1>3 DEF Restart
  <2>2. RowsStep /\ Len(runs') = Len(runs)
    BY <1>3, NoNewRow DEF Restart
  <2>3. /\ req' \in [Handlers -> Request]
        /\ \A h \in Handlers : ~(At(h, "dispatch"))' /\ ~(At(h, "admitted"))'
    BY <1>3, RequestType DEF Restart, At, Idle
  <2>4. /\ web'.pc \in {"up", "sweeping", "recovering"} /\ web'.todo \subseteq Ids
        /\ web' = [pc |-> web'.pc, todo |-> web'.todo]
    BY <1>3 DEF Restart
  <2>5. StackInv'
    BY <2>1, <2>2, StacksCut
  <2>6. UNCHANGED <<candidates, disturbed>> /\ faults' \in 0..MaxFaults
    BY <1>0, <1>3, ZenonT(60) DEF Restart
  <2> QED  BY <1>0, <2>1, <2>2, <2>3, <2>4, <2>5, <2>6, ShapeFrom
<1>4. CASE Sweep
  <2>1. PICK S \in SUBSET Ids : SweptStep(S)
    BY <1>4, SweepStep
  <2>2. RowsStep /\ Len(runs') = Len(runs) /\ disturbed' \subseteq Ids
    BY <1>0, <2>1 DEF SweptStep
  <2>3. /\ web'.pc \in {"up", "sweeping", "recovering"} /\ web'.todo \subseteq Ids
        /\ web' = [pc |-> web'.pc, todo |-> web'.todo]
    BY <2>1 DEF SweptStep
  <2> QED  BY <1>0, <1>1, <1>4, <2>2, <2>3, StacksSame, ZenonT(60) DEF Sweep
<1>5. CASE Recover
  <2>1. RowsStep /\ Len(runs') = Len(runs) /\ UNCHANGED <<req, candidates, faults>>
    BY <1>5, NoNewRow DEF Recover
  <2>2. CASE web.todo = {}
    <3>1. /\ exec' = exec /\ disturbed' = disturbed /\ web'.pc \in {"up", "sweeping", "recovering"}
          /\ web'.todo \subseteq Ids /\ web' = [pc |-> web'.pc, todo |-> web'.todo]
      BY <1>0, <1>5, <2>2 DEF Recover
    <3> QED  BY <1>0, <1>1, <2>1, <3>1, StacksSame
  <2>3. CASE web.todo # {}
    <3>1. PICK i \in web.todo : Dispatched(i) /\ web' = [web EXCEPT !.todo = @ \ {i}]
      BY <1>5, <2>3 DEF Recover
    <3>2. i \in Ids
      BY <1>0
    <3>3. PICK e \in Executors : DispatchStep(e, i)
      BY <3>1, <3>2, DispatchedStep
    <3>4. StackInv' /\ exec' \in [Executors -> Seq(Frame)]
      BY <2>1, <3>2, <3>3, StacksDispatched DEF DispatchStep
    <3>5. disturbed' \subseteq Ids
      BY <1>0, <3>1, <3>2 DEF Dispatched
    <3>6. /\ web'.pc \in {"up", "sweeping", "recovering"} /\ web'.todo \subseteq Ids
          /\ web' = [pc |-> web'.pc, todo |-> web'.todo]
      BY <1>0, <3>1
    <3> QED  BY <1>1, <2>1, <3>4, <3>5, <3>6
  <2> QED  BY <2>2, <2>3
<1>6. CASE UNCHANGED vars
  BY <1>0, <1>1, <1>6, NoNewRow, StacksSame DEF vars
<1> QED  BY <1>2, <1>3, <1>4, <1>5, <1>6

LEMMA ShapeNext ==
  ASSUME Shape, [Next]_vars
  PROVE  Shape'
<1>1. CASE UNCHANGED vars
  BY <1>1, ShapeTrouble
<1>2. ASSUME NEW h \in Handlers, Serve(h) \/ Proceed(h) \/ SpawnFails(h) PROVE Shape'
  BY <1>2, ShapeServe
<1>3. ASSUME NEW e \in Executors, Walk(e) \/ Kill(e) \/ Raise(e) PROVE Shape'
  BY <1>3, ShapeWalk
<1>4. CASE (\E i \in Ids : Cancel(i)) \/ Restart \/ Sweep \/ Recover
  BY <1>4, ShapeTrouble
<1> QED  BY <1>1, <1>2, <1>3, <1>4 DEF Next

LEMMA ShapeAlways == Spec => []Shape
  BY ShapeInit, ShapeNext, PTL DEF Spec

\* The rows, the requests, the stacks of the processes and the startup keep their shape
\* (models.py:77-123), whatever is killed, raised, cancelled or restarted.
THEOREM TypeCorrect == Spec => []TypeOK
<1>1. Shape => TypeOK
  BY DEF Shape
<1> QED  BY <1>1, ShapeAlways, PTL

-----------------------------------------------------------------------------
(* Who is at work on a run *)

\* A process that walks a run, and is not done with it, has a run that is in flight, and knows.
Attended(frame) ==
  \/ frame.place = "over" \/ frame.run \in disturbed
  \/ InFlight(frame.run) /\ (frame.place # "load" => frame.status \in InFlightStatuses)

AttendedNext(frame) ==
  \/ frame.place = "over" \/ frame.run \in disturbed'
  \/ /\ runs'[frame.run].status \in InFlightStatuses
     /\ frame.place # "load" => frame.status \in InFlightStatuses

\* A run that nobody has disturbed is walked once at a time, and in flight as long as it is.
WalksInv ==
  /\ \A e \in Executors : \A k \in 1..Len(exec[e]) : Attended(exec[e][k])
  /\ \A e, g \in Executors : \A k \in 1..Len(exec[e]), l \in 1..Len(exec[g]) :
       exec[e][k].run = exec[g][l].run => (e = g /\ k = l) \/ exec[e][k].run \in disturbed

\* A run that has ended does not come back, unless somebody disturbs it.
Gone(i) == ~InFlight(i) \/ i \in disturbed
GoneStaysGone == \A i \in Ids : Gone(i) => Gone(i)'

LEMMA WalksStep ==
  ASSUME Shape, WalksInv, RowsStep, NEW e \in Executors, NEW n, NEW f, StackStep(e, n, f),
         exec[e][n].place # "over", disturbed' = disturbed,
         \A j \in Ids : j # f.run => runs'[j] = runs[j],
         exec'[e] # << >> => AttendedNext(f)
  PROVE  WalksInv' /\ GoneStaysGone
<1>1. /\ n \in 1..Len(exec[e]) /\ f.run = exec[e][n].run /\ Len(exec[e]) \in Nat /\ f.run \in Ids
      /\ \A g \in Executors \ {e} : exec'[g] = exec[g]
  BY DEF StackStep, Shape, TypeOK, StackInv
<1>2. ASSUME NEW g \in Executors, NEW k \in 1..Len(exec'[g])
      PROVE  /\ k \in 1..Len(exec[g]) /\ exec'[g][k].run = exec[g][k].run
             /\ exec[g][k].run \in Ids
             /\ \/ g = e /\ k = n /\ exec'[g][k] = f /\ exec'[e] # << >>
                \/ ~(g = e /\ k = n) /\ exec'[g][k] = exec[g][k]
  <2>1. /\ k \in 1..Len(exec[g]) /\ exec'[g][k].run = exec[g][k].run
        /\ \/ g = e /\ k = n /\ exec'[g][k] = f /\ exec'[e] # << >>
           \/ ~(g = e /\ k = n) /\ exec'[g][k] = exec[g][k]
    <3>1. CASE g # e
      BY <1>1, <1>2, <3>1
    <3>2. CASE g = e
      BY <1>1, <1>2, <3>2 DEF StackStep
    <3> QED  BY <3>1, <3>2
  <2> QED  BY <2>1 DEF Shape, StackInv
<1>3. Gone(f.run) => f.run \in disturbed
  BY <1>1 DEF WalksInv, Attended, Gone
<1>4. ASSUME NEW g \in Executors, NEW k \in 1..Len(exec'[g]) PROVE AttendedNext(exec'[g][k])
  <2>1. CASE g = e /\ k = n
    BY <1>2, <1>4, <2>1
  <2>2. CASE ~(g = e /\ k = n) /\ exec[g][k].run = f.run
    <3>1. exec'[g][k] = exec[g][k] /\ k \in 1..Len(exec[g])
      BY <1>2, <1>4, <2>2
    <3>2. f.run \in disturbed
      BY <1>1, <2>2, <3>1 DEF WalksInv
    <3> QED  BY <2>2, <3>1, <3>2 DEF AttendedNext
  <2>3. CASE ~(g = e /\ k = n) /\ exec[g][k].run # f.run
    <3>1. /\ exec'[g][k] = exec[g][k] /\ k \in 1..Len(exec[g])
          /\ runs'[exec[g][k].run] = runs[exec[g][k].run]
      BY <1>2, <1>4, <2>3
    <3>2. Attended(exec[g][k])
      BY <3>1 DEF WalksInv
    <3> QED  BY <3>1, <3>2 DEF Attended, AttendedNext, InFlight
  <2> QED  BY <2>1, <2>2, <2>3
<1>5. ASSUME NEW g \in Executors, NEW h \in Executors,
             NEW k \in 1..Len(exec'[g]), NEW l \in 1..Len(exec'[h]), exec'[g][k].run = exec'[h][l].run
      PROVE  (g = h /\ k = l) \/ exec'[g][k].run \in disturbed'
  <2>1. /\ k \in 1..Len(exec[g]) /\ exec'[g][k].run = exec[g][k].run
        /\ l \in 1..Len(exec[h]) /\ exec'[h][l].run = exec[h][l].run
    BY <1>2, <1>5
  <2>2. exec[g][k].run = exec[h][l].run
    BY <1>5, <2>1
  <2>3. (g = h /\ k = l) \/ exec[g][k].run \in disturbed
    BY <2>1, <2>2 DEF WalksInv
  <2> QED  BY <2>1, <2>3
<1>6. WalksInv'
  BY <1>4, <1>5 DEF WalksInv, Attended, AttendedNext, InFlight
<1>7. GoneStaysGone
  BY <1>3 DEF GoneStaysGone, Gone, InFlight
<1> QED  BY <1>6, <1>7

\* Steps that leave the stacks alone, or cut them.
LEMMA WalksKept ==
  ASSUME Shape, WalksInv, \A e \in Executors : exec'[e] = exec[e] \/ exec'[e] = << >>,
         disturbed \subseteq disturbed',
         \A j \in Ids : j \in disturbed' \/ runs'[j] = runs[j] \/ (InFlight(j) /\ InFlight(j)')
  PROVE  WalksInv' /\ GoneStaysGone
<1>1. ASSUME NEW g \in Executors, NEW k \in 1..Len(exec'[g])
      PROVE  exec'[g] = exec[g] /\ k \in 1..Len(exec[g]) /\ exec[g][k].run \in Ids
  <2>1. exec'[g] = exec[g]
    BY <1>1
  <2> QED  BY <1>1, <2>1 DEF Shape, StackInv
<1>2. ASSUME NEW g \in Executors, NEW k \in 1..Len(exec'[g]) PROVE AttendedNext(exec'[g][k])
  <2>1. Attended(exec[g][k])
    BY <1>1, <1>2 DEF WalksInv
  <2> QED  BY <1>1, <1>2, <2>1 DEF Attended, AttendedNext, InFlight
<1>3. ASSUME NEW g \in Executors, NEW h \in Executors,
             NEW k \in 1..Len(exec'[g]), NEW l \in 1..Len(exec'[h]), exec'[g][k].run = exec'[h][l].run
      PROVE  (g = h /\ k = l) \/ exec'[g][k].run \in disturbed'
  BY <1>1, <1>3 DEF WalksInv
<1>4. WalksInv'
  BY <1>2, <1>3 DEF WalksInv, Attended, AttendedNext, InFlight
<1>5. GoneStaysGone
  BY DEF GoneStaysGone, Gone, InFlight
<1> QED  BY <1>4, <1>5

LEMMA WalksDispatched ==
  ASSUME Shape, WalksInv, NEW i \in Ids, Dispatched(i), runs' = runs
  PROVE  WalksInv' /\ GoneStaysGone
<1>1. PICK e \in Executors : DispatchStep(e, i)
  BY DispatchedStep
<1>2. disturbed \subseteq disturbed' /\ (Walked(i) \/ ~InFlight(i) => i \in disturbed')
  BY DEF Dispatched
<1>3. ASSUME NEW g \in Executors, NEW k \in 1..Len(exec'[g])
      PROVE  \/ /\ g # e /\ exec'[g] = exec[g] /\ k \in 1..Len(exec[g])
             \/ /\ g = e /\ k = 1 /\ exec'[g][k] = NewFrame(i)
                /\ exec'[g][k].run = i /\ exec'[g][k].place = "load"
  <2>1. CASE g # e
    BY <1>1, <1>3, <2>1 DEF DispatchStep
  <2>2. CASE g = e
    <3>1. Len(exec'[e]) = 1 /\ exec'[e][1] = NewFrame(i)
      BY <1>1 DEF DispatchStep
    <3>2. k = 1
      BY <1>3, <2>2, <3>1
    <3> QED  BY <2>2, <3>1, <3>2 DEF NewFrame
  <2> QED  BY <2>1, <2>2
<1>4. ASSUME NEW g \in Executors, NEW k \in 1..Len(exec'[g]) PROVE AttendedNext(exec'[g][k])
  <2>1. CASE g # e /\ exec'[g] = exec[g] /\ k \in 1..Len(exec[g])
    <3>1. Attended(exec[g][k])
      BY <2>1 DEF WalksInv
    <3> QED  BY <1>2, <2>1, <3>1 DEF Attended, AttendedNext, InFlight
  <2>2. CASE exec'[g][k].run = i /\ exec'[g][k].place = "load"
    BY <1>2, <2>2 DEF Attended, AttendedNext, InFlight
  <2> QED  BY <1>3, <1>4, <2>1, <2>2
<1>5. ASSUME NEW g \in Executors, g # e, NEW k \in 1..Len(exec[g]), exec[g][k].run = i
      PROVE  i \in disturbed'
  <2>1. DOMAIN exec[g] = 1..Len(exec[g])
    BY DEF Shape, TypeOK
  <2>2. Walked(i)
    BY <1>5, <2>1 DEF Walked
  <2> QED  BY <1>2, <2>2
<1>6. ASSUME NEW g \in Executors, NEW h \in Executors,
             NEW k \in 1..Len(exec'[g]), NEW l \in 1..Len(exec'[h]), exec'[g][k].run = exec'[h][l].run
      PROVE  (g = h /\ k = l) \/ exec'[g][k].run \in disturbed'
  <2>1. CASE g = e
    BY <1>3, <1>5, <1>6, <2>1
  <2>2. CASE h = e
    BY <1>3, <1>5, <1>6, <2>2
  <2>3. CASE g # e /\ h # e
    BY <1>2, <1>3, <1>6, <2>3 DEF WalksInv
  <2> QED  BY <2>1, <2>2, <2>3
<1>7. WalksInv'
  BY <1>4, <1>6 DEF WalksInv, Attended, AttendedNext, InFlight
<1>8. GoneStaysGone
  BY <1>2 DEF GoneStaysGone, Gone, InFlight
<1> QED  BY <1>7, <1>8

LEMMA WalksPushed ==
  ASSUME Shape, WalksInv, NEW e \in Executors, CallInline(e)
  PROVE  WalksInv' /\ GoneStaysGone
<1>1. /\ RowsStep /\ runs'[Len(runs) + 1].status = "queued" /\ disturbed' = disturbed
      /\ exec[e] # << >> /\ Top(e).place = "sub"
      /\ \A j \in Ids : runs'[j] = runs[j]
      /\ PushStep(e)
  BY CallInlineStep DEF CallInline
<1>2. /\ Len(exec[e]) \in Nat \ {0} /\ Top(e) = exec[e][Len(exec[e])]
      /\ Top(e) \in Frame /\ Len(runs) \in Nat
  BY <1>1, TopOf, RowType
<1> DEFINE m == Len(exec[e])
           f == [Top(e) EXCEPT !.place = "inside"]
           n == NewFrame(Len(runs) + 1)
<1>3. /\ f.run = Top(e).run /\ f.place = "inside" /\ f.status = Top(e).status
      /\ n.run = Len(runs) + 1 /\ n.place = "load"
  BY <1>2 DEF Frame, NewFrame
<1>4. /\ Len(exec'[e]) = m + 1 /\ exec'[e][m + 1] = n
      /\ \A k \in 1..m : exec'[e][k] = IF k = m THEN f ELSE exec[e][k]
      /\ \A g \in Executors \ {e} : exec'[g] = exec[g]
  BY <1>1, <1>2 DEF PushStep
<1> HIDE DEF m, f, n
<1>5. m \in Nat \ {0} /\ m = Len(exec[e]) /\ Len(runs) + 1 \notin Ids
  BY <1>2 DEF m, Ids
<1>6. ASSUME NEW g \in Executors, NEW k \in 1..Len(exec'[g])
      PROVE  \/ g = e /\ k = m + 1 /\ exec'[g][k] = n
             \/ /\ k \in 1..Len(exec[g]) /\ exec[g][k].run \in Ids /\ exec'[g][k].run = exec[g][k].run
                /\ \/ exec'[g][k] = exec[g][k]
                   \/ exec[g][k] = Top(e) /\ exec'[g][k] = f
  <2>1. CASE g # e
    BY <1>4, <1>6, <2>1 DEF Shape, StackInv
  <2>2. CASE g = e /\ k = m + 1
    BY <1>4, <2>2
  <2>3. CASE g = e /\ k # m + 1
    <3>1. k \in 1..m
      BY <1>4, <1>5, <1>6, <2>3
    <3>2. exec[g][k].run \in Ids
      BY <1>5, <2>3, <3>1 DEF Shape, StackInv
    <3> QED  BY <1>2, <1>3, <1>4, <1>5, <2>3, <3>1, <3>2
  <2> QED  BY <2>1, <2>2, <2>3
<1>7. ASSUME NEW g \in Executors, NEW k \in 1..Len(exec'[g]) PROVE AttendedNext(exec'[g][k])
  <2>1. CASE exec'[g][k] = n
    BY <1>1, <1>3, <2>1 DEF AttendedNext, InFlightStatuses
  <2>2. CASE k \in 1..Len(exec[g]) /\ exec[g][k].run \in Ids /\ exec'[g][k] = exec[g][k]
    <3>1. Attended(exec[g][k])
      BY <2>2 DEF WalksInv
    <3> QED  BY <1>1, <2>2, <3>1 DEF Attended, AttendedNext, InFlight
  <2>3. CASE k \in 1..Len(exec[g]) /\ exec[g][k].run \in Ids /\ exec[g][k] = Top(e) /\ exec'[g][k] = f
    <3>1. Attended(Top(e)) /\ Top(e).run \in Ids
      BY <2>3 DEF WalksInv
    <3> QED  BY <1>1, <1>3, <2>3, <3>1 DEF Attended, AttendedNext, InFlight
  <2> QED  BY <1>6, <1>7, <2>1, <2>2, <2>3
<1>8. ASSUME NEW g \in Executors, NEW h \in Executors,
             NEW k \in 1..Len(exec'[g]), NEW l \in 1..Len(exec'[h]), exec'[g][k].run = exec'[h][l].run
      PROVE  (g = h /\ k = l) \/ exec'[g][k].run \in disturbed'
  <2>1. CASE exec'[g][k] = n
    BY <1>3, <1>5, <1>6, <1>8, <2>1, ZenonT(60)
  <2>2. CASE exec'[h][l] = n
    BY <1>3, <1>5, <1>6, <1>8, <2>2, ZenonT(60)
  <2>3. CASE exec'[g][k] # n /\ exec'[h][l] # n
    <3>1. /\ k \in 1..Len(exec[g]) /\ exec'[g][k].run = exec[g][k].run
          /\ l \in 1..Len(exec[h]) /\ exec'[h][l].run = exec[h][l].run
      BY <1>6, <1>8, <2>3
    <3>2. (g = h /\ k = l) \/ exec[g][k].run \in disturbed
      BY <1>8, <3>1 DEF WalksInv
    <3> QED  BY <1>1, <3>1, <3>2
  <2> QED  BY <2>1, <2>2, <2>3
<1>9. WalksInv'
  BY <1>7, <1>8 DEF WalksInv, Attended, AttendedNext, InFlight
<1>10. GoneStaysGone
  BY <1>1 DEF GoneStaysGone, Gone, InFlight
<1> QED  BY <1>9, <1>10

LEMMA WalksWalk ==
  ASSUME Shape, WalksInv, NEW e \in Executors, Walk(e) \/ Kill(e) \/ Raise(e)
  PROVE  WalksInv' /\ GoneStaysGone
<1>0. exec[e] # << >> => /\ Top(e) = exec[e][Len(exec[e])] /\ Len(exec[e]) \in 1..Len(exec[e])
                         /\ Top(e).run = This(e) /\ This(e) \in Ids /\ Top(e) \in Frame
                         /\ Attended(Top(e))
  BY TopOf DEF WalksInv
<1>1. ASSUME exec[e] # << >>, Len(exec[e]) # 1
      PROVE  /\ Parent(e) = exec[e][Len(exec[e]) - 1] /\ Len(exec[e]) - 1 \in 1..Len(exec[e])
             /\ Parent(e).place = "inside" /\ Parent(e) \in Frame /\ Parent(e).run \in Ids
             /\ Attended(Parent(e))
  BY <1>1, BelowTop DEF WalksInv
<1>2. CASE Load(e)
  <2> DEFINE f == [Top(e) EXCEPT !.place = "begin", !.status = runs[This(e)].status,
                                 !.sub = runs[This(e)].sub]
  <2>1. /\ RowsStep /\ runs' = runs /\ exec[e] # << >> /\ StackStep(e, Len(exec[e]), f)
        /\ Top(e).place = "load" /\ disturbed' = disturbed
    BY <1>2, LoadStep DEF Load, AtPlace
  <2>2. f.run = This(e) /\ f.status = runs[This(e)].status
    BY <1>0, <2>1 DEF Frame
  <2> HIDE DEF f
  <2>3. AttendedNext(f)
    BY <1>0, <2>1, <2>2 DEF Attended, AttendedNext, InFlight
  <2> QED  BY <1>0, <2>1, <2>3, WalksStep
<1>3. CASE Begin(e)
  <2>1. /\ RowsStep /\ exec[e] # << >> /\ StackStep(e, Len(exec[e]), BegunFrame(e))
        /\ \A j \in Ids : runs'[j] = IF j = This(e) THEN BegunRow(e) ELSE runs[j]
        /\ Top(e).place = "begin" /\ disturbed' = disturbed
    BY <1>3, BeginStep DEF Begin, AtPlace
  <2>2. BegunFrame(e).run = This(e) /\ BegunFrame(e).status = BegunStatus(e)
    BY <1>0, <2>1 DEF Frame, BegunFrame
  <2>3. BegunRow(e).status = IF LoadedQueued(e) THEN "running" ELSE runs[This(e)].status
    BY <1>0, <2>1, RowType DEF BegunRow, Run
  <2>4. AttendedNext(BegunFrame(e))
    BY <1>0, <2>1, <2>2, <2>3
       DEF Attended, AttendedNext, InFlight, BegunStatus, LoadedQueued, InFlightStatuses
  <2> QED  BY <1>0, <2>1, <2>2, <2>4, WalksStep
<1>4. CASE CallsItself(e)
  <2> DEFINE f == [Top(e) EXCEPT !.place = "over", !.status = "failed"]
  <2>1. /\ RowsStep /\ StackStep(e, Len(exec[e]), f) /\ exec[e] # << >>
        /\ \A j \in Ids : runs'[j] = IF j = This(e) THEN FailedRow(j) ELSE runs[j]
        /\ Top(e).place = "sub" /\ disturbed' = disturbed
    BY <1>4, CallsItselfStep DEF CallsItself, AtPlace
  <2>2. f.run = This(e) /\ f.place = "over"
    BY <1>0, <2>1 DEF Frame
  <2> HIDE DEF f
  <2> QED  BY <1>0, <2>1, <2>2, WalksStep DEF AttendedNext
<1>5. CASE CallInline(e)
  BY <1>5, WalksPushed
<1>6. CASE Fire(e)
  <2> DEFINE f == [Top(e) EXCEPT !.place = "gate", !.sub = "succeeded"]
  <2>1. /\ RowsStep /\ StackStep(e, Len(exec[e]), f) /\ exec[e] # << >>
        /\ \A j \in Ids : runs'[j] = IF j = This(e) THEN DoneRow(j) ELSE runs[j]
        /\ Top(e).place = "sub" /\ disturbed' = disturbed
    BY <1>6, FireStep DEF Fire, GoesOn, IsDue, AtPlace
  <2>2. f.run = This(e) /\ f.status = Top(e).status
    BY <1>0, <2>1 DEF Frame
  <2>3. DoneRow(This(e)).status = runs[This(e)].status
    BY <1>0, <2>1, RowType DEF DoneRow, Run
  <2> HIDE DEF f
  <2>4. AttendedNext(f)
    BY <1>0, <2>1, <2>2, <2>3 DEF Attended, AttendedNext, InFlight
  <2> QED  BY <1>0, <2>1, <2>2, <2>4, WalksStep
<1>7. CASE Return(e)
  <2> DEFINE f == [Parent(e) EXCEPT !.place = "gate", !.sub = "succeeded"]
             g == [Parent(e) EXCEPT !.place = "over", !.status = "failed"]
  <2>1. /\ RowsStep /\ exec[e] # << >> /\ Len(exec[e]) # 1 /\ disturbed' = disturbed
        /\ \/ /\ \A j \in Ids : runs'[j] = IF j = Parent(e).run THEN DoneRow(j) ELSE runs[j]
              /\ StackStep(e, Len(exec[e]) - 1, f)
           \/ /\ \A j \in Ids : runs'[j] = IF j = Parent(e).run THEN FailedRow(j) ELSE runs[j]
              /\ StackStep(e, Len(exec[e]) - 1, g)
    BY <1>7, ReturnStep DEF Return
  <2>2. /\ f.run = Parent(e).run /\ f.status = Parent(e).status
        /\ g.run = Parent(e).run /\ g.place = "over"
    BY <1>1, <2>1 DEF Frame
  <2>3. DoneRow(Parent(e).run).status = runs[Parent(e).run].status
    BY <1>1, <2>1, RowType DEF DoneRow, Run
  <2> HIDE DEF f, g
  <2>4. CASE /\ \A j \in Ids : runs'[j] = IF j = Parent(e).run THEN DoneRow(j) ELSE runs[j]
             /\ StackStep(e, Len(exec[e]) - 1, f)
    <3>1. AttendedNext(f)
      BY <1>1, <2>1, <2>2, <2>3, <2>4 DEF Attended, AttendedNext, InFlight
    <3>2. exec[e][Len(exec[e]) - 1].place # "over" /\ \A j \in Ids : j # f.run => runs'[j] = runs[j]
      BY <1>1, <2>1, <2>2, <2>4
    <3> QED  BY <2>1, <2>4, <3>1, <3>2, WalksStep
  <2>5. CASE /\ \A j \in Ids : runs'[j] = IF j = Parent(e).run THEN FailedRow(j) ELSE runs[j]
             /\ StackStep(e, Len(exec[e]) - 1, g)
    <3>1. AttendedNext(g)
      BY <2>2 DEF AttendedNext
    <3>2. exec[e][Len(exec[e]) - 1].place # "over" /\ \A j \in Ids : j # g.run => runs'[j] = runs[j]
      BY <1>1, <2>1, <2>2, <2>5
    <3> QED  BY <2>1, <2>5, <3>1, <3>2, WalksStep
  <2> QED  BY <2>1, <2>4, <2>5
<1>8. CASE Suspend(e)
  <2> DEFINE f == [Top(e) EXCEPT !.place = "over", !.status = "awaiting_approval"]
  <2>1. /\ RowsStep /\ StackStep(e, Len(exec[e]), f) /\ exec[e] # << >>
        /\ \A j \in Ids : runs'[j] = IF j = This(e) THEN SuspendedRow(e) ELSE runs[j]
        /\ Top(e).place = "gate" /\ disturbed' = disturbed
    BY <1>8, SuspendStep DEF Suspend
  <2>2. f.run = This(e) /\ f.place = "over"
    BY <1>0, <2>1 DEF Frame
  <2> HIDE DEF f
  <2> QED  BY <1>0, <2>1, <2>2, WalksStep DEF AttendedNext
<1>9. CASE Finish(e)
  <2>1. RowsStep /\ exec[e] # << >> /\ Top(e).place = "gate" /\ disturbed' = disturbed
    BY <1>9, FinishStep DEF Finish
  <2>2. PICK s \in Ended :
          /\ StackStep(e, Len(exec[e]), EndedFrame(e, s))
          /\ \/ runs' = runs /\ Top(e).status \in Ended
             \/ \A j \in Ids : runs'[j] = IF j = This(e) THEN EndedRow(e, s) ELSE runs[j]
    BY <1>9, FinishStep
  <2>3. EndedFrame(e, s).place = "over" /\ EndedFrame(e, s).run = This(e)
    BY <1>0, <2>1 DEF Frame, EndedFrame
  <2> QED  BY <1>0, <2>1, <2>2, <2>3, WalksStep DEF AttendedNext
<1>10. CASE Kill(e)
  BY <1>10, WalksKept DEF Kill, Shape, TypeOK
<1>11. CASE Raise(e)
  <2>1. RowsStep /\ exec[e] # << >> /\ Top(e).place # "over" /\ disturbed' = disturbed
    BY <1>11, RaiseStep DEF Raise
  <2>2. PICK n \in 1..Len(exec[e]), f \in Frame : CutStep(e, n, f)
    BY <1>11, RaiseStep
  <2>3. /\ StackStep(e, n, f) /\ f.run = exec[e][n].run /\ (exec'[e] # << >> => f.place = "over")
        /\ \A j \in Ids : j # f.run => runs'[j] = runs[j]
    BY <2>2 DEF CutStep, StackStep
  <2>4. exec[e][n].place # "over"
    <3>1. Len(exec[e]) \in Nat
      BY DEF Shape, TypeOK
    <3>2. CASE n = Len(exec[e])
      BY <1>0, <2>1, <3>2
    <3>3. CASE n < Len(exec[e])
      BY <3>3 DEF Shape, StackInv
    <3> QED  BY <3>1, <3>2, <3>3
  <2> QED  BY <2>1, <2>3, <2>4, WalksStep DEF AttendedNext
<1> QED  BY <1>2, <1>3, <1>4, <1>5, <1>6, <1>7, <1>8, <1>9, <1>10, <1>11 DEF Walk

LEMMA WalksServe ==
  ASSUME Shape, WalksInv, NEW h \in Handlers, Serve(h) \/ Proceed(h) \/ SpawnFails(h)
  PROVE  WalksInv' /\ GoneStaysGone
<1>1. ASSUME exec' = exec, disturbed' = disturbed, \A j \in Ids : runs'[j] = runs[j]
      PROVE  WalksInv' /\ GoneStaysGone
  BY <1>1, WalksKept
<1>2. ASSUME NEW p \in Pipelines, Check(h, p) PROVE WalksInv' /\ GoneStaysGone
  BY <1>1, <1>2 DEF Check
<1>3. ASSUME NEW c \in Candidates, ReadCandidate(h, c) PROVE WalksInv' /\ GoneStaysGone
  BY <1>1, <1>3 DEF ReadCandidate
<1>4. ASSUME NEW i \in Ids, Decide(h, i) PROVE WalksInv' /\ GoneStaysGone
  <2>1. PICK d \in {"approved", "rejected"} :
          runs' = [runs EXCEPT ![i].gate = d, ![i].status = "running"]
    BY <1>4 DEF Decide
  <2>2. \A j \in Ids : /\ j # i => runs'[j] = runs[j]
                       /\ j = i => runs'[j].status = "running" /\ InFlight(j)
    BY <1>4, <2>1, RowType DEF Decide, Run, Ids, InFlight, InFlightStatuses
  <2>3. \A j \in 1..Len(runs) : runs'[j] = runs[j] \/ (InFlight(j) /\ InFlight(j)')
    BY <2>2 DEF InFlight, InFlightStatuses, Ids
  <2> QED  BY <1>4, <2>3, WalksKept DEF Decide, Ids
<1>5. CASE Create(h)
  BY <1>1, <1>5, CreateStep DEF Create, CreatedStep
<1>6. CASE Initiate(h)
  BY <1>1, <1>6 DEF Initiate
<1>7. CASE CreateDelivery(h)
  BY <1>1, <1>7, DeliveryStep DEF CreateDelivery, CreatedStep
<1>8. CASE Spawn(h)
  BY <1>8, RequestShape, WalksDispatched DEF Spawn
<1>9. CASE SpawnFails(h)
  BY <1>1, <1>9 DEF SpawnFails
<1> QED  BY <1>2, <1>3, <1>4, <1>5, <1>6, <1>7, <1>8, <1>9 DEF Serve, Proceed

LEMMA WalksTrouble ==
  ASSUME Shape, WalksInv, (\E i \in Ids : Cancel(i)) \/ Restart \/ Sweep \/ Recover \/ UNCHANGED vars
  PROVE  WalksInv' /\ GoneStaysGone
<1>2. ASSUME NEW i \in Ids, Cancel(i) PROVE WalksInv' /\ GoneStaysGone
  <2>1. \A j \in Ids : j \in disturbed' \/ runs'[j] = runs[j]
    BY <1>2, CancelStep DEF Cancel
  <2> QED  BY <1>2, <2>1, WalksKept DEF Cancel
<1>3. CASE Restart
  <2>1. \A e \in Executors : exec'[e] = exec[e] \/ exec'[e] = << >>
    BY <1>3, ZenonT(60) DEF Restart
  <2> QED  BY <1>3, <2>1, WalksKept DEF Restart
<1>4. CASE Sweep
  <2>1. PICK S \in SUBSET Ids : SweptStep(S)
    BY <1>4, SweepStep
  <2>2. \A j \in Ids : j \in disturbed' \/ runs'[j] = runs[j]
    BY <2>1 DEF SweptStep
  <2> QED  BY <1>4, <2>1, <2>2, WalksKept, ZenonT(60) DEF Sweep, SweptStep
<1>5. CASE Recover
  <2>1. CASE web.todo = {}
    BY <1>5, <2>1, WalksKept DEF Recover
  <2>2. CASE web.todo # {}
    <3>1. PICK i \in web.todo : Dispatched(i)
      BY <1>5, <2>2 DEF Recover
    <3>2. i \in Ids
      BY DEF Shape, TypeOK
    <3> QED  BY <1>5, <3>1, <3>2, WalksDispatched DEF Recover
  <2> QED  BY <2>1, <2>2
<1>6. CASE UNCHANGED vars
  BY <1>6, WalksKept DEF vars
<1> QED  BY <1>2, <1>3, <1>4, <1>5, <1>6

LEMMA WalksNext ==
  ASSUME Shape, WalksInv, [Next]_vars
  PROVE  WalksInv' /\ GoneStaysGone
<1>1. CASE UNCHANGED vars
  BY <1>1, WalksTrouble
<1>2. ASSUME NEW h \in Handlers, Serve(h) \/ Proceed(h) \/ SpawnFails(h)
      PROVE  WalksInv' /\ GoneStaysGone
  BY <1>2, WalksServe
<1>3. ASSUME NEW e \in Executors, Walk(e) \/ Kill(e) \/ Raise(e) PROVE WalksInv' /\ GoneStaysGone
  BY <1>3, WalksWalk
<1>4. CASE (\E i \in Ids : Cancel(i)) \/ Restart \/ Sweep \/ Recover
  BY <1>4, WalksTrouble
<1> QED  BY <1>1, <1>2, <1>3, <1>4 DEF Next

LEMMA WalksInit == Init => WalksInv
<1> SUFFICES ASSUME Init PROVE WalksInv
  OBVIOUS
<1>1. \A e \in Executors : Len(exec[e]) = 0
  BY DEF Init
<1> QED  BY <1>1 DEF WalksInv

-----------------------------------------------------------------------------
(* Two runs of a pipeline *)

\* What every step does to the rows.
LEMMA RowsNext ==
  ASSUME Shape, [Next]_vars
  PROVE  /\ RowsStep
         /\ \/ Len(runs') = Len(runs)
            \/ \E h \in Handlers : Create(h) \/ CreateDelivery(h)
            \/ \E e \in Executors : CallInline(e) \/ Fire(e)
<1> DEFINE Rows == /\ RowsStep
                   /\ \/ Len(runs') = Len(runs)
                      \/ \E h \in Handlers : Create(h) \/ CreateDelivery(h)
                      \/ \E e \in Executors : CallInline(e) \/ Fire(e)
<1>0. ASSUME runs' = runs PROVE Rows
  BY <1>0, NoNewRow
<1>1. ASSUME NEW e \in Executors, Walk(e) PROVE Rows
  BY <1>0, <1>1, BeginStep, CallsItselfStep, CallInlineStep, FireStep, ReturnStep, SuspendStep,
     FinishStep DEF Walk, Load
<1>2. ASSUME NEW e \in Executors, Kill(e) \/ Raise(e) PROVE Rows
  BY <1>0, <1>2, RaiseStep DEF Kill
<1>3. ASSUME NEW h \in Handlers, NEW i \in Ids, Decide(h, i) PROVE Rows
  <2>1. PICK d \in {"approved", "rejected"} :
          runs' = [runs EXCEPT ![i].gate = d, ![i].status = "running"]
    BY <1>3 DEF Decide
  <2> DEFINE row == [runs[i] EXCEPT !.gate = d, !.status = "running"]
  <2>2. runs' = [runs EXCEPT ![i] = row]
    BY <2>1, RowType
  <2>3. row \in Run /\ SameRun(row, runs[i])
    BY <1>3, RowType DEF Decide, Run, SameRun, InFlightStatuses
  <2> HIDE DEF row
  <2> QED  BY <2>2, <2>3, WrittenRow
<1>4. ASSUME NEW h \in Handlers, Serve(h) \/ Proceed(h) \/ SpawnFails(h) PROVE Rows
  <2>1. ASSUME Create(h) \/ CreateDelivery(h) PROVE Rows
    BY <2>1, CreateStep, DeliveryStep DEF CreatedStep
  <2> HIDE DEF Rows
  <2> QED  BY <1>0, <1>3, <1>4, <2>1
           DEF Serve, Proceed, SpawnFails, Check, ReadCandidate, Initiate, Spawn
<1>5. ASSUME (\E i \in Ids : Cancel(i)) \/ Restart \/ Sweep \/ Recover \/ UNCHANGED vars PROVE Rows
  BY <1>0, <1>5, CancelStep, SweepStep DEF Restart, Recover, SweptStep, vars
<1> HIDE DEF Rows
<1>6. Rows
  BY <1>1, <1>2, <1>4, <1>5 DEF Next
<1> QED  BY <1>6 DEF Rows

\* Of the first n runs, those of pipeline p are no longer in flight, or somebody disturbed them.
Out(p, n) == \A i \in Ids : i <= n /\ runs[i].of = p => Gone(i)
OutNext(p, n) == \A i \in 1..Len(runs') : i <= n /\ runs'[i].of = p => Gone(i)'

\* What a trigger saw stays true of the runs there were when it asked.
AdmitInv ==
  /\ \A j \in Ids : runs[j].how = "trigger" => Out(runs[j].of, runs[j].seen)
  /\ \A h \in Handlers : At(h, "admitted") => Out(req[h].of, req[h].seen)

LEMMA OutStays ==
  ASSUME Shape, RowsStep, GoneStaysGone, NEW p, NEW n \in 0..Len(runs), Out(p, n)
  PROVE  OutNext(p, n)
<1>1. Len(runs) \in Nat /\ Len(runs') \in Nat
  BY RowsKept DEF Shape, TypeOK
<1>2. ASSUME NEW i \in 1..Len(runs'), i <= n, runs'[i].of = p PROVE Gone(i)'
  <2>1. i \in Ids
    BY <1>1, <1>2 DEF Ids
  <2>2. runs[i].of = p
    BY <1>2, <2>1, RowsKept
  <2> QED  BY <1>2, <2>1, <2>2 DEF Out, GoneStaysGone
<1> QED  BY <1>2 DEF OutNext

LEMMA AdmitNext ==
  ASSUME Shape, WalksInv, AdmitInv, [Next]_vars
  PROVE  AdmitInv'
<1>0. Len(runs) \in Nat /\ Len(runs') \in Nat
  BY RowsNext, RowsKept DEF Shape, TypeOK
<1>1. RowsStep /\ GoneStaysGone
  BY RowsNext, WalksNext
<1>2. ASSUME NEW h \in Handlers, At(h, "admitted") PROVE OutNext(req[h].of, req[h].seen)
  BY <1>1, <1>2, RequestShape, OutStays DEF AdmitInv
<1>3. ASSUME NEW j \in Ids, runs'[j].how = "trigger" PROVE OutNext(runs'[j].of, runs'[j].seen)
  <2>1. /\ runs'[j].of = runs[j].of /\ runs'[j].seen = runs[j].seen /\ runs[j].how = "trigger"
    BY <1>1, <1>3 DEF RowsStep, SameRun
  <2>2. runs[j].seen \in Nat /\ runs[j].seen < j
    BY RowType DEF Run, Shape, KnownInv
  <2>3. runs[j].seen \in 0..Len(runs)
    BY <1>0, <2>2 DEF Ids
  <2> QED  BY <1>1, <2>1, <2>3, OutStays DEF AdmitInv
<1>4. ASSUME NEW j \in 1..Len(runs'), j \notin Ids, runs'[j].how = "trigger"
      PROVE  OutNext(runs'[j].of, runs'[j].seen)
  <2>1. Len(runs') # Len(runs)
    BY <1>4 DEF Ids
  <2>2. ASSUME NEW h \in Handlers, Create(h) PROVE OutNext(runs'[j].of, runs'[j].seen)
    <3>1. j = Len(runs) + 1
      BY <1>0, <1>1, <1>4 DEF RowsStep, Ids
    <3>2. runs'[j].of = req[h].of /\ runs'[j].seen = req[h].seen
      BY <2>2, <3>1, CreateStep DEF CreatedStep
    <3> QED  BY <1>2, <2>2, <3>2 DEF Create
  <2>3. ASSUME NEW h \in Handlers, CreateDelivery(h) PROVE FALSE
    BY <1>0, <1>1, <1>4, <2>3, DeliveryStep DEF CreatedStep, RowsStep, Ids
  <2>4. ASSUME NEW e \in Executors, CallInline(e) PROVE FALSE
    BY <1>0, <1>1, <1>4, <2>4, CallInlineStep DEF RowsStep, Ids
  <2>5. ASSUME NEW e \in Executors, Fire(e) PROVE FALSE
    <3>1. runs'[Len(runs) + 1] = Child(e) /\ Child(e).how = "async"
      BY <2>5, FireStep
    <3>2. j = Len(runs) + 1
      BY <1>0, <1>1, <1>4 DEF RowsStep, Ids
    <3> QED  BY <1>4, <3>1, <3>2
  <2> QED  BY <2>1, <2>2, <2>3, <2>4, <2>5, RowsNext
<1>5. ASSUME NEW h \in Handlers, req'[h].pc = "admitted" PROVE OutNext(req'[h].of, req'[h].seen)
  <2>1. CASE req'[h] = req[h]
    BY <1>2, <1>5, <2>1 DEF At
  <2>2. ASSUME NEW p \in Pipelines, Check(h, p) PROVE OutNext(req'[h].of, req'[h].seen)
    <3>1. req' = [req EXCEPT ![h] = [pc |-> "admitted", of |-> p, seen |-> Len(runs)]]
          /\ req \in [Handlers -> Request]
      BY <2>2 DEF Check, Shape, TypeOK
    <3>2. req'[h].of = p /\ req'[h].seen = Len(runs)
      BY <3>1
    <3>3. OutNext(p, Len(runs))
      BY <1>0, <2>2 DEF OutNext, Check, IsFree, Gone, InFlight, Ids
    <3> QED  BY <3>2, <3>3
  <2>3. req'[h] = req[h] \/ \E p \in Pipelines : Check(h, p)
    <3>1. req \in [Handlers -> Request]
      BY DEF Shape, TypeOK
    <3>2. ASSUME NEW g \in Handlers, Serve(g) \/ Proceed(g) \/ SpawnFails(g), g # h
          PROVE  req'[h] = req[h]
      BY <3>1, <3>2 DEF Serve, Proceed, SpawnFails, Check, ReadCandidate, Decide, Create, Initiate,
                        CreateDelivery, Spawn
    <3>3. ASSUME Serve(h) \/ Proceed(h) \/ SpawnFails(h) PROVE \E p \in Pipelines : Check(h, p)
      <4>1. ASSUME Create(h) \/ CreateDelivery(h) \/ Spawn(h) \/ SpawnFails(h) PROVE FALSE
        BY <1>5, <3>1, <4>1 DEF Create, CreateDelivery, Spawn, SpawnFails, Idle
      <4>2. ASSUME Initiate(h) PROVE FALSE
        BY <1>5, <3>1, <4>2, RequestShape DEF Initiate
      <4>3. ASSUME NEW c \in Candidates, ReadCandidate(h, c) PROVE FALSE
        BY <1>5, <3>1, <4>3 DEF ReadCandidate
      <4>4. ASSUME NEW i \in Ids, Decide(h, i) PROVE FALSE
        BY <1>5, <3>1, <4>4 DEF Decide
      <4> QED  BY <3>3, <4>1, <4>2, <4>3, <4>4 DEF Serve, Proceed
    <3>4. ASSUME NEW e \in Executors, Walk(e) \/ Kill(e) \/ Raise(e) PROVE req'[h] = req[h]
      BY <3>4 DEF Walk, Kill, Raise, Load, Begin, CallsItself, CallInline, Fire, GoesOn, Return,
                  Suspend, Finish
    <3>5. ASSUME Restart PROVE FALSE
      BY <1>5, <3>5 DEF Restart, Idle
    <3>6. ASSUME (\E i \in Ids : Cancel(i)) \/ Sweep \/ Recover \/ UNCHANGED vars
          PROVE  req'[h] = req[h]
      BY <3>6 DEF Cancel, Sweep, Recover, vars
    <3> QED  BY <3>2, <3>3, <3>4, <3>5, <3>6 DEF Next
  <2> QED  BY <2>1, <2>2, <2>3
<1>6. \A j \in Ids' : runs'[j].how = "trigger" => OutNext(runs'[j].of, runs'[j].seen)
  BY <1>3, <1>4 DEF Ids
<1> QED  BY <1>5, <1>6 DEF AdmitInv, Out, OutNext, At, Ids

LEMMA AdmitInit == Init => AdmitInv
<1> SUFFICES ASSUME Init PROVE AdmitInv
  OBVIOUS
<1>1. Ids = {} /\ \A h \in Handlers : ~At(h, "admitted")
  BY DEF Init, Ids, At, Idle
<1> QED  BY <1>1 DEF AdmitInv

\* A second run of a pipeline gets past acquire_run_lock (pipelines/repository.py:348-363) while
\* the first is in flight only if the first was created after the check, or somebody disturbed it:
\* a cancel, the sweep, or a dispatch of a run that had ended or that a process was at work on.
THEOREM SecondRunNeedsOverlap == Spec => []TwoOnlyByOverlap
<1>1. Shape /\ AdmitInv => TwoOnlyByOverlap
  <2> SUFFICES ASSUME Shape, AdmitInv, NEW i \in Ids, NEW j \in Ids, i < j, InFlight(i),
                      runs[i].of = runs[j].of, runs[j].how = "trigger", ~(i > runs[j].seen)
               PROVE  i \in disturbed
    BY DEF TwoOnlyByOverlap
  <2>1. runs[j].seen \in Nat /\ i \in Nat
    BY RowType DEF Run, Ids
  <2> QED  BY <2>1 DEF AdmitInv, Out, Gone
<1>2. Init => Shape /\ WalksInv /\ AdmitInv
  BY ShapeInit, WalksInit, AdmitInit
<1>3. Shape /\ WalksInv /\ AdmitInv /\ [Next]_vars => Shape' /\ WalksInv' /\ AdmitInv'
  BY ShapeNext, WalksNext, AdmitNext
<1> QED  BY <1>1, <1>2, <1>3, PTL DEF Spec

-----------------------------------------------------------------------------
(* Candidates that lose their run *)

\* The candidates that a request is about to create a run for, those that have one, and those that
\* are initiated with neither.
Working == {req[h].cand : h \in {h \in Handlers : At(h, "initiated")}}
Served == {runs[i].cand : i \in Ids}
Stranded == {c \in Candidates \ (Working \cup Served) : candidates[c] = "initiated"}

StrandInv == IsFiniteSet(Stranded) /\ Cardinality(Stranded) <= faults * Cardinality(Handlers)

\* Only a restart takes a request away from its candidate.
LEMMA WorkingNext ==
  ASSUME Shape, [Next]_vars, ~Restart, NEW h \in Handlers, At(h, "initiated")
  PROVE  req'[h] = req[h] \/ CreateDelivery(h)
<1>0. req \in [Handlers -> Request]
  BY DEF Shape, TypeOK
<1>1. ASSUME NEW g \in Handlers, Serve(g) \/ Proceed(g) \/ SpawnFails(g), g # h
      PROVE  req'[h] = req[h]
  BY <1>0, <1>1 DEF Serve, Proceed, SpawnFails, Check, ReadCandidate, Decide, Create, Initiate,
                    CreateDelivery, Spawn
<1>2. ASSUME Serve(h) \/ Proceed(h) \/ SpawnFails(h) PROVE CreateDelivery(h)
  BY <1>2 DEF At, Serve, Proceed, SpawnFails, Check, ReadCandidate, Decide, Create, Initiate, Spawn
<1>3. ASSUME NEW e \in Executors, Walk(e) \/ Kill(e) \/ Raise(e) PROVE req'[h] = req[h]
  BY <1>3 DEF Walk, Kill, Raise, Load, Begin, CallsItself, CallInline, Fire, GoesOn, Return,
              Suspend, Finish
<1>4. ASSUME (\E i \in Ids : Cancel(i)) \/ Sweep \/ Recover \/ UNCHANGED vars PROVE req'[h] = req[h]
  BY <1>4 DEF Cancel, Sweep, Recover, vars
<1> QED  BY <1>1, <1>2, <1>3, <1>4 DEF Next

\* A candidate becomes initiated by a request that goes on to create its run.
LEMMA InitiatedNext ==
  ASSUME Shape, [Next]_vars, NEW c \in Candidates, candidates'[c] = "initiated"
  PROVE  candidates[c] = "initiated" \/ c \in Working'
<1>0. req \in [Handlers -> Request] /\ candidates \in [Candidates -> {"open", "initiated"}]
  BY DEF Shape, TypeOK
<1>1. ASSUME NEW h \in Handlers, Initiate(h) PROVE candidates[c] = "initiated" \/ c \in Working'
  <2>1. CASE c = req[h].cand
    <3>1. /\ At(h, "initiating") /\ req[h] = [pc |-> "initiating", cand |-> req[h].cand]
          /\ req' = [req EXCEPT ![h].pc = "initiated"]
      BY <1>1, RequestShape DEF Initiate
    <3>2. req'[h].pc = "initiated" /\ req'[h].cand = c
      BY <1>0, <2>1, <3>1
    <3> QED  BY <3>2 DEF Working, At
  <2>2. CASE c # req[h].cand
    BY <1>0, <1>1, <2>2 DEF Initiate
  <2> QED  BY <2>1, <2>2
<1>2. ASSUME NEW h \in Handlers, Serve(h) \/ Create(h) \/ CreateDelivery(h) \/ Spawn(h) \/ SpawnFails(h)
      PROVE  candidates' = candidates
  BY <1>2 DEF Serve, SpawnFails, Check, ReadCandidate, Decide, Create, CreateDelivery, Spawn
<1>3. ASSUME NEW e \in Executors, Walk(e) \/ Kill(e) \/ Raise(e) PROVE candidates' = candidates
  BY <1>3 DEF Walk, Kill, Raise, Load, Begin, CallsItself, CallInline, Fire, GoesOn, Return,
              Suspend, Finish
<1>4. ASSUME (\E i \in Ids : Cancel(i)) \/ Restart \/ Sweep \/ Recover \/ UNCHANGED vars
      PROVE  candidates' = candidates
  BY <1>4 DEF Cancel, Restart, Sweep, Recover, vars
<1> QED  BY <1>1, <1>2, <1>3, <1>4 DEF Next, Proceed

LEMMA ServedNext ==
  ASSUME Shape, [Next]_vars
  PROVE  Served \subseteq Served'
<1>1. \A i \in Ids : i \in Ids' /\ runs'[i].cand = runs[i].cand
  BY RowsNext, RowsKept DEF RowsStep, SameRun
<1> QED  BY <1>1 DEF Served

LEMMA StrandedNext ==
  ASSUME Shape, [Next]_vars
  PROVE  Stranded' \subseteq IF Restart THEN Stranded \cup Working ELSE Stranded
<1> SUFFICES ASSUME NEW c \in Stranded'
             PROVE  IF Restart THEN c \in Stranded \/ c \in Working ELSE c \in Stranded
  OBVIOUS
<1>1. c \in Candidates /\ c \notin Working' /\ c \notin Served' /\ candidates'[c] = "initiated"
  BY DEF Stranded
<1>2. candidates[c] = "initiated" /\ c \notin Served
  BY <1>1, InitiatedNext, ServedNext
<1>3. ASSUME ~Restart, c \in Working PROVE FALSE
  <2>1. PICK h \in Handlers : At(h, "initiated") /\ req[h].cand = c
    BY <1>3 DEF Working
  <2>2. CASE req'[h] = req[h]
    BY <1>1, <2>1, <2>2 DEF Working, At
  <2>3. CASE CreateDelivery(h)
    <3>1. /\ RowsStep /\ Len(runs') = Len(runs) + 1 /\ runs'[Len(runs) + 1].cand = c
      BY <2>1, <2>3, DeliveryStep DEF CreatedStep
    <3>2. Len(runs) + 1 \in Ids'
      BY <3>1 DEF Ids, Shape, TypeOK
    <3> QED  BY <1>1, <3>1, <3>2 DEF Served
  <2> QED  BY <1>3, <2>1, <2>2, <2>3, WorkingNext
<1> QED  BY <1>1, <1>2, <1>3 DEF Stranded

LEMMA WorkingIsFinite == IsFiniteSet(Working) /\ Cardinality(Working) <= Cardinality(Handlers)
<1> DEFINE H == {h \in Handlers : At(h, "initiated")}
<1>1. IsFiniteSet(H) /\ Cardinality(H) <= Cardinality(Handlers)
  BY AdmissionAssumption, FS_Subset
<1> HIDE DEF H
<1> DEFINE cand == [h \in H |-> req[h].cand]
<1>2. cand \in Surjection(H, Working)
  BY DEF Working, H, Surjection
<1> HIDE DEF cand
<1>3. IsFiniteSet(Working) /\ Cardinality(Working) <= Cardinality(H)
  BY <1>1, <1>2, FS_Surjection
<1>4. Cardinality(H) \in Nat /\ Cardinality(Handlers) \in Nat /\ Cardinality(Working) \in Nat
  BY <1>1, <1>3, AdmissionAssumption, FS_CardinalityType
<1> QED  BY <1>1, <1>2, <1>3, <1>4

LEMMA FaultsNext ==
  ASSUME Shape, [Next]_vars
  PROVE  faults \in Nat /\ faults' \in {faults, faults + 1} /\ (Restart => faults' = faults + 1)
<1>0. faults \in Nat
  BY AdmissionAssumption DEF Shape, TypeOK
<1>1. ASSUME NEW h \in Handlers, Serve(h) \/ Proceed(h) \/ SpawnFails(h)
      PROVE  faults' \in {faults, faults + 1}
  BY <1>1 DEF Serve, Proceed, SpawnFails, Check, ReadCandidate, Decide, Create, Initiate,
              CreateDelivery, Spawn, Fault
<1>2. ASSUME NEW e \in Executors, Walk(e) \/ Kill(e) \/ Raise(e) PROVE faults' \in {faults, faults + 1}
  BY <1>2 DEF Walk, Kill, Raise, Load, Begin, CallsItself, CallInline, Fire, GoesOn, Return,
              Suspend, Finish, Fault
<1>3. ASSUME (\E i \in Ids : Cancel(i)) \/ Restart \/ Sweep \/ Recover \/ UNCHANGED vars
      PROVE  faults' \in {faults, faults + 1}
  BY <1>3 DEF Cancel, Restart, Sweep, Recover, vars, Fault
<1> QED  BY <1>0, <1>1, <1>2, <1>3 DEF Next, Restart, Fault

LEMMA StrandNext ==
  ASSUME Shape, StrandInv, [Next]_vars
  PROVE  StrandInv'
<1> DEFINE c == Cardinality(Handlers)
           s == Cardinality(Stranded)
           t == Cardinality(Stranded')
<1>1. c \in Nat
  BY AdmissionAssumption, FS_CardinalityType
<1>2. s \in Nat /\ s <= faults * c
  BY FS_CardinalityType DEF StrandInv
<1>3. faults \in Nat /\ faults' \in {faults, faults + 1} /\ (Restart => faults' = faults + 1)
  BY FaultsNext
<1>4. CASE ~Restart
  <2>1. Stranded' \subseteq Stranded
    BY <1>4, StrandedNext
  <2>2. IsFiniteSet(Stranded') /\ t <= s
    BY <2>1, FS_Subset DEF StrandInv
  <2>3. t \in Nat
    BY <2>2, FS_CardinalityType
  <2> HIDE DEF c, s, t
  <2>4. t <= faults' * c
    <3>1. \A m, n, a, b \in Nat : a <= b /\ b <= m * n => a <= m * n /\ a <= (m + 1) * n
      OBVIOUS
    <3> QED  BY <1>1, <1>2, <1>3, <2>2, <2>3, <3>1
  <2> QED  BY <2>2, <2>4 DEF StrandInv, c, t
<1>5. CASE Restart
  <2>1. Stranded' \subseteq Stranded \cup Working
    BY <1>5, StrandedNext
  <2>2. /\ IsFiniteSet(Stranded \cup Working)
        /\ Cardinality(Stranded \cup Working)
             = s + Cardinality(Working) - Cardinality(Stranded \cap Working)
    BY WorkingIsFinite, FS_Union DEF StrandInv
  <2>3. IsFiniteSet(Stranded') /\ t <= Cardinality(Stranded \cup Working)
    BY <2>1, <2>2, FS_Subset
  <2>4. IsFiniteSet(Stranded \cap Working)
    BY WorkingIsFinite, FS_Intersection
  <2> DEFINE w == Cardinality(Working)
             b == Cardinality(Stranded \cap Working)
             u == Cardinality(Stranded \cup Working)
  <2>5. t \in Nat /\ w \in Nat /\ b \in Nat /\ u \in Nat /\ w <= c
    BY <2>2, <2>3, <2>4, WorkingIsFinite, FS_CardinalityType
  <2>6. t <= u /\ u = s + w - b
    BY <2>2, <2>3
  <2> HIDE DEF c, s, t, w, b, u
  <2>7. t <= s + c
    BY <1>1, <1>2, <2>5, <2>6
  <2>8. t <= faults' * c
    <3>1. \A m, n, x, y \in Nat : x <= y + n /\ y <= m * n => x <= (m + 1) * n
      OBVIOUS
    <3> QED  BY <1>1, <1>2, <1>3, <1>5, <2>5, <2>7, <3>1
  <2> QED  BY <2>3, <2>8 DEF StrandInv, c, t
<1> QED  BY <1>4, <1>5

LEMMA StrandInit == Init => StrandInv
<1> SUFFICES ASSUME Init PROVE StrandInv
  OBVIOUS
<1>1. Stranded = {}
  BY DEF Init, Stranded
<1>2. Cardinality(Handlers) \in Nat /\ faults = 0
  BY AdmissionAssumption, FS_CardinalityType DEF Init
<1>3. IsFiniteSet({}) /\ Cardinality({}) = 0
  BY FS_EmptySet
<1> QED  BY <1>1, <1>2, <1>3 DEF StrandInv

\* A candidate that is initiated for good, with no run (marketing/routes/initiation.py commits it
\* before the run), is the work of a restart, and one restart strands no more than one of them for
\* each request at a time.
THEOREM StrandedOnlyByRestart == Spec => []StrandedOnlyByCrash
<1>1. StrandInv => StrandedOnlyByCrash
  BY DEF StrandInv, StrandedOnlyByCrash, Stranded, Working, Served
<1>2. Init => Shape /\ StrandInv
  BY ShapeInit, StrandInit
<1>3. Shape /\ StrandInv /\ [Next]_vars => Shape' /\ StrandInv'
  BY ShapeNext, StrandNext
<1> QED  BY <1>1, <1>2, <1>3, PTL DEF Spec

-----------------------------------------------------------------------------
(* A run waits for those it walks inline *)

\* Some process walks run j inside of another run, and is not done with it.
Held(j) == \E e \in Executors : \E k \in 2..Len(exec[e]) :
             exec[e][k].run = j /\ exec[e][k].place # "over"
HeldNext(j) == \E e \in Executors : \E k \in 2..Len(exec'[e]) :
                 exec'[e][k].run = j /\ exec'[e][k].place # "over"

\* A run that was called inline, has not ended and waits for nobody.
Busy(j) ==
  /\ runs[j].how = "inline" /\ InFlight(j) /\ runs[j].gate = "pending" /\ j \notin disturbed

\* As long as nothing fails, such a run is walked inside of its parent.
ChildInv == faults = 0 => \A j \in Ids : Busy(j) => Held(j)

\* Who leaves the stack, or the top of it, is done.
LEMMA HeldStep ==
  ASSUME Shape, NEW e \in Executors, NEW n, NEW f, StackStep(e, n, f), NEW j, Held(j),
         \A k \in 1..Len(exec[e]) : k > n => exec[e][k].place = "over",
         f.run = j => f.place # "over"
  PROVE  HeldNext(j)
<1>1. PICK g \in Executors : \E k \in 2..Len(exec[g]) :
             exec[g][k].run = j /\ exec[g][k].place # "over"
  BY DEF Held
<1>2. PICK k \in 2..Len(exec[g]) : exec[g][k].run = j /\ exec[g][k].place # "over"
  BY <1>1
<1>3. n \in 1..Len(exec[e]) /\ Len(exec[g]) \in Nat /\ Len(exec[e]) \in Nat
  BY DEF StackStep, Shape, TypeOK
<1>4. CASE g # e
  <2>1. exec'[g] = exec[g]
    BY <1>4 DEF StackStep
  <2> QED  BY <1>2, <2>1 DEF HeldNext
<1>5. CASE g = e
  <2>1. k <= n /\ k \in 1..n /\ n # 1
    BY <1>2, <1>3, <1>5
  <2>2. Len(exec'[e]) = n /\ exec'[e][k] = IF k = n THEN f ELSE exec[e][k]
    BY <2>1 DEF StackStep
  <2>3. k \in 2..Len(exec'[e])
    BY <1>2, <1>3, <2>1, <2>2
  <2>4. exec'[e][k].run = j /\ exec'[e][k].place # "over"
    BY <1>2, <1>5, <2>2 DEF StackStep
  <2> QED  BY <2>3, <2>4 DEF HeldNext
<1> QED  BY <1>4, <1>5

LEMMA HeldDispatched ==
  ASSUME Shape, NEW i \in Ids, Dispatched(i), NEW j, Held(j)
  PROVE  HeldNext(j)
<1>1. PICK e \in Executors : DispatchStep(e, i)
  BY DispatchedStep
<1>2. PICK g \in Executors : \E k \in 2..Len(exec[g]) :
             exec[g][k].run = j /\ exec[g][k].place # "over"
  BY DEF Held
<1>3. g # e
  BY <1>1, <1>2 DEF DispatchStep
<1>4. exec'[g] = exec[g]
  BY <1>1, <1>3 DEF DispatchStep
<1> QED  BY <1>2, <1>4 DEF HeldNext

LEMMA HeldPushed ==
  ASSUME Shape, NEW e \in Executors, CallInline(e)
  PROVE  /\ \A j : Held(j) => HeldNext(j)
         /\ HeldNext(Len(runs) + 1)
<1>1. exec[e] # << >> /\ Top(e).place = "sub" /\ PushStep(e)
  BY CallInlineStep
<1>2. /\ Len(exec[e]) \in Nat \ {0} /\ Top(e) = exec[e][Len(exec[e])] /\ Top(e) \in Frame
  BY <1>1, TopOf
<1> DEFINE m == Len(exec[e])
           f == [Top(e) EXCEPT !.place = "inside"]
           n == NewFrame(Len(runs) + 1)
<1>3. f.run = Top(e).run /\ f.place = "inside" /\ n.run = Len(runs) + 1 /\ n.place = "load"
  BY <1>2 DEF Frame, NewFrame
<1>4. /\ Len(exec'[e]) = m + 1 /\ exec'[e][m + 1] = n
      /\ \A k \in 1..m : exec'[e][k] = IF k = m THEN f ELSE exec[e][k]
      /\ \A g \in Executors \ {e} : exec'[g] = exec[g]
  BY <1>1, <1>2 DEF PushStep
<1> HIDE DEF m, f, n
<1>5. m \in Nat \ {0} /\ m = Len(exec[e])
  BY <1>2 DEF m
<1>6. HeldNext(Len(runs) + 1)
  <2>1. m + 1 \in 2..Len(exec'[e])
    BY <1>4, <1>5
  <2> QED  BY <1>3, <1>4, <2>1 DEF HeldNext
<1>7. ASSUME NEW j, Held(j) PROVE HeldNext(j)
  <2>1. PICK g \in Executors : \E k \in 2..Len(exec[g]) :
               exec[g][k].run = j /\ exec[g][k].place # "over"
    BY <1>7 DEF Held
  <2>2. PICK k \in 2..Len(exec[g]) : exec[g][k].run = j /\ exec[g][k].place # "over"
    BY <2>1
  <2>3. CASE g # e
    BY <1>4, <2>2, <2>3 DEF HeldNext
  <2>4. CASE g = e
    <3>1. k \in 1..m /\ k \in 2..Len(exec'[e])
      BY <1>4, <1>5, <2>2, <2>4
    <3>2. exec'[e][k].run = j /\ exec'[e][k].place # "over"
      BY <1>2, <1>3, <1>4, <1>5, <2>2, <2>4, <3>1
    <3> QED  BY <3>1, <3>2 DEF HeldNext
  <2> QED  BY <2>3, <2>4
<1> QED  BY <1>6, <1>7

\* A walk that is over leaves its run ended, or waiting for a person.
LEMMA HeldWalk ==
  ASSUME Shape, WalksInv, NEW e \in Executors, Walk(e), NEW j \in Ids, Held(j),
         runs'[j].status \in InFlightStatuses, runs'[j].gate = "pending", j \notin disturbed
  PROVE  HeldNext(j)
<1>0. exec[e] # << >> => /\ Top(e) = exec[e][Len(exec[e])] /\ Len(exec[e]) \in Nat \ {0}
                         /\ Top(e).run = This(e) /\ This(e) \in Ids /\ Top(e) \in Frame
                         /\ Len(exec[e]) \in 1..Len(exec[e]) /\ Attended(Top(e))
                         /\ runs[This(e)] \in Run
  BY TopOf DEF WalksInv
<1>1. ASSUME NEW f, exec[e] # << >>, StackStep(e, Len(exec[e]), f), f.run = j => f.place # "over"
      PROVE  HeldNext(j)
  <2>1. \A k \in 1..Len(exec[e]) : k > Len(exec[e]) => exec[e][k].place = "over"
    BY <1>0, <1>1
  <2> QED  BY <1>1, <2>1, HeldStep
<1>2. CASE Load(e)
  <2> DEFINE f == [Top(e) EXCEPT !.place = "begin", !.status = runs[This(e)].status,
                                 !.sub = runs[This(e)].sub]
  <2>1. exec[e] # << >> /\ StackStep(e, Len(exec[e]), f)
    BY <1>2, LoadStep
  <2>2. f.place = "begin"
    BY <1>0, <2>1 DEF Frame
  <2> HIDE DEF f
  <2> QED  BY <1>1, <2>1, <2>2
<1>3. CASE Begin(e)
  <2>1. exec[e] # << >> /\ StackStep(e, Len(exec[e]), BegunFrame(e))
    BY <1>3, BeginStep
  <2>2. BegunFrame(e).place # "over"
    BY <1>0, <2>1 DEF Frame, BegunFrame
  <2> QED  BY <1>1, <2>1, <2>2
<1>4. CASE CallsItself(e)
  <2> DEFINE f == [Top(e) EXCEPT !.place = "over", !.status = "failed"]
  <2>1. /\ exec[e] # << >> /\ StackStep(e, Len(exec[e]), f)
        /\ \A i \in Ids : runs'[i] = IF i = This(e) THEN FailedRow(i) ELSE runs[i]
    BY <1>4, CallsItselfStep
  <2>2. f.run = This(e)
    BY <1>0, <2>1 DEF Frame
  <2>3. j # This(e)
    BY <1>0, <2>1, RowType DEF FailedRow, Run, InFlightStatuses
  <2> HIDE DEF f
  <2> QED  BY <1>1, <2>1, <2>2, <2>3
<1>5. CASE CallInline(e)
  BY <1>5, HeldPushed
<1>6. CASE Fire(e)
  <2> DEFINE f == [Top(e) EXCEPT !.place = "gate", !.sub = "succeeded"]
  <2>1. exec[e] # << >> /\ StackStep(e, Len(exec[e]), f)
    BY <1>6, FireStep
  <2>2. f.place = "gate"
    BY <1>0, <2>1 DEF Frame
  <2> HIDE DEF f
  <2> QED  BY <1>1, <2>1, <2>2
<1>7. CASE Return(e)
  <2> DEFINE n == Len(exec[e]) - 1
             f == [Parent(e) EXCEPT !.place = "gate", !.sub = "succeeded"]
             g == [Parent(e) EXCEPT !.place = "over", !.status = "failed"]
  <2>1. /\ exec[e] # << >> /\ Len(exec[e]) # 1 /\ Top(e).place = "over"
        /\ \/ StackStep(e, n, f)
           \/ /\ \A i \in Ids : runs'[i] = IF i = Parent(e).run THEN FailedRow(i) ELSE runs[i]
              /\ StackStep(e, n, g)
    BY <1>7, ReturnStep
  <2>2. /\ f.place = "gate" /\ g.run = Parent(e).run
    BY <2>1, BelowTop DEF Frame
  <2>3. \A k \in 1..Len(exec[e]) : k > n => exec[e][k].place = "over"
    BY <1>0, <2>1
  <2>4. Parent(e).run \in Ids /\ FailedRow(Parent(e).run).status = "failed"
    <3>1. Parent(e).run \in Ids
      BY <2>1, BelowTop
    <3> QED  BY <3>1, RowType DEF FailedRow, Run
  <2> HIDE DEF f, g, n
  <2>5. CASE StackStep(e, n, f)
    BY <2>2, <2>3, <2>5, HeldStep
  <2>6. CASE /\ \A i \in Ids : runs'[i] = IF i = Parent(e).run THEN FailedRow(i) ELSE runs[i]
             /\ StackStep(e, n, g)
    <3>1. g.run # j
      BY <2>2, <2>4, <2>6 DEF InFlightStatuses
    <3> QED  BY <2>3, <2>6, <3>1, HeldStep
  <2> QED  BY <2>1, <2>5, <2>6
<1>8. CASE Suspend(e)
  <2> DEFINE f == [Top(e) EXCEPT !.place = "over", !.status = "awaiting_approval"]
  <2>1. /\ exec[e] # << >> /\ StackStep(e, Len(exec[e]), f)
        /\ \A i \in Ids : runs'[i] = IF i = This(e) THEN SuspendedRow(e) ELSE runs[i]
    BY <1>8, SuspendStep
  <2>2. f.run = This(e) /\ SuspendedRow(e).gate = "suspended"
    BY <1>0, <2>1 DEF Frame, SuspendedRow, Run
  <2>3. j # This(e)
    BY <2>1, <2>2
  <2> HIDE DEF f
  <2> QED  BY <1>1, <2>1, <2>2, <2>3
<1>9. CASE Finish(e)
  <2>1. exec[e] # << >> /\ Top(e).place = "gate"
    BY <1>9, FinishStep
  <2>2. PICK s \in Ended :
          /\ StackStep(e, Len(exec[e]), EndedFrame(e, s))
          /\ \/ runs' = runs /\ Top(e).status \in Ended
             \/ \A i \in Ids : runs'[i] = IF i = This(e) THEN EndedRow(e, s) ELSE runs[i]
    BY <1>9, FinishStep
  <2>3. EndedFrame(e, s).run = This(e) /\ EndedRow(e, s).status \in Ended
    BY <1>0, <2>1 DEF Frame, EndedFrame, EndedRow, Run
  <2>4. CASE runs' = runs /\ Top(e).status \in Ended
    <3>1. This(e) \in disturbed
      BY <1>0, <2>1, <2>4 DEF Attended, Ended, InFlightStatuses
    <3> QED  BY <1>1, <2>1, <2>2, <2>3, <3>1
  <2>5. CASE \A i \in Ids : runs'[i] = IF i = This(e) THEN EndedRow(e, s) ELSE runs[i]
    <3>1. j # This(e)
      BY <2>3, <2>5 DEF Ended, InFlightStatuses
    <3> QED  BY <1>1, <2>1, <2>2, <2>3, <3>1
  <2> QED  BY <2>2, <2>4, <2>5
<1> QED  BY <1>2, <1>3, <1>4, <1>5, <1>6, <1>7, <1>8, <1>9 DEF Walk

LEMMA HeldOther ==
  ASSUME Shape, [Next]_vars, \A e \in Executors : ~Walk(e), faults = 0, faults' = 0, NEW j, Held(j)
  PROVE  HeldNext(j)
<1>0. ASSUME exec' = exec PROVE HeldNext(j)
  BY <1>0 DEF Held, HeldNext
<1>1. ASSUME NEW h \in Handlers, Serve(h) \/ Proceed(h) \/ SpawnFails(h) PROVE HeldNext(j)
  <2>1. CASE Spawn(h)
    BY <2>1, RequestShape, HeldDispatched DEF Spawn
  <2>2. CASE ~Spawn(h)
    BY <1>0, <1>1, <2>2 DEF Serve, Proceed, SpawnFails, Check, ReadCandidate, Decide, Create,
                            Initiate, CreateDelivery
  <2> QED  BY <2>1, <2>2
<1>2. ASSUME NEW e \in Executors, Kill(e) \/ Raise(e) PROVE FALSE
  BY <1>2 DEF Kill, Raise, Fault
<1>3. ASSUME Recover PROVE HeldNext(j)
  <2>1. web.todo \subseteq Ids
    BY DEF Shape, TypeOK
  <2> QED  BY <1>0, <1>3, <2>1, HeldDispatched DEF Recover
<1>4. ASSUME (\E i \in Ids : Cancel(i)) \/ Restart \/ Sweep \/ UNCHANGED vars PROVE HeldNext(j)
  BY <1>0, <1>4 DEF Cancel, Restart, Fault, Sweep, vars
<1> QED  BY <1>1, <1>2, <1>3, <1>4 DEF Next

LEMMA DisturbedNext ==
  ASSUME [Next]_vars
  PROVE  /\ disturbed \subseteq disturbed'
         /\ \A e \in Executors : Walk(e) => disturbed' = disturbed
<1>0. \A e \in Executors : Walk(e) => disturbed' = disturbed
  BY DEF Walk, Load, Begin, CallsItself, CallInline, Fire, GoesOn, Return, Suspend, Finish
<1>1. ASSUME NEW h \in Handlers, Serve(h) \/ Proceed(h) \/ SpawnFails(h)
      PROVE  disturbed \subseteq disturbed'
  BY <1>1 DEF Serve, Proceed, SpawnFails, Check, ReadCandidate, Decide, Create, Initiate,
              CreateDelivery, Spawn, Dispatched
<1>2. ASSUME NEW e \in Executors, Kill(e) \/ Raise(e) PROVE disturbed' = disturbed
  BY <1>2 DEF Kill, Raise
<1>3. ASSUME (\E i \in Ids : Cancel(i)) \/ Restart \/ Sweep \/ Recover \/ UNCHANGED vars
      PROVE  disturbed \subseteq disturbed'
  BY <1>3 DEF Cancel, Restart, Sweep, Recover, Dispatched, vars
<1> QED  BY <1>0, <1>1, <1>2, <1>3 DEF Next

LEMMA ChildNext ==
  ASSUME Shape, WalksInv, ChildInv, [Next]_vars
  PROVE  ChildInv'
<1> SUFFICES ASSUME faults' = 0, NEW j \in 1..Len(runs'), runs'[j].how = "inline",
                    runs'[j].status \in InFlightStatuses, runs'[j].gate = "pending",
                    j \notin disturbed'
             PROVE  HeldNext(j)
  BY DEF ChildInv, Busy, Held, HeldNext, InFlight, Ids
<1>0. RowsStep /\ GoneStaysGone /\ faults = 0 /\ Len(runs) \in Nat /\ j \notin disturbed
  BY RowsNext, WalksNext, FaultsNext, DisturbedNext DEF Shape, TypeOK
<1>1. CASE j \in Ids
  <2>1. runs[j].how = "inline" /\ runs[j].gate = "pending"
    BY <1>0, <1>1 DEF RowsStep, SameRun
  <2>2. InFlight(j)
    BY <1>0, <1>1 DEF GoneStaysGone, Gone, InFlight
  <2>3. Held(j)
    BY <1>0, <1>1, <2>1, <2>2 DEF ChildInv, Busy
  <2>4. CASE \E e \in Executors : Walk(e)
    BY <1>0, <1>1, <2>3, <2>4, HeldWalk
  <2>5. CASE \A e \in Executors : ~Walk(e)
    BY <1>0, <2>3, <2>5, HeldOther
  <2> QED  BY <2>4, <2>5
<1>2. CASE j \notin Ids
  <2>1. j = Len(runs) + 1 /\ Len(runs') # Len(runs)
    BY <1>0, <1>2 DEF RowsStep, Ids
  <2>2. ASSUME NEW h \in Handlers, Create(h) \/ CreateDelivery(h) PROVE FALSE
    BY <2>1, <2>2, CreateStep, DeliveryStep DEF CreatedStep
  <2>3. ASSUME NEW e \in Executors, CallInline(e) PROVE HeldNext(j)
    BY <2>1, <2>3, HeldPushed
  <2>4. ASSUME NEW e \in Executors, Fire(e) PROVE FALSE
    <3>1. runs'[j].how = "async"
      BY <2>1, <2>4, FireStep
    <3> QED  BY <3>1
  <2> QED  BY <2>1, <2>2, <2>3, <2>4, RowsNext
<1> QED  BY <1>1, <1>2

LEMMA ChildInit == Init => ChildInv
<1> SUFFICES ASSUME Init PROVE ChildInv
  OBVIOUS
<1>1. Ids = {}
  BY DEF Init, Ids
<1> QED  BY <1>1 DEF ChildInv

\* A run that ends has no sub-run at work that it called inline (sub_pipeline_executor.py:132-146
\* awaits it): those left are at a gate, unless something failed or was cancelled.
THEOREM InlineChildrenEndFirst == Spec => []ChildrenEndFirst
<1>1. Shape /\ WalksInv /\ ChildInv => ChildrenEndFirst
  <2> SUFFICES ASSUME Shape, WalksInv, ChildInv, NEW j \in Ids, runs[j].how = "inline", InFlight(j),
                      faults = 0, runs[j].parent \notin disturbed, j \notin disturbed,
                      runs[j].gate = "pending"
               PROVE  runs[runs[j].parent].status \notin Ended
    BY DEF ChildrenEndFirst
  <2>1. Held(j)
    BY DEF ChildInv, Busy
  <2>2. PICK e \in Executors : \E k \in 2..Len(exec[e]) :
               exec[e][k].run = j /\ exec[e][k].place # "over"
    BY <2>1 DEF Held
  <2>3. PICK k \in 2..Len(exec[e]) : exec[e][k].run = j /\ exec[e][k].place # "over"
    BY <2>2
  <2>4. k \in 1..Len(exec[e]) /\ k - 1 \in 1..Len(exec[e]) /\ k > 1 /\ k - 1 < Len(exec[e])
    <3>1. Len(exec[e]) \in Nat
      BY DEF Shape, TypeOK
    <3> QED  BY <2>3, <3>1
  <2>5. exec[e][k - 1].run = runs[j].parent /\ exec[e][k - 1].place = "inside"
    BY <2>3, <2>4 DEF Shape, StackInv
  <2>6. InFlight(runs[j].parent)
    BY <2>4, <2>5 DEF WalksInv, Attended
  <2> QED  BY <2>6 DEF InFlight, InFlightStatuses, Ended
<1>2. Init => Shape /\ WalksInv /\ ChildInv
  BY ShapeInit, WalksInit, ChildInit
<1>3. Shape /\ WalksInv /\ ChildInv /\ [Next]_vars => Shape' /\ WalksInv' /\ ChildInv'
  BY ShapeNext, WalksNext, ChildNext
<1> QED  BY <1>1, <1>2, <1>3, PTL DEF Spec

-----------------------------------------------------------------------------
(* How many runs a node starts, without a gate *)

\* The runs that run i has started; who is on the way to its node, or may bring somebody there.
Kids(i) == {j \in Ids : runs[j].parent = i}
Ahead == {"load", "begin", "sub"}
Heading(i) == {e \in Executors : /\ exec[e] # << >> /\ exec[e][Len(exec[e])].run = i
                                 /\ exec[e][Len(exec[e])].place \in Ahead}
Dispatching(i) == {h \in Handlers : At(h, "dispatch") /\ req[h].run = i}
Recovering(i) == web.pc = "sweeping" \/ (web.pc = "recovering" /\ i \in web.todo)

\* All of them together: who reaches the node leaves the second, third or fourth set for the
\* first, and only a fault makes a new one.
Holders(i) ==
  {<<"run", j>> : j \in Kids(i)} \cup {<<"process", e>> : e \in Heading(i)}
  \cup {<<"request", h>> : h \in Dispatching(i)}
  \cup (IF Recovering(i) THEN {<<"startup", 0>>} ELSE {})

TokenInv ==
  /\ web.pc # "up" => faults > 0
  /\ \A i \in Ids : runs[i].of \notin Gated =>
       IsFiniteSet(Holders(i)) /\ Cardinality(Holders(i)) <= 1 + faults

LEMMA Swapped ==
  ASSUME NEW S, NEW T, NEW x, NEW y, IsFiniteSet(S), x \in S, T \subseteq (S \ {x}) \cup {y}
  PROVE  IsFiniteSet(T) /\ Cardinality(T) <= Cardinality(S)
<1> DEFINE R == S \ {x}
<1>1. IsFiniteSet(R) /\ Cardinality(R) = Cardinality(S) - 1
  BY FS_RemoveElement
<1>2. Cardinality(S) \in Nat /\ Cardinality(R) \in Nat
  BY <1>1, FS_CardinalityType
<1> HIDE DEF R
<1>3. IsFiniteSet(R \cup {y}) /\ Cardinality(R \cup {y}) \in {Cardinality(R), Cardinality(R) + 1}
  BY <1>1, FS_AddElement
<1>4. T \subseteq R \cup {y}
  BY DEF R
<1>5. IsFiniteSet(T) /\ Cardinality(T) <= Cardinality(R \cup {y})
  BY <1>3, <1>4, FS_Subset
<1>6. Cardinality(T) \in Nat
  BY <1>5, FS_CardinalityType
<1> QED  BY <1>1, <1>2, <1>3, <1>5, <1>6

LEMMA OneMore ==
  ASSUME NEW S, NEW T, NEW y, IsFiniteSet(S), T \subseteq S \cup {y}
  PROVE  IsFiniteSet(T) /\ Cardinality(T) <= Cardinality(S) + 1
<1>1. Cardinality(S) \in Nat
  BY FS_CardinalityType
<1>2. IsFiniteSet(S \cup {y}) /\ Cardinality(S \cup {y}) \in {Cardinality(S), Cardinality(S) + 1}
  BY FS_AddElement
<1>3. IsFiniteSet(T) /\ Cardinality(T) <= Cardinality(S \cup {y})
  BY <1>2, FS_Subset
<1>4. Cardinality(T) \in Nat
  BY <1>3, FS_CardinalityType
<1> QED  BY <1>1, <1>2, <1>3, <1>4

LEMMA KidsNext ==
  ASSUME Shape, RowsStep, NEW i
  PROVE  /\ Len(runs') = Len(runs) => Kids(i)' = Kids(i)
         /\ Len(runs') = Len(runs) + 1 =>
              Kids(i)' = Kids(i) \cup (IF runs'[Len(runs) + 1].parent = i THEN {Len(runs) + 1} ELSE {})
<1>1. Len(runs) \in Nat /\ \A j \in Ids : runs'[j].parent = runs[j].parent
  BY RowsKept DEF Shape, TypeOK
<1>2. CASE Len(runs') = Len(runs)
  BY <1>1, <1>2 DEF Kids, Ids
<1>3. CASE Len(runs') = Len(runs) + 1
  <2>1. \A j \in 1..Len(runs') : j \in Ids \/ j = Len(runs) + 1
    BY <1>1, <1>3 DEF Ids
  <2>2. Len(runs) + 1 \in 1..Len(runs') /\ Ids \subseteq 1..Len(runs') /\ Len(runs) + 1 \notin Ids
    BY <1>1, <1>3 DEF Ids
  <2>3. Kids(i)' = {j \in 1..Len(runs') : runs'[j].parent = i}
    BY DEF Kids, Ids
  <2>4. \A j : j \in Kids(i)' <=> \/ j \in Kids(i)
                                  \/ j = Len(runs) + 1 /\ runs'[Len(runs) + 1].parent = i
    <3>1. \A j \in Ids : j \in Kids(i)' <=> j \in Kids(i)
      BY <1>1, <2>2, <2>3 DEF Kids
    <3>2. Len(runs) + 1 \in Kids(i)' <=> runs'[Len(runs) + 1].parent = i
      BY <2>2, <2>3
    <3>3. \A j \in Kids(i) : j \in Ids
      BY DEF Kids
    <3>4. \A j \in Kids(i)' : j \in Ids \/ j = Len(runs) + 1
      BY <2>1, <2>3
    <3> QED  BY <2>2, <3>1, <3>2, <3>3, <3>4
  <2>5. CASE runs'[Len(runs) + 1].parent = i
    BY <1>3, <2>4, <2>5
  <2>6. CASE runs'[Len(runs) + 1].parent # i
    BY <1>3, <2>4, <2>6
  <2> QED  BY <2>5, <2>6
<1> QED  BY <1>1, <1>2, <1>3

\* What a step of process e does to who is on the way to the node of run i.
LEMMA HeadingStep ==
  ASSUME Shape, NEW e \in Executors, NEW n, NEW f, StackStep(e, n, f), NEW i
  PROVE  \A g \in Heading(i)' : \/ g # e /\ g \in Heading(i)
                                \/ g = e /\ f.run = i /\ f.place \in Ahead
<1> SUFFICES ASSUME NEW g \in Heading(i)'
             PROVE  \/ g # e /\ g \in Heading(i)
                    \/ g = e /\ f.run = i /\ f.place \in Ahead
  OBVIOUS
<1>1. /\ g \in Executors /\ exec'[g] # << >> /\ exec'[g][Len(exec'[g])].run = i
      /\ exec'[g][Len(exec'[g])].place \in Ahead
  BY DEF Heading
<1>2. CASE g # e
  <2>1. exec'[g] = exec[g]
    BY <1>1, <1>2 DEF StackStep
  <2> QED  BY <1>1, <1>2, <2>1 DEF Heading
<1>3. CASE g = e
  <2>1. Len(exec'[e]) = n /\ n \in 1..n
    BY <1>1, <1>3 DEF StackStep, Shape, TypeOK
  <2>2. exec'[e][n] = f
    BY <1>1, <1>3, <2>1 DEF StackStep
  <2> QED  BY <1>1, <1>3, <2>1, <2>2
<1> QED  BY <1>2, <1>3

\* Nobody new.
LEMMA HoldersKept ==
  ASSUME Shape, NEW i, IsFiniteSet(Holders(i)), Kids(i)' \subseteq Kids(i),
         Heading(i)' \subseteq Heading(i), Dispatching(i)' \subseteq Dispatching(i),
         Recovering(i)' => Recovering(i)
  PROVE  IsFiniteSet(Holders(i)') /\ Cardinality(Holders(i)') <= Cardinality(Holders(i))
<1>1. Holders(i)' \subseteq Holders(i)
  BY DEF Holders
<1> QED  BY <1>1, FS_Subset

\* Of a walk, only the call of a sub-run takes a holder, and gives one.
LEMMA TokenWalk ==
  ASSUME Shape, NEW e \in Executors, Walk(e), NEW i \in Ids, IsFiniteSet(Holders(i))
  PROVE  IsFiniteSet(Holders(i)') /\ Cardinality(Holders(i)') <= Cardinality(Holders(i))
<1>0. exec[e] # << >> => /\ Top(e) = exec[e][Len(exec[e])] /\ Top(e).run = This(e)
                         /\ Top(e) \in Frame /\ Len(exec[e]) \in Nat \ {0}
                         /\ runs[This(e)] \in Run /\ Len(runs) + 1 \notin Ids
  BY TopOf DEF Shape, TypeOK, Ids
<1>a. UNCHANGED <<req, web>>
  BY DEF Walk, Load, Begin, CallsItself, CallInline, Fire, GoesOn, Return, Suspend, Finish
<1>b. Dispatching(i)' = Dispatching(i) /\ (Recovering(i)' <=> Recovering(i))
  BY <1>a DEF Dispatching, Recovering, At
<1>1. ASSUME RowsStep, Len(runs') = Len(runs), NEW n, NEW f, StackStep(e, n, f),
             f.place \in Ahead => e \in Heading(i) \/ f.run # i
      PROVE  IsFiniteSet(Holders(i)') /\ Cardinality(Holders(i)') <= Cardinality(Holders(i))
  <2>1. Heading(i)' \subseteq Heading(i)
    BY <1>1, HeadingStep
  <2>2. Kids(i)' = Kids(i)
    BY <1>1, KidsNext
  <2> QED  BY <1>b, <2>1, <2>2, HoldersKept
<1>2. ASSUME AtPlace(e, "load") \/ AtPlace(e, "begin") \/ AtPlace(e, "sub"), This(e) = i
      PROVE  e \in Heading(i)
  BY <1>0, <1>2 DEF AtPlace, Heading, Ahead
\* A call: the process leaves for the run that it starts.
<1>3. ASSUME RowsStep, Len(runs') = Len(runs) + 1, runs'[Len(runs) + 1].parent = This(e),
             AtPlace(e, "sub"), Heading(i)' \subseteq Heading(i) \ {e}
      PROVE  IsFiniteSet(Holders(i)') /\ Cardinality(Holders(i)') <= Cardinality(Holders(i))
  <2>1. CASE This(e) # i
    <3>1. Kids(i)' = Kids(i)
      BY <1>3, <2>1, KidsNext
    <3> QED  BY <1>3, <1>b, <3>1, HoldersKept
  <2>2. CASE This(e) = i
    <3> DEFINE x == <<"process", e>>
               y == <<"run", Len(runs) + 1>>
    <3>1. Kids(i)' = Kids(i) \cup {Len(runs) + 1}
      BY <1>3, <2>2, KidsNext
    <3>2. e \in Heading(i)
      BY <1>2, <1>3, <2>2
    <3>3. x \in Holders(i)
      BY <3>2 DEF Holders
    <3>4. Holders(i)' \subseteq (Holders(i) \ {x}) \cup {y}
      <4> SUFFICES ASSUME NEW z \in Holders(i)', z # y PROVE z \in Holders(i) /\ z # x
        OBVIOUS
      <4>1. CASE \E j \in Kids(i)' : z = <<"run", j>>
        BY <3>1, <4>1 DEF Holders
      <4>2. CASE \E g \in Heading(i)' : z = <<"process", g>>
        BY <1>3, <4>2 DEF Holders
      <4>3. CASE \E h \in Dispatching(i)' : z = <<"request", h>>
        BY <1>b, <4>3 DEF Holders
      <4>4. CASE Recovering(i)' /\ z = <<"startup", 0>>
        BY <1>b, <4>4 DEF Holders
      <4> QED  BY <4>1, <4>2, <4>3, <4>4 DEF Holders
    <3> HIDE DEF x, y
    <3> QED  BY <3>3, <3>4, Swapped
  <2> QED  BY <2>1, <2>2
<1>4. CASE Load(e)
  <2> DEFINE f == [Top(e) EXCEPT !.place = "begin", !.status = runs[This(e)].status,
                                 !.sub = runs[This(e)].sub]
  <2>1. RowsStep /\ Len(runs') = Len(runs) /\ StackStep(e, Len(exec[e]), f) /\ AtPlace(e, "load")
    BY <1>4, LoadStep DEF Load
  <2>2. f.run = This(e)
    BY <1>0, <2>1 DEF AtPlace, Frame
  <2> HIDE DEF f
  <2> QED  BY <1>1, <1>2, <2>1, <2>2
<1>5. CASE Begin(e)
  <2>1. /\ RowsStep /\ Len(runs') = Len(runs) /\ StackStep(e, Len(exec[e]), BegunFrame(e))
        /\ AtPlace(e, "begin")
    BY <1>5, BeginStep DEF Begin
  <2>2. BegunFrame(e).run = This(e)
    BY <1>0, <2>1 DEF AtPlace, Frame, BegunFrame
  <2> QED  BY <1>1, <1>2, <2>1, <2>2
<1>6. CASE CallsItself(e)
  <2> DEFINE f == [Top(e) EXCEPT !.place = "over", !.status = "failed"]
  <2>1. RowsStep /\ Len(runs') = Len(runs) /\ StackStep(e, Len(exec[e]), f) /\ exec[e] # << >>
    BY <1>6, CallsItselfStep
  <2>2. f.place \notin Ahead
    BY <1>0, <2>1 DEF Frame, Ahead
  <2> HIDE DEF f
  <2> QED  BY <1>1, <2>1, <2>2
<1>7. CASE CallInline(e)
  <2>1. /\ RowsStep /\ Len(runs') = Len(runs) + 1 /\ runs'[Len(runs) + 1].parent = This(e)
        /\ PushStep(e) /\ AtPlace(e, "sub") /\ exec[e] # << >>
    BY <1>7, CallInlineStep DEF CallInline, IsDue
  <2>2. Heading(i)' \subseteq Heading(i) \ {e}
    <3> SUFFICES ASSUME NEW g \in Heading(i)' PROVE g \in Heading(i) /\ g # e
      OBVIOUS
    <3>1. /\ g \in Executors /\ exec'[g] # << >> /\ exec'[g][Len(exec'[g])].run = i
          /\ exec'[g][Len(exec'[g])].place \in Ahead
      BY DEF Heading
    <3>2. exec'[e][Len(exec'[e])].run = Len(runs) + 1
      BY <2>1 DEF PushStep, NewFrame
    <3>3. g # e
      BY <1>0, <2>1, <3>1, <3>2
    <3>4. exec'[g] = exec[g]
      BY <2>1, <3>1, <3>3 DEF PushStep
    <3> QED  BY <3>1, <3>3, <3>4 DEF Heading
  <2> QED  BY <1>3, <2>1, <2>2
<1>8. CASE Fire(e)
  <2> DEFINE f == [Top(e) EXCEPT !.place = "gate", !.sub = "succeeded"]
  <2>1. /\ RowsStep /\ Len(runs') = Len(runs) + 1 /\ runs'[Len(runs) + 1].parent = This(e)
        /\ StackStep(e, Len(exec[e]), f) /\ AtPlace(e, "sub") /\ exec[e] # << >>
    BY <1>8, FireStep DEF Fire, IsDue
  <2>2. f.place \notin Ahead
    BY <1>0, <2>1 DEF Frame, Ahead
  <2> HIDE DEF f
  <2>3. Heading(i)' \subseteq Heading(i) \ {e}
    BY <2>1, <2>2, HeadingStep
  <2> QED  BY <1>3, <2>1, <2>3
<1>9. CASE Return(e)
  <2> DEFINE f == [Parent(e) EXCEPT !.place = "gate", !.sub = "succeeded"]
             g == [Parent(e) EXCEPT !.place = "over", !.status = "failed"]
  <2>1. /\ RowsStep /\ Len(runs') = Len(runs) /\ exec[e] # << >> /\ Len(exec[e]) # 1
        /\ StackStep(e, Len(exec[e]) - 1, f) \/ StackStep(e, Len(exec[e]) - 1, g)
    BY <1>9, ReturnStep
  <2>2. f.place \notin Ahead /\ g.place \notin Ahead
    BY <2>1, BelowTop DEF Frame, Ahead
  <2> HIDE DEF f, g
  <2> QED  BY <1>1, <2>1, <2>2
<1>10. CASE Suspend(e)
  <2> DEFINE f == [Top(e) EXCEPT !.place = "over", !.status = "awaiting_approval"]
  <2>1. RowsStep /\ Len(runs') = Len(runs) /\ StackStep(e, Len(exec[e]), f) /\ exec[e] # << >>
    BY <1>10, SuspendStep
  <2>2. f.place \notin Ahead
    BY <1>0, <2>1 DEF Frame, Ahead
  <2> HIDE DEF f
  <2> QED  BY <1>1, <2>1, <2>2
<1>11. CASE Finish(e)
  <2>1. RowsStep /\ Len(runs') = Len(runs) /\ exec[e] # << >>
    BY <1>11, FinishStep
  <2>2. PICK s \in Ended : StackStep(e, Len(exec[e]), EndedFrame(e, s))
    BY <1>11, FinishStep
  <2>3. EndedFrame(e, s).place \notin Ahead
    BY <1>0, <2>1 DEF Frame, EndedFrame, Ahead
  <2> QED  BY <1>1, <2>1, <2>2, <2>3
<1> QED  BY <1>4, <1>5, <1>6, <1>7, <1>8, <1>9, <1>10, <1>11 DEF Walk

LEMMA HeadingDispatched ==
  ASSUME Shape, NEW e \in Executors, NEW r, DispatchStep(e, r), NEW i
  PROVE  \A g \in Heading(i)' : g \in Heading(i) \/ (g = e /\ r = i)
<1> SUFFICES ASSUME NEW g \in Heading(i)' PROVE g \in Heading(i) \/ (g = e /\ r = i)
  OBVIOUS
<1>1. /\ g \in Executors /\ exec'[g] # << >> /\ exec'[g][Len(exec'[g])].run = i
      /\ exec'[g][Len(exec'[g])].place \in Ahead
  BY DEF Heading
<1>2. CASE g # e
  <2>1. exec'[g] = exec[g]
    BY <1>1, <1>2 DEF DispatchStep
  <2> QED  BY <1>1, <2>1 DEF Heading
<1>3. CASE g = e
  <2>1. Len(exec'[e]) = 1 /\ exec'[e][1] = NewFrame(r)
    BY DEF DispatchStep
  <2>2. NewFrame(r).run = i
    BY <1>1, <1>3, <2>1
  <2> QED  BY <1>3, <2>2 DEF NewFrame
<1> QED  BY <1>2, <1>3

\* A process that is started takes the place of the one who started it.
LEMMA TokenDispatched ==
  ASSUME Shape, NEW r \in Ids, Dispatched(r), runs' = runs, NEW i \in Ids, IsFiniteSet(Holders(i)),
         Dispatching(i)' \subseteq Dispatching(i), Recovering(i)' => Recovering(i),
         r = i => \/ \E h \in Dispatching(i) : h \notin Dispatching(i)'
                  \/ Recovering(i) /\ ~Recovering(i)'
  PROVE  IsFiniteSet(Holders(i)') /\ Cardinality(Holders(i)') <= Cardinality(Holders(i))
<1>1. PICK e \in Executors : DispatchStep(e, r)
  BY DispatchedStep
<1>2. Kids(i)' = Kids(i)
  BY DEF Kids, Ids
<1>3. CASE r # i
  <2>1. Heading(i)' \subseteq Heading(i)
    BY <1>1, <1>3, HeadingDispatched
  <2> QED  BY <1>2, <2>1, HoldersKept
<1>4. ASSUME NEW x, x \in Holders(i), x \notin Holders(i)'
      PROVE  IsFiniteSet(Holders(i)') /\ Cardinality(Holders(i)') <= Cardinality(Holders(i))
  <2> DEFINE y == <<"process", e>>
  <2>1. Holders(i)' \subseteq Holders(i) \cup {y}
    <3>1. Heading(i)' \subseteq Heading(i) \cup {e}
      BY <1>1, HeadingDispatched
    <3> QED  BY <1>2, <3>1 DEF Holders
  <2>2. Holders(i)' \subseteq (Holders(i) \ {x}) \cup {y}
    BY <1>4, <2>1
  <2> HIDE DEF y
  <2> QED  BY <1>4, <2>2, Swapped
<1>5. ASSUME NEW h \in Dispatching(i), h \notin Dispatching(i)'
      PROVE  IsFiniteSet(Holders(i)') /\ Cardinality(Holders(i)') <= Cardinality(Holders(i))
  <2>1. <<"request", h>> \in Holders(i)
    BY DEF Holders
  <2>2. <<"request", h>> \notin Holders(i)'
    BY <1>5 DEF Holders
  <2> QED  BY <1>4, <2>1, <2>2
<1>6. ASSUME Recovering(i), ~Recovering(i)'
      PROVE  IsFiniteSet(Holders(i)') /\ Cardinality(Holders(i)') <= Cardinality(Holders(i))
  <2>1. <<"startup", 0>> \in Holders(i)
    BY <1>6 DEF Holders
  <2>2. <<"startup", 0>> \notin Holders(i)'
    BY <1>6 DEF Holders
  <2> QED  BY <1>4, <2>1, <2>2
<1> QED  BY <1>3, <1>5, <1>6

LEMMA DecideStep ==
  ASSUME Shape, NEW h \in Handlers, NEW j \in Ids, Decide(h, j)
  PROVE  /\ RowsStep /\ Len(runs') = Len(runs)
         /\ \A k \in Ids : IF k = j THEN runs'[k].sub = runs[k].sub /\ runs'[k].gate # "suspended"
                                    ELSE runs'[k] = runs[k]
<1>1. PICK d \in {"approved", "rejected"} :
        runs' = [runs EXCEPT ![j].gate = d, ![j].status = "running"]
  BY DEF Decide
<1> DEFINE row == [runs[j] EXCEPT !.gate = d, !.status = "running"]
<1>2. runs' = [runs EXCEPT ![j] = row]
  BY <1>1, RowType
<1>3. row \in Run /\ SameRun(row, runs[j]) /\ row.sub = runs[j].sub /\ row.gate # "suspended"
  BY RowType, Zenon DEF Decide, Run, SameRun, InFlightStatuses
<1> HIDE DEF row
<1>4. /\ RowsStep /\ Len(runs') = Len(runs)
      /\ \A k \in Ids : runs'[k] = IF k = j THEN row ELSE runs[k]
  BY <1>2, <1>3, WrittenRow
<1> QED  BY <1>3, <1>4

LEMMA TokenServe ==
  ASSUME Shape, NEW h \in Handlers, Serve(h) \/ Proceed(h) \/ SpawnFails(h),
         NEW i \in Ids, runs[i].of \notin Gated, IsFiniteSet(Holders(i))
  PROVE  IsFiniteSet(Holders(i)') /\ Cardinality(Holders(i)') <= Cardinality(Holders(i))
<1>0. req \in [Handlers -> Request] /\ Len(runs) + 1 \notin Ids /\ i # 0
  BY DEF Shape, TypeOK, Ids
<1>1. ASSUME Kids(i)' = Kids(i), exec' = exec, web' = web, NEW x, req' = [req EXCEPT ![h] = x],
             x.pc = "dispatch" => x.run # i
      PROVE  IsFiniteSet(Holders(i)') /\ Cardinality(Holders(i)') <= Cardinality(Holders(i))
  <2>1. Heading(i)' \subseteq Heading(i) /\ (Recovering(i)' => Recovering(i))
    BY <1>1 DEF Heading, Recovering
  <2>2. Dispatching(i)' \subseteq Dispatching(i)
    BY <1>0, <1>1 DEF Dispatching, At
  <2> QED  BY <1>1, <2>1, <2>2, HoldersKept
<1>2. ASSUME runs' = runs PROVE Kids(i)' = Kids(i)
  BY <1>2 DEF Kids, Ids
<1>3. ASSUME NEW p \in Pipelines, Check(h, p) PROVE
        IsFiniteSet(Holders(i)') /\ Cardinality(Holders(i)') <= Cardinality(Holders(i))
  BY <1>1, <1>2, <1>3 DEF Check
<1>4. ASSUME NEW c \in Candidates, ReadCandidate(h, c) PROVE
        IsFiniteSet(Holders(i)') /\ Cardinality(Holders(i)') <= Cardinality(Holders(i))
  BY <1>1, <1>2, <1>4 DEF ReadCandidate
<1>5. ASSUME NEW j \in Ids, Decide(h, j) PROVE
        IsFiniteSet(Holders(i)') /\ Cardinality(Holders(i)') <= Cardinality(Holders(i))
  <2>1. j # i
    BY <1>5 DEF Decide, Shape, KnownInv
  <2>2. RowsStep /\ Len(runs') = Len(runs)
    BY <1>5, DecideStep
  <2>3. Kids(i)' = Kids(i)
    BY <2>2, KidsNext
  <2> QED  BY <1>1, <1>5, <2>1, <2>3 DEF Decide
<1>6. CASE Create(h)
  <2>1. RowsStep /\ Len(runs') = Len(runs) + 1 /\ runs'[Len(runs) + 1].parent = 0
    BY <1>6, CreateStep DEF CreatedStep
  <2>2. Kids(i)' = Kids(i)
    BY <1>0, <2>1, KidsNext
  <2> QED  BY <1>0, <1>1, <1>6, <2>2 DEF Create
<1>7. CASE CreateDelivery(h)
  <2>1. RowsStep /\ Len(runs') = Len(runs) + 1 /\ runs'[Len(runs) + 1].parent = 0
    BY <1>7, DeliveryStep DEF CreatedStep
  <2>2. Kids(i)' = Kids(i)
    BY <1>0, <2>1, KidsNext
  <2> QED  BY <1>0, <1>1, <1>7, <2>2 DEF CreateDelivery
<1>8. CASE Initiate(h)
  <2>1. req' = [req EXCEPT ![h] = [req[h] EXCEPT !.pc = "initiated"]]
    BY <1>0, <1>8 DEF Initiate
  <2>2. [req[h] EXCEPT !.pc = "initiated"].pc # "dispatch"
    BY <1>8, RequestShape DEF Initiate
  <2> QED  BY <1>1, <1>2, <1>8, <2>1, <2>2 DEF Initiate
<1>9. CASE Spawn(h)
  <2>1. /\ At(h, "dispatch") /\ req[h].run \in Ids /\ Dispatched(req[h].run)
        /\ req' = [req EXCEPT ![h] = Idle] /\ runs' = runs /\ web' = web
    BY <1>9, RequestShape DEF Spawn
  <2>2. Dispatching(i)' \subseteq Dispatching(i) /\ h \notin Dispatching(i)'
    BY <1>0, <2>1 DEF Dispatching, At, Idle
  <2>3. req[h].run = i => h \in Dispatching(i)
    BY <2>1 DEF Dispatching
  <2>4. Recovering(i)' => Recovering(i)
    BY <2>1 DEF Recovering
  <2> QED  BY <2>1, <2>2, <2>3, <2>4, TokenDispatched
<1>10. CASE SpawnFails(h)
  BY <1>1, <1>2, <1>10 DEF SpawnFails, Idle
<1> QED  BY <1>3, <1>4, <1>5, <1>6, <1>7, <1>8, <1>9, <1>10 DEF Serve, Proceed

LEMMA TokenTrouble ==
  ASSUME Shape, NEW i \in Ids, IsFiniteSet(Holders(i)),
         \/ \E j \in Ids : Cancel(j)
         \/ \E e \in Executors : Kill(e) \/ Raise(e)
         \/ Sweep \/ Recover \/ UNCHANGED vars
  PROVE  IsFiniteSet(Holders(i)') /\ Cardinality(Holders(i)') <= Cardinality(Holders(i))
<1>1. ASSUME RowsStep, Len(runs') = Len(runs), req' = req, Heading(i)' \subseteq Heading(i),
             Recovering(i)' => Recovering(i)
      PROVE  IsFiniteSet(Holders(i)') /\ Cardinality(Holders(i)') <= Cardinality(Holders(i))
  <2>1. Kids(i)' = Kids(i)
    BY <1>1, KidsNext
  <2>2. Dispatching(i)' \subseteq Dispatching(i)
    BY <1>1 DEF Dispatching, At
  <2> QED  BY <1>1, <2>1, <2>2, HoldersKept
<1>2. ASSUME exec' = exec PROVE Heading(i)' \subseteq Heading(i)
  BY <1>2 DEF Heading
<1>3. ASSUME web' = web PROVE Recovering(i)' => Recovering(i)
  BY <1>3 DEF Recovering
<1>4. ASSUME NEW j \in Ids, Cancel(j) PROVE
        IsFiniteSet(Holders(i)') /\ Cardinality(Holders(i)') <= Cardinality(Holders(i))
  BY <1>1, <1>2, <1>3, <1>4, CancelStep DEF Cancel
<1>5. ASSUME NEW e \in Executors, Kill(e) PROVE
        IsFiniteSet(Holders(i)') /\ Cardinality(Holders(i)') <= Cardinality(Holders(i))
  <2>1. Heading(i)' \subseteq Heading(i)
    BY <1>5 DEF Kill, Heading, Shape, TypeOK
  <2> QED  BY <1>1, <1>3, <1>5, <2>1, NoNewRow DEF Kill
<1>6. ASSUME NEW e \in Executors, Raise(e) PROVE
        IsFiniteSet(Holders(i)') /\ Cardinality(Holders(i)') <= Cardinality(Holders(i))
  <2>1. RowsStep /\ Len(runs') = Len(runs)
    BY <1>6, RaiseStep
  <2>2. PICK n \in 1..Len(exec[e]), f \in Frame : CutStep(e, n, f)
    BY <1>6, RaiseStep
  <2>3. Heading(i)' \subseteq Heading(i)
    <3> SUFFICES ASSUME NEW g \in Heading(i)' PROVE g \in Heading(i)
      OBVIOUS
    <3>1. g \in Heading(i) \/ (g = e /\ f.place \in Ahead)
      BY <2>2, HeadingStep DEF CutStep
    <3>2. exec'[g] # << >>
      BY DEF Heading
    <3> QED  BY <2>2, <3>1, <3>2 DEF CutStep, Ahead
  <2> QED  BY <1>1, <1>3, <1>6, <2>1, <2>3 DEF Raise
<1>7. CASE Sweep
  <2>1. PICK S \in SUBSET Ids : SweptStep(S)
    BY <1>7, SweepStep
  <2> QED  BY <1>1, <1>2, <1>7, <2>1 DEF Sweep, SweptStep, Recovering
<1>8. CASE Recover
  <2>1. CASE web.todo = {}
    <3>1. Recovering(i)' => Recovering(i)
      BY <1>8, <2>1 DEF Recover, Recovering, Shape, TypeOK
    <3> QED  BY <1>1, <1>2, <1>8, <2>1, <3>1, NoNewRow DEF Recover
  <2>2. CASE web.todo # {}
    <3>1. PICK j \in web.todo : Dispatched(j) /\ web' = [web EXCEPT !.todo = @ \ {j}]
      BY <1>8, <2>2 DEF Recover
    <3>2. j \in Ids /\ web'.pc = web.pc /\ web'.todo = web.todo \ {j} /\ web.pc = "recovering"
      BY <1>8, <3>1 DEF Recover, Shape, TypeOK
    <3>3. (Recovering(i)' => Recovering(i)) /\ (j = i => Recovering(i) /\ ~Recovering(i)')
      BY <3>1, <3>2 DEF Recovering
    <3>4. Dispatching(i)' \subseteq Dispatching(i) /\ runs' = runs
      BY <1>8 DEF Recover, Dispatching, At
    <3> QED  BY <3>1, <3>2, <3>3, <3>4, TokenDispatched
  <2> QED  BY <2>1, <2>2
<1>9. CASE UNCHANGED vars
  BY <1>1, <1>2, <1>3, <1>9, NoNewRow DEF vars
<1> QED  BY <1>4, <1>5, <1>6, <1>7, <1>8, <1>9

\* A restart looks once at every run.
LEMMA TokenRestart ==
  ASSUME Shape, NEW i \in Ids, IsFiniteSet(Holders(i)), Restart
  PROVE  IsFiniteSet(Holders(i)') /\ Cardinality(Holders(i)') <= Cardinality(Holders(i)) + 1
<1> DEFINE y == <<"startup", 0>>
<1>1. Kids(i)' = Kids(i)
  BY DEF Restart, Kids, Ids
<1>2. Heading(i)' \subseteq Heading(i)
  BY DEF Restart, Heading
<1>3. Dispatching(i)' = {}
  BY DEF Restart, Dispatching, At, Idle
<1>4. Holders(i)' \subseteq Holders(i) \cup {y}
  BY <1>1, <1>2, <1>3 DEF Holders
<1> HIDE DEF y
<1> QED  BY <1>4, OneMore

\* Nobody has a run yet that there is not.
LEMMA NobodyKnows ==
  ASSUME Shape, [Next]_vars, NEW i \in 1..Len(runs'), i \notin Ids
  PROVE  /\ Kids(i)' = {} /\ Dispatching(i) = {}
         /\ \A e \in Executors : \A k \in 1..Len(exec[e]) : exec[e][k].run # i
<1>1. Shape' /\ RowsStep /\ i = Len(runs) + 1 /\ Len(runs') = Len(runs) + 1 /\ Len(runs) \in Nat
  BY RowsNext, ShapeNext DEF RowsStep, Shape, TypeOK, Ids
<1>2. Kids(i)' = {}
  <2>1. \A j \in Ids' : runs'[j].parent < j
    BY <1>1 DEF Shape, KnownInv
  <2> QED  BY <1>1, <2>1 DEF Kids, Ids
<1>3. \A e \in Executors : \A k \in 1..Len(exec[e]) : exec[e][k].run # i
  BY DEF Shape, StackInv
<1> QED  BY <1>2, <1>3, RequestShape DEF Dispatching

\* A new run has one who is on the way to its node, and after a restart the startup task.
LEMMA TokenNew ==
  ASSUME Shape, web.pc # "up" => faults > 0, [Next]_vars, NEW i \in 1..Len(runs'), i \notin Ids
  PROVE  IsFiniteSet(Holders(i)') /\ Cardinality(Holders(i)') <= 1 + faults'
<1>0. /\ RowsStep /\ Shape' /\ faults \in Nat /\ Len(runs) \in Nat /\ i = Len(runs) + 1
      /\ Len(runs') = Len(runs) + 1
  BY RowsNext, ShapeNext, FaultsNext DEF RowsStep, Shape, TypeOK, Ids
<1>1. Kids(i)' = {}
  BY NobodyKnows
<1>2. Heading(i) = {} /\ Dispatching(i) = {}
  <2>1. ASSUME NEW e \in Heading(i) PROVE FALSE
    <3>1. e \in Executors /\ exec[e] # << >> /\ exec[e][Len(exec[e])].run = i
      BY DEF Heading
    <3>2. Len(exec[e]) \in 1..Len(exec[e])
      BY <3>1, TopOf
    <3> QED  BY <3>1, <3>2, NobodyKnows
  <2> QED  BY <2>1, NobodyKnows
<1>3. ASSUME web' = web, faults' = faults, NEW y,
             \A e \in Heading(i)' : <<"process", e>> = y,
             \A h \in Dispatching(i)' : <<"request", h>> = y
      PROVE  IsFiniteSet(Holders(i)') /\ Cardinality(Holders(i)') <= 1 + faults'
  <2>1. Recovering(i)' => web.pc # "up"
    BY <1>3 DEF Recovering
  <2>2. IsFiniteSet({y}) /\ Cardinality({y}) = 1
    BY FS_Singleton
  <2>3. CASE Recovering(i)'
    <3> DEFINE z == <<"startup", 0>>
    <3>1. Holders(i)' \subseteq {y} \cup {z}
      BY <1>1, <1>3 DEF Holders
    <3> HIDE DEF z
    <3>2. IsFiniteSet(Holders(i)') /\ Cardinality(Holders(i)') <= Cardinality({y}) + 1
      BY <2>2, <3>1, OneMore
    <3>3. Cardinality(Holders(i)') \in Nat /\ faults > 0
      BY <2>1, <2>3, <3>2, FS_CardinalityType
    <3> QED  BY <1>0, <1>3, <2>2, <3>2, <3>3
  <2>4. CASE ~Recovering(i)'
    <3>1. Holders(i)' \subseteq {y}
      BY <1>1, <1>3, <2>4 DEF Holders
    <3>2. IsFiniteSet(Holders(i)') /\ Cardinality(Holders(i)') <= Cardinality({y})
      BY <2>2, <3>1, FS_Subset
    <3>3. Cardinality(Holders(i)') \in Nat
      BY <3>2, FS_CardinalityType
    <3> QED  BY <1>0, <1>3, <2>2, <3>2, <3>3
  <2> QED  BY <2>3, <2>4
<1>4. ASSUME NEW h \in Handlers, Create(h) \/ CreateDelivery(h)
      PROVE  IsFiniteSet(Holders(i)') /\ Cardinality(Holders(i)') <= 1 + faults'
  <2>1. exec' = exec /\ UNCHANGED <<web, faults>> /\ \A g \in Handlers \ {h} : req'[g] = req[g]
    BY <1>4 DEF Create, CreateDelivery, Shape, TypeOK
  <2>2. Heading(i)' = {}
    BY <1>2, <2>1 DEF Heading
  <2>3. \A g \in Dispatching(i)' : g = h
    BY <1>2, <2>1 DEF Dispatching, At
  <2> QED  BY <1>3, <2>1, <2>2, <2>3
<1>5. ASSUME NEW e \in Executors, CallInline(e)
      PROVE  IsFiniteSet(Holders(i)') /\ Cardinality(Holders(i)') <= 1 + faults'
  <2>1. UNCHANGED <<req, web, faults>> /\ PushStep(e)
    BY <1>5, CallInlineStep DEF CallInline
  <2>2. Dispatching(i)' = {}
    BY <1>2, <2>1 DEF Dispatching, At
  <2>3. \A g \in Heading(i)' : g = e
    <3> SUFFICES ASSUME NEW g \in Heading(i)', g # e PROVE FALSE
      OBVIOUS
    <3>1. exec'[g] = exec[g] /\ g \in Executors
      BY <2>1 DEF PushStep, Heading
    <3>2. g \in Heading(i)
      BY <3>1 DEF Heading
    <3> QED  BY <1>2, <3>2
  <2> QED  BY <1>3, <2>1, <2>2, <2>3
<1>6. ASSUME NEW e \in Executors, Fire(e)
      PROVE  IsFiniteSet(Holders(i)') /\ Cardinality(Holders(i)') <= 1 + faults'
  <2> DEFINE f == [Top(e) EXCEPT !.place = "gate", !.sub = "succeeded"]
  <2>1. /\ UNCHANGED <<req, web, faults>> /\ StackStep(e, Len(exec[e]), f) /\ exec[e] # << >>
    BY <1>6, FireStep DEF Fire, GoesOn
  <2>2. Dispatching(i)' = {}
    BY <1>2, <2>1 DEF Dispatching, At
  <2>3. f.place \notin Ahead
    BY <2>1, TopOf DEF Frame, Ahead
  <2> HIDE DEF f
  <2>4. Heading(i)' = {}
    BY <1>2, <2>1, <2>3, HeadingStep
  <2> QED  BY <1>3, <2>1, <2>2, <2>4
<1>7. Len(runs') # Len(runs)
  BY <1>0
<1> QED  BY <1>4, <1>5, <1>6, <1>7, RowsNext

LEMMA TokenNext ==
  ASSUME Shape, TokenInv, [Next]_vars
  PROVE  TokenInv'
<1>0. /\ RowsStep /\ faults \in Nat /\ faults' \in {faults, faults + 1}
      /\ (Restart => faults' = faults + 1)
  BY RowsNext, FaultsNext
<1>1. web'.pc # "up" => faults' > 0
  <2>1. CASE web' = web
    BY <1>0, <2>1 DEF TokenInv
  <2>2. CASE Restart
    BY <1>0, <2>2
  <2>3. CASE Sweep \/ Recover
    BY <1>0, <2>3 DEF TokenInv, Sweep, Recover
  <2>4. ASSUME NEW h \in Handlers, Serve(h) \/ Proceed(h) \/ SpawnFails(h) PROVE web' = web
    BY <2>4 DEF Serve, Proceed, SpawnFails, Check, ReadCandidate, Decide, Create, Initiate,
                CreateDelivery, Spawn
  <2>5. ASSUME NEW e \in Executors, Walk(e) \/ Kill(e) \/ Raise(e) PROVE web' = web
    BY <2>5 DEF Walk, Kill, Raise, Load, Begin, CallsItself, CallInline, Fire, GoesOn, Return,
                Suspend, Finish
  <2>6. ASSUME (\E i \in Ids : Cancel(i)) \/ UNCHANGED vars PROVE web' = web
    BY <2>6 DEF Cancel, vars
  <2> QED  BY <2>1, <2>2, <2>3, <2>4, <2>5, <2>6 DEF Next
<1>2. ASSUME NEW i \in Ids, runs'[i].of \notin Gated
      PROVE  IsFiniteSet(Holders(i)') /\ Cardinality(Holders(i)') <= 1 + faults'
  <2>1. runs[i].of \notin Gated
    BY <1>0, <1>2, RowsKept
  <2>2. /\ IsFiniteSet(Holders(i)) /\ Cardinality(Holders(i)) <= 1 + faults
        /\ Cardinality(Holders(i)) \in Nat
    BY <2>1, FS_CardinalityType DEF TokenInv
  <2>3. ASSUME IsFiniteSet(Holders(i)') /\ Cardinality(Holders(i)') <= Cardinality(Holders(i))
        PROVE  IsFiniteSet(Holders(i)') /\ Cardinality(Holders(i)') <= 1 + faults'
    <3>1. Cardinality(Holders(i)') \in Nat
      BY <2>3, FS_CardinalityType
    <3> QED  BY <1>0, <2>2, <2>3, <3>1
  <2>4. ASSUME NEW h \in Handlers, Serve(h) \/ Proceed(h) \/ SpawnFails(h)
        PROVE  IsFiniteSet(Holders(i)') /\ Cardinality(Holders(i)') <= 1 + faults'
    BY <2>1, <2>2, <2>3, <2>4, TokenServe
  <2>5. ASSUME NEW e \in Executors, Walk(e)
        PROVE  IsFiniteSet(Holders(i)') /\ Cardinality(Holders(i)') <= 1 + faults'
    BY <2>2, <2>3, <2>5, TokenWalk
  <2>6. CASE Restart
    <3>1. IsFiniteSet(Holders(i)') /\ Cardinality(Holders(i)') <= Cardinality(Holders(i)) + 1
      BY <2>2, <2>6, TokenRestart
    <3>2. Cardinality(Holders(i)') \in Nat
      BY <3>1, FS_CardinalityType
    <3> QED  BY <1>0, <2>2, <2>6, <3>1, <3>2
  <2>7. CASE \/ \E j \in Ids : Cancel(j)
             \/ \E e \in Executors : Kill(e) \/ Raise(e)
             \/ Sweep \/ Recover \/ UNCHANGED vars
    BY <2>2, <2>3, <2>7, TokenTrouble
  <2> QED  BY <2>4, <2>5, <2>6, <2>7 DEF Next
<1>3. ASSUME NEW i \in 1..Len(runs'), i \notin Ids
      PROVE  IsFiniteSet(Holders(i)') /\ Cardinality(Holders(i)') <= 1 + faults'
  BY <1>3, TokenNew DEF TokenInv
<1> QED  BY <1>1, <1>2, <1>3 DEF TokenInv, Ids

LEMMA TokenInit == Init => TokenInv
<1> SUFFICES ASSUME Init PROVE TokenInv
  OBVIOUS
<1>1. Ids = {} /\ web.pc = "up"
  BY DEF Init, Ids
<1> QED  BY <1>1 DEF TokenInv

-----------------------------------------------------------------------------
(* One run of a node without a fault, gate or not *)

Done == {"succeeded", "failed"}
\* The node of run i has started nothing, or its row says how that ended.
Settled(i) == Kids(i) = {} \/ runs[i].sub \in Done

\* Process e is walking run i at height k of its stack.
Walks(e, k, i) == k \in 1..Len(exec[e]) /\ exec[e][k].run = i /\ exec[e][k].place # "over"
\* What the walk knows of a sub-run, by where it is.
Knows(i, frame) ==
  /\ frame.place = "load" => Settled(i)
  /\ frame.place \in {"begin", "gate"} => Kids(i) = {} \/ frame.sub \in Done
  /\ frame.place = "sub" => Kids(i) = {}

\* The run is at one place only: with one request, with one walk, or at its gate; and nobody who
\* may walk its node again takes it for one that has started nothing.
OnceOf(i) ==
  /\ \A j, l \in Kids(i) : j = l
  /\ \A h, g \in Dispatching(i) : h = g
  /\ Dispatching(i) # {} => Settled(i) /\ runs[i].gate # "suspended"
  /\ runs[i].gate = "suspended" => Settled(i)
  /\ \A e \in Executors : \A k \in 1..Len(exec[e]) : Walks(e, k, i) =>
       /\ Dispatching(i) = {} /\ runs[i].gate # "suspended" /\ Knows(i, exec[e][k])
       /\ \A g \in Executors : \A l \in 1..Len(exec[g]) : Walks(g, l, i) => g = e /\ l = k
OnceInv == faults = 0 => \A i \in Ids : OnceOf(i)

\* The same of the next state, for a frame that is given.
WalkedNext(e, k, i) == k \in 1..Len(exec'[e]) /\ exec'[e][k].run = i /\ exec'[e][k].place # "over"
KnowsNext(i, frame) ==
  /\ frame.place = "load" => Settled(i)'
  /\ frame.place \in {"begin", "gate"} => Kids(i)' = {} \/ frame.sub \in Done
  /\ frame.place = "sub" => Kids(i)' = {}

\* What must be shown of the next state.
LEMMA OnceFrom ==
  ASSUME NEW i,
         \A j, l \in Kids(i)' : j = l,
         \A h, g \in Dispatching(i)' : h = g,
         Dispatching(i)' # {} => Settled(i)' /\ runs'[i].gate # "suspended",
         runs'[i].gate = "suspended" => Settled(i)',
         \A e \in Executors : \A k \in 1..Len(exec'[e]) : WalkedNext(e, k, i) =>
           /\ Dispatching(i)' = {} /\ runs'[i].gate # "suspended" /\ KnowsNext(i, exec'[e][k])
           /\ \A g \in Executors : \A l \in 1..Len(exec'[g]) : WalkedNext(g, l, i) => g = e /\ l = k
  PROVE  OnceOf(i)'
  BY DEF OnceOf, Walks, WalkedNext, Knows, KnowsNext

\* A step that does nothing to run i.
LEMMA OnceKept ==
  ASSUME NEW i, OnceOf(i), Kids(i)' = Kids(i), Dispatching(i)' = Dispatching(i),
         runs'[i].sub = runs[i].sub, runs'[i].gate = runs[i].gate,
         \A e \in Executors : \A k \in 1..Len(exec'[e]) : WalkedNext(e, k, i) =>
           Walks(e, k, i) /\ exec'[e][k] = exec[e][k]
  PROVE  OnceOf(i)'
<1>1. Settled(i) => Settled(i)'
  BY DEF Settled
<1>2. ASSUME NEW e \in Executors, NEW k \in 1..Len(exec'[e]), WalkedNext(e, k, i)
      PROVE  /\ Dispatching(i)' = {} /\ runs'[i].gate # "suspended" /\ KnowsNext(i, exec'[e][k])
             /\ \A g \in Executors : \A l \in 1..Len(exec'[g]) :
                  WalkedNext(g, l, i) => g = e /\ l = k
  <2>1. Walks(e, k, i) /\ k \in 1..Len(exec[e]) /\ exec'[e][k] = exec[e][k]
    BY <1>2 DEF Walks
  <2>2. /\ Dispatching(i) = {} /\ runs[i].gate # "suspended" /\ Knows(i, exec[e][k])
        /\ \A g \in Executors : \A l \in 1..Len(exec[g]) : Walks(g, l, i) => g = e /\ l = k
    BY <2>1 DEF OnceOf
  <2>3. KnowsNext(i, exec'[e][k])
    BY <1>1, <2>1, <2>2 DEF Knows, KnowsNext
  <2>4. \A g \in Executors : \A l \in 1..Len(exec'[g]) : WalkedNext(g, l, i) => g = e /\ l = k
    BY <2>2 DEF Walks
  <2> QED  BY <2>2, <2>3, <2>4
<1> QED  BY <1>1, <1>2, OnceFrom DEF OnceOf

\* A step of another run's walk.
LEMMA OnceBeside ==
  ASSUME Shape, RowsStep, NEW e \in Executors, NEW n, NEW f, StackStep(e, n, f),
         NEW i \in Ids, f.run # i, OnceOf(i), req' = req, Kids(i)' = Kids(i), runs'[i] = runs[i]
  PROVE  OnceOf(i)'
<1>1. Dispatching(i)' = Dispatching(i)
  BY DEF Dispatching, At
<1>2. ASSUME NEW g \in Executors, NEW k \in 1..Len(exec'[g]), WalkedNext(g, k, i)
      PROVE  Walks(g, k, i) /\ exec'[g][k] = exec[g][k]
  <2>1. CASE g # e
    BY <1>2, <2>1 DEF StackStep, WalkedNext, Walks
  <2>2. CASE g = e
    <3>1. exec'[e] # << >>
      BY <1>2, <2>2 DEF StackStep
    <3>2. Len(exec'[e]) = n /\ exec'[e][k] = (IF k = n THEN f ELSE exec[e][k])
      BY <1>2, <2>2, <3>1 DEF StackStep
    <3>3. k # n /\ exec'[e][k] = exec[e][k]
      BY <1>2, <2>2, <3>2 DEF WalkedNext
    <3>4. k \in 1..Len(exec[e])
      <4>1. Len(exec[e]) \in Nat /\ n \in 1..Len(exec[e])
        BY DEF StackStep, Shape, TypeOK
      <4> QED  BY <1>2, <2>2, <3>2, <4>1
    <3> QED  BY <1>2, <2>2, <3>3, <3>4 DEF WalkedNext, Walks
  <2> QED  BY <2>1, <2>2
<1> QED  BY <1>1, <1>2, OnceKept

\* A step of the run's own walk.
LEMMA OnceStep ==
  ASSUME Shape, NEW e \in Executors, NEW n, NEW f, StackStep(e, n, f), NEW i \in Ids,
         f.run = i, exec[e][n].place # "over", OnceOf(i), req' = req,
         \A j, l \in Kids(i)' : j = l,
         runs'[i].gate = "suspended" => Settled(i)' /\ f.place = "over",
         f.place # "over" => KnowsNext(i, f)
  PROVE  OnceOf(i)'
<1>0. n \in 1..Len(exec[e]) /\ Walks(e, n, i)
  BY DEF StackStep, Walks
<1>1. /\ Dispatching(i) = {} /\ runs[i].gate # "suspended"
      /\ \A g \in Executors : \A l \in 1..Len(exec[g]) : Walks(g, l, i) => g = e /\ l = n
  BY <1>0 DEF OnceOf
<1>2. Dispatching(i)' = {}
  BY <1>1 DEF Dispatching, At
<1>3. ASSUME NEW g \in Executors, NEW k \in 1..Len(exec'[g]), WalkedNext(g, k, i)
      PROVE  g = e /\ k = n /\ exec'[e][n] = f /\ f.place # "over"
  <2>1. CASE g # e
    <3>1. Walks(g, k, i) /\ k \in 1..Len(exec[g])
      BY <1>3, <2>1 DEF StackStep, WalkedNext, Walks
    <3> QED  BY <1>1, <2>1, <3>1
  <2>2. CASE g = e
    <3>1. Len(exec'[e]) = n /\ exec'[e][k] = (IF k = n THEN f ELSE exec[e][k])
      BY <1>3, <2>2 DEF StackStep
    <3>2. CASE k = n
      BY <1>3, <2>2, <3>1, <3>2 DEF WalkedNext
    <3>3. CASE k # n
      <4>1. k \in 1..Len(exec[e])
        <5>1. Len(exec[e]) \in Nat
          BY DEF Shape, TypeOK
        <5> QED  BY <1>0, <1>3, <2>2, <3>1, <5>1
      <4>2. Walks(e, k, i)
        BY <1>3, <2>2, <3>1, <3>3, <4>1 DEF WalkedNext, Walks
      <4> QED  BY <1>1, <3>3, <4>1, <4>2
    <3> QED  BY <3>2, <3>3
  <2> QED  BY <2>1, <2>2
<1>4. ASSUME NEW g \in Executors, NEW k \in 1..Len(exec'[g]), WalkedNext(g, k, i)
      PROVE  /\ Dispatching(i)' = {} /\ runs'[i].gate # "suspended" /\ KnowsNext(i, exec'[g][k])
             /\ \A d \in Executors : \A l \in 1..Len(exec'[d]) :
                  WalkedNext(d, l, i) => d = g /\ l = k
  <2>1. g = e /\ k = n /\ exec'[g][k] = f /\ f.place # "over"
    BY <1>3, <1>4
  <2>2. \A d \in Executors : \A l \in 1..Len(exec'[d]) : WalkedNext(d, l, i) => d = g /\ l = k
    BY <1>3, <2>1
  <2> QED  BY <1>2, <2>1, <2>2
<1> QED  BY <1>2, <1>4, OnceFrom

\* The walk that calls a sub-run is inside of it until it is over.
LEMMA OncePushed ==
  ASSUME Shape, NEW e \in Executors, CallInline(e), NEW i \in Ids, OnceOf(i)
  PROVE  OnceOf(i)'
<1> DEFINE top == Len(exec[e])
<1>1. /\ RowsStep /\ Len(runs') = Len(runs) + 1 /\ runs'[Len(runs) + 1].parent = This(e)
      /\ PushStep(e) /\ exec[e] # << >> /\ Top(e).place = "sub" /\ req' = req
      /\ \A j \in Ids : runs'[j] = runs[j]
  BY CallInlineStep DEF CallInline
<1>2. /\ Top(e) = exec[e][top] /\ Top(e).run = This(e) /\ Top(e) \in Frame /\ top \in Nat \ {0}
      /\ top \in 1..top /\ Len(runs) + 1 # i
  BY <1>1, TopOf DEF Shape, TypeOK, Ids
<1>3. Dispatching(i)' = Dispatching(i)
  BY <1>1 DEF Dispatching, At
<1>4. exec'[e][top].run = This(e) /\ exec'[e][top].place = "inside"
  BY <1>1, <1>2 DEF PushStep, Frame
<1>5. \A k \in 1..Len(exec'[e]) : k = top + 1 \/ k \in 1..top
  BY <1>1, <1>2 DEF PushStep
<1>6. exec'[e][top + 1].run = Len(runs) + 1
  BY <1>1 DEF PushStep, NewFrame
<1>7. ASSUME NEW g \in Executors, NEW k \in 1..Len(exec'[g]), WalkedNext(g, k, i)
      PROVE  Walks(g, k, i) /\ ((g = e /\ k = top) \/ exec'[g][k] = exec[g][k])
  <2>1. CASE g # e
    BY <1>1, <1>7, <2>1 DEF PushStep, WalkedNext, Walks
  <2>2. CASE g = e
    <3>1. k \in 1..top
      BY <1>2, <1>5, <1>6, <1>7, <2>2 DEF WalkedNext
    <3>2. CASE k = top
      BY <1>1, <1>2, <1>4, <1>7, <2>2, <3>1, <3>2 DEF WalkedNext, Walks
    <3>3. CASE k # top
      <4>1. exec'[e][k] = exec[e][k]
        BY <1>1, <3>1, <3>3 DEF PushStep
      <4> QED  BY <1>7, <2>2, <3>1, <4>1 DEF WalkedNext, Walks
    <3> QED  BY <3>2, <3>3
  <2> QED  BY <2>1, <2>2
<1> HIDE DEF top
<1>8. CASE This(e) # i
  <2>1. Kids(i)' = Kids(i)
    BY <1>1, <1>8, KidsNext
  <2>2. ASSUME NEW g \in Executors, NEW k \in 1..Len(exec'[g]), WalkedNext(g, k, i)
        PROVE  Walks(g, k, i) /\ exec'[g][k] = exec[g][k]
    BY <1>4, <1>7, <1>8, <2>2 DEF WalkedNext
  <2> QED  BY <1>1, <1>3, <2>1, <2>2, OnceKept
<1>9. CASE This(e) = i
  <2>1. Walks(e, top, i)
    BY <1>1, <1>2, <1>9 DEF Walks, top
  <2>2. /\ Dispatching(i) = {} /\ runs[i].gate # "suspended" /\ Kids(i) = {}
        /\ \A g \in Executors : \A l \in 1..Len(exec[g]) : Walks(g, l, i) => g = e /\ l = top
    <3>1. top \in 1..Len(exec[e])
      BY <1>2 DEF top
    <3>2. /\ Dispatching(i) = {} /\ runs[i].gate # "suspended" /\ Knows(i, exec[e][top])
          /\ \A g \in Executors : \A l \in 1..Len(exec[g]) : Walks(g, l, i) => g = e /\ l = top
      BY <2>1, <3>1 DEF OnceOf
    <3> QED  BY <1>1, <1>2, <3>2 DEF Knows
  <2>3. \A j, l \in Kids(i)' : j = l
    BY <1>1, <1>9, <2>2, KidsNext
  <2>4. ASSUME NEW g \in Executors, NEW k \in 1..Len(exec'[g]), WalkedNext(g, k, i)
        PROVE  g = e /\ k = top
    BY <1>7, <2>2, <2>4 DEF Walks
  <2>5. KnowsNext(i, exec'[e][top])
    BY <1>4 DEF KnowsNext
  <2>6. ASSUME NEW g \in Executors, NEW k \in 1..Len(exec'[g]), WalkedNext(g, k, i)
        PROVE  /\ Dispatching(i)' = {} /\ runs'[i].gate # "suspended" /\ KnowsNext(i, exec'[g][k])
               /\ \A d \in Executors : \A l \in 1..Len(exec'[d]) :
                    WalkedNext(d, l, i) => d = g /\ l = k
    <3>1. g = e /\ k = top
      BY <2>4, <2>6
    <3>2. \A d \in Executors : \A l \in 1..Len(exec'[d]) : WalkedNext(d, l, i) => d = g /\ l = k
      BY <2>4, <3>1
    <3> QED  BY <1>1, <1>3, <2>2, <2>5, <3>1, <3>2
  <2> QED  BY <1>1, <1>3, <2>2, <2>3, <2>6, OnceFrom
<1> QED  BY <1>8, <1>9

LEMMA OnceWalk ==
  ASSUME Shape, NEW e \in Executors, Walk(e), NEW i \in Ids, OnceOf(i)
  PROVE  OnceOf(i)'
<1>0. req' = req
  BY DEF Walk, Load, Begin, CallsItself, CallInline, Fire, GoesOn, Return, Suspend, Finish
<1>1. ASSUME exec[e] # << >>
      PROVE  /\ Top(e) = exec[e][Len(exec[e])] /\ Top(e).run = This(e) /\ Top(e) \in Frame
             /\ This(e) \in Ids /\ runs[This(e)] \in Run /\ Len(exec[e]) \in 1..Len(exec[e])
  BY <1>1, TopOf
\* What the walk of run i, at height n of the stack, and the run's row let one say.
<1>2. ASSUME NEW n \in 1..Len(exec[e]), exec[e][n].run = i, exec[e][n].place # "over"
      PROVE  runs[i].gate # "suspended" /\ Knows(i, exec[e][n])
  BY <1>2 DEF OnceOf, Walks
<1>3. \A j, l \in Kids(i) : j = l
  BY DEF OnceOf
<1>4. ASSUME RowsStep, Len(runs') = Len(runs)
      PROVE  Kids(i)' = Kids(i) /\ \A j, l \in Kids(i)' : j = l
  BY <1>3, <1>4, KidsNext
<1>5. CASE Load(e)
  <2> DEFINE f == [Top(e) EXCEPT !.place = "begin", !.status = runs[This(e)].status,
                                 !.sub = runs[This(e)].sub]
  <2>1. /\ RowsStep /\ runs' = runs /\ Len(runs') = Len(runs) /\ StackStep(e, Len(exec[e]), f)
        /\ exec[e] # << >> /\ Top(e).place = "load"
    BY <1>5, LoadStep DEF Load, AtPlace
  <2>2. f.run = This(e) /\ f.place = "begin" /\ f.sub = runs[This(e)].sub
    BY <1>1, <2>1 DEF Frame
  <2> HIDE DEF f
  <2>3. CASE This(e) = i
    <3>1. runs[i].gate # "suspended" /\ Settled(i)
      BY <1>1, <1>2, <2>1, <2>3 DEF Knows
    <3>2. KnowsNext(i, f)
      BY <1>4, <2>1, <2>2, <2>3, <3>1 DEF KnowsNext, Settled
    <3> QED  BY <1>0, <1>1, <1>4, <2>1, <2>2, <2>3, <3>1, <3>2, OnceStep
  <2>4. CASE This(e) # i
    BY <1>0, <1>4, <2>1, <2>2, <2>4, OnceBeside
  <2> QED  BY <2>3, <2>4
<1>6. CASE Begin(e)
  <2> DEFINE f == BegunFrame(e)
  <2>1. /\ RowsStep /\ Len(runs') = Len(runs) /\ StackStep(e, Len(exec[e]), f)
        /\ \A j \in Ids : runs'[j] = IF j = This(e) THEN BegunRow(e) ELSE runs[j]
        /\ exec[e] # << >> /\ Top(e).place = "begin"
    BY <1>6, BeginStep DEF Begin, AtPlace
  <2>2. /\ f.run = This(e) /\ f.place \in {"sub", "gate"}
        /\ f.place = "sub" => Top(e).sub \in {"pending", "running"}
        /\ f.place = "gate" => f.sub = Top(e).sub
    BY <1>1, <2>1 DEF Frame, BegunFrame, Pending
  <2>3. This(e) = i => runs'[i].gate = runs[i].gate
    BY <1>1, <2>1 DEF BegunRow, Run
  <2> HIDE DEF f
  <2>4. CASE This(e) = i
    <3>1. runs[i].gate # "suspended" /\ (Kids(i) = {} \/ Top(e).sub \in Done)
      BY <1>1, <1>2, <2>1, <2>4 DEF Knows
    <3>2. KnowsNext(i, f)
      BY <1>4, <2>1, <2>2, <3>1 DEF KnowsNext, Done
    <3> QED  BY <1>0, <1>1, <1>4, <2>1, <2>2, <2>3, <2>4, <3>1, <3>2, OnceStep
  <2>5. CASE This(e) # i
    BY <1>0, <1>4, <2>1, <2>2, <2>5, OnceBeside
  <2> QED  BY <2>4, <2>5
<1>7. CASE CallsItself(e)
  <2> DEFINE f == [Top(e) EXCEPT !.place = "over", !.status = "failed"]
  <2>1. /\ RowsStep /\ Len(runs') = Len(runs) /\ StackStep(e, Len(exec[e]), f)
        /\ \A j \in Ids : runs'[j] = IF j = This(e) THEN FailedRow(j) ELSE runs[j]
        /\ exec[e] # << >> /\ Top(e).place = "sub"
    BY <1>7, CallsItselfStep DEF CallsItself, AtPlace
  <2>2. f.run = This(e) /\ f.place = "over"
    BY <1>1, <2>1 DEF Frame
  <2>3. This(e) = i => runs'[i].gate = runs[i].gate
    BY <1>1, <2>1 DEF FailedRow, Run
  <2> HIDE DEF f
  <2>4. CASE This(e) = i
    <3>1. runs[i].gate # "suspended"
      BY <1>1, <1>2, <2>1, <2>4
    <3> QED  BY <1>0, <1>1, <1>4, <2>1, <2>2, <2>3, <2>4, <3>1, OnceStep
  <2>5. CASE This(e) # i
    BY <1>0, <1>4, <2>1, <2>2, <2>5, OnceBeside
  <2> QED  BY <2>4, <2>5
<1>8. CASE CallInline(e)
  BY <1>8, OncePushed
<1>9. CASE Fire(e)
  <2> DEFINE f == [Top(e) EXCEPT !.place = "gate", !.sub = "succeeded"]
  <2>1. /\ RowsStep /\ Len(runs') = Len(runs) + 1 /\ StackStep(e, Len(exec[e]), f)
        /\ runs'[Len(runs) + 1].parent = This(e)
        /\ \A j \in Ids : runs'[j] = IF j = This(e) THEN DoneRow(j) ELSE runs[j]
        /\ exec[e] # << >> /\ Top(e).place = "sub"
    BY <1>9, FireStep
  <2>2. f.run = This(e) /\ f.place = "gate" /\ f.sub = "succeeded"
    BY <1>1, <2>1 DEF Frame
  <2>3. This(e) = i => runs'[i].gate = runs[i].gate
    BY <1>1, <2>1 DEF DoneRow, Run
  <2> HIDE DEF f
  <2>4. CASE This(e) = i
    <3>1. runs[i].gate # "suspended" /\ Kids(i) = {}
      BY <1>1, <1>2, <2>1, <2>4 DEF Knows
    <3>2. \A j, l \in Kids(i)' : j = l
      BY <2>1, <2>4, <3>1, KidsNext
    <3>3. KnowsNext(i, f)
      BY <2>2 DEF KnowsNext, Done
    <3> QED  BY <1>0, <1>1, <2>1, <2>2, <2>3, <2>4, <3>1, <3>2, <3>3, OnceStep
  <2>5. CASE This(e) # i
    <3>1. Kids(i)' = Kids(i)
      BY <2>1, <2>5, KidsNext
    <3> QED  BY <1>0, <2>1, <2>2, <2>5, <3>1, OnceBeside
  <2> QED  BY <2>4, <2>5
<1>10. CASE Return(e)
  <2> DEFINE f == [Parent(e) EXCEPT !.place = "gate", !.sub = "succeeded"]
             g == [Parent(e) EXCEPT !.place = "over", !.status = "failed"]
             n == Len(exec[e]) - 1
  <2>1. /\ RowsStep /\ Len(runs') = Len(runs) /\ exec[e] # << >> /\ Len(exec[e]) # 1
        /\ \/ /\ \A j \in Ids : runs'[j] = IF j = Parent(e).run THEN DoneRow(j) ELSE runs[j]
              /\ StackStep(e, n, f)
           \/ /\ \A j \in Ids : runs'[j] = IF j = Parent(e).run THEN FailedRow(j) ELSE runs[j]
              /\ StackStep(e, n, g)
    BY <1>10, ReturnStep
  <2>2. /\ n \in 1..Len(exec[e]) /\ exec[e][n] = Parent(e) /\ exec[e][n].place = "inside"
        /\ Parent(e).run \in Ids /\ Parent(e) \in Frame
    BY <2>1, BelowTop
  <2>3. /\ f.run = Parent(e).run /\ f.place = "gate" /\ f.sub = "succeeded"
        /\ g.run = Parent(e).run /\ g.place = "over"
    BY <2>2 DEF Frame
  <2>4. Parent(e).run = i => runs'[i].gate = runs[i].gate
    BY <2>1, RowType DEF DoneRow, FailedRow, Run
  <2> HIDE DEF f, g, n
  <2>5. CASE Parent(e).run = i
    <3>1. runs[i].gate # "suspended"
      BY <1>2, <2>2, <2>5
    <3>2. KnowsNext(i, f)
      BY <2>3 DEF KnowsNext, Done
    <3>3. CASE StackStep(e, n, f)
      BY <1>0, <1>4, <2>1, <2>2, <2>3, <2>4, <2>5, <3>1, <3>2, <3>3, OnceStep
    <3>4. CASE StackStep(e, n, g)
      BY <1>0, <1>4, <2>1, <2>2, <2>3, <2>4, <2>5, <3>1, <3>4, OnceStep
    <3> QED  BY <2>1, <3>3, <3>4
  <2>6. CASE Parent(e).run # i
    BY <1>0, <1>4, <2>1, <2>3, <2>6, OnceBeside
  <2> QED  BY <2>5, <2>6
<1>11. CASE Suspend(e)
  <2> DEFINE f == [Top(e) EXCEPT !.place = "over", !.status = "awaiting_approval"]
  <2>1. /\ RowsStep /\ Len(runs') = Len(runs) /\ StackStep(e, Len(exec[e]), f)
        /\ \A j \in Ids : runs'[j] = IF j = This(e) THEN SuspendedRow(e) ELSE runs[j]
        /\ exec[e] # << >> /\ Top(e).place = "gate"
    BY <1>11, SuspendStep
  <2>2. f.run = This(e) /\ f.place = "over"
    BY <1>1, <2>1 DEF Frame
  <2>3. This(e) = i => runs'[i].sub = Top(e).sub
    BY <1>1, <2>1 DEF SuspendedRow, Run
  <2> HIDE DEF f
  <2>4. CASE This(e) = i
    <3>1. Kids(i) = {} \/ Top(e).sub \in Done
      BY <1>1, <1>2, <2>1, <2>4 DEF Knows
    <3>2. Settled(i)'
      BY <1>4, <2>1, <2>3, <2>4, <3>1 DEF Settled
    <3> QED  BY <1>0, <1>1, <1>4, <2>1, <2>2, <2>4, <3>2, OnceStep
  <2>5. CASE This(e) # i
    BY <1>0, <1>4, <2>1, <2>2, <2>5, OnceBeside
  <2> QED  BY <2>4, <2>5
<1>12. CASE Finish(e)
  <2>1. RowsStep /\ Len(runs') = Len(runs) /\ exec[e] # << >> /\ Top(e).place = "gate"
    BY <1>12, FinishStep
  <2>2. PICK s \in Ended :
          /\ StackStep(e, Len(exec[e]), EndedFrame(e, s))
          /\ \/ runs' = runs /\ Top(e).status \in Ended
             \/ \A j \in Ids : runs'[j] = IF j = This(e) THEN EndedRow(e, s) ELSE runs[j]
    BY <1>12, FinishStep
  <2>3. EndedFrame(e, s).run = This(e) /\ EndedFrame(e, s).place = "over"
    BY <1>1, <2>1 DEF Frame, EndedFrame
  <2>4. This(e) = i => runs'[i].gate = runs[i].gate
    BY <1>1, <2>1, <2>2 DEF EndedRow, Run
  <2>5. CASE This(e) = i
    <3>1. runs[i].gate # "suspended"
      BY <1>1, <1>2, <2>1, <2>5
    <3> QED  BY <1>0, <1>1, <1>4, <2>1, <2>2, <2>3, <2>4, <2>5, <3>1, OnceStep
  <2>6. CASE This(e) # i
    <3>1. runs'[i] = runs[i]
      BY <2>2, <2>6
    <3> QED  BY <1>0, <1>4, <2>1, <2>2, <2>3, <2>6, <3>1, OnceBeside
  <2> QED  BY <2>5, <2>6
<1> QED  BY <1>5, <1>6, <1>7, <1>8, <1>9, <1>10, <1>11, <1>12 DEF Walk

LEMMA OnceServe ==
  ASSUME Shape, NEW h \in Handlers, Serve(h) \/ Proceed(h), NEW i \in Ids, OnceOf(i)
  PROVE  OnceOf(i)'
<1>0. req \in [Handlers -> Request] /\ Len(runs) + 1 \notin Ids /\ i # 0
  BY DEF Shape, TypeOK, Ids
<1>1. ASSUME Kids(i)' = Kids(i), exec' = exec, runs'[i] = runs[i], NEW x, req' = [req EXCEPT ![h] = x],
             ~At(h, "dispatch") \/ req[h].run # i, x.pc = "dispatch" => x.run # i
      PROVE  OnceOf(i)'
  <2>1. \A g \in Handlers : g # h => req'[g] = req[g]
    BY <1>1
  <2>2. req'[h] = x
    BY <1>0, <1>1
  <2>3. Dispatching(i)' = Dispatching(i)
    BY <1>1, <2>1, <2>2 DEF Dispatching, At
  <2>4. \A e \in Executors : \A k \in 1..Len(exec'[e]) : WalkedNext(e, k, i) =>
          Walks(e, k, i) /\ exec'[e][k] = exec[e][k]
    BY <1>1 DEF Walks, WalkedNext
  <2> QED  BY <1>1, <2>3, <2>4, OnceKept
<1>2. ASSUME runs' = runs PROVE Kids(i)' = Kids(i) /\ runs'[i] = runs[i]
  BY <1>2 DEF Kids, Ids
<1>3. ASSUME NEW p \in Pipelines, Check(h, p) PROVE OnceOf(i)'
  BY <1>1, <1>2, <1>3 DEF Check, At
<1>4. ASSUME NEW c \in Candidates, ReadCandidate(h, c) PROVE OnceOf(i)'
  BY <1>1, <1>2, <1>4 DEF ReadCandidate, At
<1>5. ASSUME NEW j \in Ids, Decide(h, j) PROVE OnceOf(i)'
  <2>1. /\ RowsStep /\ Len(runs') = Len(runs)
        /\ \A k \in Ids : IF k = j THEN runs'[k].sub = runs[k].sub /\ runs'[k].gate # "suspended"
                                   ELSE runs'[k] = runs[k]
    BY <1>5, DecideStep
  <2>2. Kids(i)' = Kids(i)
    BY <2>1, KidsNext
  <2>3. /\ At(h, "idle") /\ runs[j].gate = "suspended" /\ exec' = exec
        /\ req' = [req EXCEPT ![h] = [pc |-> "dispatch", run |-> j]]
    BY <1>5 DEF Decide
  <2>4. CASE j # i
    BY <1>1, <2>1, <2>2, <2>3, <2>4 DEF At
  <2>5. CASE j = i
    <3>1. Settled(i) /\ Dispatching(i) = {} /\ \A k, l \in Kids(i) : k = l
      BY <2>3, <2>5 DEF OnceOf
    <3>2. \A g \in Dispatching(i)' : g = h
      BY <2>3, <3>1 DEF Dispatching, At
    <3>3. Settled(i)'
      BY <2>1, <2>2, <2>5, <3>1 DEF Settled
    <3>4. \A e \in Executors : \A k \in 1..Len(exec'[e]) : ~WalkedNext(e, k, i)
      BY <2>3, <2>5 DEF WalkedNext, Walks, OnceOf
    <3> QED  BY <2>1, <2>2, <2>5, <3>1, <3>2, <3>3, <3>4, OnceFrom
  <2> QED  BY <2>4, <2>5
<1>6. CASE Create(h)
  <2>1. /\ RowsStep /\ Len(runs') = Len(runs) + 1 /\ runs'[Len(runs) + 1].parent = 0
        /\ runs'[i] = runs[i]
    BY <1>6, CreateStep DEF CreatedStep
  <2>2. Kids(i)' = Kids(i)
    BY <1>0, <2>1, KidsNext
  <2> QED  BY <1>0, <1>1, <1>6, <2>1, <2>2 DEF Create, At
<1>7. CASE CreateDelivery(h)
  <2>1. /\ RowsStep /\ Len(runs') = Len(runs) + 1 /\ runs'[Len(runs) + 1].parent = 0
        /\ runs'[i] = runs[i]
    BY <1>7, DeliveryStep DEF CreatedStep
  <2>2. Kids(i)' = Kids(i)
    BY <1>0, <2>1, KidsNext
  <2> QED  BY <1>0, <1>1, <1>7, <2>1, <2>2 DEF CreateDelivery, At
<1>8. CASE Initiate(h)
  <2>1. req' = [req EXCEPT ![h] = [req[h] EXCEPT !.pc = "initiated"]]
    BY <1>0, <1>8 DEF Initiate
  <2>2. [req[h] EXCEPT !.pc = "initiated"].pc # "dispatch"
    BY <1>8, RequestShape DEF Initiate
  <2> QED  BY <1>1, <1>2, <1>8, <2>1, <2>2 DEF Initiate, At
<1>9. CASE Spawn(h)
  <2>1. /\ At(h, "dispatch") /\ req[h].run \in Ids /\ Dispatched(req[h].run)
        /\ req' = [req EXCEPT ![h] = Idle] /\ runs' = runs
    BY <1>9, RequestShape DEF Spawn
  <2>2. PICK e \in Executors : DispatchStep(e, req[h].run)
    BY <2>1, DispatchedStep
  <2>3. Kids(i)' = Kids(i) /\ runs'[i] = runs[i]
    BY <1>2, <2>1
  <2>4. \A g \in Dispatching(i)' : g \in Dispatching(i) /\ g # h
    BY <1>0, <2>1 DEF Dispatching, At, Idle
  <2>5. ASSUME NEW g \in Executors, NEW k \in 1..Len(exec'[g]), WalkedNext(g, k, i), g # e
        PROVE  Walks(g, k, i) /\ k \in 1..Len(exec[g]) /\ exec'[g][k] = exec[g][k]
    BY <2>2, <2>5 DEF DispatchStep, WalkedNext, Walks
  <2>6. ASSUME NEW k \in 1..Len(exec'[e]), WalkedNext(e, k, i)
        PROVE  k = 1 /\ req[h].run = i /\ exec'[e][k].place = "load"
    <3>1. Len(exec'[e]) = 1 /\ exec'[e][1] = NewFrame(req[h].run)
      BY <2>2 DEF DispatchStep
    <3>2. k = 1
      BY <2>6, <3>1
    <3> QED  BY <2>6, <3>1, <3>2 DEF WalkedNext, NewFrame
  <2>7. CASE req[h].run # i
    <3>1. Dispatching(i)' = Dispatching(i)
      BY <1>0, <2>1, <2>4, <2>7 DEF Dispatching, At
    <3>2. ASSUME NEW g \in Executors, NEW k \in 1..Len(exec'[g]), WalkedNext(g, k, i)
          PROVE  Walks(g, k, i) /\ exec'[g][k] = exec[g][k]
      BY <2>5, <2>6, <2>7, <3>2
    <3> QED  BY <2>3, <3>1, <3>2, OnceKept
  <2>8. CASE req[h].run = i
    <3>1. h \in Dispatching(i)
      BY <2>1, <2>8 DEF Dispatching
    <3>2. /\ Settled(i) /\ runs[i].gate # "suspended" /\ \A g \in Dispatching(i) : g = h
          /\ \A k, l \in Kids(i) : k = l
          /\ \A g \in Executors : \A k \in 1..Len(exec[g]) : ~Walks(g, k, i)
      BY <3>1 DEF OnceOf
    <3>3. Dispatching(i)' = {} /\ Settled(i)'
      BY <2>3, <2>4, <3>2 DEF Settled
    <3>4. ASSUME NEW g \in Executors, NEW k \in 1..Len(exec'[g]), WalkedNext(g, k, i)
          PROVE  g = e /\ k = 1 /\ KnowsNext(i, exec'[g][k])
      <4>1. g = e
        BY <2>5, <3>2, <3>4
      <4> QED  BY <2>6, <3>3, <3>4, <4>1 DEF KnowsNext
    <3>5. \A g \in Executors : \A k \in 1..Len(exec'[g]) : WalkedNext(g, k, i) =>
            /\ Dispatching(i)' = {} /\ runs'[i].gate # "suspended" /\ KnowsNext(i, exec'[g][k])
            /\ \A d \in Executors : \A l \in 1..Len(exec'[d]) : WalkedNext(d, l, i) => d = g /\ l = k
      <4> SUFFICES ASSUME NEW g \in Executors, NEW k \in 1..Len(exec'[g]), WalkedNext(g, k, i)
                   PROVE  /\ Dispatching(i)' = {} /\ runs'[i].gate # "suspended"
                          /\ KnowsNext(i, exec'[g][k])
                          /\ \A d \in Executors : \A l \in 1..Len(exec'[d]) :
                               WalkedNext(d, l, i) => d = g /\ l = k
        OBVIOUS
      <4>1. g = e /\ k = 1 /\ KnowsNext(i, exec'[g][k])
        BY <3>4
      <4>2. \A d \in Executors : \A l \in 1..Len(exec'[d]) : WalkedNext(d, l, i) => d = g /\ l = k
        BY <3>4, <4>1
      <4> QED  BY <2>1, <3>2, <3>3, <4>1, <4>2
    <3> QED  BY <2>1, <2>3, <3>2, <3>3, <3>5, OnceFrom
  <2> QED  BY <2>7, <2>8
<1> QED  BY <1>3, <1>4, <1>5, <1>6, <1>7, <1>8, <1>9 DEF Serve, Proceed

\* A new run has started nothing, and one request or one walk has it.
LEMMA OnceNew ==
  ASSUME Shape, [Next]_vars, NEW i \in 1..Len(runs'), i \notin Ids
  PROVE  OnceOf(i)'
<1>0. i = Len(runs) + 1 /\ Len(runs') = Len(runs) + 1 /\ runs'[i].gate # "suspended"
  BY RowsNext DEF RowsStep, Shape, TypeOK, Ids
<1>1. /\ Kids(i)' = {} /\ Dispatching(i) = {}
      /\ \A e \in Executors : \A k \in 1..Len(exec[e]) : exec[e][k].run # i
  BY NobodyKnows
<1>2. Settled(i)'
  BY <1>1 DEF Settled
<1>3. \A f : KnowsNext(i, f)
  BY <1>1, <1>2 DEF KnowsNext
<1>4. ASSUME \A h, g \in Dispatching(i)' : h = g,
             \A e \in Executors : \A k \in 1..Len(exec'[e]) : ~WalkedNext(e, k, i)
      PROVE  OnceOf(i)'
  BY <1>0, <1>1, <1>2, <1>4, OnceFrom
<1>5. ASSUME NEW h \in Handlers, Create(h) \/ CreateDelivery(h) PROVE OnceOf(i)'
  <2>1. exec' = exec /\ \A g \in Handlers \ {h} : req'[g] = req[g]
    BY <1>5 DEF Create, CreateDelivery, Shape, TypeOK
  <2>2. \A g \in Dispatching(i)' : g = h
    BY <1>1, <2>1 DEF Dispatching, At
  <2>3. \A e \in Executors : \A k \in 1..Len(exec'[e]) : ~WalkedNext(e, k, i)
    BY <1>1, <2>1 DEF WalkedNext
  <2> QED  BY <1>4, <2>2, <2>3
<1>6. ASSUME NEW e \in Executors, CallInline(e) PROVE OnceOf(i)'
  <2>1. req' = req /\ PushStep(e) /\ exec[e] # << >>
    BY <1>6, CallInlineStep DEF CallInline
  <2>2. Dispatching(i)' = {}
    BY <1>1, <2>1 DEF Dispatching, At
  <2>3. ASSUME NEW g \in Executors, NEW k \in 1..Len(exec'[g]), WalkedNext(g, k, i)
        PROVE  g = e /\ k = Len(exec[e]) + 1
    <3>1. CASE g # e
      BY <1>1, <2>1, <2>3, <3>1 DEF PushStep, WalkedNext
    <3>2. CASE g = e /\ k # Len(exec[e]) + 1
      <4>1. k \in 1..Len(exec[e])
        BY <2>1, <2>3, <3>2 DEF PushStep, Shape, TypeOK
      <4>2. exec'[e][k].run = exec[e][k].run
        <5>1. Top(e) = exec[e][Len(exec[e])] /\ Top(e) \in Frame
          BY <2>1, TopOf
        <5>2. [Top(e) EXCEPT !.place = "inside"].run = Top(e).run
          BY <5>1 DEF Frame
        <5> QED  BY <2>1, <4>1, <5>1, <5>2 DEF PushStep
      <4> QED  BY <1>1, <2>3, <3>2, <4>1, <4>2 DEF WalkedNext
    <3> QED  BY <3>1, <3>2
  <2>4. ASSUME NEW g \in Executors, NEW k \in 1..Len(exec'[g]), WalkedNext(g, k, i)
        PROVE  /\ Dispatching(i)' = {} /\ runs'[i].gate # "suspended" /\ KnowsNext(i, exec'[g][k])
               /\ \A d \in Executors : \A l \in 1..Len(exec'[d]) :
                    WalkedNext(d, l, i) => d = g /\ l = k
    <3>1. g = e /\ k = Len(exec[e]) + 1
      BY <2>3, <2>4
    <3>2. \A d \in Executors : \A l \in 1..Len(exec'[d]) : WalkedNext(d, l, i) => d = g /\ l = k
      BY <2>3, <3>1
    <3> QED  BY <1>0, <1>3, <2>2, <3>2
  <2> QED  BY <1>0, <1>1, <1>2, <2>2, <2>4, OnceFrom
<1>7. ASSUME NEW e \in Executors, Fire(e) PROVE OnceOf(i)'
  <2> DEFINE f == [Top(e) EXCEPT !.place = "gate", !.sub = "succeeded"]
  <2>1. req' = req /\ StackStep(e, Len(exec[e]), f)
    BY <1>7, FireStep DEF Fire, GoesOn
  <2> HIDE DEF f
  <2>2. Dispatching(i)' = {}
    BY <1>1, <2>1 DEF Dispatching, At
  <2>3. ASSUME NEW g \in Executors, NEW k \in 1..Len(exec'[g]), WalkedNext(g, k, i) PROVE FALSE
    <3>1. CASE g # e
      BY <1>1, <2>1, <2>3, <3>1 DEF StackStep, WalkedNext
    <3>2. CASE g = e
      <4>1. exec'[e][k].run = exec[e][k].run /\ k \in 1..Len(exec[e])
        BY <2>1, <2>3, <3>2 DEF StackStep, WalkedNext
      <4> QED  BY <1>1, <2>3, <3>2, <4>1 DEF WalkedNext
    <3> QED  BY <3>1, <3>2
  <2> QED  BY <1>4, <2>2, <2>3
<1>8. Len(runs') # Len(runs)
  BY <1>0
<1> QED  BY <1>5, <1>6, <1>7, <1>8, RowsNext

LEMMA OnceNext ==
  ASSUME Shape, TokenInv, OnceInv, [Next]_vars
  PROVE  OnceInv'
<1> SUFFICES ASSUME faults' = 0, NEW i \in 1..Len(runs') PROVE OnceOf(i)'
  BY DEF OnceInv, Ids
<1>0. faults = 0 /\ faults \in Nat /\ web.pc = "up"
  BY FaultsNext DEF TokenInv
<1>1. CASE i \notin Ids
  BY <1>1, OnceNew
<1>2. CASE i \in Ids
  <2>1. OnceOf(i)
    BY <1>0, <1>2 DEF OnceInv
  <2>2. ASSUME NEW h \in Handlers, Serve(h) \/ Proceed(h) PROVE OnceOf(i)'
    BY <1>2, <2>1, <2>2, OnceServe
  <2>3. ASSUME NEW e \in Executors, Walk(e) PROVE OnceOf(i)'
    BY <1>2, <2>1, <2>3, OnceWalk
  <2>4. ASSUME runs'[i].sub = runs[i].sub, runs'[i].gate = runs[i].gate, req' = req, exec' = exec,
               RowsStep, Len(runs') = Len(runs)
        PROVE  OnceOf(i)'
    <3>1. Kids(i)' = Kids(i) /\ Dispatching(i)' = Dispatching(i)
      BY <2>4, KidsNext DEF Dispatching, At
    <3>2. \A e \in Executors : \A k \in 1..Len(exec'[e]) : WalkedNext(e, k, i) =>
            Walks(e, k, i) /\ exec'[e][k] = exec[e][k]
      BY <2>4 DEF Walks, WalkedNext
    <3> QED  BY <2>1, <2>4, <3>1, <3>2, OnceKept
  <2>5. ASSUME NEW j \in Ids, Cancel(j) PROVE OnceOf(i)'
    <3>1. runs'[i].sub = runs[i].sub /\ runs'[i].gate = runs[i].gate
      <4>1. runs[i] \in Run /\ runs' = [runs EXCEPT ![j].status = "cancelled"] /\ runs \in Seq(Run)
        BY <1>2, <2>5, RowType DEF Cancel, Shape, TypeOK
      <4> QED  BY <1>2, <4>1 DEF Run, Ids
    <3> QED  BY <2>4, <2>5, <3>1, CancelStep DEF Cancel
  <2>6. CASE UNCHANGED vars
    BY <2>4, <2>6, NoNewRow DEF vars
  <2>7. ~Restart /\ (\A h \in Handlers : ~SpawnFails(h)) /\ \A e \in Executors : ~Kill(e) /\ ~Raise(e)
    BY <1>0 DEF Restart, SpawnFails, Kill, Raise, Fault
  <2>8. ~Sweep /\ ~Recover
    BY <1>0 DEF Sweep, Recover
  <2> QED  BY <2>2, <2>3, <2>5, <2>6, <2>7, <2>8 DEF Next
<1> QED  BY <1>1, <1>2

LEMMA OnceInit == Init => OnceInv
<1> SUFFICES ASSUME Init PROVE OnceInv
  OBVIOUS
<1>1. Ids = {}
  BY DEF Init, Ids
<1> QED  BY <1>1 DEF OnceInv

\* A node starts no more runs than it is walked (sub_pipeline_executor.py:90-116 creates the child
\* without asking whether there is one): one, and one for each fault, and if there was no fault,
\* one at a gate too, however often it was decided.
THEOREM ChildrenCounted == Spec => []ChildrenAreCounted
<1>1. ASSUME Shape, TokenInv, OnceInv, NEW i \in Ids, faults = 0 \/ runs[i].of \notin Gated
      PROVE  Cardinality(Kids(i)) <= 1 + faults
  <2>0. faults \in Nat
    BY <1>1, AdmissionAssumption DEF Shape, TypeOK
  <2>1. CASE runs[i].of \notin Gated
    <3>1. /\ IsFiniteSet(Holders(i)) /\ Cardinality(Holders(i)) <= 1 + faults
      BY <1>1, <2>1 DEF TokenInv
    <3> DEFINE f == [j \in Kids(i) |-> <<"run", j>>]
    <3>2. f \in Injection(Kids(i), Holders(i))
      <4>1. f \in [Kids(i) -> Holders(i)]
        BY DEF Holders
      <4>2. \A j, l \in Kids(i) : f[j] = f[l] => j = l
        OBVIOUS
      <4> QED  BY <4>1, <4>2 DEF Injection, IsInjective
    <3> HIDE DEF f
    <3>3. IsFiniteSet(Kids(i)) /\ Cardinality(Kids(i)) <= Cardinality(Holders(i))
      BY <3>1, <3>2, FS_Injection
    <3>4. Cardinality(Kids(i)) \in Nat /\ Cardinality(Holders(i)) \in Nat
      BY <3>1, <3>3, FS_CardinalityType
    <3> QED  BY <2>0, <3>1, <3>3, <3>4
  <2>2. CASE faults = 0
    <3>1. \A j, l \in Kids(i) : j = l
      BY <1>1, <2>2 DEF OnceInv, OnceOf
    <3>2. CASE Kids(i) = {}
      BY <2>0, <3>2, FS_EmptySet
    <3>3. CASE Kids(i) # {}
      <4>1. PICK j : Kids(i) = {j}
        BY <3>1, <3>3
      <4>2. Cardinality(Kids(i)) = 1
        BY <4>1, FS_Singleton
      <4> QED  BY <2>0, <4>2
    <3> QED  BY <3>2, <3>3
  <2> QED  BY <1>1, <2>1, <2>2
<1>2. Shape /\ TokenInv /\ OnceInv => ChildrenAreCounted
  BY <1>1 DEF ChildrenAreCounted, Kids
<1>3. Init => Shape /\ TokenInv /\ OnceInv
  BY ShapeInit, TokenInit, OnceInit
<1>4. Shape /\ TokenInv /\ OnceInv /\ [Next]_vars => Shape' /\ TokenInv' /\ OnceInv'
  BY ShapeNext, TokenNext, OnceNext
<1> QED  BY <1>2, <1>3, <1>4, PTL DEF Spec
=============================================================================
