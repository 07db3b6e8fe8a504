-------------------------- MODULE DiagnosisCycleProofs --------------------------
(***************************************************************************)
(* Proofs about DiagnosisCycle, for any number of processes, cycles, runs  *)
(* and requests and any limit of cycles without progress.                  *)
(***************************************************************************)
EXTENDS DiagnosisCycle, SequenceTheorems, WellFoundedInduction, TLAPS

Counts == 0 .. MaxCycles
Rows == [st : RunStatus, job : JobStatus, cycle : Counts, stalled : Counts,
         news : BOOLEAN]
Cycles == [at : {"idle", "taken", "reasoning", "dispatching"}, run : {0} \cup Runs,
           same : BOOLEAN, todo : SUBSET Kind]

-----------------------------------------------------------------------------
(***************************************************************************)
(* The inductive invariant.                                                *)
(***************************************************************************)
\* A run in the hands of a process has the status that shows it, and one whose
\* message is not taken yet is in nobody's hands.
Claimed(w) == IF worker[w].at = "taken" THEN "PENDING" ELSE "ANALYZING"
ClaimInv ==
    /\ \A w \in Busy :
           worker[w].run \in Runs /\ run[worker[w].run].st = Claimed(w)
    /\ \A r \in mail.runs :
           run[r].st = "PENDING" /\ \A w \in Busy : worker[w].run # r

\* A run is not stalled for more cycles than it had.
CountInv ==
    /\ \A r \in Runs : run[r].stalled <= run[r].cycle
    /\ \A w \in Worker : worker[w].at = "reasoning" =>
           run[worker[w].run].stalled < run[worker[w].run].cycle

\* A cycle that dispatched its jobs has one of them to wait for, or has yet to
\* see the notification of its end.
Outstanding(n) == n > 0 \/ \E k \in Kind : child[k] # "none"
DispatchInv ==
    \A w \in Dispatching : worker[w].todo = {} => Outstanding(mail.counting)

CycleInv ==
    /\ TypeOK
    /\ ClaimInv /\ OneExecutor
    /\ CountInv
    /\ DispatchInv /\ WaitingIsAnswered

-----------------------------------------------------------------------------
(***************************************************************************)
(* A set of sequence indices that is not empty has a maximum.              *)
(***************************************************************************)
LEMMA MaxOfSome ==
    ASSUME NEW n \in Nat, NEW S \in SUBSET (1 .. n), S # {}
    PROVE  Max(S) \in S /\ \A y \in S : y <= Max(S)
<1> DEFINE R == OpToRel(<, Nat)
<1> DEFINE D == {n - x : x \in S}
<1>1. IsWellFoundedOn(R, Nat)
  BY NatLessThanWellFounded
<1>2. D \subseteq Nat
  BY SMT
<1>3. D # {}
  <2>1. PICK x \in S : TRUE
    OBVIOUS
  <2>2. n - x \in D
    BY <2>1
  <2> QED
    BY <2>2
<1>4. \A d, e \in Nat : e < d => <<e, d>> \in R
  BY DEF OpToRel
<1> HIDE DEF R
<1>5. PICK d \in D : \A e \in D : <<e, d>> \notin R
  <2> HIDE DEF D
  <2> QED
    BY <1>1, <1>2, <1>3, WFMin
<1>6. \A e \in D : ~(e < d)
  <2> HIDE DEF D
  <2> QED
    BY <1>2, <1>4, <1>5
<1>7. PICK x \in S : d = n - x
  BY <1>5
<1>8. \A y \in S : x >= y
  BY <1>6, <1>7
<1> QED
  BY <1>7, <1>8 DEF Max

-----------------------------------------------------------------------------
(***************************************************************************)
(* What a step does to the runs: it gives run r this status, cycle and     *)
(* count, and leaves the other runs as they are.                           *)
(***************************************************************************)
Touches(r, status, cycle, stalled) ==
    /\ run' \in Seq(Rows) /\ Len(run') = Len(run) /\ Runs' = Runs
    /\ run'[r].st = status /\ run'[r].cycle = cycle /\ run'[r].stalled = stalled
    /\ \A q \in Runs \ {r} : run'[q] = run[q]

\* The runs are numbered from one.
LEMMA RunsNumbered ==
    ASSUME TypeOK
    PROVE  /\ run \in Seq(Rows) /\ Len(run) \in Nat /\ Runs = 1 .. Len(run)
           /\ \A r \in Runs : run[r] \in Rows
           /\ worker \in [Worker -> Cycles]
<1>1. run \in Seq(Rows) /\ worker \in [Worker -> Cycles]
  BY DEF TypeOK, Rows, Counts, Cycles
<1> QED
  BY <1>1, LenProperties, ElementOfSeq DEF Runs

\* A row that is written.
LEMMA RowWritten ==
    ASSUME TypeOK, NEW r \in Runs, NEW m \in Rows, run' = [run EXCEPT ![r] = m]
    PROVE  Touches(r, m.st, m.cycle, m.stalled)
<1>1. run \in Seq(Rows) /\ r \in 1 .. Len(run) /\ Runs = 1 .. Len(run)
  BY RunsNumbered
<1>2. /\ run' \in Seq(Rows) /\ Len(run') = Len(run)
      /\ \A q \in 1 .. Len(run) : run'[q] = IF q = r THEN m ELSE run[q]
  BY <1>1, ExceptSeq
<1>3. Runs' = 1 .. Len(run')
  BY <1>2, LenProperties DEF Runs
<1> QED
  BY <1>1, <1>2, <1>3 DEF Touches

\* The statuses a step writes are statuses.
LEMMA StatusWritten ==
    ASSUME TypeOK, NEW r \in Runs, NEW status \in RunStatus, NEW job \in JobStatus,
           NEW status2, Writes(r, status, job, status2)
    PROVE  Touches(r, status, run[r].cycle, run[r].stalled)
<1> DEFINE m == [run[r] EXCEPT !.st = status, !.job = job]
<1>1. run[r] \in Rows
  BY RunsNumbered
<1>2. m \in Rows /\ m.st = status /\ m.cycle = run[r].cycle /\ m.stalled = run[r].stalled
  BY <1>1 DEF Rows
<1>3. run' = [run EXCEPT ![r] = m]
  BY RunsNumbered DEF Writes
<1> HIDE DEF m
<1> QED
  BY <1>2, <1>3, RowWritten

\* A row that is written as over.
LEMMA OverWritten ==
    ASSUME TypeOK, NEW r \in Runs, NEW status \in RunStatus, NEW job \in JobStatus,
           run' = [run EXCEPT ![r] = Over(status, job)]
    PROVE  Touches(r, status, 0, 0)
<1>1. 0 \in Counts
  BY DiagnosisAssumption DEF Counts
<1>2. /\ Over(status, job) \in Rows /\ Over(status, job).st = status
      /\ Over(status, job).cycle = 0 /\ Over(status, job).stalled = 0
  BY <1>1 DEF Over, NewRun, Rows, RunStatus, JobStatus
<1> QED
  BY <1>2, RowWritten

\* A row that is written at the end of a cycle.
LEMMA ReasonedWritten ==
    ASSUME TypeOK, CountInv, NEW w \in Worker, worker[w].at = "reasoning",
           worker[w].run \in Runs,
           NEW status \in RunStatus, NEW job \in JobStatus, Reasoned(w, status, job)
    PROVE  /\ Stalled(w) \in Nat /\ Stalled(w) <= run[worker[w].run].cycle
           /\ Touches(worker[w].run, status, run[worker[w].run].cycle, Stalled(w))
<1> DEFINE r == worker[w].run
           m == [run[r] EXCEPT !.st = status, !.job = job, !.stalled = Stalled(w)]
<1>1. run[r] \in Rows /\ MaxCycles \in Nat
  BY RunsNumbered, DiagnosisAssumption
<1>2. run[r].stalled \in Nat /\ run[r].cycle \in 0 .. MaxCycles
  BY <1>1 DEF Rows, Counts
<1>3. Stalled(w) \in Nat /\ Stalled(w) <= run[r].cycle
  BY <1>1, <1>2 DEF Stalled, CountInv
<1>4. Stalled(w) \in Counts
  BY <1>1, <1>2, <1>3 DEF Counts
<1>5. /\ m \in Rows /\ m.st = status /\ m.cycle = run[r].cycle
      /\ m.stalled = Stalled(w)
  BY <1>1, <1>4 DEF Rows
<1>6. run' = [run EXCEPT ![r] = m]
  BY RunsNumbered DEF Reasoned
<1> HIDE DEF m
<1> QED
  BY <1>3, <1>5, <1>6, RowWritten

\* Only the start of a cycle counts it.
LEMMA StartWritten ==
    ASSUME TypeOK, NEW w \in Worker, worker[w].run \in Runs, CycleStarts(w)
    PROVE  Touches(worker[w].run, "ANALYZING", run[worker[w].run].cycle + 1,
                   run[worker[w].run].stalled)
<1> DEFINE r == worker[w].run
           m == [run[r] EXCEPT !.st = "ANALYZING", !.job = "RUNNING",
                               !.cycle = @ + 1, !.news = FALSE]
<1>1. run[r] \in Rows /\ MaxCycles \in Nat
  BY RunsNumbered, DiagnosisAssumption
<1>2. run[r].cycle + 1 \in Counts
  BY <1>1 DEF CycleStarts, Exhausted, Rows, Counts
<1>3. /\ m \in Rows /\ m.st = "ANALYZING" /\ m.cycle = run[r].cycle + 1
      /\ m.stalled = run[r].stalled
  BY <1>1, <1>2 DEF Rows, RunStatus, JobStatus
<1>4. run' = [run EXCEPT ![r] = m]
  BY RunsNumbered DEF CycleStarts
<1> HIDE DEF m
<1> QED
  BY <1>3, <1>4, RowWritten

\* A claim and a cancellation leave the counters alone.
LEMMA ClaimWritten ==
    ASSUME TypeOK, NEW r \in Runs, run' = [run EXCEPT ![r].st = "PENDING"]
    PROVE  Touches(r, "PENDING", run[r].cycle, run[r].stalled)
<1> DEFINE m == [run[r] EXCEPT !.st = "PENDING"]
<1>1. run[r] \in Rows
  BY RunsNumbered
<1>2. /\ m \in Rows /\ m.st = "PENDING" /\ m.cycle = run[r].cycle
      /\ m.stalled = run[r].stalled
  BY <1>1 DEF Rows, RunStatus
<1>3. run' = [run EXCEPT ![r] = m]
  BY RunsNumbered
<1> HIDE DEF m
<1> QED
  BY <1>2, <1>3, RowWritten

\* A row whose cancellation is requested.
LEMMA CancelWritten ==
    ASSUME TypeOK, NEW r \in Runs, CancelRequested(r)
    PROVE  Touches(r, run[r].st, run[r].cycle, run[r].stalled)
<1> DEFINE job == IF run[r].job = "PENDING" THEN "CANCELLED" ELSE "CANCEL_REQUESTED"
           m == [run[r] EXCEPT !.job = job]
<1>1. run[r] \in Rows
  BY RunsNumbered
<1>2. /\ m \in Rows /\ m.st = run[r].st /\ m.cycle = run[r].cycle
      /\ m.stalled = run[r].stalled
  BY <1>1 DEF Rows, JobStatus
<1>3. run' = [run EXCEPT ![r] = m]
  BY RunsNumbered DEF CancelRequested
<1> HIDE DEF m
<1> QED
  BY <1>2, <1>3, RowWritten

\* New evidence changes what no run does next.
LEMMA ChangedWritten ==
    ASSUME TypeOK, run' = Changed
    PROVE  /\ run' \in Seq(Rows) /\ Len(run') = Len(run) /\ Runs' = Runs
           /\ \A r \in Runs : /\ run'[r].st = run[r].st /\ run'[r].cycle = run[r].cycle
                              /\ run'[r].stalled = run[r].stalled
<1>1. Len(run) \in Nat /\ Runs = 1 .. Len(run) /\ \A r \in Runs : run[r] \in Rows
  BY RunsNumbered
<1>2. \A r \in Runs : [run[r] EXCEPT !.news = TRUE] \in Rows
  BY <1>1 DEF Rows
<1>3. run' = [r \in 1 .. Len(run) |-> [run[r] EXCEPT !.news = TRUE]]
  BY <1>1 DEF Changed
<1>4. run' \in Seq(Rows) /\ Len(run') = Len(run)
  BY <1>1, <1>2, <1>3
<1>5. Runs' = Runs
  BY <1>1, <1>3 DEF Runs
<1>6. \A r \in Runs : /\ run'[r].st = run[r].st /\ run'[r].cycle = run[r].cycle
                      /\ run'[r].stalled = run[r].stalled
  BY <1>1, <1>3 DEF Rows
<1> QED
  BY <1>4, <1>5, <1>6

\* A row that is added.
LEMMA CreateWritten ==
    ASSUME TypeOK, Create
    PROVE  /\ run' \in Seq(Rows) /\ Len(run') = Len(run) + 1
           /\ Runs' = Runs \cup {Len(run) + 1} /\ Len(run) + 1 \notin Runs
           /\ \A r \in Runs : run'[r] = run[r]
           /\ run'[Len(run) + 1] = NewRun
<1>1. run \in Seq(Rows) /\ Len(run) \in Nat /\ Runs = 1 .. Len(run)
  BY RunsNumbered
<1>2. NewRun \in Rows
  BY DiagnosisAssumption DEF NewRun, Rows, Counts, RunStatus, JobStatus
<1>3. /\ run' \in Seq(Rows) /\ Len(run') = Len(run) + 1
      /\ \A r \in 1 .. Len(run) : run'[r] = run[r]
      /\ run'[Len(run) + 1] = NewRun
  BY <1>1, <1>2, AppendProperties DEF Create
<1>4. Runs' = 1 .. Len(run) + 1
  BY <1>3, LenProperties DEF Runs
<1> QED
  BY <1>1, <1>3, <1>4

-----------------------------------------------------------------------------
(***************************************************************************)
(* What a step does to the processes: w goes to this point with this run.  *)
(***************************************************************************)
Moves(w, point, r) ==
    /\ worker' \in [Worker -> Cycles]
    /\ worker'[w].at = point /\ worker'[w].run = r
    /\ \A v \in Worker \ {w} : worker'[v] = worker[v]

\* The moves of a worker through a cycle.
LEMMA CycleMoves ==
    ASSUME TypeOK, NEW w \in Worker
    PROVE  /\ Done(w) => Moves(w, "idle", 0)
           /\ \A r \in Runs : Takes(w, r) => Moves(w, "taken", r)
           /\ CycleStarts(w) => Moves(w, "reasoning", worker[w].run)
           /\ PlansJobs(w) => /\ Moves(w, "dispatching", worker[w].run)
                              /\ worker'[w].todo # {}
           /\ Dispatches(w) => /\ Moves(w, "dispatching", worker[w].run)
                               /\ \E k \in Kind : child'[k] # "none"
<1>0. worker \in [Worker -> Cycles] /\ worker[w] \in Cycles
  BY RunsNumbered
<1>1. ASSUME NEW x \in Cycles, worker' = [worker EXCEPT ![w] = x]
      PROVE  Moves(w, x.at, x.run) /\ worker'[w] = x
  BY <1>0, <1>1 DEF Moves
<1>2. ASSUME Done(w) PROVE Moves(w, "idle", 0)
  <2>1. Idle \in Cycles /\ Idle.at = "idle" /\ Idle.run = 0
    BY DEF Idle, Cycles
  <2> QED
    BY <1>1, <1>2, <2>1 DEF Done
<1>3. ASSUME NEW r \in Runs, Takes(w, r) PROVE Moves(w, "taken", r)
  <2> DEFINE x == [Idle EXCEPT !.at = "taken", !.run = r]
  <2>1. x \in Cycles /\ x.at = "taken" /\ x.run = r
    BY DEF Idle, Cycles
  <2> HIDE DEF x
  <2> QED
    BY <1>1, <1>3, <2>1 DEF Takes, x
<1>4. ASSUME CycleStarts(w) PROVE Moves(w, "reasoning", worker[w].run)
  <2> DEFINE x == [worker[w] EXCEPT !.at = "reasoning",
                                    !.same = ~run[worker[w].run].news]
  <2>1. x \in Cycles /\ x.at = "reasoning" /\ x.run = worker[w].run
    BY <1>0 DEF Cycles
  <2>2. worker' = [worker EXCEPT ![w] = x]
    BY <1>0, <1>4 DEF CycleStarts
  <2> HIDE DEF x
  <2> QED
    BY <1>1, <2>1, <2>2
<1>5. ASSUME PlansJobs(w)
      PROVE  Moves(w, "dispatching", worker[w].run) /\ worker'[w].todo # {}
  <2>1. PICK kinds \in (SUBSET Kind) \ {{}} :
            worker' = [worker EXCEPT ![w] = [@ EXCEPT !.at = "dispatching", !.same = FALSE,
                                                      !.todo = kinds]]
    BY <1>5 DEF PlansJobs
  <2> DEFINE x == [worker[w] EXCEPT !.at = "dispatching", !.same = FALSE, !.todo = kinds]
  <2>2. x \in Cycles /\ x.at = "dispatching" /\ x.run = worker[w].run /\ x.todo = kinds
    BY <1>0, <2>1 DEF Cycles
  <2>3. worker' = [worker EXCEPT ![w] = x]
    BY <1>0, <2>1
  <2>4. kinds # {}
    OBVIOUS
  <2> HIDE DEF x
  <2> QED
    BY <1>1, <2>2, <2>3, <2>4
<1>6. ASSUME Dispatches(w)
      PROVE  /\ Moves(w, "dispatching", worker[w].run)
             /\ \E k \in Kind : child'[k] # "none"
  <2>1. PICK k \in worker[w].todo :
            /\ child' = [child EXCEPT ![k] = IF @ = "none" THEN "queued" ELSE @]
            /\ worker' = [worker EXCEPT ![w].todo = @ \ {k}]
    BY <1>6 DEF Dispatches
  <2> DEFINE x == [worker[w] EXCEPT !.todo = @ \ {k}]
  <2>2. x \in Cycles /\ x.at = "dispatching" /\ x.run = worker[w].run
    BY <1>0, <1>6, <2>1 DEF Cycles, Dispatches
  <2>3. worker' = [worker EXCEPT ![w] = x]
    BY <1>0, <2>1
  <2>4. k \in Kind /\ child'[k] # "none"
    BY <1>0, <2>1 DEF Cycles, TypeOK
  <2> HIDE DEF x
  <2> QED
    BY <1>1, <2>2, <2>3, <2>4
<1> QED
  BY <1>2, <1>3, <1>4, <1>5, <1>6

-----------------------------------------------------------------------------
(***************************************************************************)
(* Types.                                                                  *)
(***************************************************************************)
\* Requests and jobs leave the processes alone, and the runs but for evidence and
\* a cancellation.
KeptRuns ==
    /\ run' \in Seq(Rows) /\ Len(run') = Len(run) /\ Runs' = Runs
    /\ \A r \in Runs : /\ run'[r].st = run[r].st /\ run'[r].cycle = run[r].cycle
                       /\ run'[r].stalled = run[r].stalled

Posted == mail' = mail \/ mail' = Notified(mail)

\* What requests and jobs do besides creating a run.
LEMMA OutsideEffects ==
    ASSUME TypeOK, ~Create, RequestStep \/ JobStep
    PROVE  /\ KeptRuns /\ worker' = worker /\ Posted
           /\ case' \in CaseStatus /\ requests' \in 0 .. MaxRequest
           /\ child' \in [Kind -> {"none", "queued", "running"}]
           /\ \A k \in Kind : child[k] # "none" /\ child'[k] = "none" =>
                                  mail' = Notified(mail)
<1>0. /\ Len(run) \in Nat /\ run \in Seq(Rows) /\ requests \in 0 .. MaxRequest
      /\ child \in [Kind -> {"none", "queued", "running"}] /\ case \in CaseStatus
  BY RunsNumbered DEF TypeOK
<1>1. KeptRuns
  <2>1. CASE run' = run
    BY <1>0, <2>1 DEF KeptRuns, Runs
  <2>2. CASE run' = Changed
    BY <2>2, ChangedWritten DEF KeptRuns
  <2>3. ASSUME NEW r \in Runs, CancelRequested(r) PROVE KeptRuns
    BY <2>3, CancelWritten DEF Touches, KeptRuns
  <2> QED
    BY <2>1, <2>2, <2>3
    DEF RequestStep, StartRequested, StartedByFlow, Upload, CollectRequested, Confirm,
        JobStep, JobStarts, JobRefused, JobFails, Fails, JobSucceeds
<1>2. worker' = worker /\ Posted
  BY DEF RequestStep, StartRequested, StartedByFlow, Upload, CollectRequested, Confirm,
     CancelRequested, JobStep, JobStarts, JobRefused, JobFails, Fails, JobSucceeds, Posted
<1>3. case' \in CaseStatus
  BY <1>0
  DEF RequestStep, StartRequested, StartedByFlow, Upload, CollectRequested, Confirm,
      CancelRequested, JobStep, JobStarts, JobRefused, JobFails, Fails, JobSucceeds,
      CaseStatus
<1>4. requests' \in 0 .. MaxRequest
  BY <1>0, DiagnosisAssumption
  DEF RequestStep, StartRequested, StartedByFlow, Upload, CollectRequested, Confirm,
      CancelRequested, Request, JobStep, JobStarts, JobRefused, JobFails, Fails,
      JobSucceeds
<1>5. child' \in [Kind -> {"none", "queued", "running"}]
  BY <1>0
  DEF RequestStep, StartRequested, StartedByFlow, Upload, CollectRequested, Confirm,
      CancelRequested, JobStep, JobStarts, JobRefused, JobFails, Fails, JobSucceeds
<1>6. ASSUME NEW k \in Kind, child[k] # "none", child'[k] = "none"
      PROVE  mail' = Notified(mail)
  BY <1>0, <1>6
  DEF RequestStep, StartRequested, StartedByFlow, Upload, CollectRequested, Confirm,
      CancelRequested, JobStep, JobStarts, JobRefused, JobFails, Fails, JobSucceeds
<1> QED
  BY <1>1, <1>2, <1>3, <1>4, <1>5, <1>6

\* What a step of the diagnosis worker does besides the runs and the processes.
LEMMA WorkerEffects ==
    ASSUME TypeOK, WorkerStep
    PROVE  /\ case' \in CaseStatus /\ requests' = requests
           /\ child' \in [Kind -> {"none", "queued", "running"}]
           /\ \A k \in Kind : child[k] # "none" => child'[k] # "none"
<1>0. child \in [Kind -> {"none", "queued", "running"}] /\ case \in CaseStatus
      /\ worker \in [Worker -> Cycles]
  BY RunsNumbered DEF TypeOK
<1>1. case' \in CaseStatus
  BY <1>0
  DEF WorkerStep, RunTaken, ResumeTaken, CycleStarts, GivesUp, CycleRefused, AsksUser,
      Diagnoses, EngineFails, PlansJobs, Dispatches, WaitsForJobs, Writes, FailedAs,
      CaseStatus
<1>2. requests' = requests
  BY DEF WorkerStep, RunTaken, ResumeTaken, CycleStarts, GivesUp, CycleRefused, AsksUser,
     Diagnoses, EngineFails, PlansJobs, Dispatches, WaitsForJobs
<1>3. \/ child' = child
      \/ \E k \in Kind : child' = [child EXCEPT ![k] = IF @ = "none" THEN "queued" ELSE @]
  BY <1>0
  DEF WorkerStep, RunTaken, ResumeTaken, CycleStarts, GivesUp, CycleRefused, AsksUser,
      Diagnoses, EngineFails, PlansJobs, Dispatches, WaitsForJobs, Cycles
<1> QED
  BY <1>0, <1>1, <1>2, <1>3

\* A step of a process, by what it does to its run, to itself and to the mail.
LEMMA WorkerCases ==
    ASSUME TypeOK, ClaimInv, CountInv, NEW w \in Worker
    PROVE  /\ RunTaken(w) => /\ ~(w \in Busy) /\ run' = run
                             /\ \E r \in mail.runs :
                                   /\ Moves(w, "taken", r)
                                   /\ mail' = [mail EXCEPT !.runs = @ \ {r}]
           /\ ResumeTaken(w) =>
                /\ ~(w \in Busy) /\ mail.due > 0 /\ mail' = [mail EXCEPT !.due = @ - 1]
                /\ \/ Waiting = {} /\ run' = run /\ worker' = worker
                   \/ /\ Waiting # {} /\ Max(Waiting) \in Waiting
                      /\ \A q \in Waiting : q <= Max(Waiting)
                      /\ Moves(w, "taken", Max(Waiting))
                      /\ Touches(Max(Waiting), "PENDING", run[Max(Waiting)].cycle,
                                 run[Max(Waiting)].stalled)
<1>1. ASSUME RunTaken(w)
      PROVE  /\ ~(w \in Busy) /\ run' = run
             /\ \E r \in mail.runs :
                   Moves(w, "taken", r) /\ mail' = [mail EXCEPT !.runs = @ \ {r}]
  <2>1. mail.runs \subseteq Runs
    BY DEF TypeOK
  <2> QED
    BY <1>1, <2>1, CycleMoves DEF RunTaken, Free, Busy
<1>2. ASSUME ResumeTaken(w)
      PROVE  /\ ~(w \in Busy) /\ mail.due > 0 /\ mail' = [mail EXCEPT !.due = @ - 1]
             /\ \/ Waiting = {} /\ run' = run /\ worker' = worker
                \/ /\ Waiting # {} /\ Max(Waiting) \in Waiting
                   /\ \A q \in Waiting : q <= Max(Waiting)
                   /\ Moves(w, "taken", Max(Waiting))
                   /\ Touches(Max(Waiting), "PENDING", run[Max(Waiting)].cycle,
                              run[Max(Waiting)].stalled)
  <2>1. ~(w \in Busy) /\ mail.due > 0 /\ mail' = [mail EXCEPT !.due = @ - 1]
    BY <1>2 DEF ResumeTaken, Free, Busy
  <2>2. CASE Waiting = {}
    BY <1>2, <2>1, <2>2 DEF ResumeTaken
  <2>3. CASE Waiting # {}
    <3> DEFINE r == Max(Waiting)
    <3>1. Waiting \in SUBSET (1 .. Len(run)) /\ Len(run) \in Nat
      BY RunsNumbered DEF Waiting
    <3>2. r \in Waiting /\ \A q \in Waiting : q <= r
      BY <2>3, <3>1, MaxOfSome
    <3>3. run' = [run EXCEPT ![r].st = "PENDING"] /\ Takes(w, r)
      BY <1>2, <2>3 DEF ResumeTaken
    <3>4. r \in Runs
      BY <3>2 DEF Waiting
    <3> QED
      BY <2>1, <2>3, <3>2, <3>3, <3>4, ClaimWritten, CycleMoves
  <2> QED
    BY <2>2, <2>3
<1> QED
  BY <1>1, <1>2

Ends(w) == GivesUp(w) \/ CycleRefused(w) \/ AsksUser(w) \/ Diagnoses(w) \/ EngineFails(w)

\* The same for the steps of a cycle: the counters stay in order.
LEMMA CycleCases ==
    ASSUME TypeOK, ClaimInv, CountInv, NEW w \in Busy
    PROVE  LET r == worker[w].run IN
           /\ CycleStarts(w) => /\ Moves(w, "reasoning", r) /\ mail' = mail
                                /\ Touches(r, "ANALYZING", run[r].cycle + 1, run[r].stalled)
           /\ PlansJobs(w) => /\ Moves(w, "dispatching", r) /\ mail' = mail
                              /\ \E n \in 0 .. run[r].cycle :
                                    Touches(r, "ANALYZING", run[r].cycle, n)
           /\ Dispatches(w) => Moves(w, "dispatching", r) /\ mail' = mail /\ run' = run
           /\ Ends(w) => /\ Moves(w, "idle", 0) /\ mail' = mail
                         /\ \/ run' = run
                            \/ \E status \in RunStatus \ {"WAITING_EVIDENCE"},
                                  c \in Nat, n \in Nat :
                                    n <= c /\ Touches(r, status, c, n)
           /\ WaitsForJobs(w) => /\ Moves(w, "idle", 0)
                                 /\ Touches(r, "WAITING_EVIDENCE", run[r].cycle,
                                            run[r].stalled)
<1> DEFINE r == worker[w].run
<1>0. /\ w \in Worker /\ r \in Runs /\ run[r] \in Rows /\ run[r].cycle \in Nat
      /\ run[r].stalled \in Nat /\ run[r].stalled <= run[r].cycle
  BY RunsNumbered DEF Busy, ClaimInv, CountInv, Rows, Counts
<1>1. ASSUME CycleStarts(w)
      PROVE  /\ Moves(w, "reasoning", r) /\ mail' = mail
             /\ Touches(r, "ANALYZING", run[r].cycle + 1, run[r].stalled)
  BY <1>0, <1>1, CycleMoves, StartWritten DEF CycleStarts
<1>2. ASSUME PlansJobs(w)
      PROVE  /\ Moves(w, "dispatching", r) /\ mail' = mail
             /\ \E n \in 0 .. run[r].cycle : Touches(r, "ANALYZING", run[r].cycle, n)
  <2>1. /\ worker[w].at = "reasoning" /\ Reasoned(w, "ANALYZING", run[r].job)
        /\ mail' = mail /\ "ANALYZING" \in RunStatus /\ run[r].job \in JobStatus
    BY <1>0, <1>2 DEF PlansJobs, RunStatus, Rows
  <2>2. /\ Stalled(w) \in Nat /\ Stalled(w) <= run[r].cycle
        /\ Touches(r, "ANALYZING", run[r].cycle, Stalled(w))
    BY <1>0, <2>1, ReasonedWritten
  <2> QED
    BY <1>0, <1>2, <2>1, <2>2, CycleMoves
<1>3. ASSUME Dispatches(w)
      PROVE  Moves(w, "dispatching", r) /\ mail' = mail /\ run' = run
  BY <1>0, <1>3, CycleMoves DEF Dispatches
<1>4. ASSUME Ends(w)
      PROVE  /\ Moves(w, "idle", 0) /\ mail' = mail
             /\ \/ run' = run
                \/ \E status \in RunStatus \ {"WAITING_EVIDENCE"}, c \in Nat, n \in Nat :
                      n <= c /\ Touches(r, status, c, n)
  <2>0. /\ {"WAITING_USER", "DIAGNOSED", "FAILED"} \subseteq RunStatus
        /\ {"WAITING_USER", "SUCCESS", "FAILED"} \subseteq JobStatus
    BY DEF RunStatus, JobStatus
  <2>1. Done(w) /\ mail' = mail
    BY <1>4 DEF Ends, GivesUp, CycleRefused, AsksUser, Diagnoses, EngineFails
  <2>2. Moves(w, "idle", 0) /\ mail' = mail
    BY <1>0, <2>1, CycleMoves
  <2>3. CASE GivesUp(w)
    <3>1. Writes(r, "WAITING_USER", "WAITING_USER", "WAITING_USER")
      BY <2>3 DEF GivesUp
    <3>2. Touches(r, "WAITING_USER", run[r].cycle, run[r].stalled)
      BY <1>0, <2>0, <3>1, StatusWritten
    <3> QED
      BY <1>0, <2>0, <2>2, <3>2
  <2>4. CASE FailedAs(r)
    <3>1. Touches(r, "FAILED", 0, 0)
      BY <1>0, <2>0, <2>4, OverWritten DEF FailedAs
    <3> QED
      BY <2>0, <2>2, <3>1
  <2>5. CASE AsksUser(w)
    <3>1. worker[w].at = "reasoning" /\ Reasoned(w, "WAITING_USER", "WAITING_USER")
      BY <2>5 DEF AsksUser
    <3>2. /\ Stalled(w) \in Nat /\ Stalled(w) <= run[r].cycle
          /\ Touches(r, "WAITING_USER", run[r].cycle, Stalled(w))
      BY <1>0, <2>0, <3>1, ReasonedWritten
    <3> QED
      BY <1>0, <2>0, <2>2, <3>2
  <2>6. CASE Diagnoses(w)
    <3>1. Touches(r, "DIAGNOSED", 0, 0)
      BY <1>0, <2>0, <2>6, OverWritten DEF Diagnoses
    <3> QED
      BY <2>0, <2>2, <3>1
  <2>7. CASE run' = run
    BY <2>2, <2>7
  <2> QED
    BY <1>4, <2>3, <2>4, <2>5, <2>6, <2>7 DEF Ends, CycleRefused, EngineFails
<1>5. ASSUME WaitsForJobs(w)
      PROVE  /\ Moves(w, "idle", 0)
             /\ Touches(r, "WAITING_EVIDENCE", run[r].cycle, run[r].stalled)
  <2>1. "WAITING_EVIDENCE" \in RunStatus /\ "WAITING_EVIDENCE" \in JobStatus
    BY DEF RunStatus, JobStatus
  <2>2. /\ Writes(r, "WAITING_EVIDENCE", "WAITING_EVIDENCE", "NEED_MORE_EVIDENCE")
        /\ Done(w)
    BY <1>5 DEF WaitsForJobs
  <2> QED
    BY <1>0, <2>1, <2>2, StatusWritten, CycleMoves
<1> QED
  BY <1>1, <1>2, <1>3, <1>4, <1>5

\* WorkerStep, one disjunct per kind of step.
LEMMA WorkerSteps ==
    ASSUME TypeOK, NEW w \in Worker,
           \/ CycleStarts(w) \/ PlansJobs(w) \/ Dispatches(w) \/ Ends(w) \/ WaitsForJobs(w)
    PROVE  w \in Busy
BY DEF CycleStarts, PlansJobs, Dispatches, Ends, WaitsForJobs, GivesUp, CycleRefused,
   AsksUser, Diagnoses, EngineFails, Busy

\* The groups of steps.
LEMMA NextCases ==
    ASSUME TypeOK, Next
    PROVE  \/ Create
           \/ ~Create /\ (RequestStep \/ JobStep)
           \/ \E w \in Worker : RunTaken(w) \/ ResumeTaken(w)
           \/ \E w \in Busy : \/ CycleStarts(w) \/ PlansJobs(w) \/ Dispatches(w)
                              \/ Ends(w) \/ WaitsForJobs(w)
BY WorkerSteps DEF Next, WorkerStep, Ends

Mails == [runs : SUBSET Runs, due : Nat, counting : Nat]

\* Types, from the parts of the state.
LEMMA TypeParts ==
    ASSUME TypeOK, run' \in Seq(Rows), Runs \subseteq Runs',
           worker' \in [Worker -> Cycles] \/ worker' = worker,
           mail'.runs \subseteq Runs', mail' \in [runs : SUBSET Runs', due : Nat, counting : Nat],
           case' \in CaseStatus, child' \in [Kind -> {"none", "queued", "running"}],
           requests' \in 0 .. MaxRequest
    PROVE  TypeOK'
<1>1. worker' \in [Worker -> Cycles]
  BY RunsNumbered
<1>2. Cycles \subseteq [at : {"idle", "taken", "reasoning", "dispatching"},
                        run : {0} \cup Runs', same : BOOLEAN, todo : SUBSET Kind]
  BY DEF Cycles
<1>3. worker' \in [Worker -> [at : {"idle", "taken", "reasoning", "dispatching"},
                              run : {0} \cup Runs', same : BOOLEAN, todo : SUBSET Kind]]
  BY <1>1, <1>2
<1> QED
  BY <1>3 DEF TypeOK, Rows, Counts

\* Every step preserves the types.
LEMMA TypeStep ==
    ASSUME TypeOK, ClaimInv, CountInv, [Next]_vars
    PROVE  TypeOK'
<1>0. /\ run \in Seq(Rows) /\ worker \in [Worker -> Cycles] /\ mail \in Mails
      /\ case \in CaseStatus /\ child \in [Kind -> {"none", "queued", "running"}]
      /\ requests \in 0 .. MaxRequest /\ MaxRequest \in Nat
  BY RunsNumbered, DiagnosisAssumption DEF TypeOK, Mails
<1>1. CASE UNCHANGED vars
  <2>1. Runs' = Runs
    BY <1>1 DEF vars, Runs
  <2> QED
    BY <1>0, <1>1, <2>1, TypeParts DEF vars, Mails
<1>2. ASSUME Posted, Runs' = Runs
      PROVE  mail' \in [runs : SUBSET Runs', due : Nat, counting : Nat]
  BY <1>0, <1>2 DEF Posted, Notified, Mails
<1>3. CASE Create
  <2>1. Runs' = Runs \cup {Len(run) + 1} /\ run' \in Seq(Rows)
    BY <1>3, CreateWritten
  <2>2. mail' \in [runs : SUBSET Runs', due : Nat, counting : Nat]
    BY <1>0, <1>3, <2>1 DEF Create, Mails
  <2>3. UNCHANGED <<case, child, worker, requests>> /\ mail'.runs \subseteq Runs'
    BY <1>3, <2>2 DEF Create
  <2> QED
    BY <1>0, <2>1, <2>2, <2>3, TypeParts
<1>4. CASE ~Create /\ (RequestStep \/ JobStep)
  <2>1. /\ KeptRuns /\ worker' = worker /\ Posted
        /\ case' \in CaseStatus /\ requests' \in 0 .. MaxRequest
        /\ child' \in [Kind -> {"none", "queued", "running"}]
    BY <1>4, OutsideEffects
  <2>2. Runs' = Runs /\ run' \in Seq(Rows)
    BY <2>1 DEF KeptRuns
  <2>3. mail' \in [runs : SUBSET Runs', due : Nat, counting : Nat]
    BY <1>2, <2>1, <2>2
  <2> QED
    BY <2>1, <2>2, <2>3, TypeParts
<1>5. ASSUME WorkerStep, run' \in Seq(Rows), Runs' = Runs, mail' \in Mails,
             worker' \in [Worker -> Cycles] \/ worker' = worker
      PROVE  TypeOK'
  <2>1. mail' \in [runs : SUBSET Runs', due : Nat, counting : Nat]
    BY <1>5 DEF Mails
  <2> QED
    BY <1>0, <1>5, <2>1, WorkerEffects, TypeParts
<1>6. run' = run => run' \in Seq(Rows) /\ Runs' = Runs
  BY <1>0 DEF Runs
<1>7. ASSUME NEW w \in Worker, RunTaken(w)
      PROVE  TypeOK'
  <2>1. mail' \in Mails
    BY <1>0, <1>7, WorkerCases DEF Mails
  <2> QED
    BY <1>5, <1>6, <1>7, <2>1, WorkerCases DEF WorkerStep, Moves
<1>8. ASSUME NEW w \in Worker, ResumeTaken(w)
      PROVE  TypeOK'
  <2>1. mail' \in Mails
    BY <1>0, <1>8, WorkerCases DEF Mails
  <2>2. Waiting \subseteq Runs
    BY DEF Waiting
  <2> QED
    BY <1>5, <1>6, <1>8, <2>1, <2>2, WorkerCases DEF WorkerStep, Moves, Touches
<1>9. ASSUME NEW w \in Busy, WaitsForJobs(w)
      PROVE  TypeOK'
  <2>1. \/ mail' = mail
        \/ mail' = [mail EXCEPT !.due = @ + mail.counting, !.counting = 0]
    BY <1>9 DEF WaitsForJobs
  <2>2. mail.due + mail.counting \in Nat
    BY <1>0 DEF Mails
  <2>3. mail' \in Mails
    <3>1. ASSUME mail' = [mail EXCEPT !.due = @ + mail.counting, !.counting = 0]
          PROVE  mail' = [runs |-> mail.runs, due |-> mail.due + mail.counting,
                          counting |-> 0]
      BY <1>0, <3>1 DEF Mails
    <3> QED
      BY <1>0, <2>1, <2>2, <3>1 DEF Mails
  <2> QED
    BY <1>5, <1>9, <2>3, CycleCases DEF WorkerStep, Moves, Touches, Busy
<1>10. ASSUME NEW w \in Busy, CycleStarts(w) \/ PlansJobs(w) \/ Dispatches(w) \/ Ends(w)
       PROVE  TypeOK'
  <2>1. /\ mail' = mail /\ worker' \in [Worker -> Cycles]
        /\ run' = run \/ (run' \in Seq(Rows) /\ Runs' = Runs)
    BY <1>10, CycleCases DEF Moves, Touches
  <2> QED
    BY <1>0, <1>5, <1>6, <1>10, <2>1 DEF WorkerStep, Busy, Ends
<1> QED
  BY <1>1, <1>3, <1>4, <1>7, <1>8, <1>9, <1>10, NextCases

-----------------------------------------------------------------------------
(***************************************************************************)
(* Claims are kept.                                                        *)
(***************************************************************************)
\* A step of process w that has, or takes, run r for itself alone.
LEMMA ClaimMoves ==
    ASSUME TypeOK, ClaimInv, OneExecutor, NEW w \in Worker, NEW r \in Runs,
           NEW point, NEW q, Moves(w, point, q), Runs' = Runs,
           \A s \in Runs \ {r} : run'[s].st = run[s].st,
           \A v \in Busy \ {w} : worker[v].run # r,
           mail'.runs \subseteq mail.runs \ {r},
           \/ point = "idle"
           \/ /\ q = r
              /\ run'[r].st = IF point = "taken" THEN "PENDING" ELSE "ANALYZING"
    PROVE  ClaimInv' /\ OneExecutor'
<1>1. \A v \in Worker \ {w} : (v \in Busy)' <=> v \in Busy
  BY DEF Busy, Moves
<1>2. \A v \in Busy \ {w} : worker'[v] = worker[v] /\ worker[v].run \in Runs \ {r}
  BY DEF Moves, ClaimInv, Busy
<1>3. (w \in Busy)' => q = r /\ worker'[w].run = r /\ worker'[w].at = point
                            /\ run'[r].st = IF point = "taken" THEN "PENDING" ELSE "ANALYZING"
  BY DEF Busy, Moves
<1>4. \A v \in Busy' : v \in Worker
  BY DEF Busy
<1>5. \A v \in Busy' : worker'[v].run \in Runs' /\ run'[worker'[v].run].st = Claimed(v)'
  BY <1>1, <1>2, <1>3, <1>4 DEF ClaimInv, Claimed
<1>6. \A s \in mail'.runs :
          run'[s].st = "PENDING" /\ \A v \in Busy' : worker'[v].run # s
  <2> SUFFICES ASSUME NEW s \in mail'.runs
               PROVE  run'[s].st = "PENDING" /\ \A v \in Busy' : worker'[v].run # s
    OBVIOUS
  <2>1. s \in mail.runs /\ s \in Runs \ {r}
    BY DEF TypeOK
  <2>2. run'[s].st = "PENDING"
    BY <2>1 DEF ClaimInv
  <2>3. \A v \in Busy' : worker'[v].run # s
    BY <1>1, <1>2, <1>3, <1>4, <2>1 DEF ClaimInv
  <2> QED
    BY <2>2, <2>3
<1>7. OneExecutor'
  BY <1>1, <1>2, <1>3, <1>4 DEF OneExecutor
<1> QED
  BY <1>5, <1>6, <1>7 DEF ClaimInv

\* Every step preserves who executes a run.
LEMMA ClaimStep ==
    ASSUME TypeOK, ClaimInv, OneExecutor, CountInv, [Next]_vars
    PROVE  ClaimInv' /\ OneExecutor'
<1>1. CASE UNCHANGED vars
  BY <1>1 DEF vars, ClaimInv, OneExecutor, Busy, Runs, Claimed
<1>2. CASE Create
  <2>1. /\ Runs' = Runs \cup {Len(run) + 1} /\ Len(run) + 1 \notin Runs
        /\ \A r \in Runs : run'[r] = run[r]
        /\ run'[Len(run) + 1].st = "PENDING"
    BY <1>2, CreateWritten DEF NewRun
  <2>2. /\ worker' = worker /\ Busy' = Busy
        /\ mail'.runs = mail.runs \cup {Len(run) + 1} /\ mail.runs \subseteq Runs
    BY <1>2 DEF Create, Busy, TypeOK
  <2> QED
    BY <2>1, <2>2 DEF ClaimInv, OneExecutor, Claimed
<1>3. CASE ~Create /\ (RequestStep \/ JobStep)
  <2>1. KeptRuns /\ worker' = worker /\ Posted
    BY <1>3, OutsideEffects
  <2>2. Busy' = Busy /\ mail'.runs = mail.runs /\ mail.runs \subseteq Runs
    BY <2>1 DEF Busy, Posted, Notified, TypeOK
  <2> QED
    BY <2>1, <2>2 DEF KeptRuns, ClaimInv, OneExecutor, Claimed
<1>4. ASSUME NEW w \in Worker, RunTaken(w)
      PROVE  ClaimInv' /\ OneExecutor'
  <2>1. PICK r \in mail.runs : Moves(w, "taken", r) /\ mail' = [mail EXCEPT !.runs = @ \ {r}]
    BY <1>4, WorkerCases
  <2>2. /\ r \in Runs /\ run' = run /\ Runs' = Runs /\ run[r].st = "PENDING"
        /\ mail'.runs = mail.runs \ {r}
        /\ \A v \in Busy : worker[v].run # r
    BY <1>4, <2>1, WorkerCases DEF TypeOK, ClaimInv, Runs
  <2> QED
    BY <2>1, <2>2, ClaimMoves
<1>5. ASSUME NEW w \in Worker, ResumeTaken(w)
      PROVE  ClaimInv' /\ OneExecutor'
  <2>1. mail'.runs = mail.runs
    BY <1>5, WorkerCases DEF TypeOK
  <2>2. CASE run' = run /\ worker' = worker
    BY <2>1, <2>2 DEF ClaimInv, OneExecutor, Busy, Runs, Claimed
  <2>3. CASE ~(run' = run /\ worker' = worker)
    <3> DEFINE r == Max(Waiting)
    <3>1. /\ r \in Waiting /\ Moves(w, "taken", r)
          /\ Touches(r, "PENDING", run[r].cycle, run[r].stalled)
      BY <1>5, <2>3, WorkerCases
    <3>2. r \in Runs /\ run[r].st \in Resumable
      BY <3>1 DEF Waiting
    <3>3. (\A v \in Busy : worker[v].run # r) /\ r \notin mail.runs
      BY <3>2 DEF ClaimInv, Claimed, Resumable
    <3> HIDE DEF r
    <3> QED
      BY <2>1, <3>1, <3>2, <3>3, ClaimMoves DEF Touches
  <2> QED
    BY <2>2, <2>3
<1>6. ASSUME NEW w \in Busy,
             CycleStarts(w) \/ PlansJobs(w) \/ Dispatches(w) \/ Ends(w) \/ WaitsForJobs(w)
      PROVE  ClaimInv' /\ OneExecutor'
  <2> DEFINE r == worker[w].run
  <2>1. /\ w \in Worker /\ r \in Runs /\ r \notin mail.runs
        /\ \A v \in Busy \ {w} : worker[v].run # r
    BY DEF Busy, ClaimInv, OneExecutor
  <2>2. mail'.runs = mail.runs
    <3>1. CASE WaitsForJobs(w)
      <4>1. mail' \in {mail, [mail EXCEPT !.due = @ + mail.counting, !.counting = 0]}
        BY <3>1 DEF WaitsForJobs
      <4> QED
        BY <4>1 DEF TypeOK
    <3> QED
      BY <1>6, <3>1, CycleCases
  <2>3. Dispatches(w) => run[r].st = "ANALYZING"
    BY DEF Dispatches, ClaimInv, Claimed
  <2>4. \E point : /\ Moves(w, point, r) \/ (point = "idle" /\ Moves(w, point, 0))
                   /\ point \in {"idle", "reasoning", "dispatching"}
                   /\ point # "idle" => run'[r].st = "ANALYZING"
    BY <1>6, <2>3, CycleCases DEF Touches
  <2>5. Runs' = Runs /\ \A s \in Runs \ {r} : run'[s].st = run[s].st
    BY <1>6, CycleCases DEF Touches, Runs
  <2> HIDE DEF r
  <2> QED
    BY <2>1, <2>2, <2>4, <2>5, ClaimMoves
<1> QED
  BY <1>1, <1>2, <1>3, <1>4, <1>5, <1>6, NextCases

-----------------------------------------------------------------------------
(***************************************************************************)
(* Counters are kept in order.                                             *)
(***************************************************************************)
\* A cycle of one process does not touch the run of another.
LEMMA CountMoves ==
    ASSUME TypeOK, ClaimInv, OneExecutor, CountInv, NEW w \in Worker, NEW r \in Runs,
           NEW point, NEW q, Moves(w, point, q),
           NEW status, NEW c \in Nat, NEW n \in Nat, n <= c,
           Touches(r, status, c, n),
           \A v \in Busy \ {w} : worker[v].run # r,
           point = "reasoning" => q = r /\ n < c
    PROVE  CountInv'
<1>1. \A s \in Runs : run'[s].stalled <= run'[s].cycle
  BY DEF Touches, CountInv
<1>2. ASSUME NEW v \in Worker, worker'[v].at = "reasoning"
      PROVE  run'[worker'[v].run].stalled < run'[worker'[v].run].cycle
  <2>1. CASE v = w
    BY <1>2, <2>1 DEF Moves, Touches
  <2>2. CASE v # w
    <3>1. worker'[v] = worker[v] /\ v \in Busy /\ worker[v].run \in Runs \ {r}
      BY <1>2, <2>2 DEF Moves, Busy, ClaimInv
    <3> QED
      BY <1>2, <3>1 DEF Touches, CountInv
  <2> QED
    BY <2>1, <2>2
<1>3. Runs' = Runs
  BY DEF Touches
<1> QED
  BY <1>1, <1>2, <1>3 DEF CountInv

\* Every step preserves the counters of the cycles.
LEMMA CountStep ==
    ASSUME TypeOK, ClaimInv, OneExecutor, CountInv, [Next]_vars
    PROVE  CountInv'
<1>0. /\ \A r \in Runs : run[r].cycle \in Nat /\ run[r].stalled \in Nat
      /\ \A v \in Worker : worker[v].at = "reasoning" => worker[v].run \in Runs
  BY RunsNumbered DEF Rows, Counts, ClaimInv, Busy
<1>1. ASSUME run' = run,
             \A v \in Worker : worker'[v].at = "reasoning" => worker'[v] = worker[v]
      PROVE  CountInv'
  BY <1>1 DEF CountInv, Runs
<1>2. CASE UNCHANGED vars
  BY <1>1, <1>2 DEF vars
<1>3. CASE Create
  <2>1. worker' = worker
    BY <1>3 DEF Create
  <2>2. /\ Runs' = Runs \cup {Len(run) + 1} /\ \A r \in Runs : run'[r] = run[r]
        /\ run'[Len(run) + 1].cycle = 0 /\ run'[Len(run) + 1].stalled = 0
    BY <1>3, CreateWritten DEF NewRun
  <2> QED
    BY <1>0, <2>1, <2>2 DEF CountInv
<1>4. CASE ~Create /\ (RequestStep \/ JobStep)
  BY <1>0, <1>4, OutsideEffects DEF KeptRuns, CountInv
<1>5. ASSUME NEW w \in Worker, RunTaken(w)
      PROVE  CountInv'
  <2>1. run' = run /\ \A v \in Worker : worker'[v].at = "reasoning" => worker'[v] = worker[v]
    BY <1>5, WorkerCases DEF Moves
  <2> QED
    BY <1>1, <2>1
<1>6. ASSUME NEW w \in Worker, ResumeTaken(w)
      PROVE  CountInv'
  <2>1. CASE run' = run /\ worker' = worker
    BY <1>1, <2>1
  <2>2. CASE ~(run' = run /\ worker' = worker)
    <3> DEFINE r == Max(Waiting)
    <3>1. /\ r \in Waiting /\ Moves(w, "taken", r)
          /\ Touches(r, "PENDING", run[r].cycle, run[r].stalled)
      BY <1>6, <2>2, WorkerCases
    <3>2. r \in Runs /\ run[r].st \in Resumable
      BY <3>1 DEF Waiting
    <3>3. /\ \A v \in Busy : worker[v].run # r
          /\ run[r].stalled <= run[r].cycle
      BY <3>2 DEF ClaimInv, Claimed, Resumable, CountInv
    <3> HIDE DEF r
    <3> QED
      BY <1>0, <3>1, <3>2, <3>3, CountMoves
  <2> QED
    BY <2>1, <2>2
<1>7. ASSUME NEW w \in Busy,
             CycleStarts(w) \/ PlansJobs(w) \/ Dispatches(w) \/ Ends(w) \/ WaitsForJobs(w)
      PROVE  CountInv'
  <2> DEFINE r == worker[w].run
  <2>1. /\ w \in Worker /\ r \in Runs /\ run[r].stalled <= run[r].cycle
        /\ \A v \in Busy \ {w} : worker[v].run # r
    BY DEF Busy, ClaimInv, OneExecutor, CountInv
  <2>2. CASE CycleStarts(w)
    <3>1. Moves(w, "reasoning", r) /\ Touches(r, "ANALYZING", run[r].cycle + 1, run[r].stalled)
      BY <2>2, CycleCases
    <3>2. /\ run[r].cycle + 1 \in Nat /\ run[r].stalled <= run[r].cycle + 1
          /\ run[r].stalled < run[r].cycle + 1 /\ run[r].stalled \in Nat
      BY <1>0, <2>1
    <3> HIDE DEF r
    <3> QED
      BY <2>1, <3>1, <3>2, CountMoves
  <2>3. CASE run' = run
    BY <1>1, <1>7, <2>2, <2>3, CycleCases DEF Moves
  <2>4. CASE run' # run /\ ~CycleStarts(w)
    <3>1. \E q, point : point \in {"idle", "dispatching"} /\ Moves(w, point, q)
      BY <1>7, <2>4, CycleCases
    <3>2. \E status \in RunStatus, c \in Nat, n \in Nat : n <= c /\ Touches(r, status, c, n)
      <4>1. CASE PlansJobs(w)
        <5>1. PICK n \in 0 .. run[r].cycle : Touches(r, "ANALYZING", run[r].cycle, n)
          BY <4>1, CycleCases
        <5>2. n \in Nat /\ n <= run[r].cycle /\ run[r].cycle \in Nat
          BY <1>0, <2>1
        <5> HIDE DEF r
        <5> QED
          BY <5>1, <5>2 DEF RunStatus
      <4>2. CASE Ends(w)
        <5>1. PICK status \in RunStatus \ {"WAITING_EVIDENCE"}, c \in Nat, n \in Nat :
                  n <= c /\ Touches(r, status, c, n)
          BY <2>4, <4>2, CycleCases
        <5> HIDE DEF r
        <5> QED
          BY <5>1
      <4>3. CASE WaitsForJobs(w)
        <5>1. Touches(r, "WAITING_EVIDENCE", run[r].cycle, run[r].stalled)
          BY <4>3, CycleCases
        <5>2. run[r].cycle \in Nat /\ run[r].stalled \in Nat
          BY <1>0, <2>1
        <5> HIDE DEF r
        <5> QED
          BY <2>1, <5>1, <5>2 DEF RunStatus
      <4> QED
        BY <1>7, <2>4, <4>1, <4>2, <4>3, CycleCases
    <3>3. PICK q, point : point \in {"idle", "dispatching"} /\ Moves(w, point, q)
      BY <3>1
    <3>4. PICK status \in RunStatus, c \in Nat, n \in Nat : n <= c /\ Touches(r, status, c, n)
      BY <3>2
    <3> HIDE DEF r
    <3> QED
      BY <2>1, <3>3, <3>4, CountMoves
  <2> QED
    BY <2>2, <2>3, <2>4
<1> QED
  BY <1>2, <1>3, <1>4, <1>5, <1>6, <1>7, NextCases

-----------------------------------------------------------------------------
(***************************************************************************)
(* Whoever waits is answered.                                              *)
(***************************************************************************)
\* The newest run waits for evidence.
NewestWaits == Len(run) \in Runs /\ run[Len(run)].st = "WAITING_EVIDENCE"

\* The newest run is the last row.
LEMMA NewestIsLast ==
    ASSUME TypeOK
    PROVE  Newest.st = "WAITING_EVIDENCE" <=> NewestWaits
<1>1. run \in Seq(Rows) /\ Len(run) \in Nat /\ Runs = 1 .. Len(run)
  BY RunsNumbered
<1>2. run = <<>> <=> Len(run) = 0
  BY <1>1, EmptySeq
<1>3. Over("DIAGNOSED", "SUCCESS").st # "WAITING_EVIDENCE"
  BY DEF Over, NewRun
<1> QED
  BY <1>1, <1>2, <1>3 DEF Newest, NewestWaits

\* So it is after a step.
LEMMA NewestIsLastNext ==
    ASSUME TypeOK'
    PROVE  Newest'.st = "WAITING_EVIDENCE" => NewestWaits'
<1>1. run' \in Seq(Rows)
  BY DEF TypeOK, Rows, Counts
<1>2. Len(run') \in Nat /\ Runs' = 1 .. Len(run')
  BY <1>1, LenProperties DEF Runs
<1>3. run' # <<>> => Len(run') # 0
  BY <1>1, EmptySeq
<1>4. Over("DIAGNOSED", "SUCCESS").st # "WAITING_EVIDENCE"
  BY DEF Over, NewRun
<1> QED
  BY <1>2, <1>3, <1>4 DEF Newest, NewestWaits

\* A step that ends no job, takes no mail and lets no run wait.
LEMMA AnswerKept ==
    ASSUME TypeOK, TypeOK', DispatchInv, WaitingIsAnswered,
           mail'.counting = mail.counting, NewestWaits' => NewestWaits /\ mail'.due = mail.due,
           \A k \in Kind : child[k] # "none" => child'[k] # "none",
           \A w \in Dispatching' : \/ w \in Dispatching /\ worker'[w] = worker[w]
                                   \/ worker'[w].todo # {}
                                   \/ \E k \in Kind : child'[k] # "none"
    PROVE  DispatchInv' /\ WaitingIsAnswered'
<1>1. DispatchInv'
  BY DEF DispatchInv, Outstanding
<1>2. WaitingIsAnswered'
  BY NewestIsLast, NewestIsLastNext DEF WaitingIsAnswered
<1> QED
  BY <1>1, <1>2

\* Every step preserves that a waiting run has an answer coming.
LEMMA AnswerStep ==
    ASSUME TypeOK, TypeOK', ClaimInv, CountInv, DispatchInv, WaitingIsAnswered, [Next]_vars
    PROVE  DispatchInv' /\ WaitingIsAnswered'
<1>0. mail \in Mails /\ Len(run) \in Nat /\ Runs = 1 .. Len(run)
  BY RunsNumbered DEF TypeOK, Mails
<1>1. CASE UNCHANGED vars
  BY <1>1, AnswerKept DEF vars, NewestWaits, Dispatching, Runs
<1>2. CASE Create
  <2>1. ~NewestWaits'
    BY <1>2, CreateWritten DEF NewestWaits, NewRun
  <2>2. worker' = worker /\ child' = child /\ mail'.counting = mail.counting
    BY <1>0, <1>2 DEF Create, Mails
  <2> QED
    BY <2>1, <2>2, AnswerKept DEF Dispatching
<1>3. CASE ~Create /\ (RequestStep \/ JobStep)
  <2>1. /\ KeptRuns /\ worker' = worker /\ Posted
        /\ \A k \in Kind : child[k] # "none" /\ child'[k] = "none" => mail' = Notified(mail)
    BY <1>3, OutsideEffects
  <2>2. NewestWaits' <=> NewestWaits
    BY <2>1 DEF KeptRuns, NewestWaits
  <2>3. Dispatching' = Dispatching /\ mail'.counting >= mail.counting
    BY <1>0, <2>1 DEF Dispatching, Posted, Notified, Mails
  <2>4. mail'.due + mail'.counting >= mail.due + mail.counting
    BY <1>0, <2>1 DEF Posted, Notified, Mails
  <2>5. mail' = Notified(mail) => /\ mail'.due + mail'.counting > 0
                                  /\ Dispatching # {} => mail'.counting > 0
    BY <1>0 DEF Notified, Mails
  <2>6. {mail.due, mail.counting, mail'.due, mail'.counting} \subseteq Nat
    BY <1>0 DEF Mails, TypeOK
  <2>7. DispatchInv'
    BY <2>1, <2>3, <2>5, <2>6 DEF DispatchInv, Outstanding
  <2>8. WaitingIsAnswered'
    BY <2>1, <2>2, <2>4, <2>5, <2>6, NewestIsLast, NewestIsLastNext
    DEF WaitingIsAnswered
  <2> QED
    BY <2>7, <2>8
<1>4. ASSUME NEW w \in Worker, RunTaken(w)
      PROVE  DispatchInv' /\ WaitingIsAnswered'
  <2>1. /\ run' = run /\ \A v \in Dispatching' : v \in Dispatching /\ worker'[v] = worker[v]
        /\ mail'.counting = mail.counting /\ mail'.due = mail.due
    BY <1>0, <1>4, WorkerCases DEF Moves, Dispatching, Mails
  <2>2. child' = child
    BY <1>4 DEF RunTaken
  <2> QED
    BY <2>1, <2>2, AnswerKept DEF NewestWaits, Runs
<1>5. ASSUME NEW w \in Worker, ResumeTaken(w)
      PROVE  DispatchInv' /\ WaitingIsAnswered'
  <2>1. child' = child /\ mail'.counting = mail.counting
    BY <1>0, <1>5, WorkerCases DEF ResumeTaken, Mails
  <2>2. \A v \in Dispatching' : v \in Dispatching /\ worker'[v] = worker[v]
    BY <1>5, WorkerCases DEF Moves, Dispatching
  <2>3. ~NewestWaits'
    <3>1. CASE Waiting = {}
      BY <1>5, <3>1, WorkerCases DEF NewestWaits, Waiting, Resumable, Runs
    <3>2. CASE Waiting # {}
      <4> DEFINE r == Max(Waiting)
      <4>1. /\ r \in Waiting /\ (\A q \in Waiting : q <= r)
            /\ Touches(r, "PENDING", run[r].cycle, run[r].stalled)
        BY <1>5, <3>2, WorkerCases
      <4>2. r \in Runs /\ Waiting \subseteq Runs
        BY <4>1 DEF Waiting
      <4> HIDE DEF r
      <4>3. CASE r = Len(run)
        BY <4>1, <4>3 DEF Touches, NewestWaits
      <4>4. CASE r # Len(run)
        <5>1. Len(run) \in Runs /\ r < Len(run)
          BY <1>0, <4>2, <4>4
        <5>2. Len(run) \notin Waiting
          BY <1>0, <4>1, <4>2, <5>1
        <5>3. run'[Len(run)] = run[Len(run)] /\ Len(run') = Len(run)
          BY <4>1, <4>4, <5>1 DEF Touches
        <5> QED
          BY <5>1, <5>2, <5>3 DEF NewestWaits, Waiting, Resumable
      <4> QED
        BY <4>3, <4>4
    <3> QED
      BY <3>1, <3>2
  <2> QED
    BY <2>1, <2>2, <2>3, AnswerKept
<1>6. ASSUME NEW w \in Busy, CycleStarts(w) \/ PlansJobs(w) \/ Dispatches(w) \/ Ends(w)
      PROVE  DispatchInv' /\ WaitingIsAnswered'
  <2>1. mail' = mail /\ \A k \in Kind : child[k] # "none" => child'[k] # "none"
    BY <1>6, CycleCases, WorkerEffects DEF WorkerStep, Ends, Busy
  <2>2. NewestWaits' => NewestWaits
    <3> DEFINE r == worker[w].run
    <3>1. \/ run' = run
          \/ \E status \in RunStatus \ {"WAITING_EVIDENCE"} :
               \E c, n : Touches(r, status, c, n)
      BY <1>6, CycleCases DEF RunStatus
    <3> HIDE DEF r
    <3> QED
      BY <3>1 DEF Touches, NewestWaits, Runs
  <2>3. \A v \in Dispatching' : \/ v \in Dispatching /\ worker'[v] = worker[v]
                                \/ worker'[v].todo # {}
                                \/ \E k \in Kind : child'[k] # "none"
    BY <1>6, CycleCases, CycleMoves DEF Moves, Dispatching, Busy
  <2> QED
    BY <2>1, <2>2, <2>3, AnswerKept
<1>7. ASSUME NEW w \in Busy, WaitsForJobs(w)
      PROVE  DispatchInv' /\ WaitingIsAnswered'
  <2>1. /\ w \in Dispatching /\ worker[w].todo = {} /\ child' = child
        /\ mail' = IF Dispatching = {w}
                   THEN [mail EXCEPT !.due = @ + mail.counting, !.counting = 0]
                   ELSE mail
    BY <1>7 DEF WaitsForJobs, Dispatching, Busy
  <2>2. \A v \in Dispatching' : v \in Dispatching \ {w} /\ worker'[v] = worker[v]
    BY <1>7, CycleCases DEF Moves, Dispatching
  <2>3. Outstanding(mail.counting)
    BY <2>1 DEF DispatchInv
  <2>4. DispatchInv'
    BY <2>1, <2>2 DEF DispatchInv, Outstanding
  <2>5. mail'.due + mail'.counting = mail.due + mail.counting
    BY <1>0, <2>1 DEF Mails
  <2>6. WaitingIsAnswered'
    BY <1>0, <2>1, <2>3, <2>5 DEF WaitingIsAnswered, Outstanding, Mails
  <2> QED
    BY <2>4, <2>6
<1> QED
  BY <1>1, <1>2, <1>3, <1>4, <1>5, <1>6, <1>7, NextCases

-----------------------------------------------------------------------------
\* The invariant holds in every run of the cycles.
LEMMA Inductive == Spec => []CycleInv
<1>1. Init => CycleInv
  <2> SUFFICES ASSUME Init PROVE CycleInv
    OBVIOUS
  <2>1. run = <<>> /\ Runs = {} /\ Busy = {} /\ Dispatching = {}
    BY DEF Init, Runs, Busy, Dispatching, Idle
  <2>2. TypeOK
    BY <2>1, DiagnosisAssumption, EmptySeq DEF Init, TypeOK, CaseStatus, Idle
  <2>3. Newest.st # "WAITING_EVIDENCE"
    BY <2>1 DEF Newest, Over, NewRun
  <2>4. CountInv
    BY <2>1 DEF CountInv, Init, Idle
  <2> QED
    BY <2>1, <2>2, <2>3, <2>4
    DEF CycleInv, ClaimInv, OneExecutor, DispatchInv, WaitingIsAnswered, Init
<1>2. CycleInv /\ [Next]_vars => CycleInv'
  BY TypeStep, ClaimStep, CountStep, AnswerStep DEF CycleInv
<1> QED
  BY <1>1, <1>2, PTL DEF Spec

\* Every variable keeps its type: no run is counted past its limit of cycles.
THEOREM Typing == Spec => []TypeOK
<1>1. CycleInv => TypeOK
  BY DEF CycleInv
<1> QED
  BY <1>1, Inductive, PTL

\* Two processes are never in a cycle of one run.
THEOREM OneCycle == Spec => []OneExecutor
<1>1. CycleInv => OneExecutor
  BY DEF CycleInv
<1> QED
  BY <1>1, Inductive, PTL

\* The newest run that waits for evidence has a job to wait for, or the
\* notification that resumes it is on its way.
THEOREM NoLostWakeup == Spec => []WaitingIsAnswered
<1>1. CycleInv => WaitingIsAnswered
  BY DEF CycleInv
<1> QED
  BY <1>1, Inductive, PTL
=============================================================================
