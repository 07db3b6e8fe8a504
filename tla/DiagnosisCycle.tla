--------------------------- MODULE DiagnosisCycle ----------------------------
(***************************************************************************)
(* The diagnosis runs of one case: cycles of analysis that dispatch jobs,  *)
(* wait for their evidence and are resumed by a notification.              *)
(*                                                                         *)
(* The two processes of the diagnosis worker take run messages and resume  *)
(* notifications from one queue; the collector and the analyzers are other *)
(* workers.  A cycle commits twice: when it starts, and when it concludes. *)
(* Its session keeps the rows it read at the start (expire_on_commit is    *)
(* off), so its conclusion overwrites what others wrote to the case and to *)
(* the parent job meanwhile.  A notification finds only waiting runs.      *)
(***************************************************************************)
EXTENDS Naturals, Sequences, FiniteSetsExt

CONSTANTS
    Processes,          \* processes of the diagnosis worker
    MaxCycles,          \* settings.diagnosis_max_cycles
    NoProgressLimit,    \* settings.diagnosis_no_progress_limit
    MaxRun,             \* bounds: runs created for the case,
    MaxRequest          \*         requests of users

ASSUME DiagnosisAssumption ==
    {Processes, MaxCycles, NoProgressLimit, MaxRun, MaxRequest} \subseteq Nat

VARIABLES
    run,        \* diagnosis_runs, oldest first, each with its parent job
    case,       \* cases.status
    child,      \* per kind, the active job of that kind
    mail,       \* run messages, and resume notifications: due, and not yet due
    worker,     \* the cycle each process is in
    requests

vars == <<run, case, child, mail, worker, requests>>

Worker == 1 .. Processes
Runs == DOMAIN run
Kind == {"COLLECT", "ANALYZE"}
RunStatus == {"PENDING", "ANALYZING", "WAITING_EVIDENCE", "WAITING_USER", "DIAGNOSED", "FAILED"}
JobStatus == {"PENDING", "RUNNING", "WAITING_EVIDENCE", "WAITING_USER", "CANCEL_REQUESTED",
              "CANCELLED", "SUCCESS", "FAILED"}
CaseStatus == {"NEW", "COLLECTING", "ANALYZING", "NEED_MORE_EVIDENCE", "WAITING_USER",
               "DIAGNOSED", "ROOT_CAUSE_CONFIRMED", "FAILED"}

\* ACTIVE, what a cycle takes up and a start request finds.
ActiveStarted == {"ANALYZING", "WAITING_EVIDENCE"}
ActiveStatus == {"PENDING", "ANALYZING", "WAITING_EVIDENCE"}

\* `same`: the snapshot's fingerprint is that of the run's last cycle.
Idle == [at |-> "idle", run |-> 0, same |-> FALSE, todo |-> {}]
Busy == {w \in Worker : worker[w].at # "idle"}

\* `news`: the case's evidence has changed since the run's last snapshot.
NewRun == [st |-> "PENDING", job |-> "PENDING", cycle |-> 0, stalled |-> 0, news |-> TRUE]
\* A run that is over: its counters are read no more.
Over(status, job) == [NewRun EXCEPT !.st = status, !.job = job]
Newest == IF run = <<>> THEN Over("DIAGNOSED", "SUCCESS") ELSE run[Len(run)]
Changed == [r \in Runs |-> [run[r] EXCEPT !.news = TRUE]]

\* notify_case_changed posts a resume with a countdown of one second: when a
\* cycle is dispatching jobs it commits before the countdown ends.
Dispatching == {w \in Worker : worker[w].at = "dispatching"}
Notified(m) ==
    IF Dispatching = {} THEN [m EXCEPT !.due = @ + 1] ELSE [m EXCEPT !.counting = @ + 1]

-----------------------------------------------------------------------------
Init ==
    /\ run = <<>>
    /\ case = "NEW"
    /\ child = [k \in Kind |-> "none"]
    /\ mail = [runs |-> {}, due |-> 0, counting |-> 0]
    /\ worker = [w \in Worker |-> Idle]
    /\ requests = 0

(***************************************************************************)
(* Requests.                                                               *)
(***************************************************************************)
Create ==
    /\ Len(run) < MaxRun
    /\ run' = Append(run, NewRun)
    /\ mail' = [mail EXCEPT !.runs = @ \cup {Len(run) + 1}]
    /\ UNCHANGED <<case, child, worker, requests>>

\* POST diagnosis/start gives an active run's job back.
StartRequested == (\A r \in Runs : run[r].st \notin ActiveStatus) /\ Create

\* A finished reproduction or a provisioned device starts a run whatever the
\* others do.
StartedByFlow == Create

Request ==
    /\ requests < MaxRequest
    /\ requests' = requests + 1

Upload ==
    /\ Request
    /\ run' = Changed
    /\ mail' = Notified(mail)
    /\ UNCHANGED <<case, child, worker>>

CollectRequested ==
    /\ Request
    /\ child["COLLECT"] = "none"
    /\ child' = [child EXCEPT !["COLLECT"] = "queued"]
    /\ UNCHANGED <<run, case, mail, worker>>

\* A hypothesis exists once a run had a cycle.
Confirm ==
    /\ Request
    /\ \E r \in Runs : run[r].cycle > 0 \/ run[r].st = "DIAGNOSED"
    /\ case \in {"ANALYZING", "DIAGNOSED", "WAITING_USER", "NEED_MORE_EVIDENCE"}
    /\ case' = "ROOT_CAUSE_CONFIRMED"
    /\ UNCHANGED <<run, child, mail, worker>>

CancelRequested(r) ==
    /\ Request
    /\ run[r].job \in {"PENDING", "RUNNING", "WAITING_EVIDENCE", "WAITING_USER"}
    /\ run' = [run EXCEPT ![r].job = IF @ = "PENDING" THEN "CANCELLED" ELSE "CANCEL_REQUESTED"]
    /\ UNCHANGED <<case, child, mail, worker>>

(***************************************************************************)
(* A process of the diagnosis worker takes a message.                      *)
(***************************************************************************)
\* They are alike, so the first idle one may take it.
Free(w) == worker[w].at = "idle" /\ \A v \in 1 .. w - 1 : v \in Busy
Takes(w, r) == worker' = [worker EXCEPT ![w] = [Idle EXCEPT !.at = "taken", !.run = r]]

RunTaken(w) ==
    /\ Free(w)
    /\ \E r \in mail.runs :
        /\ Takes(w, r)
        /\ mail' = [mail EXCEPT !.runs = @ \ {r}]
    /\ UNCHANGED <<run, case, child, requests>>

\* resume_case: the newest waiting run, or none.
ResumableAny == {"PENDING", "WAITING_EVIDENCE", "WAITING_USER"}
Resumable == {"WAITING_EVIDENCE", "WAITING_USER"}
Waiting == {r \in Runs : run[r].st \in Resumable}

ResumeTaken(w) ==
    /\ Free(w) /\ mail.due > 0
    /\ mail' = [mail EXCEPT !.due = @ - 1]
    /\ IF Waiting = {} THEN UNCHANGED <<run, worker>>
       ELSE LET r == Max(Waiting) IN
            /\ run' = [run EXCEPT ![r].st = "PENDING"]
            /\ Takes(w, r)
    /\ UNCHANGED <<case, child, requests>>

(***************************************************************************)
(* _execute_cycle.                                                         *)
(***************************************************************************)
Done(w) == worker' = [worker EXCEPT ![w] = Idle]

\* The three rows written together: the run, its parent job and the case.
Writes(r, status, job, status2) ==
    /\ run' = [run EXCEPT ![r].st = status, ![r].job = job]
    /\ case' = status2

\* _ALLOWED for RUNNING and WAITING_USER; TRANSITIONS for ANALYSIS_STARTED and
\* USER_ACTION_REQUIRED.  A case that is there already is let through.
Startable == {"PENDING", "RUNNING", "WAITING_EVIDENCE", "WAITING_USER"}
Analysable == {"NEW", "COLLECTING", "NEED_MORE_EVIDENCE", "WAITING_USER", "DIAGNOSED", "ANALYZING"}
Askable == {"ANALYZING", "NEED_MORE_EVIDENCE", "DIAGNOSED", "WAITING_USER"}

Exhausted(r) == run[r].cycle >= MaxCycles
Active(r) == run[r].st \in ActiveStatus
Admitted(r) ==
    /\ Active(r) /\ run[r].job \in Startable
    /\ case \in (IF Exhausted(r) THEN Askable ELSE Analysable)

\* The end of a cycle by an exception.
FailedMisnamed(r) == Writes(r, "FAILURE", "FAILED", "FAILED")
FailedAs(r) ==
    /\ run' = [run EXCEPT ![r] = Over("FAILED", "FAILED")]
    /\ case' = "FAILED"

\* The first commit, and the snapshot read right after it.
CycleStarts(w) ==
    LET r == worker[w].run IN
    /\ worker[w].at = "taken" /\ Admitted(r) /\ ~Exhausted(r)
    /\ run' = [run EXCEPT ![r].st = "ANALYZING", ![r].job = "RUNNING", ![r].cycle = @ + 1,
                         ![r].news = FALSE]
    /\ case' = "ANALYZING"
    /\ worker' = [worker EXCEPT ![w].at = "reasoning", ![w].same = ~run[r].news]
    /\ UNCHANGED <<child, mail, requests>>

GivesUp(w) ==
    LET r == worker[w].run IN
    /\ worker[w].at = "taken" /\ Admitted(r) /\ Exhausted(r)
    /\ Writes(r, "WAITING_USER", "WAITING_USER", "WAITING_USER")
    /\ Done(w)
    /\ UNCHANGED <<child, mail, requests>>

\* The parent or the case does not allow the step.  When the parent is over it
\* does not allow FAILED either, and the rollback leaves the run as it was.
CycleRefused(w) ==
    LET r == worker[w].run IN
    /\ worker[w].at = "taken" /\ ~Admitted(r)
    /\ IF ~Active(r) \/ run[r].job \in {"CANCELLED", "SUCCESS"} THEN UNCHANGED <<run, case>>
       ELSE FailedAs(r)
    /\ Done(w)
    /\ UNCHANGED <<child, mail, requests>>

Stalled(w) == IF worker[w].same THEN run[worker[w].run].stalled + 1 ELSE 0
Reasoned(w, status, job) ==
    run' = [run EXCEPT ![worker[w].run].st = status, ![worker[w].run].job = job,
                       ![worker[w].run].stalled = Stalled(w)]

\* The conclusions that end the cycle.  The case is ANALYZING to this session and
\* the parent RUNNING, whatever others wrote.
AsksUser(w) ==
    /\ worker[w].at = "reasoning"
    /\ Reasoned(w, "WAITING_USER", "WAITING_USER")
    /\ case' = "WAITING_USER"
    /\ Done(w)
    /\ UNCHANGED <<child, mail, requests>>

Progresses(w) == Stalled(w) < NoProgressLimit

Diagnoses(w) ==
    /\ worker[w].at = "reasoning" /\ Progresses(w)
    /\ run' = [run EXCEPT ![worker[w].run] = Over("DIAGNOSED", "SUCCESS")]
    /\ case' = "DIAGNOSED"
    /\ Done(w)
    /\ UNCHANGED <<child, mail, requests>>

EngineFails(w) ==
    /\ worker[w].at = "reasoning"
    /\ FailedAs(worker[w].run)
    /\ Done(w)
    /\ UNCHANGED <<child, mail, requests>>

\* _dispatch_plan: each job is committed, with what the cycle has written so far,
\* and on its way before the run says that it waits.
PlansJobs(w) ==
    /\ worker[w].at = "reasoning" /\ Progresses(w)
    /\ Reasoned(w, "ANALYZING", run[worker[w].run].job)
    /\ \E kinds \in (SUBSET Kind) \ {{}} :
        worker' = [worker EXCEPT ![w] = [@ EXCEPT !.at = "dispatching", !.same = FALSE,
                                                  !.todo = kinds]]
    /\ UNCHANGED <<case, child, mail, requests>>

\* _active_child_job: a job of that kind that is active will do.
Dispatches(w) ==
    /\ worker[w].at = "dispatching"
    /\ \E k \in worker[w].todo :
        /\ child' = [child EXCEPT ![k] = IF @ = "none" THEN "queued" ELSE @]
        /\ worker' = [worker EXCEPT ![w].todo = @ \ {k}]
    /\ UNCHANGED <<run, case, mail, requests>>

WaitsForJobs(w) ==
    /\ worker[w].at = "dispatching" /\ worker[w].todo = {}
    /\ Writes(worker[w].run, "WAITING_EVIDENCE", "WAITING_EVIDENCE", "NEED_MORE_EVIDENCE")
    /\ Done(w)
    /\ mail' = IF Dispatching = {w} THEN [mail EXCEPT !.due = @ + mail.counting, !.counting = 0]
               ELSE mail
    /\ UNCHANGED <<child, requests>>

(***************************************************************************)
(* The jobs.  Success and failure both notify.                             *)
(***************************************************************************)
FailsSilently(k) ==
    /\ child' = [child EXCEPT ![k] = "none"]
    /\ case' = IF k = "COLLECT" THEN "FAILED" ELSE case
    /\ UNCHANGED <<run, mail, worker, requests>>
Fails(k) ==
    /\ child' = [child EXCEPT ![k] = "none"]
    /\ mail' = Notified(mail)
    /\ case' = IF k = "COLLECT" THEN "FAILED" ELSE case
    /\ UNCHANGED <<run, worker, requests>>

\* The collector wants a case that may be collected for; the analyzers leave the
\* case alone.
Collectable == {"NEW", "NEED_MORE_EVIDENCE", "COLLECTING"}

JobStarts(k) ==
    /\ child[k] = "queued"
    /\ k = "COLLECT" => case \in Collectable
    /\ child' = [child EXCEPT ![k] = "running"]
    /\ case' = IF k = "COLLECT" THEN "COLLECTING" ELSE case
    /\ UNCHANGED <<run, mail, worker, requests>>

JobRefused(k) ==
    /\ child[k] = "queued" /\ k = "COLLECT" /\ case \notin Collectable
    /\ Fails(k)

JobFails(k) == child[k] = "running" /\ Fails(k)

\* The collector's session knows the case as COLLECTING, whatever it is now.
JobSucceeds(k) ==
    /\ child[k] = "running"
    /\ child' = [child EXCEPT ![k] = "none"]
    /\ run' = Changed
    /\ mail' = Notified(mail)
    /\ case' = IF k = "COLLECT" THEN "ANALYZING" ELSE case
    /\ UNCHANGED <<worker, requests>>

-----------------------------------------------------------------------------
RequestStep ==
    \/ StartRequested \/ StartedByFlow \/ Upload \/ CollectRequested \/ Confirm
    \/ \E r \in Runs : CancelRequested(r)

WorkerStep ==
    \E w \in Worker :
        \/ RunTaken(w) \/ ResumeTaken(w)
        \/ CycleStarts(w) \/ GivesUp(w) \/ CycleRefused(w)
        \/ AsksUser(w) \/ Diagnoses(w) \/ EngineFails(w)
        \/ PlansJobs(w) \/ Dispatches(w) \/ WaitsForJobs(w)

JobStep == \E k \in Kind : JobStarts(k) \/ JobRefused(k) \/ JobFails(k) \/ JobSucceeds(k)

Next == RequestStep \/ WorkerStep \/ JobStep

\* Messages are taken, and cycles and jobs come to an end.
Fairness == WF_vars(WorkerStep \/ JobStep)

Spec == Init /\ [][Next]_vars
FairSpec == Spec /\ Fairness

-----------------------------------------------------------------------------
TypeOK ==
    /\ run \in Seq([st : RunStatus, job : JobStatus, cycle : 0 .. MaxCycles,
                    stalled : 0 .. MaxCycles, news : BOOLEAN])
    /\ case \in CaseStatus
    /\ child \in [Kind -> {"none", "queued", "running"}]
    /\ mail \in [runs : SUBSET Runs, due : Nat, counting : Nat]
    /\ worker \in [Worker -> [at : {"idle", "taken", "reasoning", "dispatching"},
                              run : {0} \cup Runs, same : BOOLEAN, todo : SUBSET Kind]]
    /\ requests \in 0 .. MaxRequest

\* Two processes are never in a cycle of one run, though a run message, any number
\* of notifications and repeated start requests lead there: resume_case claims a
\* run by making it PENDING, and start gives an active run's job back.
OneExecutor ==
    \A v, w \in Busy : v # w => worker[v].run # worker[w].run

\* When the newest run waits for evidence, a job it waits for is still to end or
\* the notification that resumes the run is on its way: none of them slips through
\* between the dispatch of the jobs and the commit that says the run waits, nor
\* goes to an older run (_dispatch_plan, resume_case).
WaitingIsAnswered ==
    Newest.st = "WAITING_EVIDENCE"
        => (\E k \in Kind : child[k] # "none") \/ mail.due + mail.counting > 0

\* The newest run comes to an end or asks the user, whatever its jobs, the engine
\* and users do, unless its job was cancelled before the run was taken.
Ended == {"WAITING_USER", "DIAGNOSED", "FAILED"}
Concludes ==
    Newest.st \notin Ended ~> (Newest.st \in Ended \/ Newest.job = "CANCELLED")
=============================================================================
