--------------------------- MODULE ReproductionFlow ---------------------------
(***************************************************************************)
(* Reproduction sessions that share one DUT, from CREATED to a terminal    *)
(* state, under the Celery workers that drive them with Capture V2: the    *)
(* frozen state machine, the diagnostic lock of the device, the capture    *)
(* lease beneath it, arming, watching, cancelling, cleaning up, and the    *)
(* reconciler.                                                             *)
(*                                                                         *)
(* Three workers take one message at a time: `control` starts sessions,    *)
(* `high` cancels and reconciles, `watch` watches and cleans.  A job is a  *)
(* transaction: it reads the session row when it begins (`seen`) and       *)
(* commits later.  It holds the row meanwhile; a short transaction that    *)
(* read the row before waits for it, and its UPDATE then writes the        *)
(* columns it changed over what was committed.  Commands sent to the DUT   *)
(* and the capture rows, which have transactions of their own, survive a   *)
(* rollback.  The lock row is read and written when a job ends.            *)
(***************************************************************************)
EXTENDS Naturals, FiniteSets

CONSTANTS
    Session,            \* reproduction sessions of one device
    MaxStart,           \* bounds: second start messages; cancellations and
    MaxUpset,           \*         faults together
    MaxRetry            \* max_retries of the tasks

ASSUME FlowAssumption ==
    /\ {MaxStart, MaxUpset, MaxRetry} \subseteq Nat
    /\ "none" \notin Session

VARIABLES
    ses,        \* reproduction_sessions rows
    lock,       \* the device_diagnostic_locks row; `live`: not past its term
    own,        \* the DUT's capture lease: whose, and not past its term
    captured,   \* sessions that have a capture_sessions row
    mirror,     \* the DUT mirrors PCM
    queue,      \* messages waiting (one absorbs another that is identical)
    work,       \* the job of each worker
    left        \* what is left of the bounds

rows == <<ses, lock>>
capture == <<own, captured>>
vars == <<rows, capture, mirror, queue, work, left>>

None == "none"
Worker == {"control", "high", "watch"}
TasksOf == [control |-> {"start"}, high |-> {"cancel", "reconcile"},
            watch |-> {"watch", "clean"}]
Task == {"start", "cancel", "reconcile", "watch", "clean"}

(***************************************************************************)
(* The state machine.                                                      *)
(***************************************************************************)
Armed == [DEVICE_LOST |-> "DEVICE_LOST", CANCEL_REQUESTED |-> "CLEANUP",
          LEASE_EXPIRED |-> "ORPHANED"]
ToCleanup == [CLEANUP_STARTED |-> "CLEANUP"]
Waiting == [RESOURCE_AVAILABLE |-> "AUTO_ARMING", CANCEL_REQUESTED |-> "CLEANUP"]

Nowhere == [e \in {} |-> None]

With(f, g) == [e \in DOMAIN f \cup DOMAIN g |-> IF e \in DOMAIN f THEN f[e] ELSE g[e]]

Moves ==
    [CREATED |-> With(Waiting,
        [START_ARMING |-> "AUTO_ARMING",
         DEVICE_RESOURCE_BUSY |-> "WAITING_DEVICE_RESOURCE",
         GLOBAL_RESOURCE_BUSY |-> "WAITING_GLOBAL_RESOURCE"]),
     WAITING_DEVICE_RESOURCE |-> Waiting,
     WAITING_GLOBAL_RESOURCE |-> Waiting,
     WAITING_EXTERNAL_ACTION |-> Waiting,
     AUTO_ARMING |-> With(Armed,
        [ARM_READY |-> "ARMED", ARM_FAILED |-> "ARM_FAILED"]),
     ARMED |-> With(Armed, [WATCH_STARTED |-> "WATCHING"]),
     WATCHING |-> With(Armed,
        [ACTIVITY |-> "ACTIVITY_DETECTED", CALL_BOUND |-> "CALL_DETECTED",
         WATCH_TIMEOUT |-> "WATCH_TIMEOUT", ENHANCEMENT_STARTED |-> "ENHANCING",
         CAPTURE_RECOVERY_STARTED |-> "ENHANCING", CLEANUP_STARTED |-> "CLEANUP"]),
     ACTIVITY_DETECTED |-> With(Armed,
        [CALL_BOUND |-> "CALL_DETECTED", WATCH_STARTED |-> "WATCHING",
         WATCH_TIMEOUT |-> "WATCH_TIMEOUT", CLEANUP_STARTED |-> "CLEANUP"]),
     CALL_DETECTED |-> With(Armed,
        [CAPTURE_STARTED |-> "CAPTURING", CALL_ENDED |-> "CALL_END_DETECTED"]),
     CAPTURING |-> With(Armed,
        [CALL_ENDED |-> "CALL_END_DETECTED", CAPTURE_TIMEOUT |-> "CAPTURE_TIMEOUT"]),
     CALL_END_DETECTED |->
        [POST_CAPTURE_STARTED |-> "POST_CAPTURE", CANCEL_REQUESTED |-> "CLEANUP",
         LEASE_EXPIRED |-> "ORPHANED"],
     POST_CAPTURE |->
        [WATCH_STARTED |-> "WATCHING", ENHANCEMENT_STARTED |-> "ENHANCING",
         CAPTURE_RECOVERY_STARTED |-> "ENHANCING", CLEANUP_STARTED |-> "CLEANUP",
         CANCEL_REQUESTED |-> "CLEANUP", LEASE_EXPIRED |-> "ORPHANED"],
     ENHANCING |-> With(Armed,
        [ENHANCEMENT_ARMED |-> "ARMED", ARM_FAILED |-> "ARM_FAILED"]),
     WATCH_TIMEOUT |-> ToCleanup,
     CAPTURE_TIMEOUT |-> ToCleanup,
     ARM_FAILED |-> ToCleanup,
     ORPHANED |-> ToCleanup,
     DEVICE_LOST |-> With(ToCleanup, [LEASE_EXPIRED |-> "ORPHANED"]),
     CLEANUP |->
        [CLEANUP_VERIFIED |-> "FINALIZING", CLEANUP_FAILED |-> "CLEANUP_FAILED",
         CLEANUP_VERIFIED_EXTERNAL_WAIT |-> "WAITING_EXTERNAL_ACTION",
         CLEANUP_DEGRADED |-> "CLEANUP_DEGRADED", LEASE_EXPIRED |-> "ORPHANED"],
     CLEANUP_DEGRADED |-> With(ToCleanup, [FINALIZE_STARTED |-> "FINALIZING"]),
     CLEANUP_FAILED |-> With(ToCleanup, [FINALIZE_STARTED |-> "FINALIZING"]),
     FINALIZING |->
        [ANALYSIS_STARTED |-> "ANALYZING", CANCELLED |-> "CANCELLED",
         SESSION_FAILED |-> "FAILED"],
     ANALYZING |->
        [SESSION_COMPLETED |-> "COMPLETED", SESSION_PARTIAL |-> "PARTIAL_SUCCESS",
         SESSION_FAILED |-> "FAILED", CANCELLED |-> "CANCELLED"],
     COMPLETED |-> Nowhere, PARTIAL_SUCCESS |-> Nowhere,
     CANCELLED |-> Nowhere, FAILED |-> Nowhere]

Terminal == {"COMPLETED", "PARTIAL_SUCCESS", "CANCELLED", "FAILED"}
Listening == {"WATCHING", "ACTIVITY_DETECTED", "CALL_DETECTED", "CAPTURING"}
ToBeCleaned == {"CLEANUP_FAILED", "CLEANUP_DEGRADED", "ORPHANED"}
LockHolding == Listening \cup {"AUTO_ARMING", "ARMED", "CALL_END_DETECTED",
    "POST_CAPTURE", "ENHANCING", "CLEANUP", "CLEANUP_DEGRADED",
    "CLEANUP_FAILED", "FINALIZING"}

Can(st, event) == event \in DOMAIN Moves[st]
Go(st, event) == Moves[st][event]

(***************************************************************************)
(* Rows, jobs and messages.  A session's columns: state, cleanup_status,   *)
(* terminal_reason, whether the mirror of the lock's term is set, whether  *)
(* a voice context is stored, and whether a finished CleanupRun says that  *)
(* the PCM OFF was sent (the two channels are one here).                   *)
(***************************************************************************)
Fresh == [st |-> "CREATED", cl |-> "NOT_REQUIRED", reason |-> None,
          term |-> FALSE, ctx |-> FALSE, off |-> FALSE]
Rows == [st : DOMAIN Moves, cl : {"NOT_REQUIRED", "REQUIRED", "VERIFIED", "FAILED"},
         reason : {None, "CANCEL", "EXTERNAL", "OTHER"},
         term : BOOLEAN, ctx : BOOLEAN, off : BOOLEAN]

Locks == [of : Session \cup {None}, live : BOOLEAN,
          status : {"RELEASED", "ACTIVE", "EXPIRED", "QUARANTINED"}]
Held(s) == [of |-> s, status |-> "ACTIVE", live |-> TRUE]
Holds(s) == lock.of = s /\ lock.status = "ACTIVE"
HoldsLive(s) == Holds(s) /\ lock.live
\* Releasing, expiring and quarantining do nothing to a lock that is another's.
Unheld(s, status) == IF lock.of = s THEN [of |-> s, status |-> status, live |-> FALSE]
                     ELSE lock

Message == [task : Task \ {"reconcile"}, s : Session, try : 0 .. MaxRetry]
Post(task, s) == [task |-> task, s |-> s, try |-> 0]

Idle == [task |-> "idle"]
Job(task, s, try, step, seen) ==
    [task |-> task, s |-> s, try |-> try, step |-> step, seen |-> seen,
     call |-> FALSE, bind |-> None]
At(w, task, s, step) ==
    work[w].task = task /\ work[w].s = s /\ work[w].step = step
Busy(s) == \E w \in Worker : work[w] # Idle /\ work[w].s = s
Startable == {"CREATED", "WAITING_DEVICE_RESOURCE", "WAITING_EXTERNAL_ACTION"}
MayClean(row) ==
    /\ row.st = "CLEANUP" \/ Can(row.st, "CLEANUP_STARTED")
    /\ row.ctx

\* A long transaction holds the row from its first UPDATE; one of `high` that
\* waits for the row goes on as soon as it is free.
Writes(job) ==
    \/ job.task = "start" /\ job.step = "read" /\ job.seen.st \in Startable
    \/ job.task = "clean" /\ MayClean(job.seen)
    \/ job.task = "watch" /\ job.step \in {"end", "timeout"}
Holding(s) == \E w \in Worker : work[w] # Idle /\ work[w].s = s /\ Writes(work[w])
HighIsNext == work["high"] # Idle /\ ~Holding(work["high"].s)

\* The commit of a job that read the row `seen` and ends with the row `new`:
\* the columns it changed, and those it wrote on the way whatever their value.
Merged(cur, seen, new, wrote) ==
    [c \in DOMAIN cur |-> IF c \in wrote \/ new[c] # seen[c] THEN new[c] ELSE cur[c]]
Commit(s, seen, new, wrote) ==
    ses' = [ses EXCEPT ![s] = Merged(@, seen, new, wrote)]

Finish(w) == work' = [work EXCEPT ![w] = Idle]
Step(w, step, seen) == work' = [work EXCEPT ![w].step = step, ![w].seen = seen]
Spend(what) == left[what] > 0 /\ left' = [left EXCEPT ![what] = @ - 1]
Fault == Spend("upset")
NoFault == UNCHANGED left

\* An SSH error: the task is tried again, unless it was its last try.
Again(j) == IF j.try < MaxRetry THEN {[task |-> j.task, s |-> j.s, try |-> j.try + 1]}
            ELSE {}
\* Another error is not retried, nor a killed worker's job.
Retried(w) == {queue, queue \cup Again(work[w])}

-----------------------------------------------------------------------------
\* create_reproduction: the row is committed, then its start is sent.
Init ==
    /\ ses = [s \in Session |-> Fresh]
    /\ lock = [of |-> None, status |-> "RELEASED", live |-> FALSE]
    /\ own = [of |-> None, live |-> FALSE]
    /\ captured = {}
    /\ mirror = FALSE
    /\ queue = {Post("start", s) : s \in Session}
    /\ work = [w \in Worker |-> Idle]
    /\ left = [start |-> MaxStart, upset |-> MaxUpset]

Send(task, s, bound) ==
    /\ Spend(bound)
    /\ Post(task, s) \notin queue
    /\ queue' = queue \cup {Post(task, s)}
    /\ UNCHANGED <<rows, capture, mirror, work>>

\* The start of a session can be published again from its card; stop is a call
\* of the API.
StartAgain(s) == Send("start", s, "start")
Stop(s) == Send("cancel", s, "upset")

\* A cancellation that finds the row free is made at once.
Begin(w, m) ==
    /\ work[w] = Idle
    /\ m \in queue /\ m.task \in TasksOf[w]
    /\ ~HighIsNext
    /\ m.task = "cancel" => Holding(m.s)
    /\ queue' = queue \ {m}
    /\ work' = [work EXCEPT ![w] =
                    IF m.task = "watch" THEN Job("watch", m.s, m.try, "connect", Fresh)
                    ELSE Job(m.task, m.s, m.try, "read", ses[m.s])]
    /\ UNCHANGED <<rows, capture, mirror, left>>

(***************************************************************************)
(* The capture of a session: `b` is the session whose capture_sessions row *)
(* a platform is bound to.                                                 *)
(***************************************************************************)
\* resolve_voice_context binds to the holder of a committed ACTIVE lock, be its
\* term over or not; arm, with nothing bound yet, to the session itself.
BoundTo(s) == IF lock.status = "ACTIVE" THEN lock.of ELSE s

CanEstablish(b) == own.live => own.of = b
Establish(b) ==
    /\ CanEstablish(b)
    /\ own' = [of |-> b, live |-> TRUE]
    /\ captured' = captured \cup {b}
\* The row is there before the lease is asked for.
EstablishFails(b) == captured' \in {captured, captured \cup {b}} /\ UNCHANGED own
Owned(b) == own = [of |-> b, live |-> TRUE]
KeptAsItWas == own
GivenUp == [of |-> None, live |-> FALSE]

(***************************************************************************)
(* ReproductionOrchestrator.cleanup on a row already in CLEANUP, with the  *)
(* mirror `on`: first the guard of the PCM stream, which probes it for     *)
(* packets, then the capture, then the rest of the DUT.                    *)
(***************************************************************************)
Probe(on, off, quiet) == [mirror |-> on, off |-> off, quiet |-> quiet]
Quiet(on, off) == {Probe(on, off, TRUE)}
Flowing(on, off) ==
    IF ~on THEN {} ELSE IF off THEN {Probe(on, TRUE, FALSE)} ELSE {Probe(FALSE, TRUE, TRUE)}
Probed(on, off) == Quiet(on, off) \cup Flowing(on, off)
\* The OFF does not work: a fault of the DUT.
OffFails(on, off) == IF on /\ ~off THEN {Probe(TRUE, TRUE, FALSE)} ELSE {}

\* _finalize; whether the evidence sufficed is left out, and COMPLETED with it.
Verified(reason) ==
    CASE reason = "EXTERNAL" -> Go("CLEANUP", "CLEANUP_VERIFIED_EXTERNAL_WAIT")
      [] reason = "CANCEL" -> Go(Go("CLEANUP", "CLEANUP_VERIFIED"), "CANCELLED")
      [] OTHER -> Go(Go(Go("CLEANUP", "CLEANUP_VERIFIED"), "ANALYSIS_STARTED"),
                     "SESSION_PARTIAL")

Cleaned(row, probe, unlocks) ==
    [row EXCEPT !.st = IF probe.quiet THEN Verified(row.reason)
                       ELSE Go("CLEANUP", "CLEANUP_FAILED"),
                !.cl = IF probe.quiet THEN "VERIFIED" ELSE "FAILED",
                !.off = probe.off,
                !.term = @ /\ ~unlocks]
UnlockedMisnamed(probe) == IF probe.quiet THEN "RELEASE" ELSE "QUARANTINED"
Unlocked(probe) == IF probe.quiet THEN "RELEASED" ELSE "QUARANTINED"

CommitCleanup(s, seen, row, probe) ==
    /\ Commit(s, seen, Cleaned(row, probe, lock.of = s), {"st", "cl"})
    /\ lock' = Unheld(s, Unlocked(probe))
    /\ mirror' = probe.mirror

Cleanup(s, seen, row) ==
    \/ \E p \in Probed(mirror, row.off) : CommitCleanup(s, seen, row, p) /\ NoFault
    \/ \E p \in OffFails(mirror, row.off) : CommitCleanup(s, seen, row, p) /\ Fault

\* The capture cannot be taken over or finalized: what was sent so far stays.
CleanupRaises(row) ==
    /\ mirror' \in {p.mirror : p \in Probed(mirror, row.off)}
    /\ UNCHANGED <<rows, capture>>

(***************************************************************************)
(* reproduction.start                                                      *)
(***************************************************************************)
AvailableIfQuarantined(s) == (lock.status = "ACTIVE" /\ lock.live) => lock.of = s
Available(s) ==
    /\ lock.status # "QUARANTINED"
    /\ (lock.status = "ACTIVE" /\ lock.live) => lock.of = s

StartRefused(w, s) ==
    LET st == work[w].seen.st IN
    /\ At(w, "start", s, "read")
    /\ st \notin Startable \/ (st = "WAITING_EXTERNAL_ACTION" /\ ~Available(s))
    /\ Step(w, "failing", Fresh)
    /\ UNCHANGED <<rows, capture, mirror, queue, left>>

StartBusy(w, s) ==
    LET seen == work[w].seen IN
    /\ At(w, "start", s, "read")
    /\ seen.st \in Startable \ {"WAITING_EXTERNAL_ACTION"} /\ ~Available(s)
    /\ IF Can(seen.st, "DEVICE_RESOURCE_BUSY")
       THEN Commit(s, seen, [seen EXCEPT !.st = Go(@, "DEVICE_RESOURCE_BUSY")], {"st"})
       ELSE UNCHANGED ses
    /\ Finish(w)
    /\ UNCHANGED <<lock, capture, mirror, queue, left>>

\* _arm_current_stage, once the lock is the session's.
Arm(w, s) ==
    /\ At(w, "start", s, "read")
    /\ work[w].seen.st \in Startable /\ Available(s)

Arming(seen) ==
    LET event == IF seen.st = "CREATED" THEN "START_ARMING" ELSE "RESOURCE_AVAILABLE"
    IN  [seen EXCEPT !.st = Go(@, event), !.cl = "REQUIRED", !.ctx = TRUE, !.term = TRUE]

StartArmed(w, s) ==
    LET seen == work[w].seen IN
    /\ Arm(w, s)
    /\ Establish(BoundTo(s))
    /\ mirror' = TRUE
    /\ Commit(s, seen, [Arming(seen) EXCEPT !.st = Go(Go(@, "ARM_READY"), "WATCH_STARTED")],
              {"st", "cl"})
    /\ lock' = Held(s)
    /\ queue' = queue \cup {Post("watch", s)}
    /\ Finish(w)
    /\ NoFault

\* The capture is the platform's and the readiness barrier, or a step after it,
\* fails: cleaned up in the same transaction, in which the OFF may fail too.
StartArmFailed(w, s) ==
    LET seen == work[w].seen
        failed == [Arming(seen) EXCEPT !.st = Go(Go(@, "ARM_FAILED"), "CLEANUP_STARTED"),
                                       !.reason = "OTHER"]
    IN
    /\ Arm(w, s)
    /\ CanEstablish(BoundTo(s))
    /\ captured' = captured \cup {BoundTo(s)} /\ own' = GivenUp
    /\ \E on \in {mirror, TRUE} :
        \E p \in Probed(on, failed.off) \cup OffFails(on, failed.off) :
            /\ mirror' = p.mirror
            /\ Commit(s, seen, Cleaned(failed, p, TRUE), {"st", "cl"})
            /\ lock' = [of |-> s, live |-> FALSE, status |-> Unlocked(p)]
    /\ Fault
    /\ Finish(w)
    /\ UNCHANGED queue

\* _fail_arm before the platform holds a capture: the lease is busy, or
\* something else is wrong, perhaps when the capture is running already.
StartNotOwned(w, s) ==
    LET seen == work[w].seen IN
    /\ Arm(w, s)
    /\ \/ ~CanEstablish(BoundTo(s)) /\ EstablishFails(BoundTo(s)) /\ NoFault
       \/ (EstablishFails(BoundTo(s)) \/ Establish(BoundTo(s))) /\ Fault
    /\ Commit(s, seen, [Arming(seen) EXCEPT
                            !.st = Go(@, "ARM_FAILED"), !.cl = "NOT_REQUIRED",
                            !.reason = "OTHER", !.term = FALSE,
                            !.ctx = lock.status # "ACTIVE" \/ seen.ctx],
              {"st", "cl"})
    /\ lock' = [of |-> s, status |-> "RELEASED", live |-> FALSE]
    /\ Finish(w)
    /\ UNCHANGED <<mirror, queue>>

\* An SSH error, or the worker is killed: the database forgets.
StartInterrupted(w, s) ==
    /\ Arm(w, s)
    /\ Fault
    /\ \/ EstablishFails(BoundTo(s)) /\ UNCHANGED mirror
       \/ Establish(BoundTo(s)) /\ mirror' \in {mirror, TRUE}
    /\ \/ queue' \in Retried(w) /\ Finish(w)
       \/ Again(work[w]) = {} /\ Step(w, "failing", Fresh) /\ UNCHANGED queue
    /\ UNCHANGED rows

\* fail_closed_startup without ownership, the lock released by force.
FailedClosedForGood(row, unlocks) ==
    [row EXCEPT !.st = "FAILED", !.cl = "NOT_REQUIRED", !.reason = "OTHER",
                !.term = @ /\ ~unlocks]
FailedClosed(row, unlocks) ==
    [row EXCEPT !.st = IF @ = "CREATED" THEN Go(Go(@, "START_ARMING"), "ARM_FAILED") ELSE @,
                !.cl = "NOT_REQUIRED", !.reason = "OTHER", !.term = @ /\ ~unlocks]

StartFails(w, s) ==
    /\ At(w, "start", s, "failing") /\ ~HighIsNext
    /\ IF ses[s].st \in Terminal
       THEN UNCHANGED <<rows, queue>>
       ELSE IF Holds(s) \/ s \in captured
       THEN queue' = queue \cup {Post("clean", s)} /\ UNCHANGED rows
       ELSE /\ ses' = [ses EXCEPT ![s] = FailedClosed(@, lock.of = s)]
            /\ lock' = Unheld(s, "RELEASED")
            /\ UNCHANGED queue
    /\ Finish(w)
    /\ UNCHANGED <<capture, mirror, left>>

StartStep(w, s) ==
    \/ StartRefused(w, s) \/ StartBusy(w, s) \/ StartArmed(w, s)
    \/ StartArmFailed(w, s) \/ StartNotOwned(w, s) \/ StartInterrupted(w, s)
    \/ StartFails(w, s)

(***************************************************************************)
(* reproduction.watch_fxs_events.  The short transactions of the loop are  *)
(* one step; those that clean up read the row and commit later.            *)
(***************************************************************************)
Loop(w, call) ==
    work' = [work EXCEPT ![w].step = "loop", ![w].seen = Fresh, ![w].call = call]

\* _device_lock_reassigned; a platform bound to nothing cannot capture.
WatchConnects(w, s) ==
    /\ At(w, "watch", s, "connect")
    /\ IF lock.status # "ACTIVE" \/ (lock.live /\ lock.of # s)
       THEN Finish(w) /\ UNCHANGED capture
       ELSE IF CanEstablish(lock.of)
       THEN /\ Establish(lock.of)
            /\ work' = [work EXCEPT ![w].step = "loop", ![w].bind = lock.of]
       ELSE EstablishFails(lock.of) /\ Finish(w)
    /\ UNCHANGED <<rows, mirror, queue, left>>

\* Another job ended the listening, or the heartbeat finds the lock lost; or
\* end_activity_without_call is refused, the call bound by a watcher now gone.
WatchLeaves(w, s) ==
    /\ At(w, "watch", s, "loop")
    /\ \/ ses[s].st \notin Listening
       \/ ~HoldsLive(s)
       \/ ses[s].st = "CAPTURING" /\ ~work[w].call
    /\ Finish(w)
    /\ UNCHANGED <<rows, capture, mirror, queue, left>>

WatchHears(w, s) ==
    /\ ~HighIsNext
    /\ At(w, "watch", s, "loop")
    /\ \/ /\ ses[s].st = "WATCHING"
          /\ ses' = [ses EXCEPT ![s].st = Go(@, "ACTIVITY")]
          /\ UNCHANGED work
       \/ /\ ses[s].st = "ACTIVITY_DETECTED" /\ ~work[w].call
          /\ ses' = [ses EXCEPT ![s].st = Go(@, "WATCH_STARTED")]
          /\ UNCHANGED work
       \/ /\ ses[s].st = "ACTIVITY_DETECTED" /\ ~work[w].call
          /\ ses' = [ses EXCEPT ![s].st = Go(Go(@, "CALL_BOUND"), "CAPTURE_STARTED")]
          /\ Loop(w, TRUE)
    /\ UNCHANGED <<lock, capture, mirror, queue, left>>

\* The row is read for end_call, or for watch_timeout or capture_timeout.
WatchCallEnds(w, s) ==
    /\ ~HighIsNext
    /\ At(w, "watch", s, "loop") /\ work[w].call /\ ses[s].st = "CAPTURING"
    /\ Step(w, "end", ses[s])
    /\ UNCHANGED <<rows, capture, mirror, queue, left>>
OverdueInCall(job, row) == job.call /\ row.st = "CAPTURING"
Overdue(job, row) ==
    IF job.call THEN row.st = "CAPTURING"
    ELSE row.st \in {"WATCHING", "ACTIVITY_DETECTED"}
WatchTimesOut(w, s) ==
    /\ ~HighIsNext
    /\ At(w, "watch", s, "loop")
    /\ Overdue(work[w], ses[s])
    /\ Step(w, "timeout", ses[s])
    /\ UNCHANGED <<rows, capture, mirror, queue, left>>

Ended(st) == Go(Go(st, "CALL_ENDED"), "POST_CAPTURE_STARTED")
TimedOut(st) == Go(st, IF st = "CAPTURING" THEN "CAPTURE_TIMEOUT" ELSE "WATCH_TIMEOUT")

\* _after_call: watch on, or arm again (the next stage, or the same).
WatchResumes(w, s) ==
    LET seen == work[w].seen
        rearmed == Go(Go(Ended(seen.st), "ENHANCEMENT_STARTED"), "ENHANCEMENT_ARMED")
    IN
    /\ At(w, "watch", s, "end")
    /\ \/ Commit(s, seen, [seen EXCEPT !.st = Go(Ended(@), "WATCH_STARTED")], {"st"})
          /\ UNCHANGED mirror
       \/ Commit(s, seen, [seen EXCEPT !.st = Go(rearmed, "WATCH_STARTED"),
                                       !.cl = "REQUIRED"], {"st", "cl"})
          /\ mirror' = TRUE
    /\ Loop(w, FALSE)
    /\ UNCHANGED <<lock, capture, queue, left>>

\* The rows a watcher cleans up: after its last call, when arming again failed,
\* or after a timeout.
Closing(step, seen) ==
    LET row(st, reason) == [seen EXCEPT !.st = Go(st, "CLEANUP_STARTED"), !.reason = reason]
    IN  IF step = "timeout" THEN {row(TimedOut(seen.st), "OTHER")}
        ELSE {row(Ended(seen.st), "OTHER"), row(Ended(seen.st), "EXTERNAL"),
              row(Go(Go(Ended(seen.st), "ENHANCEMENT_STARTED"), "ARM_FAILED"), "OTHER")}

WatchCloses(w, s) ==
    \E step \in {"end", "timeout"} :
        /\ At(w, "watch", s, step)
        /\ Owned(work[w].bind)
        /\ \E row \in Closing(step, work[w].seen) : Cleanup(s, work[w].seen, row)
        /\ own' = GivenUp
        /\ IF step = "end" THEN Loop(w, FALSE) ELSE Finish(w)
        /\ UNCHANGED <<captured, queue>>

WatchCloseRaises(w, s) ==
    \E step \in {"end", "timeout"} :
        /\ At(w, "watch", s, step)
        /\ \/ ~Owned(work[w].bind) /\ UNCHANGED queue /\ NoFault
           \/ queue' \in Retried(w) /\ Fault
        /\ \E row \in Closing(step, work[w].seen) : CleanupRaises(row)
        /\ Finish(w)

WatchDies(w, s) ==
    /\ \E step \in {"connect", "loop"} : At(w, "watch", s, step)
    /\ Fault
    /\ queue' \in Retried(w)
    /\ Finish(w)
    /\ UNCHANGED <<rows, capture, mirror>>

WatchStep(w, s) ==
    \/ WatchConnects(w, s) \/ WatchLeaves(w, s) \/ WatchResumes(w, s)
    \/ WatchCloses(w, s) \/ WatchCloseRaises(w, s) \/ WatchDies(w, s)

(***************************************************************************)
(* reproduction.v2_cleanup                                                 *)
(***************************************************************************)
IsClean(row) == row.st \in Terminal /\ row.cl = "VERIFIED"
\* Nothing to do, a state in which cleanup may not start, or no voice context.
CleanSkips(w, s) ==
    /\ At(w, "clean", s, "read")
    /\ IsClean(work[w].seen) \/ ~MayClean(work[w].seen)
    /\ Finish(w)
    /\ UNCHANGED <<rows, capture, mirror, queue, left>>

Cleaning(seen) ==
    [seen EXCEPT !.st = "CLEANUP",
                 !.reason = IF seen.st \in ToBeCleaned \cup {"CLEANUP"} \/ @ # None
                            THEN @ ELSE "OTHER"]

Cleans(w, s) ==
    LET seen == work[w].seen IN
    /\ At(w, "clean", s, "read")
    /\ MayClean(seen)
    /\ s \in captured => CanEstablish(s)
    /\ Cleanup(s, seen, Cleaning(seen))
    /\ own' = IF s \in captured THEN GivenUp ELSE own
    /\ Finish(w)
    /\ UNCHANGED <<captured, queue>>

CleanRaises(w, s) ==
    /\ At(w, "clean", s, "read")
    /\ MayClean(work[w].seen)
    /\ \/ s \in captured /\ ~CanEstablish(s) /\ UNCHANGED queue /\ NoFault
       \/ queue' \in Retried(w) /\ Fault
    /\ CleanupRaises(Cleaning(work[w].seen))
    /\ Finish(w)

CleanStep(w, s) == CleanSkips(w, s) \/ Cleans(w, s) \/ CleanRaises(w, s)

(***************************************************************************)
(* reproduction.cancel; `q` is the queue without its message.              *)
(***************************************************************************)
CancelTx(s, seen, q) ==
    /\ IF ~IsClean(seen) /\ Can(seen.st, "CANCEL_REQUESTED")
       THEN Commit(s, seen, [seen EXCEPT !.st = Go(@, "CANCEL_REQUESTED"),
                                         !.reason = "CANCEL"], {"st"})
       ELSE UNCHANGED ses
    /\ queue' = IF \/ Can(seen.st, "CANCEL_REQUESTED")
                   \/ seen.st \in ToBeCleaned \cup {"CLEANUP"}
                THEN q \cup {Post("clean", s)} ELSE q
    /\ UNCHANGED <<lock, capture, mirror, left>>

CancelAtOnce(w, s) ==
    /\ "cancel" \in TasksOf[w] /\ work[w] = Idle /\ ~Holding(s)
    /\ Post("cancel", s) \in queue
    /\ CancelTx(s, ses[s], queue \ {Post("cancel", s)})
    /\ UNCHANGED work
Cancels(w, s) ==
    /\ At(w, "cancel", s, "read") /\ HighIsNext
    /\ CancelTx(s, work[w].seen, queue)
    /\ Finish(w)

(***************************************************************************)
(* reproduction.reconcile, every minute.  It goes through the sessions one *)
(* by one and judges what it reads; what it writes may have to wait for a  *)
(* job on the session that holds the row.  A session with a capture is     *)
(* marked and its cleanup queued, one without is cleaned on the spot by    *)
(* the platform of V1's reconciler, which is the mock and touches no       *)
(* device.                                                                 *)
(***************************************************************************)
CaptureLapsed(s) == own.of = s /\ ~own.live /\ ses[s].st \notin Terminal
LeaseLost(s) ==
    LET row == ses[s] IN
    /\ Can(row.st, "LEASE_EXPIRED")
    /\ \/ Holds(s) /\ ~lock.live
       \/ row.st \in LockHolding /\ row.term /\ ~Holds(s)

\* The paths of a session through the reconciler: _mark_v2_recovery_needed,
\* RecoveryReconciler and _fail_closed_stale_created.
Paths(s) ==
    {p \in {"lapsed"} : CaptureLapsed(s)}
    \cup {p \in {"orphan"} : s \in captured /\ LeaseLost(s)}
    \cup {p \in {"mock"} : s \notin captured /\ (LeaseLost(s) \/ ses[s].st \in ToBeCleaned)}
    \cup {p \in {"stale"} : s \notin captured /\ ses[s].st = "CREATED" /\ ~Holds(s)}

Orphaned(row) == [row EXCEPT !.st = Go(@, "LEASE_EXPIRED"), !.reason = "OTHER"]

ExpiresByTerm(s, path) == Holds(s) /\ ~lock.live
Expires(s, path) == Holds(s) /\ (path = "lapsed" \/ ~lock.live)
Mark(s, path, seen) ==
    /\ IF Can(seen.st, "LEASE_EXPIRED") THEN Commit(s, seen, Orphaned(seen), {"st"})
       ELSE UNCHANGED ses
    /\ lock' = IF Expires(s, path) THEN Unheld(s, "EXPIRED") ELSE lock
    /\ queue' = queue \cup {Post("clean", s)}
    /\ UNCHANGED mirror

RecoverByMock(s, seen) ==
    /\ LET row == IF seen.st \in ToBeCleaned THEN seen ELSE Orphaned(seen)
       IN  CommitCleanup(s, seen, row, Probe(mirror, row.off, TRUE))
    /\ UNCHANGED queue

CloseStale(s, seen) ==
    /\ Commit(s, seen, FailedClosed(seen, lock.of = s), {"st", "cl"})
    /\ lock' = Unheld(s, "RELEASED")
    /\ UNCHANGED <<mirror, queue>>

ReconcileTx(s, path, seen) ==
    /\ \/ path \in {"lapsed", "orphan"} /\ Mark(s, path, seen)
       \/ path = "mock" /\ RecoverByMock(s, seen)
       \/ path = "stale" /\ CloseStale(s, seen)
    /\ UNCHANGED <<capture, left>>

\* A lock past its term expires also where its session has nothing to recover,
\* and the cleanup of a marked session is queued again and again.
OwesNothing(s) == FALSE
Owes(s) == s \in captured /\ ses[s].st \in ToBeCleaned
Sweeps(w, s) ==
    /\ "reconcile" \in TasksOf[w] /\ work[w] = Idle
    /\ Paths(s) = {}
    /\ lock' = IF Holds(s) /\ ~lock.live THEN Unheld(s, "EXPIRED") ELSE lock
    /\ queue' = IF Owes(s) THEN queue \cup {Post("clean", s)} ELSE queue
    /\ UNCHANGED <<ses, capture, mirror, work, left>>

ReconcileAtOnce(w, s) ==
    /\ "reconcile" \in TasksOf[w] /\ work[w] = Idle /\ ~Holding(s)
    /\ \E path \in Paths(s) : ReconcileTx(s, path, ses[s])
    /\ UNCHANGED work
ReconcileBegins(w, s) ==
    /\ "reconcile" \in TasksOf[w] /\ work[w] = Idle /\ Holding(s)
    /\ \E path \in Paths(s) :
        work' = [work EXCEPT ![w] = Job("reconcile", s, 0, path, ses[s])]
    /\ UNCHANGED <<rows, capture, mirror, queue, left>>
Reconciles(w, s) ==
    \E path \in {"lapsed", "orphan", "mock", "stale"} :
        /\ At(w, "reconcile", s, path) /\ HighIsNext
        /\ ReconcileTx(s, path, work[w].seen)
        /\ Finish(w)

HighStep(w, s) ==
    \/ CancelAtOnce(w, s) \/ Cancels(w, s)
    \/ Sweeps(w, s) \/ ReconcileAtOnce(w, s) \/ Reconciles(w, s)

(***************************************************************************)
(* Time.  A watcher that is alive heartbeats the lock and renews the       *)
(* capture lease: either lapses under it only when it is stalled.          *)
(***************************************************************************)
Watching(s) == \E w \in Worker : work[w] # Idle /\ work[w].task = "watch" /\ work[w].s = s
Adopted(b) == \E w \in Worker : work[w] # Idle /\ work[w].bind = b

TermEnds(s) ==
    /\ HoldsLive(s)
    /\ IF Watching(s) THEN Fault ELSE NoFault
    /\ lock' = [lock EXCEPT !.live = FALSE]
    /\ UNCHANGED <<ses, capture, mirror, queue, work>>

LeaseEnds(b) ==
    /\ Owned(b)
    /\ IF Adopted(b) THEN Fault ELSE NoFault
    /\ own' = [own EXCEPT !.live = FALSE]
    /\ UNCHANGED <<rows, captured, mirror, queue, work>>

-----------------------------------------------------------------------------
Next ==
    \/ \E s \in Session : StartAgain(s) \/ Stop(s) \/ TermEnds(s) \/ LeaseEnds(s)
    \/ \E w \in Worker : \E m \in queue : Begin(w, m)
    \/ \E w \in Worker, s \in Session :
        \/ StartStep(w, s) \/ CleanStep(w, s) \/ HighStep(w, s) \/ ReconcileBegins(w, s)
        \/ WatchStep(w, s) \/ WatchHears(w, s) \/ WatchCallEnds(w, s) \/ WatchTimesOut(w, s)

Spec == Init /\ [][Next]_vars

(***************************************************************************)
(* Fairness.  Workers go on with their job and get to every message;       *)
(* reconcile is a beat of one minute; a watcher's deadlines count from a   *)
(* fixed time, and a term nobody prolongs ends.  FairSpec adds that a      *)
(* cleanup that is repeated finds the line idle some time.                 *)
(***************************************************************************)
CleansQuiet(w, s) == Cleans(w, s) /\ ses'[s].cl = "VERIFIED"
Takes(w, task) == \E m \in queue : m.task = task /\ Begin(w, m)
Fairness ==
    /\ WF_vars(Takes("control", "start"))
    /\ SF_vars(Takes("watch", "watch")) /\ SF_vars(Takes("watch", "clean"))
    /\ \A s \in Session :
        /\ WF_vars(StartStep("control", s))
        /\ WF_vars(WatchStep("watch", s)) /\ SF_vars(WatchTimesOut("watch", s))
        /\ WF_vars(CleanStep("watch", s)) /\ SF_vars(CleansQuiet("watch", s))
        /\ SF_vars(HighStep("high", s))
        /\ WF_vars(~Watching(s) /\ TermEnds(s)) /\ WF_vars(~Adopted(s) /\ LeaseEnds(s))
FairSpec == Spec /\ Fairness

-----------------------------------------------------------------------------
(***************************************************************************)
(* Properties.                                                             *)
(***************************************************************************)
\* Types of the rows, the messages and the jobs.
Jobs == [task : Task, s : Session, try : 0 .. MaxRetry,
         step : {"read", "failing", "connect", "loop", "end", "timeout",
                 "lapsed", "orphan", "mock", "stale"},
         seen : Rows, call : BOOLEAN, bind : Session \cup {None}]
TypeOK ==
    /\ ses \in [Session -> Rows]
    /\ lock \in Locks
    /\ own \in [of : Session \cup {None}, live : BOOLEAN]
    /\ captured \subseteq Session
    /\ mirror \in BOOLEAN
    /\ queue \subseteq Message
    /\ work \in [Worker -> Jobs \cup {Idle}]
    /\ left \in [{"start", "upset"} -> Nat]

\* "All session exits must pass CLEANUP": a session is over only when a cleanup
\* verified the DUT for it, whatever reconcilers, cancellations, second starts
\* and killed workers did to its row in between.
TerminalIsVerified == \A s \in Session : ses[s].st \in Terminal => ses[s].cl = "VERIFIED"

\* A device is not kept from the next session by one that no longer uses it: a
\* lock that is ACTIVE within its term is held in a state that may hold one,
\* although lock, row and capture are written by different tasks.
LiveLockIsUsed == \A s \in Session : HoldsLive(s) => ses[s].st \in LockHolding

\* The capture lease of the DUT is not left with a session that comes to be over,
\* where no reconciler would look for it, and not given to one that is.  Except by
\* the reconciler that cleans up with the mock platform, when the session got its
\* capture after it was judged to have none.
OwnsOver(s) == ses[s].st \in Terminal /\ own.of = s
MockOvertaken(s) == At("high", "reconcile", s, "mock") /\ s \in captured
LeaseGivenUp ==
    [][\A s \in Session : OwnsOver(s)' => OwnsOver(s) \/ MockOvertaken(s)]_vars

\* A device on which the PCM OFF could not be verified stays quarantined until a
\* cleanup of the session that left it so verifies it: no start takes it over
\* and no reconciler or failing start releases it by force.  Except one: the
\* watchdog of stale sessions, when it read the session before it was started.
Quarantined(s) == lock = [of |-> s, status |-> "QUARANTINED", live |-> FALSE]
Lifted(s) == lock' = [of |-> s, status |-> "RELEASED", live |-> FALSE]
StaleWatchdog(s) == At("high", "reconcile", s, "stale")
QuarantineKept ==
    [][\A s \in captured :
         Quarantined(s) /\ lock' # lock
            => Lifted(s) /\ (ses'[s].cl = "VERIFIED" \/ StaleWatchdog(s))]_vars

\* A session does not listen for ever: its watcher times out, or is gone and its
\* lock or its capture lease lapses and the reconciler finds it.
ListeningEnds == \A s \in Session :
    (ses[s].st \in Listening ~> ses[s].st \notin Listening)

\* A cleanup that failed, was interrupted, or is owed by an orphan is done in the
\* end, if the session was ever armed and its row knows the term of its lock; or
\* the watchdog of stale sessions closed it over the failed start it overtook.
Settled(s) == ses[s].st \in Terminal \cup {"WAITING_EXTERNAL_ACTION", "ARM_FAILED"}
Due(row) == row.st \in ToBeCleaned \/ (row.st = "CLEANUP" /\ row.term)
CleanupEnds == \A s \in Session : (ses[s].ctx /\ Due(ses[s]) ~> Settled(s))

\* "Single-terminal truth": a session that is over stays over.
TerminalStays ==
    [][\A s \in Session : ses[s].st = "CANCELLED" => ses'[s].st = "CANCELLED"]_vars
=============================================================================
