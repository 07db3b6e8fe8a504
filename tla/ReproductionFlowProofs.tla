------------------------- MODULE ReproductionFlowProofs -------------------------
(***************************************************************************)
(* Theorems about ReproductionFlow: for any number of sessions, second     *)
(* starts, cancellations, faults and retries, its variables keep their     *)
(* types, a session that is over was verified and gave up its lease, a     *)
(* live lock is in use, and a quarantine ends by a verified cleanup or by  *)
(* the watchdog.                                                           *)
(*                                                                         *)
(* A transaction of the flow writes what it decided on a row it read       *)
(* before.  The invariant says why that is sound where it is: the state it *)
(* read is still the row's state, since whoever holds the row is alone     *)
(* (HolderInv), and nobody starts what the reconciler is about to mark     *)
(* (OrphanInv).  What a platform is bound to is not over, since no session *)
(* that is over has an active lock (ActiveInv).                            *)
(***************************************************************************)
EXTENDS ReproductionFlow, TLAPS

(***************************************************************************)
(* The invariant.                                                          *)
(***************************************************************************)
\* What the step of a job says of the row the job read.
JobOK(w, j) ==
    /\ j.task \in TasksOf[w]
    /\ j.step \in CASE j.task = "start" -> {"read", "failing"}
                    [] j.task = "watch" -> {"connect", "loop", "end", "timeout"}
                    [] j.task = "reconcile" -> {"lapsed", "orphan", "mock", "stale"}
                    [] OTHER -> {"read"}
    /\ j.step = "end" => j.seen.st = "CAPTURING"
    /\ j.step = "timeout" => j.seen.st \in {"WATCHING", "ACTIVITY_DETECTED", "CAPTURING"}
    /\ j.step = "orphan" => Can(j.seen.st, "LEASE_EXPIRED")
    /\ j.step = "mock" => j.seen.st \in ToBeCleaned \/ Can(j.seen.st, "LEASE_EXPIRED")
    /\ j.step = "stale" => j.seen.st = "CREATED"
JobInv == \A w \in Worker : work[w] # Idle => JobOK(w, work[w])

\* A transaction that holds a row has seen the state the row is in.
HoldsRow(w, s) == work[w] # Idle /\ work[w].s = s /\ Writes(work[w])
HolderInv == \A w \in Worker, s \in Session :
                 HoldsRow(w, s) => ses[s].st = work[w].seen.st

\* While the reconciler waits to mark an orphan, the orphan does not get its lock
\* back: nobody is starting it.
OrphanInv == \A s \in Session :
    At("high", "reconcile", s, "orphan") => ~HoldsLive(s) /\ ~HoldsRow("control", s)

\* An active lock is somebody's.
LockInv == lock.status = "ACTIVE" => lock.of \in Session

\* And of a session that is not over: so nobody captures for one that is, though a
\* platform is bound to the holder of the lock.
ActiveInv == \A s \in Session : Holds(s) => ses[s].st \notin Terminal

\* The lease is a session's that has a capture.
OwnerInv == own.of # None => own.of \in captured

FlowInv ==
    /\ TypeOK
    /\ LockInv
    /\ JobInv
    /\ HolderInv
    /\ OrphanInv
    /\ ActiveInv
    /\ OwnerInv
    /\ TerminalIsVerified
    /\ LiveLockIsUsed

-----------------------------------------------------------------------------
(***************************************************************************)
(* The state machine: what the events used by the jobs lead to.            *)
(***************************************************************************)
States == {"CREATED", "WAITING_DEVICE_RESOURCE", "WAITING_GLOBAL_RESOURCE",
           "WAITING_EXTERNAL_ACTION", "AUTO_ARMING", "ARMED", "WATCHING",
           "ACTIVITY_DETECTED", "CALL_DETECTED", "CAPTURING", "CALL_END_DETECTED",
           "POST_CAPTURE", "ENHANCING", "WATCH_TIMEOUT", "CAPTURE_TIMEOUT",
           "ARM_FAILED", "ORPHANED", "DEVICE_LOST", "CLEANUP", "CLEANUP_DEGRADED",
           "CLEANUP_FAILED", "FINALIZING", "ANALYZING", "COMPLETED",
           "PARTIAL_SUCCESS", "CANCELLED", "FAILED"}

\* The states of the machine.
LEMMA StatesAre == DOMAIN Moves = States
BY SMT DEF Moves, States

\* The way of a start.
LEMMA StartMoves ==
    /\ Go("CREATED", "START_ARMING") = "AUTO_ARMING"
    /\ Go("WAITING_DEVICE_RESOURCE", "RESOURCE_AVAILABLE") = "AUTO_ARMING"
    /\ Go("WAITING_EXTERNAL_ACTION", "RESOURCE_AVAILABLE") = "AUTO_ARMING"
    /\ Go("AUTO_ARMING", "ARM_READY") = "ARMED"
    /\ Go("AUTO_ARMING", "ARM_FAILED") = "ARM_FAILED"
    /\ Go("ARMED", "WATCH_STARTED") = "WATCHING"
    /\ Go("ARM_FAILED", "CLEANUP_STARTED") = "CLEANUP"
    /\ Go("CREATED", "DEVICE_RESOURCE_BUSY") = "WAITING_DEVICE_RESOURCE"
    /\ ~Can("WAITING_DEVICE_RESOURCE", "DEVICE_RESOURCE_BUSY")
BY SMT DEF Go, Can, Moves, With, Armed, Waiting, ToCleanup

\* The way of a watcher.
LEMMA WatchMoves ==
    /\ Go("WATCHING", "ACTIVITY") = "ACTIVITY_DETECTED"
    /\ Go("WATCHING", "WATCH_TIMEOUT") = "WATCH_TIMEOUT"
    /\ Go("ACTIVITY_DETECTED", "WATCH_STARTED") = "WATCHING"
    /\ Go("ACTIVITY_DETECTED", "CALL_BOUND") = "CALL_DETECTED"
    /\ Go("ACTIVITY_DETECTED", "WATCH_TIMEOUT") = "WATCH_TIMEOUT"
    /\ Go("CALL_DETECTED", "CAPTURE_STARTED") = "CAPTURING"
    /\ Go("CAPTURING", "CALL_ENDED") = "CALL_END_DETECTED"
    /\ Go("CAPTURING", "CAPTURE_TIMEOUT") = "CAPTURE_TIMEOUT"
BY SMT DEF Go, Moves, With, Armed

\* The way of a session after its call.
LEMMA CallMoves ==
    /\ Go("CALL_END_DETECTED", "POST_CAPTURE_STARTED") = "POST_CAPTURE"
    /\ Go("POST_CAPTURE", "WATCH_STARTED") = "WATCHING"
    /\ Go("POST_CAPTURE", "ENHANCEMENT_STARTED") = "ENHANCING"
    /\ Go("POST_CAPTURE", "CLEANUP_STARTED") = "CLEANUP"
    /\ Go("ENHANCING", "ENHANCEMENT_ARMED") = "ARMED"
    /\ Go("ENHANCING", "ARM_FAILED") = "ARM_FAILED"
    /\ Go("WATCH_TIMEOUT", "CLEANUP_STARTED") = "CLEANUP"
    /\ Go("CAPTURE_TIMEOUT", "CLEANUP_STARTED") = "CLEANUP"
BY SMT DEF Go, Moves, With, Armed, ToCleanup

\* The way of a cleanup.
LEMMA CleanupMoves ==
    /\ Go("CLEANUP", "CLEANUP_VERIFIED") = "FINALIZING"
    /\ Go("CLEANUP", "CLEANUP_VERIFIED_EXTERNAL_WAIT") = "WAITING_EXTERNAL_ACTION"
    /\ Go("CLEANUP", "CLEANUP_FAILED") = "CLEANUP_FAILED"
    /\ Go("FINALIZING", "CANCELLED") = "CANCELLED"
    /\ Go("FINALIZING", "ANALYSIS_STARTED") = "ANALYZING"
    /\ Go("ANALYZING", "SESSION_PARTIAL") = "PARTIAL_SUCCESS"
BY SMT DEF Go, Moves, With, ToCleanup

\* Wherever a session may be cancelled, it goes to its cleanup.
LEMMA CancelMoves ==
    ASSUME NEW st \in States, Can(st, "CANCEL_REQUESTED")
    PROVE  Go(st, "CANCEL_REQUESTED") = "CLEANUP"
BY SMTT(60) DEF Can, Go, Moves, With, Armed, Waiting, ToCleanup, Nowhere, States

\* Wherever its lease may expire, it becomes an orphan, and it could not start.
LEMMA ExpiryMoves ==
    ASSUME NEW st \in States, Can(st, "LEASE_EXPIRED")
    PROVE  Go(st, "LEASE_EXPIRED") = "ORPHANED" /\ st \notin Startable
BY SMTT(60) DEF Can, Go, Moves, With, Armed, Waiting, ToCleanup, Nowhere, States,
   Startable

\* What can be cleaned up could not start.
LEMMA CleanableIsNotStartable ==
    ASSUME NEW st \in Startable
    PROVE  st # "CLEANUP" /\ ~Can(st, "CLEANUP_STARTED")
<1>1. st \in {"WAITING_DEVICE_RESOURCE", "WAITING_EXTERNAL_ACTION"} => Moves[st] = Waiting
  BY SMT DEF Moves
<1>2. Moves["CREATED"] = With(Waiting,
        [START_ARMING |-> "AUTO_ARMING",
         DEVICE_RESOURCE_BUSY |-> "WAITING_DEVICE_RESOURCE",
         GLOBAL_RESOURCE_BUSY |-> "WAITING_GLOBAL_RESOURCE"])
  BY SMT DEF Moves
<1> QED
  BY <1>1, <1>2, SMT DEF Startable, Can, With, Waiting

-----------------------------------------------------------------------------
(***************************************************************************)
(* Rows.                                                                   *)
(***************************************************************************)
\* What a commit leaves of the row is a row, with the columns it wrote.
LEMMA MergedRow ==
    ASSUME NEW cur \in Rows, NEW seen \in Rows, NEW new \in Rows, NEW wrote
    PROVE  LET row == Merged(cur, seen, new, wrote) IN
           /\ row \in Rows
           /\ "st" \in wrote => row.st = new.st
           /\ "cl" \in wrote => row.cl = new.cl
<1> DEFINE row == Merged(cur, seen, new, wrote)
           Pick(c) == IF c \in wrote \/ new[c] # seen[c] THEN new[c] ELSE cur[c]
<1>1. DOMAIN cur = {"st", "cl", "reason", "term", "ctx", "off"}
  BY DEF Rows
<1>2. row = [st |-> Pick("st"), cl |-> Pick("cl"), reason |-> Pick("reason"),
             term |-> Pick("term"), ctx |-> Pick("ctx"), off |-> Pick("off")]
  BY <1>1, SMT DEF Merged
<1>3. /\ Pick("st") \in DOMAIN Moves
      /\ Pick("cl") \in {"NOT_REQUIRED", "REQUIRED", "VERIFIED", "FAILED"}
      /\ Pick("reason") \in {None, "CANCEL", "EXTERNAL", "OTHER"}
      /\ Pick("term") \in BOOLEAN /\ Pick("ctx") \in BOOLEAN
      /\ Pick("off") \in BOOLEAN
  BY DEF Rows
<1>4. ("st" \in wrote => Pick("st") = new.st) /\ ("cl" \in wrote => Pick("cl") = new.cl)
  OBVIOUS
<1> HIDE DEF Pick, row
<1>5. row \in Rows
  BY <1>2, <1>3, Zenon DEF Rows
<1>6. row.st = Pick("st") /\ row.cl = Pick("cl")
  BY <1>2
<1> QED
  BY <1>4, <1>5, <1>6 DEF row

\* A commit that writes the state: one row changes, and has the state it wrote.
LEMMA CommitRow ==
    ASSUME ses \in [Session -> Rows], NEW s \in Session, NEW seen \in Rows,
           NEW new \in Rows, NEW wrote, "st" \in wrote,
           Commit(s, seen, new, wrote)
    PROVE  /\ ses' \in [Session -> Rows]
           /\ \A t \in Session \ {s} : ses'[t] = ses[t]
           /\ ses'[s].st = new.st
           /\ "cl" \in wrote => ses'[s].cl = new.cl
<1> DEFINE row == Merged(ses[s], seen, new, wrote)
<1>1. ses[s] \in Rows
  OBVIOUS
<1>2. row \in Rows /\ row.st = new.st /\ ("cl" \in wrote => row.cl = new.cl)
  BY <1>1, MergedRow
<1>3. ses' = [ses EXCEPT ![s] = row]
  BY DEF Commit
<1> HIDE DEF row
<1> QED
  BY <1>2, <1>3

\* The parts of a row.
LEMMA RowParts ==
    ASSUME NEW row \in Rows
    PROVE  /\ row.st \in States
           /\ row.cl \in {"NOT_REQUIRED", "REQUIRED", "VERIFIED", "FAILED"}
           /\ row.reason \in {None, "CANCEL", "EXTERNAL", "OTHER"}
           /\ row.term \in BOOLEAN /\ row.ctx \in BOOLEAN /\ row.off \in BOOLEAN
BY StatesAre, SMT DEF Rows

\* A row with another column.
LEMMA RowSet ==
    ASSUME NEW row \in Rows
    PROVE  /\ \A st \in States : [row EXCEPT !.st = st] \in Rows
           /\ \A cl \in {"NOT_REQUIRED", "REQUIRED", "VERIFIED", "FAILED"} :
                 [row EXCEPT !.cl = cl] \in Rows
           /\ \A reason \in {None, "CANCEL", "EXTERNAL", "OTHER"} :
                 [row EXCEPT !.reason = reason] \in Rows
           /\ \A b \in BOOLEAN : /\ [row EXCEPT !.term = b] \in Rows
                                /\ [row EXCEPT !.ctx = b] \in Rows
                                /\ [row EXCEPT !.off = b] \in Rows
<1>1. ASSUME NEW st \in States PROVE [row EXCEPT !.st = st] \in Rows
  BY StatesAre, SMT DEF Rows
<1>2. ASSUME NEW cl \in {"NOT_REQUIRED", "REQUIRED", "VERIFIED", "FAILED"}
      PROVE  [row EXCEPT !.cl = cl] \in Rows
  BY SMT DEF Rows
<1>3. ASSUME NEW reason \in {None, "CANCEL", "EXTERNAL", "OTHER"}
      PROVE  [row EXCEPT !.reason = reason] \in Rows
  BY SMT DEF Rows
<1>4. ASSUME NEW b \in BOOLEAN PROVE [row EXCEPT !.term = b] \in Rows
  BY SMT DEF Rows
<1>5. ASSUME NEW b \in BOOLEAN PROVE [row EXCEPT !.ctx = b] \in Rows
  BY SMT DEF Rows
<1>6. ASSUME NEW b \in BOOLEAN PROVE [row EXCEPT !.off = b] \in Rows
  BY SMT DEF Rows
<1> QED
  BY <1>1, <1>2, <1>3, <1>4, <1>5, <1>6

\* A row with another state and reason.
LEMMA RowMoved ==
    ASSUME NEW row \in Rows, NEW st \in States,
           NEW reason \in {None, "CANCEL", "EXTERNAL", "OTHER"}
    PROVE  LET new == [row EXCEPT !.st = st, !.reason = reason]
           IN  new \in Rows /\ new.st = st /\ new.off = row.off
<1> DEFINE one == [row EXCEPT !.st = st]
           new == [row EXCEPT !.st = st, !.reason = reason]
<1>1. one \in Rows
  BY RowSet
<1>2. new = [one EXCEPT !.reason = reason]
  OBVIOUS
<1>3. new.st = st /\ new.off = row.off
  BY SMT DEF Rows
<1> HIDE DEF one
<1>4. [one EXCEPT !.reason = reason] \in Rows
  BY <1>1, RowSet
<1> QED
  BY <1>2, <1>3, <1>4

\* What a probe of the line can find.
Probes == [mirror : BOOLEAN, off : BOOLEAN, quiet : BOOLEAN]
\* Probing yields probes.
LEMMA ProbedIs ==
    ASSUME NEW on \in BOOLEAN, NEW off \in BOOLEAN
    PROVE  Probed(on, off) \cup OffFails(on, off) \subseteq Probes
<1>1. /\ Probe(on, off, TRUE) \in Probes /\ Probe(on, TRUE, FALSE) \in Probes
      /\ Probe(FALSE, TRUE, TRUE) \in Probes /\ Probe(TRUE, TRUE, FALSE) \in Probes
  BY Zenon DEF Probe, Probes
<1> QED
  BY <1>1, Zenon DEF Probed, Quiet, Flowing, OffFails

\* A cleanup that finds the line quiet ends a session, or has it wait; and then
\* it was verified.
LEMMA VerifiedIs ==
    ASSUME NEW reason
    PROVE  Verified(reason) \in {"WAITING_EXTERNAL_ACTION", "CANCELLED", "PARTIAL_SUCCESS"}
BY CleanupMoves DEF Verified

\* The row a cleanup commits.
LEMMA CleanedRow ==
    ASSUME NEW row \in Rows, NEW probe \in Probes, NEW unlocks \in BOOLEAN
    PROVE  LET new == Cleaned(row, probe, unlocks) IN
           /\ new \in Rows
           /\ new.st \in Terminal => new.cl = "VERIFIED"
           /\ probe.quiet => new.cl = "VERIFIED"
<1> DEFINE st == IF probe.quiet THEN Verified(row.reason) ELSE Go("CLEANUP", "CLEANUP_FAILED")
           cl == IF probe.quiet THEN "VERIFIED" ELSE "FAILED"
           new == Cleaned(row, probe, unlocks)
<1>1. /\ st \in States /\ (st \in Terminal => probe.quiet)
  BY VerifiedIs, CleanupMoves DEF States, Terminal
<1>2. cl \in {"VERIFIED", "FAILED"} /\ (probe.quiet => cl = "VERIFIED")
  OBVIOUS
<1> DEFINE one == [row EXCEPT !.st = st]
           two == [one EXCEPT !.cl = cl]
           three == [two EXCEPT !.off = probe.off]
<1>3. new = [three EXCEPT !.term = row.term /\ ~unlocks]
  BY SMT DEF Cleaned, Rows
<1>4. new.st = st /\ new.cl = cl
  BY SMT DEF Cleaned, Rows
<1> HIDE DEF st, cl, new
<1>5. one \in Rows
  BY <1>1, RowSet
<1> HIDE DEF one
<1>6. two \in Rows
  BY <1>2, <1>5, RowSet
<1> HIDE DEF two
<1>7. three \in Rows
  BY <1>6, RowSet DEF Probes
<1> HIDE DEF three
<1>8. (row.term /\ ~unlocks) \in BOOLEAN
  BY RowParts
<1>9. new \in Rows
  BY <1>3, <1>7, <1>8, RowSet
<1> QED
  BY <1>1, <1>2, <1>4, <1>9 DEF new

-----------------------------------------------------------------------------
(***************************************************************************)
(* Who holds a row.                                                        *)
(***************************************************************************)
\* A start holds a row that may start, and a job of `watch` one that may not.
LEMMA HolderIs ==
    ASSUME FlowInv, NEW w \in Worker, NEW s \in Session, HoldsRow(w, s)
    PROVE  /\ work[w] \in Jobs
           /\ \/ w = "control" /\ ses[s].st \in Startable
              \/ w = "watch" /\ ses[s].st \notin Startable
<1>1. work[w] \in Jobs /\ JobOK(w, work[w]) /\ ses[s].st = work[w].seen.st
  BY DEF FlowInv, TypeOK, JobInv, HolderInv, HoldsRow
<1>2. work[w].task \in TasksOf[w]
  BY <1>1 DEF JobOK
<1>3. CASE work[w].task = "start"
  <2>1. w = "control"
    BY <1>2, <1>3, SMT DEF TasksOf, Worker
  <2>2. work[w].seen.st \in Startable
    BY <1>3, SMT DEF HoldsRow, Writes
  <2> QED
    BY <1>1, <2>1, <2>2
<1>4. CASE work[w].task = "clean"
  <2>1. w = "watch"
    BY <1>2, <1>4, SMT DEF TasksOf, Worker
  <2>2. MayClean(work[w].seen)
    BY <1>4, SMT DEF HoldsRow, Writes
  <2> QED
    BY <1>1, <2>1, <2>2, CleanableIsNotStartable DEF MayClean
<1>5. CASE work[w].task = "watch"
  <2>1. w = "watch"
    BY <1>2, <1>5, SMT DEF TasksOf, Worker
  <2>2. work[w].step \in {"end", "timeout"}
    BY <1>5, SMT DEF HoldsRow, Writes
  <2>3. work[w].seen.st \in {"WATCHING", "ACTIVITY_DETECTED", "CAPTURING"}
    BY <1>1, <2>2 DEF JobOK
  <2> QED
    BY <1>1, <2>1, <2>3 DEF Startable
<1> QED
  BY <1>3, <1>4, <1>5 DEF HoldsRow, Writes

\* One worker holds a row.
LEMMA OneHolder ==
    ASSUME FlowInv, NEW v \in Worker, NEW w \in Worker, NEW s \in Session,
           HoldsRow(v, s), HoldsRow(w, s)
    PROVE  v = w
BY HolderIs

\* A row that is not Holding has no holder.
LEMMA NoHolder ==
    ASSUME NEW s \in Session, ~Holding(s), NEW w \in Worker
    PROVE  ~HoldsRow(w, s)
BY DEF Holding, HoldsRow

-----------------------------------------------------------------------------
(***************************************************************************)
(* What the step of a worker on a session does.                            *)
(***************************************************************************)
\* It writes no row but the session's, and that one's state only alone; a session
\* that comes to be over has given up its lock, and its lease.
RowStep(w, s) ==
    /\ ses' \in [Session -> Rows]
    /\ \A t \in Session \ {s} : ses'[t] = ses[t]
    /\ ses'[s].st \in Terminal =>
          ses[s].st \in Terminal \/ (~Holds(s)' /\ (own'.of # s \/ MockOvertaken(s)))
    /\ ses'[s].st \in Terminal => ses'[s].cl = "VERIFIED"
    /\ ses'[s].st # ses[s].st => \A v \in Worker \ {w} : ~HoldsRow(v, s)

\* It gives the lock to nobody but the session, and only in a start.
LockStep(s) ==
    /\ lock' \in Locks
    /\ LockInv'
    /\ \A t \in Session \ {s} : /\ HoldsLive(t)' => HoldsLive(t)
                                /\ Holds(t)' => Holds(t)
    /\ Holds(s)' => Holds(s) \/ ses'[s].st \notin Terminal
    /\ HoldsLive(s)' => /\ HoldsLive(s) \/ HoldsRow("control", s)
                        /\ ses'[s].st \in LockHolding

\* It lifts no quarantine but with a verified cleanup, or as the watchdog.
QuarantineStep ==
    \A t \in captured :
        Quarantined(t) /\ lock' # lock
            => Lifted(t) /\ (ses'[t].cl = "VERIFIED" \/ StaleWatchdog(t))

\* Its job is done, or goes on without the row.
WorkStep(w) ==
    /\ work' \in [Worker -> Jobs \cup {Idle}]
    /\ \A v \in Worker \ {w} : work'[v] = work[v]
    /\ \/ work'[w] = Idle
       \/ JobOK(w, work'[w]) /\ ~Writes(work'[w]) /\ work'[w].task # "reconcile"

Owner == [of : Session \cup {None}, live : BOOLEAN]
\* It gives the lease to nobody who is over.
CaptureStep ==
    /\ own' \in Owner
    /\ captured \subseteq captured' /\ captured' \subseteq Session
    /\ \/ own'.of \in {own.of, None}
       \/ own'.of \in captured' /\ ses[own'.of].st \notin Terminal

\* No session that comes to be over keeps the lease, unless the mock was overtaken.
LeaseStep == \A t \in Session : OwnsOver(t)' => OwnsOver(t) \/ MockOvertaken(t)

RestStep ==
    /\ CaptureStep
    /\ mirror' \in BOOLEAN
    /\ queue' \subseteq Message
    /\ left' \in [{"start", "upset"} -> Nat]

FlowStep(w, s) ==
    /\ RowStep(w, s)
    /\ LockStep(s)
    /\ QuarantineStep
    /\ WorkStep(w)
    /\ RestStep

\* Such a step preserves the invariant.
LEMMA FlowStepKeeps ==
    ASSUME FlowInv, NEW w \in Worker, NEW s \in Session, FlowStep(w, s)
    PROVE  FlowInv' /\ LeaseStep
<1> USE DEF FlowStep
<1>1. TypeOK'
  BY DEF RowStep, LockStep, WorkStep, RestStep, CaptureStep, Owner, TypeOK
<1>2. LockInv'
  BY DEF LockStep
<1>3. JobInv'
  <2> SUFFICES ASSUME NEW v \in Worker, work'[v] # Idle PROVE JobOK(v, work'[v])
    BY DEF JobInv, JobOK
  <2>1. CASE v = w
    BY <2>1 DEF WorkStep
  <2>2. CASE v # w
    BY <2>2 DEF WorkStep, FlowInv, JobInv
  <2> QED
    BY <2>1, <2>2
<1>4. ASSUME NEW v \in Worker, NEW t \in Session, HoldsRow(v, t)'
      PROVE  v # w /\ HoldsRow(v, t) /\ work'[v] = work[v]
  BY <1>4 DEF WorkStep, HoldsRow, Writes
<1>5. HolderInv'
  <2> SUFFICES ASSUME NEW v \in Worker, NEW t \in Session, HoldsRow(v, t)'
               PROVE  ses'[t].st = work'[v].seen.st
    BY DEF HolderInv
  <2>1. v # w /\ HoldsRow(v, t) /\ work'[v] = work[v]
    BY <1>4
  <2>2. ses[t].st = work[v].seen.st
    BY <2>1 DEF FlowInv, HolderInv
  <2>3. ses'[t].st = ses[t].st
    BY <2>1 DEF RowStep
  <2> QED
    BY <2>1, <2>2, <2>3
<1>6. OrphanInv'
  <2> SUFFICES ASSUME NEW t \in Session, At("high", "reconcile", t, "orphan")'
               PROVE  ~HoldsLive(t)' /\ ~HoldsRow("control", t)'
    BY DEF OrphanInv
  <2>0. "high" \in Worker /\ "control" \in Worker
    BY DEF Worker
  <2>1. work'["high"] = work["high"]
    BY <2>0 DEF WorkStep, At, Idle
  <2>2. ~HoldsLive(t) /\ ~HoldsRow("control", t)
    BY <2>1 DEF FlowInv, OrphanInv, At
  <2>3. ~HoldsRow("control", t)'
    BY <1>4, <2>0, <2>2
  <2>4. ~HoldsLive(t)'
    BY <2>2 DEF LockStep
  <2> QED
    BY <2>3, <2>4
<1>7. TerminalIsVerified'
  <2> SUFFICES ASSUME NEW t \in Session, ses'[t].st \in Terminal
               PROVE  ses'[t].cl = "VERIFIED"
    BY DEF TerminalIsVerified
  <2> QED
    BY DEF RowStep, FlowInv, TerminalIsVerified
<1>8. LiveLockIsUsed'
  <2> SUFFICES ASSUME NEW t \in Session, HoldsLive(t)'
               PROVE  ses'[t].st \in LockHolding
    BY DEF LiveLockIsUsed
  <2>1. CASE t = s
    BY <2>1 DEF LockStep
  <2>2. CASE t # s
    BY <2>2 DEF LockStep, RowStep, FlowInv, LiveLockIsUsed
  <2> QED
    BY <2>1, <2>2
<1>9. ActiveInv'
  <2> SUFFICES ASSUME NEW t \in Session, Holds(t)' PROVE ses'[t].st \notin Terminal
    BY DEF ActiveInv
  <2>1. CASE t = s
    BY <2>1 DEF LockStep, RowStep, FlowInv, ActiveInv
  <2>2. CASE t # s
    BY <2>2 DEF LockStep, RowStep, FlowInv, ActiveInv
  <2> QED
    BY <2>1, <2>2
<1>10. OwnerInv'
  BY DEF RestStep, CaptureStep, FlowInv, OwnerInv
<1>11. LeaseStep
  <2> SUFFICES ASSUME NEW t \in Session, ses'[t].st \in Terminal, own'.of = t
               PROVE  OwnsOver(t) \/ MockOvertaken(t)
    BY DEF LeaseStep, OwnsOver
  <2>1. own'.of = own.of \/ ses[t].st \notin Terminal
    BY FlowAssumption DEF RestStep, CaptureStep, None
  <2>2. CASE t = s
    <3>1. ses[t].st \in Terminal \/ MockOvertaken(t)
      BY <2>2 DEF RowStep
    <3> QED
      BY <2>1, <3>1 DEF OwnsOver
  <2>3. CASE t # s
    <3>1. ses[t].st \in Terminal
      BY <2>3 DEF RowStep
    <3> QED
      BY <2>1, <3>1 DEF OwnsOver
  <2> QED
    BY <2>2, <2>3
<1> QED
  BY <1>1, <1>2, <1>3, <1>5, <1>6, <1>7, <1>8, <1>9, <1>10, <1>11 DEF FlowInv

-----------------------------------------------------------------------------
(***************************************************************************)
(* Jobs, locks and the capture.                                            *)
(***************************************************************************)
\* The parts of a job at a step.
LEMMA JobIs ==
    ASSUME FlowInv, NEW w \in Worker, NEW s \in Session,
           work[w].task \in Task, work[w].s = s
    PROVE  /\ work[w] # Idle /\ work[w] \in Jobs /\ JobOK(w, work[w])
           /\ work[w].seen \in Rows /\ work[w].try \in 0 .. MaxRetry
           /\ work[w].bind \in Session \cup {None} /\ work[w].call \in BOOLEAN
<1>1. work[w] # Idle
  BY SMT DEF Idle, Task
<1>2. work[w] \in Jobs /\ JobOK(w, work[w])
  BY <1>1 DEF FlowInv, TypeOK, JobInv
<1>3. work[w].seen \in Rows /\ work[w].try \in 0 .. MaxRetry
  BY <1>2, SMT DEF Jobs
<1>4. work[w].bind \in Session \cup {None} /\ work[w].call \in BOOLEAN
  BY <1>2, SMT DEF Jobs
<1> QED
  BY <1>1, <1>2, <1>3, <1>4

\* A job that ends.
LEMMA FinishStep ==
    ASSUME FlowInv, NEW w \in Worker, Finish(w)
    PROVE  WorkStep(w)
BY DEF Finish, WorkStep, FlowInv, TypeOK

\* A worker that does nothing.
LEMMA SameWork ==
    ASSUME FlowInv, NEW w \in Worker, work[w] = Idle, UNCHANGED work
    PROVE  WorkStep(w)
BY DEF WorkStep, FlowInv, TypeOK

\* A new row is a row.
LEMMA FreshIsRow == Fresh \in Rows
BY StatesAre, Zenon DEF Fresh, Rows, States

\* A start that goes on to its end.
LEMMA FailingStep ==
    ASSUME FlowInv, NEW w \in Worker, NEW s \in Session, At(w, "start", s, "read"),
           Step(w, "failing", Fresh)
    PROVE  WorkStep(w)
<1>1. work[w] \in Jobs /\ work[w].task \in TasksOf[w] /\ work[w].task = "start"
  BY JobIs DEF At, Task, JobOK
<1> DEFINE job == [work[w] EXCEPT !.step = "failing", !.seen = Fresh]
<1>2. work' = [work EXCEPT ![w] = job]
  BY DEF Step
<1>3. job.task = "start" /\ job.step = "failing"
  BY <1>1, SMT DEF Jobs
<1>4. job \in Jobs
  <2> DEFINE one == [work[w] EXCEPT !.step = "failing"]
  <2>1. one \in Jobs
    BY <1>1, SMT DEF Jobs
  <2>2. job = [one EXCEPT !.seen = Fresh]
    OBVIOUS
  <2> HIDE DEF one
  <2>3. [one EXCEPT !.seen = Fresh] \in Jobs
    BY <2>1, FreshIsRow, SMT DEF Jobs
  <2> QED
    BY <2>2, <2>3
<1> HIDE DEF job
<1>5. JobOK(w, job) /\ ~Writes(job)
  BY <1>1, <1>3 DEF JobOK, Writes
<1> QED
  BY <1>2, <1>3, <1>4, <1>5 DEF WorkStep, FlowInv, TypeOK

\* A watcher that goes on, perhaps in a call, or bound to a capture.
LEMMA LoopStep ==
    ASSUME FlowInv, NEW w \in Worker, NEW s \in Session, work[w].task = "watch",
           work[w].s = s, NEW call \in BOOLEAN, Loop(w, call)
    PROVE  WorkStep(w)
<1>1. work[w] \in Jobs /\ work[w].task \in TasksOf[w]
  BY JobIs DEF Task, JobOK
<1> DEFINE one == [work[w] EXCEPT !.step = "loop"]
           two == [one EXCEPT !.seen = Fresh]
           job == [two EXCEPT !.call = call]
<1>2. work' = [work EXCEPT ![w] = job]
  BY DEF Loop
<1>3. job.task = "watch" /\ job.step = "loop"
  BY <1>1, SMT DEF Jobs
<1>4. one \in Jobs
  BY <1>1, SMT DEF Jobs
<1> HIDE DEF one
<1>5. two \in Jobs
  BY <1>4, FreshIsRow, SMT DEF Jobs
<1> HIDE DEF two
<1>6. job \in Jobs
  BY <1>5, SMT DEF Jobs
<1> HIDE DEF job
<1>7. JobOK(w, job) /\ ~Writes(job)
  BY <1>1, <1>3 DEF JobOK, Writes
<1> QED
  BY <1>2, <1>3, <1>6, <1>7 DEF WorkStep, FlowInv, TypeOK

\* A watcher that is bound to a capture.
LEMMA BoundStep ==
    ASSUME FlowInv, NEW w \in Worker, NEW s \in Session, work[w].task = "watch",
           work[w].s = s, NEW b \in Session,
           work' = [work EXCEPT ![w].step = "loop", ![w].bind = b]
    PROVE  WorkStep(w)
<1>1. work[w] \in Jobs /\ work[w].task \in TasksOf[w]
  BY JobIs DEF Task, JobOK
<1> DEFINE one == [work[w] EXCEPT !.step = "loop"]
           job == [one EXCEPT !.bind = b]
<1>2. work' = [work EXCEPT ![w] = job]
  OBVIOUS
<1>3. job.task = "watch" /\ job.step = "loop"
  BY <1>1, SMT DEF Jobs
<1>4. one \in Jobs
  BY <1>1, SMT DEF Jobs
<1> HIDE DEF one
<1>5. job \in Jobs
  BY <1>4, SMT DEF Jobs
<1> HIDE DEF job
<1>6. JobOK(w, job) /\ ~Writes(job)
  BY <1>1, <1>3 DEF JobOK, Writes
<1> QED
  BY <1>2, <1>3, <1>5, <1>6 DEF WorkStep, FlowInv, TypeOK

\* Rows that stay.
LEMMA SameRows ==
    ASSUME FlowInv, NEW w \in Worker, NEW s \in Session, UNCHANGED ses
    PROVE  RowStep(w, s)
BY DEF RowStep, FlowInv, TypeOK, TerminalIsVerified

\* A lock that stays, unless a live one is left with a row that may not have it.
LEMMA SameLock ==
    ASSUME FlowInv, NEW s \in Session, UNCHANGED lock,
           HoldsLive(s) => ses'[s].st \in LockHolding
    PROVE  LockStep(s) /\ QuarantineStep
BY DEF LockStep, QuarantineStep, FlowInv, TypeOK, LockInv, HoldsLive, Holds

\* A step that writes neither rows nor lock.
LEMMA SameRowsAndLock ==
    ASSUME FlowInv, NEW w \in Worker, NEW s \in Session, UNCHANGED rows
    PROVE  RowStep(w, s) /\ LockStep(s) /\ QuarantineStep
<1>1. HoldsLive(s) => ses'[s].st \in LockHolding
  BY DEF FlowInv, LiveLockIsUsed, rows
<1> QED
  BY <1>1, SameRows, SameLock DEF rows

\* A lock that is let go.
LEMMA UnheldLock ==
    ASSUME FlowInv, NEW s \in Session, NEW status \in {"RELEASED", "EXPIRED", "QUARANTINED"},
           lock' = Unheld(s, status)
    PROVE  LockStep(s)
<1>1. CASE lock.of = s
  <2>1. lock' = [of |-> s, status |-> status, live |-> FALSE]
    BY <1>1 DEF Unheld
  <2>2. lock' \in Locks
    <3>1. status \in {"RELEASED", "ACTIVE", "EXPIRED", "QUARANTINED"} /\ FALSE \in BOOLEAN
      OBVIOUS
    <3> QED
      BY <2>1, <3>1, SMT DEF Locks
  <2>3. lock'.status = status /\ lock'.live = FALSE
    BY <2>1
  <2> QED
    BY <2>2, <2>3 DEF LockStep, LockInv, HoldsLive, Holds
<1>2. CASE lock.of # s
  <2>1. UNCHANGED lock
    BY <1>2 DEF Unheld
  <2> QED
    BY <1>2, <2>1 DEF LockStep, FlowInv, TypeOK, LockInv, HoldsLive, Holds
<1> QED
  BY <1>1, <1>2

\* A session that is not over binds to one that is not over.
LEMMA BoundToIs ==
    ASSUME FlowInv, NEW s \in Session, ses[s].st \notin Terminal
    PROVE  BoundTo(s) \in Session /\ ses[BoundTo(s)].st \notin Terminal
BY DEF BoundTo, FlowInv, LockInv, ActiveInv, Holds

\* A capture that stays as it is.
LEMMA SameCapture ==
    ASSUME FlowInv, UNCHANGED capture
    PROVE  CaptureStep
BY DEF capture, CaptureStep, Owner, FlowInv, TypeOK

\* A capture that is established, or is not.
LEMMA EstablishStep ==
    ASSUME FlowInv, NEW b \in Session, ses[b].st \notin Terminal,
           Establish(b) \/ EstablishFails(b)
    PROVE  CaptureStep
<1>1. CASE Establish(b)
  <2>1. own' = [of |-> b, live |-> TRUE] /\ captured' = captured \cup {b}
    BY <1>1 DEF Establish
  <2>2. own' \in Owner /\ own'.of = b
    BY <2>1, Zenon DEF Owner
  <2> QED
    BY <2>1, <2>2 DEF CaptureStep, FlowInv, TypeOK
<1>2. CASE EstablishFails(b)
  BY <1>2 DEF EstablishFails, CaptureStep, Owner, FlowInv, TypeOK
<1> QED
  BY <1>1, <1>2

\* A lease that is given up is no session's.
LEMMA GivenUpIs ==
    /\ GivenUp \in Owner
    /\ \A s \in Session : GivenUp.of # s
<1>1. GivenUp \in Owner
  BY Zenon DEF GivenUp, Owner
<1>2. \A s \in Session : GivenUp.of # s
  BY FlowAssumption DEF GivenUp, None
<1> QED
  BY <1>1, <1>2

\* The lease is given up.
LEMMA GiveUpStep ==
    ASSUME FlowInv, own' = GivenUp, captured \subseteq captured', captured' \subseteq Session
    PROVE  CaptureStep /\ \A s \in Session : own'.of # s
<1>1. own'.of = None
  BY DEF GivenUp
<1> QED
  BY <1>1, GivenUpIs DEF CaptureStep

\* Messages.
LEMMA PostIs ==
    ASSUME NEW task \in Task \ {"reconcile"}, NEW s \in Session
    PROVE  Post(task, s) \in Message
BY FlowAssumption, SMT DEF Post, Message

\* A task that is tried again.
LEMMA RetriedIs ==
    ASSUME FlowInv, NEW w \in Worker, NEW s \in Session,
           work[w].task \in Task \ {"reconcile"}, work[w].s = s
    PROVE  /\ \A q \in Retried(w) : q \subseteq Message
           /\ Again(work[w]) \subseteq Message
<1>1. work[w].try \in 0 .. MaxRetry /\ MaxRetry \in Nat
  BY JobIs, FlowAssumption
<1>2. work[w].try < MaxRetry => work[w].try + 1 \in 0 .. MaxRetry
  BY <1>1, SMT
<1>3. work[w].try < MaxRetry =>
        [task |-> work[w].task, s |-> work[w].s, try |-> work[w].try + 1] \in Message
  BY <1>2, Zenon DEF Message
<1>4. Again(work[w]) \subseteq Message
  BY <1>3 DEF Again
<1> QED
  BY <1>4 DEF Retried, FlowInv, TypeOK

\* The bounds.
LEMMA FaultIs ==
    ASSUME FlowInv, Fault \/ NoFault
    PROVE  left' \in [{"start", "upset"} -> Nat]
BY SMT DEF Fault, NoFault, Spend, FlowInv, TypeOK

-----------------------------------------------------------------------------
(***************************************************************************)
(* The steps of a start.                                                   *)
(***************************************************************************)
\* The start's job holds the row; it is alone.
LEMMA Starting ==
    ASSUME FlowInv, NEW w \in Worker, NEW s \in Session,
           At(w, "start", s, "read"), work[w].seen.st \in Startable
    PROVE  /\ HoldsRow(w, s) /\ w = "control"
           /\ \A v \in Worker \ {w} : ~HoldsRow(v, s)
<1>1. work[w] # Idle
  BY JobIs DEF At, Task
<1>2. HoldsRow(w, s)
  BY <1>1, SMT DEF At, HoldsRow, Writes
<1>3. w = "control"
  <2>1. ses[s].st \in Startable
    BY <1>2 DEF FlowInv, HolderInv
  <2> QED
    BY <1>2, <2>1, HolderIs
<1> QED
  BY <1>2, <1>3, OneHolder

\* A session that is started is not over.
LEMMA NotOver ==
    ASSUME FlowInv, NEW w \in Worker, NEW s \in Session, HoldsRow(w, s),
           work[w].seen.st \in Startable
    PROVE  ses[s].st \notin Terminal
BY DEF FlowInv, HolderInv, Startable, Terminal

\* The row of a session that is being armed.
LEMMA ArmingRow ==
    ASSUME NEW seen \in Rows, seen.st \in Startable
    PROVE  Arming(seen) \in Rows /\ Arming(seen).st = "AUTO_ARMING"
<1> DEFINE st == Go(seen.st, IF seen.st = "CREATED" THEN "START_ARMING" ELSE "RESOURCE_AVAILABLE")
<1>1. st = "AUTO_ARMING"
  BY StartMoves DEF Startable
<1>2. Arming(seen) = [seen EXCEPT !.st = st, !.cl = "REQUIRED", !.ctx = TRUE, !.term = TRUE]
  BY SMT DEF Arming, Rows
<1>3. Arming(seen).st = st
  BY <1>2, SMT DEF Rows
<1> HIDE DEF st
<1> DEFINE one == [seen EXCEPT !.st = st]
           two == [one EXCEPT !.cl = "REQUIRED"]
           three == [two EXCEPT !.ctx = TRUE]
<1>4. Arming(seen) = [three EXCEPT !.term = TRUE]
  BY <1>2
<1>5. one \in Rows
  BY <1>1, RowSet DEF States
<1> HIDE DEF one
<1>6. two \in Rows
  BY <1>5, RowSet
<1> HIDE DEF two
<1>7. three \in Rows
  BY <1>6, RowSet
<1> HIDE DEF three
<1>8. [three EXCEPT !.term = TRUE] \in Rows
  BY <1>7, RowSet
<1> QED
  BY <1>1, <1>3, <1>4, <1>8

\* It gives up the start, and leaves everything as it is.
LEMMA StartRefusedStep ==
    ASSUME FlowInv, NEW w \in Worker, NEW s \in Session, StartRefused(w, s)
    PROVE  FlowStep(w, s)
<1>1. WorkStep(w)
  BY FailingStep DEF StartRefused
<1>2. RowStep(w, s) /\ LockStep(s) /\ QuarantineStep
  BY SameRowsAndLock DEF StartRefused
<1>3. RestStep
  BY SameCapture DEF StartRefused, RestStep, FlowInv, TypeOK
<1> QED
  BY <1>1, <1>2, <1>3 DEF FlowStep

\* The device is another's.
LEMMA StartBusyStep ==
    ASSUME FlowInv, NEW w \in Worker, NEW s \in Session, StartBusy(w, s)
    PROVE  FlowStep(w, s)
<1> DEFINE seen == work[w].seen
           st == Go(seen.st, "DEVICE_RESOURCE_BUSY")
           new == [seen EXCEPT !.st = st]
<1>1. At(w, "start", s, "read") /\ seen.st \in Startable /\ ~Available(s)
      /\ seen.st # "WAITING_EXTERNAL_ACTION"
  BY DEF StartBusy
<1>2. seen \in Rows
  BY <1>1, JobIs DEF At, Task
<1>3. RowStep(w, s)
  <2>1. CASE Can(seen.st, "DEVICE_RESOURCE_BUSY")
    <3>1. st = "WAITING_DEVICE_RESOURCE"
      BY <1>1, <2>1, StartMoves DEF Startable
    <3>2. new \in Rows
      BY <1>2, <3>1, RowSet DEF States
    <3>3. new.st = st
      BY <1>2, SMT DEF Rows
    <3>4. Commit(s, seen, new, {"st"})
      BY <2>1, SMT DEF StartBusy
    <3> HIDE DEF st, new, seen
    <3>5. /\ ses' \in [Session -> Rows]
          /\ \A t \in Session \ {s} : ses'[t] = ses[t]
          /\ ses'[s].st = new.st
      BY <1>2, <3>2, <3>4, CommitRow DEF FlowInv, TypeOK
    <3> QED
      BY <1>1, <3>1, <3>3, <3>5, Starting DEF RowStep, Terminal, seen
  <2>2. CASE ~Can(seen.st, "DEVICE_RESOURCE_BUSY")
    BY <2>2, SameRows DEF StartBusy
  <2> QED
    BY <2>1, <2>2
<1>4. LockStep(s) /\ QuarantineStep
  <2>1. ~HoldsLive(s) /\ UNCHANGED lock
    BY <1>1 DEF StartBusy, Available, HoldsLive, Holds
  <2> QED
    BY <2>1, SameLock
<1>5. WorkStep(w)
  BY FinishStep DEF StartBusy
<1>6. RestStep
  BY SameCapture DEF StartBusy, RestStep, FlowInv, TypeOK
<1> QED
  BY <1>3, <1>4, <1>5, <1>6 DEF FlowStep

\* A start that writes its row and takes the lock, or gives it back.
LEMMA StartWrites ==
    ASSUME FlowInv, NEW w \in Worker, NEW s \in Session, Arm(w, s),
           NEW new \in Rows, Commit(s, work[w].seen, new, {"st", "cl"}),
           new.st \in Terminal => new.cl = "VERIFIED",
           NEW status \in {"RELEASED", "ACTIVE", "QUARANTINED"}, NEW live \in BOOLEAN,
           lock' = [of |-> s, status |-> status, live |-> live],
           status = "ACTIVE" /\ live => new.st \in LockHolding,
           new.st \in Terminal => status # "ACTIVE" /\ own'.of # s
    PROVE  RowStep(w, s) /\ LockStep(s) /\ QuarantineStep
<1>1. /\ At(w, "start", s, "read") /\ work[w].seen.st \in Startable
      /\ lock.status # "QUARANTINED"
  BY DEF Arm, Available
<1>2. work[w].seen \in Rows
  BY <1>1, JobIs DEF At, Task
<1>3. /\ ses' \in [Session -> Rows]
      /\ \A t \in Session \ {s} : ses'[t] = ses[t]
      /\ ses'[s].st = new.st /\ ses'[s].cl = new.cl
  BY <1>2, CommitRow DEF FlowInv, TypeOK
<1>4. HoldsRow("control", s) /\ \A v \in Worker \ {w} : ~HoldsRow(v, s)
  BY <1>1, Starting
<1>5. RowStep(w, s)
  BY <1>3, <1>4 DEF RowStep, Holds
<1>6. lock' \in Locks
  <2>1. status \in {"RELEASED", "ACTIVE", "EXPIRED", "QUARANTINED"}
    OBVIOUS
  <2> QED
    BY <2>1, Zenon DEF Locks
<1>7. LockStep(s)
  BY <1>3, <1>4, <1>6 DEF LockStep, LockInv, HoldsLive, Holds
<1>8. QuarantineStep
  BY <1>1 DEF QuarantineStep, Quarantined
<1> QED
  BY <1>5, <1>7, <1>8

\* The session is watched.
LEMMA StartArmedStep ==
    ASSUME FlowInv, NEW w \in Worker, NEW s \in Session, StartArmed(w, s)
    PROVE  FlowStep(w, s)
<1> DEFINE seen == work[w].seen
           armed == Arming(seen)
           st == Go(Go(armed.st, "ARM_READY"), "WATCH_STARTED")
           new == [armed EXCEPT !.st = st]
<1>1. At(w, "start", s, "read") /\ seen.st \in Startable
  BY DEF StartArmed, Arm
<1>2. armed \in Rows /\ armed.st = "AUTO_ARMING"
  BY <1>1, JobIs, ArmingRow DEF At, Task
<1>3. st = "WATCHING"
  BY <1>2, StartMoves
<1>4. Commit(s, seen, new, {"st", "cl"})
  BY <1>2, SMT DEF StartArmed, Rows
<1> HIDE DEF armed
<1>5. new.st = st
  BY <1>2, SMT DEF Rows
<1> HIDE DEF st
<1>6. new \in Rows
  BY <1>2, <1>3, RowSet DEF States
<1> HIDE DEF new, seen
<1>7. lock' = [of |-> s, status |-> "ACTIVE", live |-> TRUE]
  BY DEF StartArmed, Held
<1>8. RowStep(w, s) /\ LockStep(s) /\ QuarantineStep
  <2>1. Arm(w, s) /\ Commit(s, work[w].seen, new, {"st", "cl"})
    BY <1>4 DEF StartArmed, seen
  <2>2. new.st \notin Terminal /\ new.st \in LockHolding
    BY <1>3, <1>5 DEF Terminal, LockHolding, Listening
  <2> QED
    BY <1>6, <1>7, <2>1, <2>2, StartWrites
<1>9. WorkStep(w)
  BY FinishStep DEF StartArmed
<1>10. RestStep
  <2>1. CaptureStep
    BY <1>1, Starting, NotOver, BoundToIs, EstablishStep DEF StartArmed, seen
  <2>2. queue' \subseteq Message
    BY PostIs DEF StartArmed, FlowInv, TypeOK, Task
  <2>3. mirror' \in BOOLEAN /\ left' \in [{"start", "upset"} -> Nat]
    BY FaultIs DEF StartArmed
  <2> QED
    BY <2>1, <2>2, <2>3 DEF RestStep
<1> QED
  BY <1>8, <1>9, <1>10 DEF FlowStep

\* The arming failed and was cleaned up at once.
LEMMA StartArmFailedStep ==
    ASSUME FlowInv, NEW w \in Worker, NEW s \in Session, StartArmFailed(w, s)
    PROVE  FlowStep(w, s)
<1> DEFINE seen == work[w].seen
           armed == Arming(seen)
           st == Go(Go(armed.st, "ARM_FAILED"), "CLEANUP_STARTED")
           failed == [armed EXCEPT !.st = st, !.reason = "OTHER"]
<1>1. At(w, "start", s, "read") /\ seen.st \in Startable
  BY DEF StartArmFailed, Arm
<1>2. armed \in Rows /\ armed.st = "AUTO_ARMING"
  BY <1>1, JobIs, ArmingRow DEF At, Task
<1>3. st = "CLEANUP"
  BY <1>2, StartMoves
<1>4. PICK on \in {mirror, TRUE} :
          \E p \in Probed(on, failed.off) \cup OffFails(on, failed.off) :
              /\ mirror' = p.mirror
              /\ Commit(s, seen, Cleaned(failed, p, TRUE), {"st", "cl"})
              /\ lock' = [of |-> s, live |-> FALSE, status |-> Unlocked(p)]
  <2>1. failed = [armed EXCEPT !.st = Go(Go(@, "ARM_FAILED"), "CLEANUP_STARTED"),
                               !.reason = "OTHER"]
    BY <1>2, SMT DEF Rows
  <2> HIDE DEF armed, failed
  <2>2. Arming(work[w].seen) = armed
    BY DEF armed
  <2> QED
    BY <2>1, <2>2 DEF StartArmFailed
<1> HIDE DEF armed
<1>5. failed \in Rows
  <2>1. "CLEANUP" \in States /\ "OTHER" \in {None, "CANCEL", "EXTERNAL", "OTHER"}
    BY DEF States
  <2> HIDE DEF st
  <2>2. [armed EXCEPT !.st = st, !.reason = "OTHER"] \in Rows
    BY <1>2, <1>3, <2>1, RowMoved
  <2> QED
    BY <2>2
<1> HIDE DEF st, failed
<1>6. on \in BOOLEAN /\ failed.off \in BOOLEAN
  BY <1>5, RowParts DEF FlowInv, TypeOK
<1>7. PICK p \in Probes :
          /\ mirror' = p.mirror
          /\ Commit(s, seen, Cleaned(failed, p, TRUE), {"st", "cl"})
          /\ lock' = [of |-> s, live |-> FALSE, status |-> Unlocked(p)]
  BY <1>4, <1>6, ProbedIs
<1> DEFINE new == Cleaned(failed, p, TRUE)
<1>0. CaptureStep /\ own'.of # s
  <2>1. ses[s].st \notin Terminal
    BY <1>1, Starting, NotOver DEF seen
  <2>2. own' = GivenUp /\ captured \subseteq captured' /\ captured' \subseteq Session
    BY <2>1, BoundToIs DEF StartArmFailed, FlowInv, TypeOK
  <2> QED
    BY <2>2, GiveUpStep
<1>8. new \in Rows /\ (new.st \in Terminal => new.cl = "VERIFIED")
  BY <1>5, CleanedRow
<1> HIDE DEF new
<1>9. RowStep(w, s) /\ LockStep(s) /\ QuarantineStep
  <2>1. Arm(w, s) /\ Commit(s, work[w].seen, new, {"st", "cl"})
    BY <1>7 DEF StartArmFailed, new
  <2> DEFINE status == Unlocked(p)
  <2>2. status \in {"RELEASED", "ACTIVE", "QUARANTINED"} /\ status # "ACTIVE"
    BY DEF Unlocked
  <2>3. lock' = [of |-> s, status |-> status, live |-> FALSE]
    BY <1>7
  <2> HIDE DEF status
  <2> QED
    BY <1>0, <1>8, <2>1, <2>2, <2>3, StartWrites
<1>10. WorkStep(w)
  BY FinishStep DEF StartArmFailed
<1>11. RestStep
  <2>1. mirror' \in BOOLEAN
    BY <1>7 DEF Probes
  <2>2. queue' \subseteq Message /\ left' \in [{"start", "upset"} -> Nat]
    BY FaultIs DEF StartArmFailed, FlowInv, TypeOK
  <2> QED
    BY <1>0, <2>1, <2>2 DEF RestStep
<1> QED
  BY <1>9, <1>10, <1>11 DEF FlowStep

\* The arming failed before the capture was the platform's.
LEMMA StartNotOwnedStep ==
    ASSUME FlowInv, NEW w \in Worker, NEW s \in Session, StartNotOwned(w, s)
    PROVE  FlowStep(w, s)
<1> DEFINE seen == work[w].seen
           armed == Arming(seen)
           st == Go(armed.st, "ARM_FAILED")
           ctx == lock.status # "ACTIVE" \/ seen.ctx
           new == [armed EXCEPT !.st = st, !.cl = "NOT_REQUIRED", !.reason = "OTHER",
                                !.term = FALSE, !.ctx = ctx]
<1>1. At(w, "start", s, "read") /\ seen.st \in Startable /\ seen \in Rows
  BY JobIs DEF StartNotOwned, Arm, At, Task
<1>2. armed \in Rows /\ armed.st = "AUTO_ARMING"
  BY <1>1, ArmingRow
<1>3. st = "ARM_FAILED"
  BY <1>2, StartMoves
<1>4. ctx \in BOOLEAN
  BY <1>1, RowParts
<1>5. Commit(s, seen, new, {"st", "cl"})
  <2>1. new = [Arming(seen) EXCEPT
                  !.st = Go(@, "ARM_FAILED"), !.cl = "NOT_REQUIRED",
                  !.reason = "OTHER", !.term = FALSE,
                  !.ctx = lock.status # "ACTIVE" \/ seen.ctx]
    BY <1>2, SMT DEF Rows
  <2> HIDE DEF new
  <2> QED
    BY <2>1 DEF StartNotOwned
<1> HIDE DEF armed, ctx
<1>6. new.st = st
  BY <1>2, SMT DEF Rows
<1>7. new \in Rows
  <2> HIDE DEF st
  <2> DEFINE one == [armed EXCEPT !.st = st]
             two == [one EXCEPT !.cl = "NOT_REQUIRED"]
             three == [two EXCEPT !.reason = "OTHER"]
             four == [three EXCEPT !.term = FALSE]
  <2>1. new = [four EXCEPT !.ctx = ctx]
    OBVIOUS
  <2>2. one \in Rows
    BY <1>2, <1>3, RowSet DEF States
  <2> HIDE DEF one
  <2>3. two \in Rows
    BY <2>2, RowSet
  <2> HIDE DEF two
  <2>4. three \in Rows
    BY <2>3, RowSet
  <2> HIDE DEF three
  <2>5. four \in Rows
    BY <2>4, RowSet
  <2> HIDE DEF four
  <2>6. [four EXCEPT !.ctx = ctx] \in Rows
    BY <1>4, <2>5, RowSet
  <2> QED
    BY <2>1, <2>6
<1> HIDE DEF new, st
<1>8. RowStep(w, s) /\ LockStep(s) /\ QuarantineStep
  <2>1. Arm(w, s) /\ Commit(s, work[w].seen, new, {"st", "cl"})
    BY <1>5 DEF StartNotOwned
  <2>2. lock' = [of |-> s, status |-> "RELEASED", live |-> FALSE]
    BY DEF StartNotOwned
  <2>3. new.st \notin Terminal
    BY <1>3, <1>6 DEF Terminal
  <2> QED
    BY <1>7, <2>1, <2>2, <2>3, StartWrites
<1>9. WorkStep(w)
  BY FinishStep DEF StartNotOwned
<1>10. RestStep
  <2>1. CaptureStep
    BY <1>1, Starting, NotOver, BoundToIs, EstablishStep DEF StartNotOwned
  <2>2. mirror' \in BOOLEAN /\ queue' \subseteq Message
    BY DEF StartNotOwned, FlowInv, TypeOK
  <2>3. left' \in [{"start", "upset"} -> Nat]
    BY FaultIs DEF StartNotOwned
  <2> QED
    BY <2>1, <2>2, <2>3 DEF RestStep
<1> QED
  BY <1>8, <1>9, <1>10 DEF FlowStep

\* The start is interrupted: the database forgets.
LEMMA StartInterruptedStep ==
    ASSUME FlowInv, NEW w \in Worker, NEW s \in Session, StartInterrupted(w, s)
    PROVE  FlowStep(w, s)
<1>1. At(w, "start", s, "read") /\ work[w].seen.st \in Startable
  BY DEF StartInterrupted, Arm
<1>2. RowStep(w, s) /\ LockStep(s) /\ QuarantineStep
  BY SameRowsAndLock DEF StartInterrupted
<1>3. WorkStep(w)
  BY <1>1, FinishStep, FailingStep DEF StartInterrupted
<1>4. RestStep
  <2>1. CaptureStep
    BY <1>1, Starting, NotOver, BoundToIs, EstablishStep DEF StartInterrupted
  <2>2. mirror' \in BOOLEAN
    BY DEF StartInterrupted, FlowInv, TypeOK
  <2>3. queue' \subseteq Message
    BY <1>1, RetriedIs DEF StartInterrupted, At, Task, FlowInv, TypeOK
  <2>4. left' \in [{"start", "upset"} -> Nat]
    BY FaultIs DEF StartInterrupted
  <2> QED
    BY <2>1, <2>2, <2>3, <2>4 DEF RestStep
<1> QED
  BY <1>2, <1>3, <1>4 DEF FlowStep

\* The row of a session that is closed without a capture.
LEMMA FailedClosedRow ==
    ASSUME NEW row \in Rows, NEW unlocks \in BOOLEAN
    PROVE  LET new == FailedClosed(row, unlocks) IN
           /\ new \in Rows
           /\ new.st = IF row.st = "CREATED" THEN "ARM_FAILED" ELSE row.st
<1> DEFINE st == IF row.st = "CREATED" THEN "ARM_FAILED" ELSE row.st
           one == [row EXCEPT !.st = st]
           two == [one EXCEPT !.cl = "NOT_REQUIRED"]
           three == [two EXCEPT !.reason = "OTHER"]
           new == FailedClosed(row, unlocks)
<1>1. st \in States
  BY RowParts DEF States
<1>2. new = [row EXCEPT !.st = st, !.cl = "NOT_REQUIRED", !.reason = "OTHER",
                        !.term = row.term /\ ~unlocks]
  <2>1. st = IF row.st = "CREATED" THEN Go(Go(row.st, "START_ARMING"), "ARM_FAILED")
             ELSE row.st
    BY StartMoves
  <2> HIDE DEF st
  <2> QED
    BY <2>1, SMT DEF FailedClosed, Rows
<1>3. new = [three EXCEPT !.term = row.term /\ ~unlocks]
  BY <1>2
<1> HIDE DEF st, new
<1>4. new.st = st
  BY <1>2, SMT DEF Rows
<1>5. one \in Rows
  BY <1>1, RowSet
<1> HIDE DEF one
<1>6. two \in Rows
  BY <1>5, RowSet
<1> HIDE DEF two
<1>7. three \in Rows
  BY <1>6, RowSet
<1> HIDE DEF three
<1>8. (row.term /\ ~unlocks) \in BOOLEAN
  BY RowParts
<1>9. new \in Rows
  BY <1>3, <1>7, <1>8, RowSet
<1> QED
  BY <1>4, <1>9 DEF st, new

\* A start that failed ends: over, left to a cleanup, or closed.
LEMMA StartFailsStep ==
    ASSUME FlowInv, NEW w \in Worker, NEW s \in Session, StartFails(w, s)
    PROVE  FlowStep(w, s)
<1> DEFINE closes == ses[s].st \notin Terminal /\ ~Holds(s) /\ s \notin captured
<1>1. CASE closes
  <2> DEFINE new == FailedClosed(ses[s], lock.of = s)
  <2>1. ses[s] \in Rows /\ (lock.of = s) \in BOOLEAN
    BY DEF FlowInv, TypeOK
  <2>2. new \in Rows /\ new.st = IF ses[s].st = "CREATED" THEN "ARM_FAILED" ELSE ses[s].st
    BY <2>1, FailedClosedRow
  <2>3. ses' = [ses EXCEPT ![s] = new] /\ lock' = Unheld(s, "RELEASED")
    BY <1>1 DEF StartFails
  <2> HIDE DEF new
  <2>4. /\ ses' \in [Session -> Rows]
        /\ \A t \in Session \ {s} : ses'[t] = ses[t]
        /\ ses'[s].st = IF ses[s].st = "CREATED" THEN "ARM_FAILED" ELSE ses[s].st
    BY <2>2, <2>3 DEF FlowInv, TypeOK
  <2>5. ses[s].st = "CREATED" => \A v \in Worker \ {w} : ~HoldsRow(v, s)
    <3>1. w = "control"
      BY JobIs, SMT DEF StartFails, At, Task, JobOK, TasksOf, Worker
    <3> QED
      BY <3>1, HolderIs DEF Startable
  <2>6. RowStep(w, s)
    BY <1>1, <2>4, <2>5 DEF RowStep, Terminal
  <2>7. LockStep(s)
    BY <2>3, UnheldLock
  <2>8. QuarantineStep
    BY <1>1, <2>3 DEF QuarantineStep, Quarantined, Unheld
  <2>9. WorkStep(w)
    BY FinishStep DEF StartFails
  <2>10. RestStep
    BY <1>1, SameCapture DEF StartFails, RestStep, FlowInv, TypeOK
  <2> QED
    BY <2>6, <2>7, <2>8, <2>9, <2>10 DEF FlowStep
<1>2. CASE ~closes
  <2>1. UNCHANGED rows /\ queue' \subseteq Message
    BY <1>2, PostIs DEF StartFails, rows, Task, FlowInv, TypeOK
  <2>2. RowStep(w, s) /\ LockStep(s) /\ QuarantineStep
    BY <2>1, SameRowsAndLock
  <2>3. WorkStep(w)
    BY FinishStep DEF StartFails
  <2>4. RestStep
    BY <2>1, SameCapture DEF StartFails, RestStep, FlowInv, TypeOK
  <2> QED
    BY <2>2, <2>3, <2>4 DEF FlowStep
<1> QED
  BY <1>1, <1>2

\* All steps of a start.
LEMMA StartStepKeeps ==
    ASSUME FlowInv, NEW w \in Worker, NEW s \in Session, StartStep(w, s)
    PROVE  FlowStep(w, s)
BY StartRefusedStep, StartBusyStep, StartArmedStep, StartArmFailedStep,
   StartNotOwnedStep, StartInterruptedStep, StartFailsStep DEF StartStep

-----------------------------------------------------------------------------
(***************************************************************************)
(* The steps of a watcher and of a cleanup.                                *)
(***************************************************************************)
\* A transaction that cleans up the session writes its row alone, and gives up
\* its lock, or quarantines the device.
LEMMA CommitCleanupStep ==
    ASSUME FlowInv, NEW w \in Worker, NEW s \in Session, NEW seen \in Rows,
           NEW row \in Rows, NEW probe \in Probes,
           CommitCleanup(s, seen, row, probe), own'.of # s \/ MockOvertaken(s),
           \A v \in Worker \ {w} : ~HoldsRow(v, s)
    PROVE  RowStep(w, s) /\ LockStep(s) /\ QuarantineStep /\ mirror' \in BOOLEAN
<1> DEFINE new == Cleaned(row, probe, lock.of = s)
<1>1. /\ new \in Rows
      /\ new.st \in Terminal => new.cl = "VERIFIED"
      /\ probe.quiet => new.cl = "VERIFIED"
  BY CleanedRow
<1>2. Commit(s, seen, new, {"st", "cl"}) /\ lock' = Unheld(s, Unlocked(probe))
      /\ mirror' = probe.mirror
  BY DEF CommitCleanup
<1> HIDE DEF new
<1>3. /\ ses' \in [Session -> Rows]
      /\ \A t \in Session \ {s} : ses'[t] = ses[t]
      /\ ses'[s].st = new.st /\ ses'[s].cl = new.cl
  BY <1>1, <1>2, CommitRow DEF FlowInv, TypeOK
<1>4. RowStep(w, s)
  <2>1. ~Holds(s)'
    BY <1>2 DEF Holds, Unheld, Unlocked
  <2> QED
    BY <1>1, <1>3, <2>1 DEF RowStep
<1>5. LockStep(s)
  <2>1. Unlocked(probe) \in {"RELEASED", "EXPIRED", "QUARANTINED"}
    BY DEF Unlocked
  <2> QED
    BY <1>2, <2>1, UnheldLock
<1>6. QuarantineStep
  <2> SUFFICES ASSUME NEW t \in captured, Quarantined(t), lock' # lock
               PROVE  Lifted(t) /\ ses'[t].cl = "VERIFIED"
    BY DEF QuarantineStep
  <2>1. t = s /\ lock' = [of |-> s, status |-> Unlocked(probe), live |-> FALSE]
    BY <1>2 DEF Quarantined, Unheld
  <2>2. probe.quiet /\ Unlocked(probe) = "RELEASED"
    BY <2>1 DEF Quarantined, Unlocked
  <2> QED
    BY <1>1, <1>3, <2>1, <2>2 DEF Lifted
<1>7. mirror' \in BOOLEAN
  BY <1>2 DEF Probes
<1> QED
  BY <1>4, <1>5, <1>6, <1>7

\* A cleanup, whatever it probes.
LEMMA CleanupStep ==
    ASSUME FlowInv, NEW w \in Worker, NEW s \in Session, NEW seen \in Rows,
           NEW row \in Rows, Cleanup(s, seen, row), own'.of # s \/ MockOvertaken(s),
           \A v \in Worker \ {w} : ~HoldsRow(v, s)
    PROVE  /\ RowStep(w, s) /\ LockStep(s) /\ QuarantineStep /\ mirror' \in BOOLEAN
           /\ left' \in [{"start", "upset"} -> Nat]
<1>1. Probed(mirror, row.off) \cup OffFails(mirror, row.off) \subseteq Probes
  BY ProbedIs, RowParts DEF FlowInv, TypeOK
<1>2. PICK probe \in Probes : CommitCleanup(s, seen, row, probe)
  BY <1>1 DEF Cleanup
<1>3. left' \in [{"start", "upset"} -> Nat]
  BY FaultIs DEF Cleanup
<1> QED
  BY <1>2, <1>3, CommitCleanupStep

\* A cleanup that raises writes nothing.
LEMMA RaisesStep ==
    ASSUME FlowInv, NEW w \in Worker, NEW s \in Session, NEW row \in Rows, CleanupRaises(row)
    PROVE  /\ RowStep(w, s) /\ LockStep(s) /\ QuarantineStep /\ mirror' \in BOOLEAN
           /\ UNCHANGED capture
<1>1. Probed(mirror, row.off) \subseteq Probes
  BY ProbedIs, RowParts DEF FlowInv, TypeOK
<1>2. mirror' \in BOOLEAN
  BY <1>1 DEF CleanupRaises, Probes
<1> QED
  BY <1>2, SameRowsAndLock DEF CleanupRaises

\* A watcher that ends a call or a watch holds the row; it is alone.
LEMMA Closer ==
    ASSUME FlowInv, NEW w \in Worker, NEW s \in Session,
           NEW step \in {"end", "timeout"}, At(w, "watch", s, step)
    PROVE  /\ work[w].seen \in Rows
           /\ work[w].seen.st \in {"WATCHING", "ACTIVITY_DETECTED", "CAPTURING"}
           /\ step = "end" => work[w].seen.st = "CAPTURING"
           /\ HoldsRow(w, s)
           /\ \A v \in Worker \ {w} : ~HoldsRow(v, s)
<1>1. work[w] # Idle /\ work[w].seen \in Rows /\ JobOK(w, work[w])
  BY JobIs DEF At, Task
<1>2. HoldsRow(w, s)
  BY <1>1, SMT DEF At, HoldsRow, Writes
<1> QED
  BY <1>1, <1>2, OneHolder DEF At, JobOK

\* A watcher takes the capture over, or cannot.
LEMMA WatchConnectsStep ==
    ASSUME FlowInv, NEW w \in Worker, NEW s \in Session, WatchConnects(w, s)
    PROVE  FlowStep(w, s)
<1>1. work[w].task = "watch" /\ work[w].s = s
  BY DEF WatchConnects, At
<1>2. RowStep(w, s) /\ LockStep(s) /\ QuarantineStep
  BY SameRowsAndLock DEF WatchConnects
<1>3. mirror' \in BOOLEAN /\ queue' \subseteq Message /\ left' \in [{"start", "upset"} -> Nat]
  BY DEF WatchConnects, FlowInv, TypeOK
<1>4. CASE lock.status # "ACTIVE" \/ (lock.live /\ lock.of # s)
  <2>1. Finish(w) /\ UNCHANGED capture
    BY <1>4 DEF WatchConnects
  <2> QED
    BY <1>2, <1>3, <2>1, FinishStep, SameCapture DEF FlowStep, RestStep
<1>5. CASE ~(lock.status # "ACTIVE" \/ (lock.live /\ lock.of # s))
  <2>1. lock.of \in Session /\ ses[lock.of].st \notin Terminal
    BY <1>5 DEF FlowInv, LockInv, ActiveInv, Holds
  <2>2. Establish(lock.of) \/ EstablishFails(lock.of)
    BY <1>5 DEF WatchConnects
  <2>3. CaptureStep
    BY <2>1, <2>2, EstablishStep
  <2>4. WorkStep(w)
    BY <1>1, <1>5, <2>1, BoundStep, FinishStep DEF WatchConnects
  <2> QED
    BY <1>2, <1>3, <2>3, <2>4 DEF FlowStep, RestStep
<1> QED
  BY <1>4, <1>5

\* A watcher leaves, or dies.
LEMMA WatchLeavesStep ==
    ASSUME FlowInv, NEW w \in Worker, NEW s \in Session,
           WatchLeaves(w, s) \/ WatchDies(w, s)
    PROVE  FlowStep(w, s)
<1>1. work[w].task = "watch" /\ work[w].s = s
  BY DEF WatchLeaves, WatchDies, At
<1>2. RowStep(w, s) /\ LockStep(s) /\ QuarantineStep
  BY SameRowsAndLock DEF WatchLeaves, WatchDies
<1>3. WorkStep(w)
  BY FinishStep DEF WatchLeaves, WatchDies
<1>4. queue' \subseteq Message
  BY <1>1, RetriedIs DEF WatchLeaves, WatchDies, Task, FlowInv, TypeOK
<1>5. left' \in [{"start", "upset"} -> Nat]
  BY FaultIs DEF WatchLeaves, WatchDies, NoFault
<1>6. RestStep
  BY <1>4, <1>5, SameCapture DEF WatchLeaves, WatchDies, RestStep, FlowInv, TypeOK
<1> QED
  BY <1>2, <1>3, <1>6 DEF FlowStep

\* A short transaction of the loop: no start holds a row that is listening.
LEMMA WatchHearsStep ==
    ASSUME FlowInv, NEW w \in Worker, NEW s \in Session, WatchHears(w, s)
    PROVE  FlowStep(w, s)
<1> DEFINE st == ses[s].st
<1>1. st \in {"WATCHING", "ACTIVITY_DETECTED"}
  BY DEF WatchHears
<1>2. w = "watch" /\ work[w].task = "watch" /\ work[w].s = s
  BY JobIs, SMT DEF WatchHears, At, Task, JobOK, TasksOf, Worker
<1>3. PICK new \in {"ACTIVITY_DETECTED", "WATCHING", "CAPTURING"} :
          ses' = [ses EXCEPT ![s] = [ses[s] EXCEPT !.st = new]]
  <2>1. CASE /\ st = "WATCHING"
             /\ ses' = [ses EXCEPT ![s].st = Go(@, "ACTIVITY")]
    <3>1. ses' = [ses EXCEPT ![s] = [ses[s] EXCEPT !.st = Go(ses[s].st, "ACTIVITY")]]
      BY <2>1
    <3>2. Go(ses[s].st, "ACTIVITY") = "ACTIVITY_DETECTED"
      BY <2>1, WatchMoves
    <3> QED
      BY <3>1, <3>2
  <2>2. CASE /\ st = "ACTIVITY_DETECTED"
             /\ ses' = [ses EXCEPT ![s].st = Go(@, "WATCH_STARTED")]
    <3>1. ses' = [ses EXCEPT ![s] = [ses[s] EXCEPT !.st = Go(ses[s].st, "WATCH_STARTED")]]
      BY <2>2
    <3>2. Go(ses[s].st, "WATCH_STARTED") = "WATCHING"
      BY <2>2, WatchMoves
    <3> QED
      BY <3>1, <3>2
  <2>3. CASE /\ st = "ACTIVITY_DETECTED"
             /\ ses' = [ses EXCEPT ![s].st = Go(Go(@, "CALL_BOUND"), "CAPTURE_STARTED")]
    <3>1. ses' = [ses EXCEPT ![s] = [ses[s] EXCEPT !.st = Go(Go(ses[s].st, "CALL_BOUND"), "CAPTURE_STARTED")]]
      BY <2>3
    <3>2. Go(Go(ses[s].st, "CALL_BOUND"), "CAPTURE_STARTED") = "CAPTURING"
      BY <2>3, WatchMoves
    <3> QED
      BY <3>1, <3>2
  <2> QED
    BY <2>1, <2>2, <2>3 DEF WatchHears
<1>4. /\ ses' \in [Session -> Rows]
      /\ \A t \in Session \ {s} : ses'[t] = ses[t]
      /\ ses'[s].st = new
  <2> DEFINE row == [ses[s] EXCEPT !.st = new]
  <2>1. ses[s] \in Rows
    BY DEF FlowInv, TypeOK
  <2>2. row \in Rows
    BY <2>1, RowSet DEF States
  <2>3. row.st = new
    BY <2>1, SMT DEF Rows
  <2>4. ses' = [ses EXCEPT ![s] = row]
    BY <1>3
  <2> HIDE DEF row
  <2> QED
    BY <2>2, <2>3, <2>4 DEF FlowInv, TypeOK
<1>5. RowStep(w, s)
  <2>1. \A v \in Worker \ {w} : ~HoldsRow(v, s)
    BY <1>1, <1>2, HolderIs DEF Startable
  <2> QED
    BY <1>4, <2>1 DEF RowStep, Terminal
<1>6. LockStep(s) /\ QuarantineStep
  <2>1. UNCHANGED lock
    BY DEF WatchHears
  <2>2. ses'[s].st \in LockHolding
    BY <1>4 DEF LockHolding, Listening
  <2> QED
    BY <2>1, <2>2, SameLock
<1>7. WorkStep(w)
  <2>1. UNCHANGED work \/ Loop(w, TRUE)
    BY DEF WatchHears
  <2>2. CASE UNCHANGED work
    <3>1. work[w].step = "loop" /\ JobOK(w, work[w])
      BY JobIs DEF WatchHears, At, Task
    <3> QED
      BY <1>2, <2>2, <3>1 DEF WorkStep, Writes, FlowInv, TypeOK
  <2> QED
    BY <1>2, <2>1, <2>2, LoopStep
<1>8. RestStep
  BY SameCapture DEF WatchHears, RestStep, FlowInv, TypeOK
<1> QED
  BY <1>5, <1>6, <1>7, <1>8 DEF FlowStep

\* The watch goes on after a call.
LEMMA WatchResumesStep ==
    ASSUME FlowInv, NEW w \in Worker, NEW s \in Session, WatchResumes(w, s)
    PROVE  FlowStep(w, s)
<1> DEFINE seen == work[w].seen
           rearmed == Go(Go(Ended(seen.st), "ENHANCEMENT_STARTED"), "ENHANCEMENT_ARMED")
<1>1. /\ seen \in Rows /\ seen.st = "CAPTURING"
      /\ \A v \in Worker \ {w} : ~HoldsRow(v, s)
  BY Closer DEF WatchResumes
<1>2. Ended(seen.st) = "POST_CAPTURE"
  BY <1>1, WatchMoves, CallMoves DEF Ended
<1>3. /\ Go(Ended(seen.st), "WATCH_STARTED") = "WATCHING"
      /\ Go(rearmed, "WATCH_STARTED") = "WATCHING"
  BY <1>2, StartMoves, CallMoves
<1>4. \/ Commit(s, seen, [seen EXCEPT !.st = Go(Ended(seen.st), "WATCH_STARTED")], {"st"})
      \/ Commit(s, seen, [seen EXCEPT !.st = Go(rearmed, "WATCH_STARTED"),
                                      !.cl = "REQUIRED"], {"st", "cl"})
  <2>1. [seen EXCEPT !.st = Go(Ended(@), "WATCH_STARTED")]
          = [seen EXCEPT !.st = Go(Ended(seen.st), "WATCH_STARTED")]
    BY <1>1, SMT DEF Rows
  <2> QED
    BY <2>1 DEF WatchResumes
<1> DEFINE one == [seen EXCEPT !.st = "WATCHING"]
           two == [seen EXCEPT !.st = "WATCHING", !.cl = "REQUIRED"]
<1>5. one \in Rows /\ one.st = "WATCHING"
  <2>1. one.st = "WATCHING"
    BY <1>1, SMT DEF Rows
  <2> HIDE DEF seen
  <2> QED
    BY <1>1, <2>1, RowSet DEF States
<1>6. two \in Rows /\ two.st = "WATCHING"
  <2>1. two.st = "WATCHING"
    BY <1>1, SMT DEF Rows
  <2>2. two = [one EXCEPT !.cl = "REQUIRED"]
    OBVIOUS
  <2> HIDE DEF seen, one
  <2> QED
    BY <1>5, <2>1, <2>2, RowSet
<1>7. Commit(s, seen, one, {"st"}) \/ Commit(s, seen, two, {"st", "cl"})
  BY <1>3, <1>4
<1> HIDE DEF one, two, seen, rearmed
<1>8. /\ ses' \in [Session -> Rows]
      /\ \A t \in Session \ {s} : ses'[t] = ses[t]
      /\ ses'[s].st = "WATCHING"
  BY <1>1, <1>5, <1>6, <1>7, CommitRow DEF FlowInv, TypeOK
<1>9. RowStep(w, s)
  BY <1>1, <1>8 DEF RowStep, Terminal
<1>10. LockStep(s) /\ QuarantineStep
  <2>1. "WATCHING" \in LockHolding
    BY DEF LockHolding, Listening
  <2> QED
    BY <1>8, <2>1, SameLock DEF WatchResumes
<1>11. WorkStep(w)
  BY LoopStep DEF WatchResumes, At
<1>12. RestStep
  BY SameCapture DEF WatchResumes, RestStep, FlowInv, TypeOK
<1> QED
  BY <1>9, <1>10, <1>11, <1>12 DEF FlowStep

\* The rows a watcher cleans up.
LEMMA ClosingRow ==
    ASSUME NEW seen \in Rows, NEW step \in {"end", "timeout"},
           seen.st \in {"WATCHING", "ACTIVITY_DETECTED", "CAPTURING"},
           step = "end" => seen.st = "CAPTURING",
           NEW row \in Closing(step, seen)
    PROVE  row \in Rows
<1> DEFINE closed(st, reason) ==
             [seen EXCEPT !.st = Go(st, "CLEANUP_STARTED"), !.reason = reason]
<1>1. ASSUME NEW st, NEW reason \in {"OTHER", "EXTERNAL"},
             Go(st, "CLEANUP_STARTED") = "CLEANUP"
      PROVE  closed(st, reason) \in Rows
  <2>1. "CLEANUP" \in States /\ reason \in {None, "CANCEL", "EXTERNAL", "OTHER"}
    BY DEF States
  <2> QED
    BY <1>1, <2>1, RowMoved
<1>2. CASE step = "timeout"
  <2>1. row = closed(TimedOut(seen.st), "OTHER")
    BY <1>2 DEF Closing
  <2>2. Go(TimedOut(seen.st), "CLEANUP_STARTED") = "CLEANUP"
    BY WatchMoves, CallMoves DEF TimedOut
  <2> HIDE DEF closed
  <2> QED
    BY <1>1, <2>1, <2>2
<1>3. CASE step = "end"
  <2> DEFINE refused == Go(Go(Ended(seen.st), "ENHANCEMENT_STARTED"), "ARM_FAILED")
  <2>1. row \in {closed(Ended(seen.st), "OTHER"), closed(Ended(seen.st), "EXTERNAL"),
                 closed(refused, "OTHER")}
    BY <1>3 DEF Closing
  <2>2. /\ Go(Ended(seen.st), "CLEANUP_STARTED") = "CLEANUP"
        /\ Go(refused, "CLEANUP_STARTED") = "CLEANUP"
    BY <1>3, StartMoves, WatchMoves, CallMoves DEF Ended
  <2> HIDE DEF closed, refused
  <2> QED
    BY <1>1, <2>1, <2>2
<1> QED
  BY <1>2, <1>3

\* A watcher that cleans up.
LEMMA WatchClosesStep ==
    ASSUME FlowInv, NEW w \in Worker, NEW s \in Session, WatchCloses(w, s)
    PROVE  FlowStep(w, s)
<1>1. PICK step \in {"end", "timeout"} :
          /\ At(w, "watch", s, step)
          /\ \E row \in Closing(step, work[w].seen) : Cleanup(s, work[w].seen, row)
          /\ own' = GivenUp
          /\ IF step = "end" THEN Loop(w, FALSE) ELSE Finish(w)
          /\ UNCHANGED <<captured, queue>>
  BY DEF WatchCloses
<1>2. work[w].seen \in Rows /\ \A v \in Worker \ {w} : ~HoldsRow(v, s)
  BY <1>1, Closer
<1>3. PICK row \in Rows : Cleanup(s, work[w].seen, row)
  BY <1>1, Closer, ClosingRow
<1>4. CaptureStep /\ own'.of # s
  BY <1>1, GiveUpStep DEF FlowInv, TypeOK
<1>5. /\ RowStep(w, s) /\ LockStep(s) /\ QuarantineStep /\ mirror' \in BOOLEAN
      /\ left' \in [{"start", "upset"} -> Nat]
  BY <1>2, <1>3, <1>4, CleanupStep
<1>6. WorkStep(w)
  BY <1>1, LoopStep, FinishStep DEF At
<1>7. RestStep
  BY <1>1, <1>4, <1>5 DEF RestStep, FlowInv, TypeOK
<1> QED
  BY <1>5, <1>6, <1>7 DEF FlowStep

\* A watcher that cannot clean up.
LEMMA WatchCloseRaisesStep ==
    ASSUME FlowInv, NEW w \in Worker, NEW s \in Session, WatchCloseRaises(w, s)
    PROVE  FlowStep(w, s)
<1>1. PICK step \in {"end", "timeout"} :
          /\ At(w, "watch", s, step)
          /\ \/ UNCHANGED queue /\ NoFault
             \/ queue' \in Retried(w) /\ Fault
          /\ \E row \in Closing(step, work[w].seen) : CleanupRaises(row)
          /\ Finish(w)
  BY DEF WatchCloseRaises
<1>2. PICK row \in Rows : CleanupRaises(row)
  BY <1>1, Closer, ClosingRow
<1>3. /\ RowStep(w, s) /\ LockStep(s) /\ QuarantineStep /\ mirror' \in BOOLEAN
      /\ UNCHANGED capture
  BY <1>2, RaisesStep
<1>4. WorkStep(w)
  BY <1>1, FinishStep
<1>5. queue' \subseteq Message
  BY <1>1, RetriedIs DEF At, Task, FlowInv, TypeOK
<1>6. left' \in [{"start", "upset"} -> Nat]
  BY <1>1, FaultIs
<1>7. RestStep
  BY <1>3, <1>5, <1>6, SameCapture DEF RestStep
<1> QED
  BY <1>3, <1>4, <1>7 DEF FlowStep

\* All steps of a watcher that are no short transactions.
LEMMA WatchStepKeeps ==
    ASSUME FlowInv, NEW w \in Worker, NEW s \in Session, WatchStep(w, s)
    PROVE  FlowStep(w, s)
BY WatchConnectsStep, WatchLeavesStep, WatchResumesStep, WatchClosesStep,
   WatchCloseRaisesStep DEF WatchStep

\* A cleanup holds the row it may clean; it is alone.
LEMMA Cleaner ==
    ASSUME FlowInv, NEW w \in Worker, NEW s \in Session, At(w, "clean", s, "read")
    PROVE  /\ work[w].seen \in Rows /\ Cleaning(work[w].seen) \in Rows
           /\ MayClean(work[w].seen) => \A v \in Worker \ {w} : ~HoldsRow(v, s)
<1> DEFINE seen == work[w].seen
           reason == IF seen.st \in ToBeCleaned \cup {"CLEANUP"} \/ seen.reason # None
                     THEN seen.reason ELSE "OTHER"
<1>1. work[w] # Idle /\ seen \in Rows
  BY JobIs DEF At, Task
<1>2. MayClean(seen) => HoldsRow(w, s)
  BY <1>1, SMT DEF At, HoldsRow, Writes
<1>3. reason \in {None, "CANCEL", "EXTERNAL", "OTHER"} /\ "CLEANUP" \in States
  BY <1>1, RowParts DEF States
<1>4. Cleaning(seen) = [seen EXCEPT !.st = "CLEANUP", !.reason = reason]
  BY <1>1, SMT DEF Cleaning, Rows
<1> HIDE DEF reason
<1>5. Cleaning(seen) \in Rows
  <2> HIDE DEF seen
  <2>1. [seen EXCEPT !.st = "CLEANUP", !.reason = reason] \in Rows
    BY <1>1, <1>3, RowMoved
  <2> QED
    BY <1>4, <2>1
<1> QED
  BY <1>1, <1>2, <1>5, OneHolder

\* All steps of a cleanup.
LEMMA CleanStepKeeps ==
    ASSUME FlowInv, NEW w \in Worker, NEW s \in Session, CleanStep(w, s)
    PROVE  FlowStep(w, s)
<1>1. CASE CleanSkips(w, s)
  <2>1. RowStep(w, s) /\ LockStep(s) /\ QuarantineStep
    BY <1>1, SameRowsAndLock DEF CleanSkips
  <2> QED
    BY <1>1, <2>1, FinishStep, SameCapture DEF CleanSkips, FlowStep, RestStep, FlowInv, TypeOK
<1>2. CASE Cleans(w, s)
  <2>1. At(w, "clean", s, "read") /\ MayClean(work[w].seen)
        /\ Cleanup(s, work[w].seen, Cleaning(work[w].seen))
    BY <1>2 DEF Cleans
  <2>2. CaptureStep /\ own'.of # s
    <3>1. captured' = captured /\ own' = IF s \in captured THEN GivenUp ELSE own
      BY <1>2 DEF Cleans
    <3>2. CASE s \in captured
      BY <3>1, <3>2, GiveUpStep DEF FlowInv, TypeOK
    <3>3. CASE s \notin captured
      <4>1. own.of # s
        BY <3>3, FlowAssumption DEF FlowInv, OwnerInv, None
      <4> QED
        BY <3>1, <3>3, <4>1, SameCapture DEF capture
    <3> QED
      BY <3>2, <3>3
  <2>3. /\ RowStep(w, s) /\ LockStep(s) /\ QuarantineStep /\ mirror' \in BOOLEAN
        /\ left' \in [{"start", "upset"} -> Nat]
    BY <2>1, <2>2, Cleaner, CleanupStep
  <2>4. WorkStep(w)
    BY <1>2, FinishStep DEF Cleans
  <2>5. RestStep
    BY <1>2, <2>2, <2>3 DEF Cleans, RestStep, FlowInv, TypeOK
  <2> QED
    BY <2>3, <2>4, <2>5 DEF FlowStep
<1>3. CASE CleanRaises(w, s)
  <2>1. At(w, "clean", s, "read") /\ CleanupRaises(Cleaning(work[w].seen))
    BY <1>3 DEF CleanRaises
  <2>2. /\ RowStep(w, s) /\ LockStep(s) /\ QuarantineStep /\ mirror' \in BOOLEAN
        /\ UNCHANGED capture
    BY <2>1, Cleaner, RaisesStep
  <2>3. WorkStep(w)
    BY <1>3, FinishStep DEF CleanRaises
  <2>4. queue' \subseteq Message
    BY <1>3, <2>1, RetriedIs DEF CleanRaises, At, Task, FlowInv, TypeOK
  <2>5. left' \in [{"start", "upset"} -> Nat]
    BY <1>3, FaultIs DEF CleanRaises
  <2>6. RestStep
    BY <2>2, <2>4, <2>5, SameCapture DEF RestStep
  <2> QED
    BY <2>2, <2>3, <2>6 DEF FlowStep
<1> QED
  BY <1>1, <1>2, <1>3 DEF CleanStep

-----------------------------------------------------------------------------
(***************************************************************************)
(* The steps of a cancellation and of the reconciler.                      *)
(***************************************************************************)
\* A cancellation leads to the cleanup, where the lock may still be held.
LEMMA CancelTxStep ==
    ASSUME FlowInv, NEW w \in Worker, NEW s \in Session, NEW seen \in Rows,
           NEW q \in SUBSET Message, ~Holding(s), CancelTx(s, seen, q)
    PROVE  RowStep(w, s) /\ LockStep(s) /\ QuarantineStep /\ RestStep
<1>1. UNCHANGED <<lock, capture, mirror, left>>
  BY DEF CancelTx
<1>2. RestStep
  BY <1>1, PostIs, SameCapture DEF CancelTx, RestStep, FlowInv, TypeOK, Task
<1>3. CASE ~IsClean(seen) /\ Can(seen.st, "CANCEL_REQUESTED")
  <2> DEFINE st == Go(seen.st, "CANCEL_REQUESTED")
             new == [seen EXCEPT !.st = st, !.reason = "CANCEL"]
  <2>1. st = "CLEANUP"
    BY <1>3, RowParts, CancelMoves
  <2>2. Commit(s, seen, new, {"st"})
    BY <1>3, SMT DEF CancelTx, Rows
  <2> HIDE DEF st
  <2>3. new \in Rows /\ new.st = "CLEANUP"
    <3>1. st \in States /\ "CANCEL" \in {None, "CANCEL", "EXTERNAL", "OTHER"}
      BY <2>1 DEF States
    <3> QED
      BY <2>1, <3>1, RowMoved
  <2> HIDE DEF new
  <2>4. /\ ses' \in [Session -> Rows]
        /\ \A t \in Session \ {s} : ses'[t] = ses[t]
        /\ ses'[s].st = "CLEANUP"
    BY <2>2, <2>3, CommitRow DEF FlowInv, TypeOK
  <2>5. RowStep(w, s)
    BY <2>4, NoHolder DEF RowStep, Terminal
  <2>6. LockStep(s) /\ QuarantineStep
    BY <1>1, <2>4, SameLock DEF LockHolding
  <2> QED
    BY <1>2, <2>5, <2>6
<1>4. CASE ~(~IsClean(seen) /\ Can(seen.st, "CANCEL_REQUESTED"))
  <2>1. UNCHANGED rows
    BY <1>1, <1>4 DEF CancelTx, rows
  <2> QED
    BY <1>2, <2>1, SameRowsAndLock
<1> QED
  BY <1>3, <1>4

\* An orphan.
LEMMA OrphanedRow ==
    ASSUME NEW seen \in Rows, Can(seen.st, "LEASE_EXPIRED")
    PROVE  Orphaned(seen) \in Rows /\ Orphaned(seen).st = "ORPHANED"
<1> DEFINE st == Go(seen.st, "LEASE_EXPIRED")
           new == [seen EXCEPT !.st = st, !.reason = "OTHER"]
<1>1. st = "ORPHANED"
  BY RowParts, ExpiryMoves
<1>2. Orphaned(seen) = new
  BY SMT DEF Orphaned, Rows
<1> HIDE DEF st
<1>3. new \in Rows /\ new.st = st
  <2>1. st \in States /\ "OTHER" \in {None, "CANCEL", "EXTERNAL", "OTHER"}
    BY <1>1 DEF States
  <2> QED
    BY <2>1, RowMoved
<1> QED
  BY <1>1, <1>2, <1>3

\* What the reconciler writes of what it judged.
LEMMA MarkStep ==
    ASSUME FlowInv, NEW w \in Worker, NEW s \in Session, NEW seen \in Rows,
           NEW path \in {"lapsed", "orphan"}, path = "orphan" => ~HoldsLive(s),
           ~Holding(s), Mark(s, path, seen)
    PROVE  RowStep(w, s) /\ LockStep(s) /\ QuarantineStep
<1>1. RowStep(w, s)
  <2>1. CASE Can(seen.st, "LEASE_EXPIRED")
    <3>1. Orphaned(seen) \in Rows /\ Orphaned(seen).st = "ORPHANED"
      BY <2>1, OrphanedRow
    <3>2. Commit(s, seen, Orphaned(seen), {"st"})
      BY <2>1 DEF Mark
    <3>3. /\ ses' \in [Session -> Rows]
          /\ \A t \in Session \ {s} : ses'[t] = ses[t]
          /\ ses'[s].st = "ORPHANED"
      BY <3>1, <3>2, CommitRow DEF FlowInv, TypeOK
    <3> QED
      BY <3>3, NoHolder DEF RowStep, Terminal
  <2>2. CASE ~Can(seen.st, "LEASE_EXPIRED")
    BY <2>2, SameRows DEF Mark
  <2> QED
    BY <2>1, <2>2
<1>2. CASE Expires(s, path)
  <2>1. lock' = Unheld(s, "EXPIRED")
    BY <1>2 DEF Mark
  <2>2. LockStep(s)
    BY <2>1, UnheldLock
  <2>3. QuarantineStep
    BY <1>2 DEF QuarantineStep, Quarantined, Expires, Holds
  <2> QED
    BY <1>1, <2>2, <2>3
<1>3. CASE ~Expires(s, path)
  <2>1. UNCHANGED lock /\ ~HoldsLive(s)
    BY <1>3 DEF Mark, Expires, HoldsLive
  <2> QED
    BY <1>1, <2>1, SameLock
<1> QED
  BY <1>2, <1>3

\* A session without a capture is cleaned up on the spot.
LEMMA RecoverByMockStep ==
    ASSUME FlowInv, NEW w \in Worker, NEW s \in Session, NEW seen \in Rows,
           seen.st \in ToBeCleaned \/ Can(seen.st, "LEASE_EXPIRED"),
           own'.of # s \/ MockOvertaken(s), ~Holding(s), RecoverByMock(s, seen)
    PROVE  RowStep(w, s) /\ LockStep(s) /\ QuarantineStep /\ mirror' \in BOOLEAN
<1> DEFINE row == IF seen.st \in ToBeCleaned THEN seen ELSE Orphaned(seen)
           probe == Probe(mirror, row.off, TRUE)
<1>1. row \in Rows
  BY OrphanedRow
<1>2. CommitCleanup(s, seen, row, probe)
  BY DEF RecoverByMock
<1> HIDE DEF row
<1>3. probe \in Probes
  <2>1. mirror \in BOOLEAN /\ row.off \in BOOLEAN /\ TRUE \in BOOLEAN
    BY <1>1, RowParts DEF FlowInv, TypeOK
  <2> QED
    BY <2>1, Zenon DEF Probe, Probes
<1> HIDE DEF probe
<1> QED
  BY <1>1, <1>2, <1>3, NoHolder, CommitCleanupStep

\* The watchdog closes a session that was never started.
LEMMA CloseStaleStep ==
    ASSUME FlowInv, NEW w \in Worker, NEW s \in Session, NEW seen \in Rows,
           seen.st = "CREATED", s \notin captured \/ StaleWatchdog(s),
           ~Holding(s), CloseStale(s, seen)
    PROVE  RowStep(w, s) /\ LockStep(s) /\ QuarantineStep
<1> DEFINE new == FailedClosed(seen, lock.of = s)
<1>1. new \in Rows /\ new.st = "ARM_FAILED"
  BY FailedClosedRow
<1>2. Commit(s, seen, new, {"st", "cl"}) /\ lock' = Unheld(s, "RELEASED")
  BY DEF CloseStale
<1> HIDE DEF new
<1>3. /\ ses' \in [Session -> Rows]
      /\ \A t \in Session \ {s} : ses'[t] = ses[t]
      /\ ses'[s].st = "ARM_FAILED"
  BY <1>1, <1>2, CommitRow DEF FlowInv, TypeOK
<1>4. RowStep(w, s)
  BY <1>3, NoHolder DEF RowStep, Terminal
<1>5. LockStep(s)
  BY <1>2, UnheldLock
<1>6. QuarantineStep
  <2> SUFFICES ASSUME NEW t \in captured, Quarantined(t), lock' # lock
               PROVE  Lifted(t) /\ StaleWatchdog(t)
    BY DEF QuarantineStep
  <2>1. t = s /\ lock' = [of |-> s, status |-> "RELEASED", live |-> FALSE]
    BY <1>2 DEF Quarantined, Unheld
  <2> QED
    BY <2>1 DEF Lifted
<1> QED
  BY <1>4, <1>5, <1>6

\* Every transaction of the reconciler.
LEMMA ReconcileTxStep ==
    ASSUME FlowInv, NEW w \in Worker, NEW s \in Session, NEW seen \in Rows, NEW path,
           path = "orphan" => ~HoldsLive(s),
           path = "mock" => /\ seen.st \in ToBeCleaned \/ Can(seen.st, "LEASE_EXPIRED")
                            /\ s \notin captured \/ MockOvertaken(s),
           path = "stale" => seen.st = "CREATED" /\ (s \notin captured \/ StaleWatchdog(s)),
           ~Holding(s), ReconcileTx(s, path, seen)
    PROVE  RowStep(w, s) /\ LockStep(s) /\ QuarantineStep /\ RestStep
<1>1. UNCHANGED capture /\ UNCHANGED left
  BY DEF ReconcileTx
<1>2. CaptureStep /\ left' \in [{"start", "upset"} -> Nat]
  BY <1>1, SameCapture DEF FlowInv, TypeOK
<1>3. CASE path \in {"lapsed", "orphan"} /\ Mark(s, path, seen)
  <2>1. mirror' \in BOOLEAN /\ queue' \subseteq Message
    BY <1>3, PostIs DEF Mark, Task, FlowInv, TypeOK
  <2> QED
    BY <1>2, <1>3, <2>1, MarkStep DEF RestStep
<1>4. CASE path = "mock" /\ RecoverByMock(s, seen)
  <2>1. queue' \subseteq Message
    BY <1>4 DEF RecoverByMock, FlowInv, TypeOK
  <2>2. own'.of # s \/ MockOvertaken(s)
    BY <1>1, <1>4, FlowAssumption DEF capture, FlowInv, OwnerInv, None
  <2> QED
    BY <1>2, <1>4, <2>1, <2>2, RecoverByMockStep DEF RestStep
<1>5. CASE path = "stale" /\ CloseStale(s, seen)
  <2>1. mirror' \in BOOLEAN /\ queue' \subseteq Message
    BY <1>5 DEF CloseStale, FlowInv, TypeOK
  <2> QED
    BY <1>2, <1>5, <2>1, CloseStaleStep DEF RestStep
<1> QED
  BY <1>3, <1>4, <1>5 DEF ReconcileTx

\* What the reconciler judges.
LEMMA PathsAre ==
    ASSUME FlowInv, NEW s \in Session, NEW path \in Paths(s)
    PROVE  /\ path \in {"lapsed", "orphan", "mock", "stale"}
           /\ path = "orphan" => ~HoldsLive(s) /\ Can(ses[s].st, "LEASE_EXPIRED")
           /\ path = "mock" => /\ ses[s].st \in ToBeCleaned \/ Can(ses[s].st, "LEASE_EXPIRED")
                               /\ s \notin captured
           /\ path = "stale" => ses[s].st = "CREATED" /\ s \notin captured
<1>1. LeaseLost(s) => ~HoldsLive(s) /\ Can(ses[s].st, "LEASE_EXPIRED")
  BY DEF LeaseLost, HoldsLive
<1> QED
  BY <1>1 DEF Paths

\* A job of `high` that is next writes a row nobody holds.
LEMMA NextOfHigh ==
    ASSUME FlowInv, NEW w \in Worker, NEW s \in Session, HighIsNext,
           work[w].task \in {"cancel", "reconcile"}, work[w].s = s
    PROVE  w = "high" /\ ~Holding(s) /\ work[w].seen \in Rows /\ JobOK(w, work[w])
<1>1. JobOK(w, work[w]) /\ work[w].seen \in Rows
  BY JobIs DEF Task
<1>2. w = "high"
  BY <1>1, SMT DEF JobOK, TasksOf, Worker
<1> QED
  BY <1>1, <1>2 DEF HighIsNext

\* All steps of a cancellation and of the reconciler.
LEMMA HighStepKeeps ==
    ASSUME FlowInv, NEW w \in Worker, NEW s \in Session, HighStep(w, s)
    PROVE  FlowStep(w, s)
<1>0. ses[s] \in Rows
  BY DEF FlowInv, TypeOK
<1>1. CASE CancelAtOnce(w, s)
  <2>1. ~Holding(s) /\ CancelTx(s, ses[s], queue \ {Post("cancel", s)})
    BY <1>1 DEF CancelAtOnce
  <2>2. queue \ {Post("cancel", s)} \in SUBSET Message
    BY DEF FlowInv, TypeOK
  <2>3. WorkStep(w)
    BY <1>1, SameWork DEF CancelAtOnce
  <2> QED
    BY <1>0, <2>1, <2>2, <2>3, CancelTxStep DEF FlowStep
<1>2. CASE Cancels(w, s)
  <2>1. ~Holding(s) /\ work[w].seen \in Rows
    BY <1>2, NextOfHigh DEF Cancels, At
  <2>2. queue \in SUBSET Message
    BY DEF FlowInv, TypeOK
  <2>3. WorkStep(w)
    BY <1>2, FinishStep DEF Cancels
  <2> QED
    BY <1>2, <2>1, <2>2, <2>3, CancelTxStep DEF Cancels, FlowStep
<1>3. CASE Sweeps(w, s)
  <2>1. UNCHANGED <<ses, capture, mirror, work, left>>
    BY <1>3 DEF Sweeps
  <2>2. RowStep(w, s)
    BY <2>1, SameRows
  <2>3. LockStep(s) /\ QuarantineStep
    <3>1. CASE Holds(s) /\ ~lock.live
      <4>1. lock' = Unheld(s, "EXPIRED")
        BY <1>3, <3>1 DEF Sweeps
      <4> QED
        BY <3>1, <4>1, UnheldLock DEF QuarantineStep, Quarantined, Holds
    <3>2. CASE ~(Holds(s) /\ ~lock.live)
      <4>1. UNCHANGED rows
        BY <1>3, <2>1, <3>2 DEF Sweeps, rows
      <4> QED
        BY <4>1, SameRowsAndLock
    <3> QED
      BY <3>1, <3>2
  <2>4. WorkStep(w)
    BY <1>3, <2>1, SameWork DEF Sweeps
  <2>5. RestStep
    BY <1>3, <2>1, PostIs, SameCapture DEF Sweeps, Task, RestStep, FlowInv, TypeOK
  <2> QED
    BY <2>2, <2>3, <2>4, <2>5 DEF FlowStep
<1>4. CASE ReconcileAtOnce(w, s)
  <2>1. PICK path \in Paths(s) : ReconcileTx(s, path, ses[s])
    BY <1>4 DEF ReconcileAtOnce
  <2>2. ~Holding(s)
    BY <1>4 DEF ReconcileAtOnce
  <2>3. RowStep(w, s) /\ LockStep(s) /\ QuarantineStep /\ RestStep
    BY <1>0, <2>1, <2>2, PathsAre, ReconcileTxStep
  <2>4. WorkStep(w)
    BY <1>4, SameWork DEF ReconcileAtOnce
  <2> QED
    BY <2>3, <2>4 DEF FlowStep
<1>5. CASE Reconciles(w, s)
  <2>1. PICK path \in {"lapsed", "orphan", "mock", "stale"} :
            /\ At(w, "reconcile", s, path) /\ HighIsNext
            /\ ReconcileTx(s, path, work[w].seen)
            /\ Finish(w)
    BY <1>5 DEF Reconciles
  <2>2. w = "high" /\ ~Holding(s) /\ work[w].seen \in Rows /\ JobOK(w, work[w])
    BY <2>1, NextOfHigh DEF At
  <2>3. path = "orphan" => ~HoldsLive(s)
    BY <2>1, <2>2 DEF FlowInv, OrphanInv
  <2>4. path = "mock" => /\ \/ work[w].seen.st \in ToBeCleaned
                            \/ Can(work[w].seen.st, "LEASE_EXPIRED")
                         /\ s \notin captured \/ MockOvertaken(s)
    BY <2>1, <2>2 DEF At, JobOK, MockOvertaken
  <2>5. path = "stale" => work[w].seen.st = "CREATED" /\ StaleWatchdog(s)
    BY <2>1, <2>2 DEF At, JobOK, StaleWatchdog
  <2>6. RowStep(w, s) /\ LockStep(s) /\ QuarantineStep /\ RestStep
    BY <2>1, <2>2, <2>3, <2>4, <2>5, ReconcileTxStep
  <2>7. WorkStep(w)
    BY <2>1, FinishStep
  <2> QED
    BY <2>6, <2>7 DEF FlowStep
<1> QED
  BY <1>1, <1>2, <1>3, <1>4, <1>5 DEF HighStep

-----------------------------------------------------------------------------
(***************************************************************************)
(* The other steps: messages, jobs that begin, and time.                   *)
(***************************************************************************)
\* A job that begins on a row it has just read.
JobStep(w) ==
    /\ UNCHANGED <<rows, capture>>
    /\ \A v \in Worker \ {w} : work'[v] = work[v]
    /\ work'[w] \in Jobs
    /\ JobOK(w, work'[w])
    /\ work'[w].seen # ses[work'[w].s] => ~Writes(work'[w])

\* It preserves the invariant, if it starts nothing the reconciler is about to
\* mark, and marks nothing that is started.
LEMMA JobStepKeeps ==
    ASSUME FlowInv, TypeOK', NEW w \in Worker, JobStep(w), OrphanInv'
    PROVE  FlowInv'
<1>1. UNCHANGED <<ses, lock, own, captured>>
  BY DEF JobStep, rows, capture
<1>2. LockInv' /\ ActiveInv' /\ OwnerInv' /\ TerminalIsVerified' /\ LiveLockIsUsed'
  BY <1>1 DEF FlowInv, LockInv, ActiveInv, OwnerInv, TerminalIsVerified, LiveLockIsUsed,
     HoldsLive, Holds
<1>3. JobInv'
  <2> SUFFICES ASSUME NEW v \in Worker, work'[v] # Idle PROVE JobOK(v, work'[v])
    BY DEF JobInv, JobOK
  <2>1. CASE v = w
    BY <2>1 DEF JobStep
  <2>2. CASE v # w
    BY <2>2 DEF JobStep, FlowInv, JobInv
  <2> QED
    BY <2>1, <2>2
<1>4. HolderInv'
  <2> SUFFICES ASSUME NEW v \in Worker, NEW t \in Session, HoldsRow(v, t)'
               PROVE  ses'[t].st = work'[v].seen.st
    BY DEF HolderInv
  <2>1. CASE v = w
    BY <1>1, <2>1 DEF JobStep, HoldsRow, Writes
  <2>2. CASE v # w
    <3>1. HoldsRow(v, t) /\ work'[v] = work[v]
      BY <2>2 DEF JobStep, HoldsRow, Writes
    <3> QED
      BY <1>1, <3>1 DEF FlowInv, HolderInv
  <2> QED
    BY <2>1, <2>2
<1> QED
  BY <1>2, <1>3, <1>4 DEF FlowInv

\* A new job.
LEMMA NewJob ==
    ASSUME NEW task \in Task, NEW s \in Session, NEW try \in 0 .. MaxRetry,
           NEW step \in {"read", "failing", "connect", "loop", "end", "timeout",
                         "lapsed", "orphan", "mock", "stale"},
           NEW seen \in Rows
    PROVE  LET job == Job(task, s, try, step, seen) IN
           /\ job \in Jobs
           /\ job.task = task /\ job.s = s /\ job.step = step /\ job.seen = seen
<1>1. FALSE \in BOOLEAN /\ None \in Session \cup {None}
  OBVIOUS
<1>2. Job(task, s, try, step, seen) \in Jobs
  BY <1>1, Zenon DEF Job, Jobs
<1> QED
  BY <1>2 DEF Job

\* A message is taken up: a start only where no job of `high` waits to go on, so
\* not on a row the reconciler is about to mark.
LEMMA BeginKeeps ==
    ASSUME FlowInv, NEW w \in Worker, NEW m \in queue, Begin(w, m)
    PROVE  FlowInv' /\ UNCHANGED <<ses, lock, own>>
<1>1. /\ m.task \in Task \ {"reconcile"} /\ m.s \in Session /\ m.try \in 0 .. MaxRetry
      /\ m.task \in TasksOf[w]
  BY SMT DEF Begin, Message, FlowInv, TypeOK
<1> DEFINE step == IF m.task = "watch" THEN "connect" ELSE "read"
           seen == IF m.task = "watch" THEN Fresh ELSE ses[m.s]
           job == Job(m.task, m.s, m.try, step, seen)
<1>2. work' = [work EXCEPT ![w] = job]
  <2>1. work' = [work EXCEPT ![w] =
                    IF m.task = "watch" THEN Job("watch", m.s, m.try, "connect", Fresh)
                    ELSE Job(m.task, m.s, m.try, "read", ses[m.s])]
    BY DEF Begin
  <2>2. job = IF m.task = "watch" THEN Job("watch", m.s, m.try, "connect", Fresh)
              ELSE Job(m.task, m.s, m.try, "read", ses[m.s])
    OBVIOUS
  <2> QED
    BY <2>1, <2>2
<1>3. seen \in Rows
  BY <1>1, FreshIsRow DEF FlowInv, TypeOK
<1>4. /\ job \in Jobs
      /\ job.task = m.task /\ job.s = m.s /\ job.step = step /\ job.seen = seen
  <2>1. step \in {"read", "failing", "connect", "loop", "end", "timeout",
                  "lapsed", "orphan", "mock", "stale"}
    OBVIOUS
  <2> HIDE DEF step, seen
  <2> QED
    BY <1>1, <1>3, <2>1, NewJob
<1> HIDE DEF job
<1>5. JobOK(w, job)
  BY <1>1, <1>4 DEF JobOK, Task
<1>6. job.seen # ses[job.s] => ~Writes(job)
  BY <1>4 DEF Writes
<1>7. JobStep(w)
  BY <1>2, <1>4, <1>5, <1>6 DEF JobStep, Begin, FlowInv, TypeOK
<1>8. TypeOK'
  BY <1>2, <1>4 DEF Begin, FlowInv, TypeOK, rows, capture
<1>9. OrphanInv'
  <2> SUFFICES ASSUME NEW t \in Session, At("high", "reconcile", t, "orphan")'
               PROVE  ~HoldsLive(t)' /\ ~HoldsRow("control", t)'
    BY DEF OrphanInv
  <2>0. "high" \in Worker /\ "control" \in Worker
    BY DEF Worker
  <2>1. w # "high" /\ work'["high"] = work["high"]
    BY <1>1, <1>2, <1>4, <2>0 DEF At, FlowInv, TypeOK
  <2>2. At("high", "reconcile", t, "orphan")
    BY <2>1 DEF At
  <2>3. ~HoldsLive(t) /\ ~HoldsRow("control", t)
    BY <2>2 DEF FlowInv, OrphanInv
  <2>4. ~HoldsLive(t)'
    BY <2>3 DEF Begin, rows, HoldsLive, Holds
  <2>5. PICK v \in Worker : HoldsRow(v, t)
    <3>1. work["high"] # Idle /\ work["high"].s = t
      BY <2>0, <2>2, JobIs DEF At, Task
    <3>2. Holding(t)
      BY <3>1 DEF Begin, HighIsNext
    <3> QED
      BY <3>2 DEF Holding, HoldsRow
  <2>6. ses[t].st \notin Startable
    BY <2>3, <2>5, HolderIs
  <2>7. ~HoldsRow("control", t)'
    <3>1. CASE w = "control"
      <4> SUFFICES ASSUME HoldsRow("control", t)' PROVE FALSE
        OBVIOUS
      <4>1. work'["control"] = job
        BY <1>2, <2>0, <3>1 DEF FlowInv, TypeOK
      <4>2. job.s = t /\ Writes(job)
        BY <4>1 DEF HoldsRow, Writes
      <4>3. job.task = "start"
        BY <1>1, <1>4, <3>1, SMT DEF TasksOf
      <4>4. job.seen.st \in Startable
        BY <4>2, <4>3 DEF Writes
      <4> QED
        BY <1>4, <2>6, <4>2, <4>3, <4>4
    <3>2. CASE w # "control"
      <4>1. work'["control"] = work["control"]
        BY <1>2, <2>0, <3>2 DEF FlowInv, TypeOK
      <4> QED
        BY <2>3, <4>1 DEF HoldsRow, Writes
    <3> QED
      BY <3>1, <3>2
  <2> QED
    BY <2>4, <2>7
<1> QED
  BY <1>7, <1>8, <1>9, JobStepKeeps DEF Begin, rows, capture

\* A watcher reads the row it is about to write.
LEMMA WatchReadsKeeps ==
    ASSUME FlowInv, NEW w \in Worker, NEW s \in Session,
           WatchCallEnds(w, s) \/ WatchTimesOut(w, s)
    PROVE  FlowInv' /\ UNCHANGED <<ses, lock, own>>
<1>1. /\ work[w].task = "watch" /\ work[w].s = s /\ work[w] \in Jobs
      /\ work[w].task \in TasksOf[w] /\ ses[s] \in Rows
  BY JobIs DEF WatchCallEnds, WatchTimesOut, At, Task, JobOK, FlowInv, TypeOK
<1>2. PICK step \in {"end", "timeout"} :
          /\ Step(w, step, ses[s])
          /\ step = "end" => ses[s].st = "CAPTURING"
          /\ step = "timeout" => ses[s].st \in {"WATCHING", "ACTIVITY_DETECTED", "CAPTURING"}
  BY DEF WatchCallEnds, WatchTimesOut, Overdue
<1> DEFINE one == [work[w] EXCEPT !.step = step]
           job == [one EXCEPT !.seen = ses[s]]
<1>3. work' = [work EXCEPT ![w] = job]
  BY <1>2 DEF Step
<1>4. job.task = "watch" /\ job.s = s /\ job.step = step /\ job.seen = ses[s]
  BY <1>1, SMT DEF Jobs
<1>5. one \in Jobs
  BY <1>1, SMT DEF Jobs
<1> HIDE DEF one
<1>6. job \in Jobs
  BY <1>1, <1>5, SMT DEF Jobs
<1> HIDE DEF job
<1>7. JobOK(w, job)
  BY <1>1, <1>2, <1>4 DEF JobOK
<1>8. UNCHANGED <<rows, capture, mirror, queue, left>>
  BY DEF WatchCallEnds, WatchTimesOut
<1>9. JobStep(w)
  BY <1>3, <1>4, <1>6, <1>7, <1>8 DEF JobStep, FlowInv, TypeOK
<1>10. TypeOK'
  BY <1>3, <1>6, <1>8 DEF FlowInv, TypeOK, rows, capture
<1>11. OrphanInv'
  <2>1. w = "watch" /\ "high" \in Worker /\ "control" \in Worker
    BY <1>1, SMT DEF TasksOf, Worker
  <2>2. work'["high"] = work["high"] /\ work'["control"] = work["control"]
    BY <1>3, <2>1 DEF FlowInv, TypeOK
  <2> QED
    BY <1>8, <2>2 DEF FlowInv, OrphanInv, At, HoldsRow, Writes, HoldsLive, Holds, rows
<1> QED
  BY <1>8, <1>9, <1>10, <1>11, JobStepKeeps DEF rows, capture

\* The reconciler judges a session whose row somebody holds: it is no start, if
\* the session is an orphan.
LEMMA ReconcileBeginsKeeps ==
    ASSUME FlowInv, NEW w \in Worker, NEW s \in Session, ReconcileBegins(w, s)
    PROVE  FlowInv' /\ UNCHANGED <<ses, lock, own>>
<1>1. w = "high"
  BY SMT DEF ReconcileBegins, TasksOf, Worker
<1>2. PICK path \in Paths(s) : work' = [work EXCEPT ![w] = Job("reconcile", s, 0, path, ses[s])]
  BY DEF ReconcileBegins
<1> DEFINE job == Job("reconcile", s, 0, path, ses[s])
<1>3. ses[s] \in Rows
  BY DEF FlowInv, TypeOK
<1>4. /\ job \in Jobs
      /\ job.task = "reconcile" /\ job.s = s /\ job.step = path /\ job.seen = ses[s]
  <2>1. path \in {"read", "failing", "connect", "loop", "end", "timeout",
                  "lapsed", "orphan", "mock", "stale"}
    BY PathsAre
  <2>2. 0 \in 0 .. MaxRetry /\ "reconcile" \in Task
    BY FlowAssumption DEF Task
  <2> QED
    BY <1>3, <2>1, <2>2, NewJob
<1>5. work' = [work EXCEPT ![w] = job]
  BY <1>2
<1> HIDE DEF job
<1>6. JobOK(w, job)
  <2>1. path \in {"lapsed", "orphan", "mock", "stale"} /\ "reconcile" \in TasksOf[w]
    BY <1>1, PathsAre DEF TasksOf
  <2> QED
    BY <1>4, <2>1, PathsAre DEF JobOK
<1>7. UNCHANGED <<rows, capture, mirror, queue, left>>
  BY DEF ReconcileBegins
<1>8. JobStep(w)
  BY <1>4, <1>5, <1>6, <1>7 DEF JobStep, FlowInv, TypeOK
<1>9. TypeOK'
  BY <1>4, <1>5, <1>7 DEF FlowInv, TypeOK, rows, capture
<1>10. OrphanInv'
  <2> SUFFICES ASSUME NEW t \in Session, At("high", "reconcile", t, "orphan")'
               PROVE  ~HoldsLive(t)' /\ ~HoldsRow("control", t)'
    BY DEF OrphanInv
  <2>1. "high" \in Worker /\ "control" \in Worker /\ w # "control"
    BY <1>1 DEF Worker
  <2>2. work'["high"] = job /\ work'["control"] = work["control"]
    BY <1>1, <1>5, <2>1 DEF FlowInv, TypeOK
  <2>3. t = s /\ path = "orphan"
    BY <1>4, <2>2 DEF At
  <2>4. ~HoldsLive(s) /\ Can(ses[s].st, "LEASE_EXPIRED")
    BY <2>3, PathsAre
  <2>5. ses[s].st \notin Startable
    BY <1>3, <2>4, RowParts, ExpiryMoves
  <2>6. ~HoldsRow("control", s)
    BY <2>1, <2>5, HolderIs
  <2> QED
    BY <1>7, <2>2, <2>3, <2>4, <2>6 DEF HoldsRow, Writes, HoldsLive, Holds, rows
<1> QED
  BY <1>7, <1>8, <1>9, <1>10, JobStepKeeps DEF rows, capture

\* What changes neither a row nor a job, and at most lets the lock or the lease lapse.
LEMMA OutsideKeeps ==
    ASSUME FlowInv, TypeOK', UNCHANGED <<ses, work, captured>>,
           UNCHANGED lock \/ lock' = [lock EXCEPT !.live = FALSE],
           UNCHANGED own \/ own' = [own EXCEPT !.live = FALSE]
    PROVE  FlowInv' /\ LeaseStep
<1>1. /\ lock'.of = lock.of /\ lock'.status = lock.status
      /\ lock'.live => lock.live
  BY SMT DEF FlowInv, TypeOK, Locks
<1>0. own'.of = own.of
  BY SMT DEF FlowInv, TypeOK
<1>2. LockInv' /\ ActiveInv' /\ OwnerInv'
  BY <1>0, <1>1 DEF FlowInv, LockInv, ActiveInv, OwnerInv, Holds
<1>3. JobInv'
  BY DEF FlowInv, JobInv, JobOK
<1>4. HolderInv'
  BY DEF FlowInv, HolderInv, HoldsRow, Writes
<1>5. \A s \in Session : HoldsLive(s)' => HoldsLive(s)
  BY <1>1 DEF HoldsLive, Holds
<1>6. OrphanInv'
  BY <1>5 DEF FlowInv, OrphanInv, At, HoldsRow, Writes
<1>7. TerminalIsVerified' /\ LiveLockIsUsed'
  BY <1>5 DEF FlowInv, TerminalIsVerified, LiveLockIsUsed
<1>8. LeaseStep
  BY <1>0 DEF LeaseStep, OwnsOver
<1> QED
  BY <1>2, <1>3, <1>4, <1>6, <1>7, <1>8 DEF FlowInv

\* A lock, or a lease, that lapses.
LEMMA LapsedIs ==
    /\ \A x \in Locks : [x EXCEPT !.live = FALSE] \in Locks
    /\ \A x \in Owner : [x EXCEPT !.live = FALSE] \in Owner
<1>1. ASSUME NEW x \in Locks, NEW b \in BOOLEAN PROVE [x EXCEPT !.live = b] \in Locks
  BY SMT DEF Locks
<1>2. ASSUME NEW x \in Owner, NEW b \in BOOLEAN PROVE [x EXCEPT !.live = b] \in Owner
  BY SMT DEF Owner
<1> QED
  BY <1>1, <1>2

\* What happens outside the workers.
LEMMA OutsideStep ==
    ASSUME FlowInv, NEW s \in Session,
           StartAgain(s) \/ Stop(s) \/ TermEnds(s) \/ LeaseEnds(s)
    PROVE  FlowInv' /\ QuarantineStep /\ LeaseStep
<1>1. CASE StartAgain(s) \/ Stop(s)
  <2>1. PICK task \in {"start", "cancel"}, bound \in {"start", "upset"} : Send(task, s, bound)
    BY <1>1 DEF StartAgain, Stop
  <2>2. UNCHANGED <<rows, capture, mirror, work>>
    BY <2>1 DEF Send
  <2>3. queue' \subseteq Message
    BY <2>1, PostIs DEF Send, Task, FlowInv, TypeOK
  <2>4. left' \in [{"start", "upset"} -> Nat]
    BY <2>1, SMT DEF Send, Spend, FlowInv, TypeOK
  <2>5. TypeOK'
    BY <2>2, <2>3, <2>4 DEF FlowInv, TypeOK, rows, capture
  <2> QED
    BY <2>2, <2>5, OutsideKeeps DEF rows, capture, QuarantineStep
<1>2. CASE TermEnds(s)
  <2>1. lock' = [lock EXCEPT !.live = FALSE] /\ UNCHANGED <<ses, capture, mirror, queue, work>>
        /\ lock.status = "ACTIVE"
    BY <1>2 DEF TermEnds, HoldsLive, Holds
  <2>2. lock' \in Locks
    <3>1. lock \in Locks
      BY DEF FlowInv, TypeOK
    <3> QED
      BY <2>1, <3>1, LapsedIs
  <2>3. left' \in [{"start", "upset"} -> Nat]
    BY <1>2, FaultIs DEF TermEnds
  <2>4. TypeOK'
    BY <2>1, <2>2, <2>3 DEF FlowInv, TypeOK, capture
  <2>5. QuarantineStep
    BY <2>1 DEF QuarantineStep, Quarantined
  <2> QED
    BY <2>1, <2>4, <2>5, OutsideKeeps DEF capture
<1>3. CASE LeaseEnds(s)
  <2>1. own' = [own EXCEPT !.live = FALSE] /\ UNCHANGED <<rows, captured, mirror, queue, work>>
    BY <1>3 DEF LeaseEnds
  <2>2. own' \in Owner
    <3>1. own \in Owner
      BY DEF FlowInv, TypeOK, Owner
    <3> QED
      BY <2>1, <3>1, LapsedIs
  <2>3. left' \in [{"start", "upset"} -> Nat]
    BY <1>3, FaultIs DEF LeaseEnds
  <2>4. TypeOK'
    BY <2>1, <2>2, <2>3 DEF FlowInv, TypeOK, rows, Owner
  <2> QED
    BY <2>1, <2>4, OutsideKeeps DEF rows, QuarantineStep
<1> QED
  BY <1>1, <1>2, <1>3

-----------------------------------------------------------------------------
(***************************************************************************)
(* The theorems.                                                           *)
(***************************************************************************)
\* The invariant holds at first.
LEMMA Initially == Init => FlowInv
<1> SUFFICES ASSUME Init PROVE FlowInv
  OBVIOUS
<1>1. ses \in [Session -> Rows] /\ \A s \in Session : ses[s] = Fresh
  BY FreshIsRow DEF Init
<1>2. lock \in Locks /\ lock.status = "RELEASED"
  <2>1. lock = [of |-> None, status |-> "RELEASED", live |-> FALSE]
    BY DEF Init
  <2>2. None \in Session \cup {None} /\ FALSE \in BOOLEAN
        /\ "RELEASED" \in {"RELEASED", "ACTIVE", "EXPIRED", "QUARANTINED"}
    OBVIOUS
  <2> QED
    BY <2>1, <2>2, SMT DEF Locks
<1>3. own \in Owner
  BY GivenUpIs DEF Init, GivenUp
<1>4. queue \subseteq Message
  BY PostIs DEF Init, Task
<1>5. work \in [Worker -> Jobs \cup {Idle}] /\ \A w \in Worker : work[w] = Idle
  BY DEF Init
<1>6. left \in [{"start", "upset"} -> Nat]
  BY FlowAssumption, SMT DEF Init
<1>7. TypeOK
  BY <1>1, <1>2, <1>3, <1>4, <1>5, <1>6 DEF TypeOK, Init, Owner
<1>8. LockInv /\ ActiveInv /\ LiveLockIsUsed
  BY <1>2 DEF LockInv, ActiveInv, LiveLockIsUsed, HoldsLive, Holds
<1>12. OwnerInv
  BY DEF Init, OwnerInv
<1>9. JobInv /\ HolderInv
  BY <1>5 DEF JobInv, HolderInv, HoldsRow
<1>10. OrphanInv
  BY <1>5, SMT DEF OrphanInv, At, Idle, Worker
<1>11. TerminalIsVerified
  BY <1>1 DEF TerminalIsVerified, Fresh, Terminal
<1> QED
  BY <1>7, <1>8, <1>9, <1>10, <1>11, <1>12 DEF FlowInv

\* Every step preserves it, lifts no quarantine it may not lift, and leaves no
\* session that comes to be over with the lease it may not leave.
LEMMA Inductive ==
    ASSUME FlowInv, [Next]_vars
    PROVE  FlowInv' /\ QuarantineStep /\ LeaseStep
<1>1. ASSUME NEW w \in Worker, NEW s \in Session, FlowStep(w, s)
      PROVE  FlowInv' /\ QuarantineStep /\ LeaseStep
  BY <1>1, FlowStepKeeps DEF FlowStep
<1>2. ASSUME NEW s \in Session, StartAgain(s) \/ Stop(s) \/ TermEnds(s) \/ LeaseEnds(s)
      PROVE  FlowInv' /\ QuarantineStep /\ LeaseStep
  BY <1>2, OutsideStep
<1>3. ASSUME NEW w \in Worker, NEW m \in queue, Begin(w, m)
      PROVE  FlowInv' /\ QuarantineStep /\ LeaseStep
  BY <1>3, BeginKeeps DEF QuarantineStep, LeaseStep, OwnsOver
<1>4. ASSUME NEW w \in Worker, NEW s \in Session,
             \/ StartStep(w, s) \/ CleanStep(w, s) \/ HighStep(w, s)
             \/ WatchStep(w, s) \/ WatchHears(w, s)
      PROVE  FlowInv' /\ QuarantineStep /\ LeaseStep
  BY <1>1, <1>4, StartStepKeeps, CleanStepKeeps, HighStepKeeps, WatchStepKeeps,
     WatchHearsStep
<1>5. ASSUME NEW w \in Worker, NEW s \in Session,
             ReconcileBegins(w, s) \/ WatchCallEnds(w, s) \/ WatchTimesOut(w, s)
      PROVE  FlowInv' /\ QuarantineStep /\ LeaseStep
  BY <1>5, ReconcileBeginsKeeps, WatchReadsKeeps DEF QuarantineStep, LeaseStep, OwnsOver
<1>6. CASE UNCHANGED vars
  <2>1. TypeOK' /\ UNCHANGED <<ses, lock, work, own, captured>>
    BY <1>6 DEF FlowInv, TypeOK, vars, rows, capture
  <2> QED
    BY <2>1, OutsideKeeps DEF QuarantineStep
<1> QED
  BY <1>2, <1>3, <1>4, <1>5, <1>6 DEF Next

\* The invariant holds in every run of the flow.
LEMMA Invariance == Spec => []FlowInv
<1>1. FlowInv /\ [Next]_vars => FlowInv'
  BY Inductive
<1> QED
  BY Initially, <1>1, PTL DEF Spec

\* The rows, the lock, the messages and the jobs keep their types.
THEOREM Typing == Spec => []TypeOK
<1>1. FlowInv => TypeOK
  BY DEF FlowInv
<1> QED
  BY Invariance, <1>1, PTL

\* A session is over only when a cleanup verified the DUT for it.
THEOREM OverIsVerified == Spec => []TerminalIsVerified
<1>1. FlowInv => TerminalIsVerified
  BY DEF FlowInv
<1> QED
  BY Invariance, <1>1, PTL

\* An active lock within its term is held in a state that may hold one.
THEOREM LockInUse == Spec => []LiveLockIsUsed
<1>1. FlowInv => LiveLockIsUsed
  BY DEF FlowInv
<1> QED
  BY Invariance, <1>1, PTL

\* A quarantine is lifted by a cleanup of its session that verified the DUT, or
\* by the watchdog of stale sessions.
THEOREM QuarantineStays == Spec => QuarantineKept
<1>1. FlowInv /\ [Next]_vars => QuarantineStep
  BY Inductive
<1>2. QuarantineStep =>
        [\A s \in captured :
            Quarantined(s) /\ lock' # lock
               => Lifted(s) /\ (ses'[s].cl = "VERIFIED" \/ StaleWatchdog(s))]_vars
  BY DEF QuarantineStep
<1> QED
  BY Invariance, <1>1, <1>2, PTL DEF Spec, QuarantineKept

\* A session that comes to be over gives up the capture lease, and one that is over
\* gets none, but for the mock that was overtaken.
THEOREM LeaseIsGivenUp == Spec => LeaseGivenUp
<1>1. FlowInv /\ [Next]_vars => LeaseStep
  BY Inductive
<1>2. LeaseStep => [\A s \in Session : OwnsOver(s)' => OwnsOver(s) \/ MockOvertaken(s)]_vars
  BY DEF LeaseStep
<1> QED
  BY Invariance, <1>1, <1>2, PTL DEF Spec, LeaseGivenUp
==============================================================================
