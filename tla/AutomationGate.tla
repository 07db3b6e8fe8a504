---------------------------- MODULE AutomationGate ----------------------------
(***************************************************************************)
(* Test runs of the automation lab that change a device's configuration    *)
(* and put it back: GoldenCfgConfigGate under AutomationOrchestrator and   *)
(* PersistedCleanupCoordinator.  A run reserves the device with the        *)
(* capture lease (CaptureLeaseCompatibilityAdapter), reads the display     *)
(* name of the account, keeps it in a recovery marker, sets a probe,       *)
(* reads it back, restores the name and releases the lease last, while     *)
(* AuthorityKeepalive renews the term beside it.                           *)
(*                                                                         *)
(* Every run has an id of its own, so no two share a lease identity and    *)
(* none resumes the cleanup of another.  Nobody but runs changes the name. *)
(* A set command whose answer is lost ran at once or never.  It is over    *)
(* 20 s (command_timeout) after the token was validated, which was renewed *)
(* less than 90 s earlier: a term of 120 s does not end under it (Lapse).  *)
(***************************************************************************)
EXTENDS Naturals

CONSTANTS
    Run,            \* test runs, each a process of its own
    MaxFault        \* bound: lost answers, failed calls, stalls, dead runs

ASSUME GateAssumption == MaxFault \in Nat

VARIABLES
    lease,          \* capture_leases row of the device: epoch and phase
    name,           \* disName of the account on the device
    marker,         \* recovery marker files: the name to restore, by run
    at, run,        \* per run: next step, and what it remembers
    row,            \* verdict in automation_test_runs; "open" before it
    faults          \* faults so far, records that were lost not counted

vars == <<lease, name, marker, at, run, row, faults>>

User == "user"
Names == {User, "G0", "G1"}
Steps == {"new", "snapshot", "mark", "configure", "set", "observe",
          "readback", "restore", "current", "revalidate", "reset", "verify",
          "unmark", "release", "released", "report", "over", "dead"}
Verdicts == {"PASSED", "FAILED", "BLOCKED", "INCONCLUSIVE"}

\* token: lease epoch, 0 for none; severed: the keepalive failed; snap: the
\* snapshot; stop: why the run was cut short; seen: the effective read-back;
\* failures: of cleanup steps; unrecorded: persistence_errors is not empty.
Blank == [token |-> 0, severed |-> FALSE, snap |-> "none", stop |-> "none",
          seen |-> "none", failures |-> {}, unrecorded |-> FALSE]

Init ==
    /\ lease = [epoch |-> 0, phase |-> "free"]
    /\ name = User
    /\ marker = [r \in Run |-> "none"]
    /\ at = [r \in Run |-> "new"]
    /\ run = [r \in Run |-> Blank]
    /\ row = [r \in Run |-> "open"]
    /\ faults = 0

At(r, step) == at[r] = step
Fault == faults < MaxFault /\ faults' = faults + 1
NoFault == UNCHANGED faults
Keep == UNCHANGED run

Goto(r, step) == at' = [at EXCEPT ![r] = step]

\* The recorder fails: _record_safe notes it and the run goes on where it was
\* going.
AfterLostRecord(step) == step

\* What the run learned, with the state or the step recorded on the way.
Recorded(r, step, learned) ==
    \/ /\ run' = [run EXCEPT ![r] = learned]
       /\ Goto(r, step)
    \/ /\ run' = [run EXCEPT ![r] = [learned EXCEPT !.unrecorded = TRUE]]
       /\ Goto(r, AfterLostRecord(step))

\* An exception or a break ends the steps of the case: cleanup is next.
CutShort(r, why) == Recorded(r, "restore", [run[r] EXCEPT !.stop = why])

\* A restore that fails is recorded and the release is tried all the same:
\* cleanup is fail-safe, not fail-fast.
AfterFailedRestoreReport == "report"
AfterFailedRestore == "release"
RestoreFailed(r) ==
    Recorded(r, AfterFailedRestore, [run[r] EXCEPT !.failures = {"restore"}])
ReleaseFailed(r) ==
    Recorded(r, "report", [run[r] EXCEPT !.failures = @ \cup {"release"}])

\* The row still names this token; the term counts for validate and renew.
Named(r) == lease.epoch = run[r].token /\ lease.phase # "free"
ValidRegardless(r) == TRUE
Valid(r) == lease.epoch = run[r].token /\ lease.phase = "held"

\* build_display_name_probe: a value that is not the current one.
Probe(r) == IF run[r].snap = "G0" THEN "G1" ELSE "G0"

(***************************************************************************)
(* PRECHECK to ASSERT.                                                     *)
(***************************************************************************)
Granted == [epoch |-> lease.epoch + 1, phase |-> "held"]

Reserve(r) ==
    /\ At(r, "new")
    /\ lease.phase # "held"
    /\ lease' = Granted
    /\ Recorded(r, "snapshot", [run[r] EXCEPT !.token = Granted.epoch])
    /\ NoFault
    /\ UNCHANGED <<name, marker, row>>

LeaseBusy(r) ==
    /\ At(r, "new")
    /\ lease.phase = "held"
    /\ CutShort(r, "blocked")
    /\ NoFault
    /\ UNCHANGED <<lease, name, marker, row>>

\* The transaction fails, or its answer is lost and nobody has the token.
ReserveFails(r) ==
    /\ At(r, "new")
    /\ lease' \in {lease} \cup (IF lease.phase = "held" THEN {} ELSE {Granted})
    /\ CutShort(r, "inconclusive")
    /\ Fault
    /\ UNCHANGED <<name, marker, row>>

Snapshot(r) ==
    /\ At(r, "snapshot")
    /\ \/ /\ run' = [run EXCEPT ![r].snap = name]
          /\ Goto(r, "mark")
          /\ NoFault
       \/ (\E why \in {"blocked", "inconclusive"} : CutShort(r, why)) /\ Fault
    /\ UNCHANGED <<lease, name, marker, row>>

\* G0RecoveryMarkerStore.write replaces the file in one step or not at all.
WriteMarker(r) ==
    /\ At(r, "mark")
    /\ \/ /\ marker' = [marker EXCEPT ![r] = run[r].snap]
          /\ Recorded(r, "configure", run[r])
          /\ NoFault
       \/ /\ CutShort(r, "inconclusive")
          /\ Fault
          /\ UNCHANGED marker
    /\ UNCHANGED <<lease, name, row>>

\* _current_token, then MutationOperationPolicy validates the token.
Configure(r) ==
    /\ At(r, "configure")
    /\ IF ~run[r].severed /\ Valid(r)
       THEN Goto(r, "set") /\ Keep
       ELSE CutShort(r, "inconclusive")
    /\ NoFault
    /\ UNCHANGED <<lease, name, marker, row>>

\* One attempt.  Its answer may be lost, or be an error whatever it did.
SetProbe(r) ==
    /\ At(r, "set")
    /\ \/ /\ name' = Probe(r)
          /\ Goto(r, "readback") /\ Keep
          /\ NoFault
       \/ /\ name' \in {name, Probe(r)}
          /\ \/ Goto(r, "observe") /\ Keep
             \/ CutShort(r, "inconclusive")
          /\ Fault
    /\ UNCHANGED <<lease, marker, row>>

\* Observe after an unknown result: applied, or unknown for good.  A get may
\* raise, or answer with an error that matches no payload.
Unknown(r) == run' = [run EXCEPT ![r].stop = "inconclusive"]
Observe(r) ==
    /\ At(r, "observe")
    /\ \/ /\ Goto(r, "readback")
          /\ IF name = Probe(r) THEN Keep ELSE Unknown(r)
          /\ NoFault
       \/ Goto(r, "readback") /\ Unknown(r) /\ Fault
       \/ CutShort(r, "inconclusive") /\ Fault
    /\ UNCHANGED <<lease, name, marker, row>>

ReadBack(r) ==
    /\ At(r, "readback")
    /\ \/ Recorded(r, "restore", [run[r] EXCEPT !.seen = name]) /\ NoFault
       \/ CutShort(r, "inconclusive") /\ Fault
    /\ UNCHANGED <<lease, name, marker, row>>

(***************************************************************************)
(* CLEANUP: restore_voip_user_info, then release_device_authority.         *)
(***************************************************************************)
\* Without a snapshot nothing was set.  With one, a severed token raises.
Restore(r) ==
    /\ At(r, "restore")
    /\ \/ run[r].snap = "none" /\ Recorded(r, "release", run[r])
       \/ run[r].snap # "none" /\ run[r].severed /\ RestoreFailed(r)
       \/ run[r].snap # "none" /\ ~run[r].severed /\ Goto(r, "current") /\ Keep
    /\ NoFault
    /\ UNCHANGED <<lease, name, marker, row>>

ReadCurrent(r) ==
    /\ At(r, "current")
    /\ \/ /\ Goto(r, IF name = run[r].snap THEN "verify" ELSE "revalidate")
          /\ Keep /\ NoFault
       \/ Goto(r, "revalidate") /\ Keep /\ Fault
       \/ RestoreFailed(r) /\ Fault
    /\ UNCHANGED <<lease, name, marker, row>>

Revalidate(r) ==
    /\ At(r, "revalidate")
    /\ IF Valid(r) THEN Goto(r, "reset") /\ Keep ELSE RestoreFailed(r)
    /\ NoFault
    /\ UNCHANGED <<lease, name, marker, row>>

\* What is observed after a lost answer is reported and verified anyhow.
SetBack(r) ==
    /\ At(r, "reset")
    /\ \/ /\ name' = run[r].snap
          /\ Goto(r, "verify") /\ Keep
          /\ NoFault
       \/ /\ name' \in {name, run[r].snap}
          /\ \/ Goto(r, "verify") /\ Keep
             \/ RestoreFailed(r)
          /\ Fault
    /\ UNCHANGED <<lease, marker, row>>

Verify(r) ==
    /\ At(r, "verify")
    /\ \/ IF name = run[r].snap
          THEN Goto(r, "unmark") /\ Keep /\ NoFault
          ELSE RestoreFailed(r) /\ NoFault
       \/ RestoreFailed(r) /\ Fault
    /\ UNCHANGED <<lease, name, marker, row>>

Unmark(r) ==
    /\ At(r, "unmark")
    /\ marker' = [marker EXCEPT ![r] = "none"]
    /\ Recorded(r, "release", run[r])
    /\ NoFault
    /\ UNCHANGED <<lease, name, row>>

\* The keepalive is stopped first and raises what it failed with; the row must
\* still name the token, in its term or past it.
Release(r) ==
    /\ At(r, "release")
    /\ run[r].token # 0
    /\ IF run[r].severed \/ ~Named(r)
       THEN ReleaseFailed(r) /\ UNCHANGED lease
       ELSE /\ lease' = [lease EXCEPT !.phase = "free"]
            /\ Goto(r, "released") /\ Keep
    /\ NoFault
    /\ UNCHANGED <<name, marker, row>>

\* The transaction fails, or its answer is lost.
ReleaseUnknown(r) ==
    /\ At(r, "release")
    /\ run[r].token # 0 /\ ~run[r].severed /\ Named(r)
    /\ lease' \in {lease, [lease EXCEPT !.phase = "free"]}
    /\ ReleaseFailed(r)
    /\ Fault
    /\ UNCHANGED <<name, marker, row>>

NothingToRelease(r) ==
    /\ At(r, "release")
    /\ run[r].token = 0
    /\ Recorded(r, "report", run[r])
    /\ NoFault
    /\ UNCHANGED <<lease, name, marker, row>>

\* _release_verify reads the row again; another run may have it by now.
VerifyRelease(r) ==
    /\ At(r, "released")
    /\ IF lease = [epoch |-> run[r].token, phase |-> "free"]
       THEN Recorded(r, "report", run[r]) /\ NoFault
       ELSE ReleaseFailed(r) /\ NoFault
    /\ UNCHANGED <<lease, name, marker, row>>

(***************************************************************************)
(* REPORT: AssertionEngine.evaluate, then what was not recorded counts.    *)
(***************************************************************************)
\* What was seen is compared before anything else but a block; cleanup that
\* was not verified spoils a PASS only.
Evaluated(r) ==
    CASE run[r].stop = "blocked" -> "BLOCKED"
      [] run[r].stop # "blocked" /\ run[r].seen \notin {"none", Probe(r)} ->
             "FAILED"
      [] run[r].stop = "none" /\ run[r].seen = Probe(r) /\ run[r].failures = {} ->
             "PASSED"
      [] OTHER -> "INCONCLUSIVE"

\* _persistence_inconclusive.
DowngradedMisnamed == "UNKNOWN"
Downgraded == "INCONCLUSIVE"

\* finish may fail as well: then the row is never closed.
Report(r) ==
    /\ At(r, "report")
    /\ \/ row' = [row EXCEPT ![r] = IF run[r].unrecorded THEN Downgraded
                                    ELSE Evaluated(r)]
       \/ UNCHANGED row
    /\ Goto(r, "over") /\ Keep
    /\ NoFault
    /\ UNCHANGED <<lease, name, marker>>

(***************************************************************************)
(* The keepalive beside the run, time, and the death of a runner.          *)
(***************************************************************************)
\* A renewal is refused, or fails: no other is tried.
Sever(r) ==
    /\ run[r].token # 0 /\ ~run[r].severed
    /\ at[r] \notin {"released", "report", "over", "dead"}
    /\ IF Valid(r) THEN Fault ELSE NoFault
    /\ run' = [run EXCEPT ![r].severed = TRUE]
    /\ UNCHANGED <<lease, name, marker, at, row>>

\* A term that is not renewed ends; one that is, when its runner stalls.
Renewing(r) ==
    /\ Valid(r) /\ ~run[r].severed
    /\ at[r] \notin {"released", "report", "over", "dead"}

Lapse ==
    /\ lease.phase = "held"
    /\ \A r \in Run : Valid(r) => at[r] \notin {"set", "reset"}
    /\ IF \E r \in Run : Renewing(r) THEN Fault ELSE NoFault
    /\ lease' = [lease EXCEPT !.phase = "lapsed"]
    /\ UNCHANGED <<name, marker, at, run, row>>

\* A command that was under way ran or not.
Die(r) ==
    /\ at[r] \notin {"over", "dead"}
    /\ Fault
    /\ name' \in {name} \cup (IF At(r, "set") THEN {Probe(r)} ELSE {})
                        \cup (IF At(r, "reset") THEN {run[r].snap} ELSE {})
    /\ Goto(r, "dead") /\ Keep
    /\ UNCHANGED <<lease, marker, row>>

RunStep(r) ==
    \/ Reserve(r) \/ LeaseBusy(r) \/ ReserveFails(r)
    \/ Snapshot(r) \/ WriteMarker(r)
    \/ Configure(r) \/ SetProbe(r) \/ Observe(r) \/ ReadBack(r)
    \/ Restore(r) \/ ReadCurrent(r) \/ Revalidate(r) \/ SetBack(r)
    \/ Verify(r) \/ Unmark(r)
    \/ Release(r) \/ ReleaseUnknown(r) \/ NothingToRelease(r)
    \/ VerifyRelease(r) \/ Report(r)

Next == (\E r \in Run : RunStep(r) \/ Sever(r) \/ Die(r)) \/ Lapse

Spec == Init /\ [][Next]_vars

(***************************************************************************)
(* Properties.                                                             *)
(***************************************************************************)
TypeOK ==
    /\ lease \in [epoch : Nat, phase : {"free", "held", "lapsed"}]
    /\ name \in Names
    /\ marker \in [Run -> Names \cup {"none"}]
    /\ at \in [Run -> Steps]
    /\ row \in [Run -> Verdicts \cup {"open"}]
    /\ faults \in 0 .. MaxFault
    /\ \A r \in Run :
        /\ run[r].token \in 0 .. lease.epoch
        /\ run[r].snap \in Names \cup {"none"}
        /\ run[r].stop \in {"none", "blocked", "inconclusive"}
        /\ run[r].seen \in Names \cup {"none"}
        /\ run[r].failures \subseteq {"restore", "release"}
        /\ {run[r].severed, run[r].unrecorded} \subseteq BOOLEAN

\* Whatever dies, stalls or fails, and however runs follow each other: while
\* the account does not have the user's name, a recovery marker says what it
\* was (G0RecoveryMarkerStore, for the operator who has to put it back).
ChangedIsMarked == name # User => \E r \in Run : marker[r] = User

Restored(r) == marker[r] = "none"
Released(r) ==
    run[r].token # 0 => lease.epoch > run[r].token \/ lease.phase = "free"

\* "Runtime persistence is audit state, never a physical cleanup fence": a run
\* that nothing but lost records disturbed ends with its change undone and its
\* authority given back, and so does every run that is PASSED.  Whatever else
\* failed, the authority is given back or that failed too.
EndsClean ==
    \A r \in Run : At(r, "over") =>
        /\ (faults = 0 \/ row[r] = "PASSED") => Restored(r) /\ Released(r)
        /\ Released(r) \/ "release" \in run[r].failures
=============================================================================
