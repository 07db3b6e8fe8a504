-------------------------- MODULE AutomationGateProofs --------------------------
(***************************************************************************)
(* Proofs about AutomationGate, for any set of runs and any number of      *)
(* faults.                                                                 *)
(***************************************************************************)
EXTENDS AutomationGate, TLAPS

-----------------------------------------------------------------------------
(***************************************************************************)
(* Types.  TypeOK says what the fields of a run's memory hold; that it is  *)
(* a function to records of these fields is needed to reason about EXCEPT. *)
(***************************************************************************)
Stops == {"none", "blocked", "inconclusive"}
Memory == [token : Nat, severed : BOOLEAN, snap : Names \cup {"none"}, stop : Stops,
           seen : Names \cup {"none"}, failures : SUBSET {"restore", "release"},
           unrecorded : BOOLEAN]

TypeInv == TypeOK /\ run \in [Run -> Memory]

-----------------------------------------------------------------------------
(***************************************************************************)
(* The inductive invariant.                                                *)
(***************************************************************************)
Past == {"release", "released", "report", "over"}
Changing == {"current", "revalidate", "reset", "verify", "unmark"}
Working == {"mark", "configure", "set", "observe"} \cup Changing

\* No two runs have the same token, and a row that is held was granted.
TokenInv ==
    /\ lease.phase = "held" => lease.epoch > 0
    /\ \A r, s \in Run : run[r].token # 0 /\ run[r].token = run[s].token => r = s

\* What run r knows and has written when it is at a step.
RunInv(r) ==
    /\ At(r, "new") => run[r].token = 0 /\ ~run[r].severed
    /\ at[r] \in {"new", "snapshot"} => run[r].snap = "none"
    /\ at[r] \in {"new", "snapshot", "mark"} => marker[r] = "none"
    /\ at[r] \in Working => run[r].snap # "none"
    /\ At(r, "snapshot") \/ run[r].snap # "none" => run[r].token # 0
    /\ at[r] \in {"configure", "set"} => marker[r] = run[r].snap
    /\ marker[r] \in {"none", run[r].snap}
    /\ at[r] \in {"set", "reset"} => Valid(r)

\* A run that restored nothing or did not release knows that it failed.
EndInv(r) ==
    /\ at[r] \in Past => Restored(r) \/ "restore" \in run[r].failures
    /\ at[r] \in {"report", "over"} => Released(r) \/ "release" \in run[r].failures
    /\ row[r] = "PASSED" => At(r, "over") /\ run[r].failures = {}

\* While nothing went wrong, a run between its grant and its release has the
\* lease, and leaves neither marker nor lease behind.
CleanInv(r) ==
    /\ run[r].token # 0 /\ at[r] \notin {"released", "report", "over", "dead"} =>
           Valid(r) /\ ~run[r].severed
    /\ At(r, "verify") => name = run[r].snap
    /\ at[r] \in {"released", "report", "over"} => Released(r)
    /\ at[r] \in Past => Restored(r)

\* The run in its term sees no name but its snapshot and its probe; and a
\* marker of the user's name outlives the change it stands for.
NameInv ==
    /\ \A r \in Run : Valid(r) /\ run[r].snap \notin {"none", User} => name # User
    /\ name # User => \E r \in Run : marker[r] = User /\ ~At(r, "unmark")

GateInv ==
    /\ TypeInv
    /\ TokenInv
    /\ \A r \in Run : RunInv(r)
    /\ \A r \in Run : EndInv(r)
    /\ faults = 0 => \A r \in Run : CleanInv(r)
    /\ NameInv

-----------------------------------------------------------------------------
(***************************************************************************)
(* What a step of run r does to the program counters and memories: r goes  *)
(* to step with this token, snapshot and failures, severed as given; the   *)
(* other runs stay as they are.                                            *)
(***************************************************************************)
Effect(r, step, token, snap, severed, failures) ==
    /\ run' \in [Run -> Memory]
    /\ at' = [at EXCEPT ![r] = step]
    /\ run'[r].token = token
    /\ run'[r].snap = snap
    /\ run'[r].severed = severed
    /\ run'[r].failures = failures
    /\ \A s \in Run \ {r} : run'[s] = run[s]

\* A run that learned m and recorded that, or failed to record it.
LEMMA RecordedEffect ==
    ASSUME TypeInv, NEW r \in Run, NEW step, NEW m \in Memory,
           Recorded(r, step, m)
    PROVE  Effect(r, step, m.token, m.snap, m.severed, m.failures)
<1>1. PICK n \in {m, [m EXCEPT !.unrecorded = TRUE]} : run' = [run EXCEPT ![r] = n]
  BY DEF Recorded
<1>2. /\ n \in Memory
      /\ n.token = m.token /\ n.snap = m.snap /\ n.severed = m.severed
      /\ n.failures = m.failures
  BY <1>1 DEF Memory
<1>3. at' = [at EXCEPT ![r] = step]
  BY DEF Recorded, Goto, AfterLostRecord
<1> QED
  BY <1>1, <1>2, <1>3 DEF Effect, TypeInv

\* A step that only goes on.
LEMMA KeepEffect ==
    ASSUME TypeInv, NEW r \in Run, NEW step, Goto(r, step), Keep
    PROVE  Effect(r, step, run[r].token, run[r].snap, run[r].severed, run[r].failures)
BY DEF Effect, Goto, Keep, TypeInv

\* A step that gives up goes to the restore.
LEMMA CutShortEffect ==
    ASSUME TypeInv, NEW r \in Run, NEW why \in Stops, CutShort(r, why)
    PROVE  Effect(r, "restore", run[r].token, run[r].snap, run[r].severed,
                  run[r].failures)
<1>1. run[r] \in Memory
  BY DEF TypeInv
<1> DEFINE m == [run[r] EXCEPT !.stop = why]
<1>2. /\ m \in Memory
      /\ m.token = run[r].token /\ m.snap = run[r].snap
      /\ m.severed = run[r].severed /\ m.failures = run[r].failures
  BY <1>1 DEF Memory
<1>3. Recorded(r, "restore", m)
  BY DEF CutShort
<1> HIDE DEF m
<1> QED
  BY <1>2, <1>3, RecordedEffect

\* A restore that failed goes to the release, and is noted.
LEMMA RestoreFailedEffect ==
    ASSUME TypeInv, NEW r \in Run, RestoreFailed(r)
    PROVE  Effect(r, "release", run[r].token, run[r].snap, run[r].severed, {"restore"})
<1>1. run[r] \in Memory
  BY DEF TypeInv
<1> DEFINE m == [run[r] EXCEPT !.failures = {"restore"}]
<1>2. /\ m \in Memory
      /\ m.token = run[r].token /\ m.snap = run[r].snap
      /\ m.severed = run[r].severed /\ m.failures = {"restore"}
  BY <1>1 DEF Memory
<1>3. Recorded(r, "release", m)
  BY DEF RestoreFailed, AfterFailedRestore
<1> HIDE DEF m
<1> QED
  BY <1>2, <1>3, RecordedEffect

\* A release that failed goes to the report, and is noted.
LEMMA ReleaseFailedEffect ==
    ASSUME TypeInv, NEW r \in Run, ReleaseFailed(r)
    PROVE  Effect(r, "report", run[r].token, run[r].snap, run[r].severed,
                  run[r].failures \cup {"release"})
<1>1. run[r] \in Memory
  BY DEF TypeInv
<1> DEFINE m == [run[r] EXCEPT !.failures = @ \cup {"release"}]
<1>2. /\ m \in Memory
      /\ m.token = run[r].token /\ m.snap = run[r].snap
      /\ m.severed = run[r].severed /\ m.failures = run[r].failures \cup {"release"}
  BY <1>1 DEF Memory
<1>3. Recorded(r, "report", m)
  BY DEF ReleaseFailed
<1> HIDE DEF m
<1> QED
  BY <1>2, <1>3, RecordedEffect


\* Nothing but the step changes; or, besides, the restore is known to fail.
Same(r, step) ==
    Effect(r, step, run[r].token, run[r].snap, run[r].severed, run[r].failures)
Fails(r) ==
    Effect(r, "release", run[r].token, run[r].snap, run[r].severed, {"restore"})

\* What each step of the code up to the read-back does to a run.
LEMMA TestEffects ==
    ASSUME TypeInv, NEW r \in Run
    PROVE  /\ Reserve(r) => Effect(r, "snapshot", lease.epoch + 1, run[r].snap,
                                   run[r].severed, run[r].failures)
           /\ LeaseBusy(r) => Same(r, "restore")
           /\ ReserveFails(r) => Same(r, "restore")
           /\ Snapshot(r) =>
                \/ Effect(r, "mark", run[r].token, name, run[r].severed,
                          run[r].failures)
                \/ Same(r, "restore") /\ Fault
           /\ WriteMarker(r) =>
                \/ Same(r, "configure") /\ marker' = [marker EXCEPT ![r] = run[r].snap]
                \/ Same(r, "restore") /\ UNCHANGED marker
           /\ Configure(r) => (Valid(r) /\ Same(r, "set")) \/ Same(r, "restore")
           /\ SetProbe(r) =>
                \E step \in {"readback", "observe", "restore"} : Same(r, step)
           /\ Observe(r) => \E step \in {"readback", "restore"} : Same(r, step)
           /\ ReadBack(r) => Same(r, "restore")
<1> USE DEF Same
<1>0. run[r] \in Memory /\ name \in Names \cup {"none"}
  BY DEF TypeInv, TypeOK
<1>1. ASSUME Reserve(r)
      PROVE  Effect(r, "snapshot", lease.epoch + 1, run[r].snap, run[r].severed,
                    run[r].failures)
  <2> DEFINE m == [run[r] EXCEPT !.token = Granted.epoch]
  <2>1. /\ m \in Memory /\ m.token = lease.epoch + 1 /\ m.snap = run[r].snap
        /\ m.severed = run[r].severed /\ m.failures = run[r].failures
    BY <1>0 DEF Memory, Granted, TypeInv, TypeOK
  <2>2. Recorded(r, "snapshot", m)
    BY <1>1 DEF Reserve
  <2> HIDE DEF m
  <2> QED
    BY <2>1, <2>2, RecordedEffect
<1>2. (\E why \in Stops : CutShort(r, why)) => Same(r, "restore")
  BY CutShortEffect
<1>3. LeaseBusy(r) \/ ReserveFails(r) => Same(r, "restore")
  BY <1>2 DEF LeaseBusy, ReserveFails, Stops
<1>4. ASSUME Snapshot(r), ~(Same(r, "restore") /\ Fault)
      PROVE  Effect(r, "mark", run[r].token, name, run[r].severed, run[r].failures)
  <2> DEFINE m == [run[r] EXCEPT !.snap = name]
  <2>1. /\ m \in Memory /\ m.token = run[r].token /\ m.snap = name
        /\ m.severed = run[r].severed /\ m.failures = run[r].failures
    BY <1>0 DEF Memory
  <2>2. run' = [run EXCEPT ![r] = m] /\ Goto(r, "mark")
    BY <1>2, <1>4 DEF Snapshot, Stops
  <2> HIDE DEF m
  <2> QED
    BY <2>1, <2>2 DEF Effect, Goto, TypeInv
<1>5. ASSUME WriteMarker(r)
      PROVE  \/ Same(r, "configure") /\ marker' = [marker EXCEPT ![r] = run[r].snap]
             \/ Same(r, "restore") /\ UNCHANGED marker
  BY <1>0, <1>2, <1>5, RecordedEffect DEF WriteMarker, Stops
<1>6. ASSUME Configure(r)
      PROVE  (Valid(r) /\ Same(r, "set")) \/ Same(r, "restore")
  BY <1>2, <1>6, KeepEffect DEF Configure, Stops
<1>7. ASSUME SetProbe(r)
      PROVE  \E step \in {"readback", "observe", "restore"} : Same(r, step)
  BY <1>2, <1>7, KeepEffect DEF SetProbe, Stops
<1>8. ASSUME Goto(r, "readback"), Unknown(r)
      PROVE  Same(r, "readback")
  <2> DEFINE m == [run[r] EXCEPT !.stop = "inconclusive"]
  <2>1. /\ m \in Memory /\ m.token = run[r].token /\ m.snap = run[r].snap
        /\ m.severed = run[r].severed /\ m.failures = run[r].failures
    BY <1>0 DEF Memory, Stops
  <2>2. run' = [run EXCEPT ![r] = m]
    BY <1>8 DEF Unknown, TypeInv
  <2> HIDE DEF m
  <2> QED
    BY <1>8, <2>1, <2>2 DEF Effect, Goto, TypeInv
<1>9. ASSUME Observe(r)
      PROVE  \E step \in {"readback", "restore"} : Same(r, step)
  BY <1>2, <1>8, <1>9, KeepEffect DEF Observe, Stops
<1>10. ASSUME ReadBack(r)
       PROVE  Same(r, "restore")
  <2> DEFINE m == [run[r] EXCEPT !.seen = name]
  <2>1. /\ m \in Memory /\ m.token = run[r].token /\ m.snap = run[r].snap
        /\ m.severed = run[r].severed /\ m.failures = run[r].failures
    BY <1>0 DEF Memory
  <2>2. Recorded(r, "restore", m) \/ CutShort(r, "inconclusive")
    BY <1>10 DEF ReadBack
  <2> HIDE DEF m
  <2> QED
    BY <1>2, <2>1, <2>2, RecordedEffect DEF Stops
<1> HIDE DEF Same
<1> QED
  BY <1>1, <1>3, <1>4, <1>5, <1>6, <1>7, <1>9, <1>10

\* The same for its cleanup and its report.
LEMMA CleanupEffects ==
    ASSUME TypeInv, NEW r \in Run
    PROVE  /\ Restore(r) =>
                \/ run[r].snap = "none" /\ Same(r, "release")
                \/ run[r].snap # "none" /\ run[r].severed /\ Fails(r)
                \/ run[r].snap # "none" /\ Same(r, "current")
           /\ ReadCurrent(r) =>
                \/ name = run[r].snap /\ Same(r, "verify")
                \/ Same(r, "revalidate")
                \/ Fails(r) /\ Fault
           /\ Revalidate(r) =>
                (Valid(r) /\ Same(r, "reset")) \/ (~Valid(r) /\ Fails(r))
           /\ SetBack(r) =>
                \/ Same(r, "verify") /\ (name' = run[r].snap \/ Fault)
                \/ Fails(r) /\ Fault
           /\ Verify(r) =>
                \/ name = run[r].snap /\ Same(r, "unmark")
                \/ Fails(r) /\ (name # run[r].snap \/ Fault)
           /\ Unmark(r) => Same(r, "release")
           /\ Release(r) =>
                \/ /\ run[r].severed \/ ~Named(r)
                   /\ ReleaseFailed(r) /\ UNCHANGED lease
                \/ /\ Named(r) /\ Same(r, "released")
                   /\ lease' = [lease EXCEPT !.phase = "free"]
           /\ NothingToRelease(r) => Same(r, "report")
           /\ VerifyRelease(r) =>
                \/ lease = [epoch |-> run[r].token, phase |-> "free"] /\ Same(r, "report")
                \/ /\ lease # [epoch |-> run[r].token, phase |-> "free"]
                   /\ ReleaseFailed(r)
           /\ Report(r) => Same(r, "over")
<1> USE DEF Same, Fails
<1>0. run[r] \in Memory
  BY DEF TypeInv
<1>1. \A step : Recorded(r, step, run[r]) => Same(r, step)
  BY <1>0, RecordedEffect
<1>2. \A step : Goto(r, step) /\ Keep => Same(r, step)
  BY KeepEffect
<1>3. RestoreFailed(r) => Fails(r)
  BY RestoreFailedEffect
<1> HIDE DEF Same, Fails
<1>4. ASSUME Restore(r)
      PROVE  \/ run[r].snap = "none" /\ Same(r, "release")
             \/ run[r].snap # "none" /\ run[r].severed /\ Fails(r)
             \/ run[r].snap # "none" /\ Same(r, "current")
  BY <1>1, <1>2, <1>3, <1>4 DEF Restore
<1>5. ASSUME ReadCurrent(r)
      PROVE  \/ name = run[r].snap /\ Same(r, "verify")
             \/ Same(r, "revalidate")
             \/ Fails(r) /\ Fault
  BY <1>2, <1>3, <1>5 DEF ReadCurrent
<1>6. ASSUME Revalidate(r)
      PROVE  (Valid(r) /\ Same(r, "reset")) \/ (~Valid(r) /\ Fails(r))
  BY <1>2, <1>3, <1>6 DEF Revalidate
<1>7. ASSUME SetBack(r)
      PROVE  \/ Same(r, "verify") /\ (name' = run[r].snap \/ Fault)
             \/ Fails(r) /\ Fault
  BY <1>2, <1>3, <1>7 DEF SetBack
<1>8. ASSUME Verify(r)
      PROVE  \/ name = run[r].snap /\ Same(r, "unmark")
             \/ Fails(r) /\ (name # run[r].snap \/ Fault)
  BY <1>2, <1>3, <1>8 DEF Verify
<1>9. Unmark(r) => Same(r, "release")
  BY <1>1 DEF Unmark
<1>10. ASSUME Release(r)
       PROVE  \/ /\ run[r].severed \/ ~Named(r)
                 /\ ReleaseFailed(r) /\ UNCHANGED lease
              \/ /\ Named(r) /\ Same(r, "released")
                 /\ lease' = [lease EXCEPT !.phase = "free"]
  BY <1>2, <1>10 DEF Release
<1>11. NothingToRelease(r) => Same(r, "report")
  BY <1>1 DEF NothingToRelease
<1>12. ASSUME VerifyRelease(r)
       PROVE  \/ lease = [epoch |-> run[r].token, phase |-> "free"] /\ Same(r, "report")
              \/ /\ lease # [epoch |-> run[r].token, phase |-> "free"]
                 /\ ReleaseFailed(r)
  BY <1>1, <1>12 DEF VerifyRelease
<1>13. Report(r) => Same(r, "over")
  BY <1>2 DEF Report
<1> QED
  BY <1>4, <1>5, <1>6, <1>7, <1>8, <1>9, <1>10, <1>11, <1>12, <1>13


\* The keepalive takes no step of the run; a run that dies takes its last.
LEMMA OtherEffects ==
    ASSUME TypeInv, NEW r \in Run
    PROVE  /\ Sever(r) => Effect(r, at[r], run[r].token, run[r].snap, TRUE,
                                 run[r].failures)
           /\ Die(r) => Same(r, "dead")
<1>1. ASSUME Sever(r)
      PROVE  Effect(r, at[r], run[r].token, run[r].snap, TRUE, run[r].failures)
  <2> DEFINE m == [run[r] EXCEPT !.severed = TRUE]
  <2>1. run[r] \in Memory
    BY DEF TypeInv
  <2>2. /\ m \in Memory /\ m.token = run[r].token /\ m.snap = run[r].snap
        /\ m.severed = TRUE /\ m.failures = run[r].failures
    BY <2>1 DEF Memory
  <2>3. run' = [run EXCEPT ![r] = m] /\ at' = [at EXCEPT ![r] = at[r]]
    BY <1>1 DEF Sever, TypeInv, TypeOK
  <2> HIDE DEF m
  <2> QED
    BY <2>2, <2>3 DEF Effect, TypeInv
<1>2. Die(r) => Same(r, "dead")
  BY KeepEffect DEF Die, Same
<1> QED
  BY <1>1, <1>2

-----------------------------------------------------------------------------
(***************************************************************************)
(* Types are kept.                                                         *)
(***************************************************************************)
LeaseRows == [epoch : Nat, phase : {"free", "held", "lapsed"}]

\* A step of a run that writes nothing of a wrong type.
LEMMA EffectTypes ==
    ASSUME TypeInv, NEW r \in Run, NEW step \in Steps, NEW token \in Nat,
           NEW snap, NEW severed, NEW failures,
           Effect(r, step, token, snap, severed, failures),
           lease' \in LeaseRows, token <= lease'.epoch, lease.epoch <= lease'.epoch,
           name' \in Names, Fault \/ NoFault,
           marker' \in [Run -> Names \cup {"none"}],
           row' \in [Run -> Verdicts \cup {"open"}]
    PROVE  TypeInv'
<1>1. run' \in [Run -> Memory] /\ at' \in [Run -> Steps]
  BY DEF Effect, TypeInv, TypeOK
<1>2. \A s \in Run : run'[s].token <= lease'.epoch
  BY DEF Effect, TypeInv, TypeOK, LeaseRows
<1>3. faults' \in 0 .. MaxFault
  BY GateAssumption DEF Fault, NoFault, TypeInv, TypeOK
<1> QED
  BY <1>1, <1>2, <1>3 DEF TypeInv, TypeOK, Memory, Stops, LeaseRows

\* One that changes no row.
LEMMA SameTypes ==
    ASSUME TypeInv, NEW r \in Run, NEW step \in Steps,
           NEW failures,
           Effect(r, step, run[r].token, run[r].snap, run[r].severed, failures),
           lease' \in LeaseRows, lease'.epoch = lease.epoch,
           name' \in Names, Fault \/ NoFault,
           marker' \in [Run -> Names \cup {"none"}],
           row' \in [Run -> Verdicts \cup {"open"}]
    PROVE  TypeInv'
<1>1. /\ run[r].token \in Nat
      /\ run[r].token <= lease'.epoch /\ lease.epoch <= lease'.epoch
  BY DEF TypeInv, TypeOK
<1> QED
  BY <1>1, EffectTypes

\* Every step preserves the types: what a run puts back is a name it has read.
LEMMA TypeStep ==
    ASSUME TypeInv, \A r \in Run : RunInv(r), [Next]_vars
    PROVE  TypeInv'
<1>0. /\ lease \in LeaseRows /\ name \in Names /\ at \in [Run -> Steps]
      /\ marker \in [Run -> Names \cup {"none"}]
      /\ row \in [Run -> Verdicts \cup {"open"}]
      /\ Granted \in LeaseRows /\ Granted.epoch = lease.epoch + 1
      /\ \A r \in Run : run[r] \in Memory /\ run[r].token <= lease.epoch
  BY DEF TypeInv, TypeOK, LeaseRows, Granted
<1>1. CASE UNCHANGED vars
  BY <1>1 DEF vars, TypeInv, TypeOK
<1>2. CASE Lapse
  BY <1>0, <1>2, GateAssumption
  DEF Lapse, Fault, NoFault, TypeInv, TypeOK, LeaseRows
<1>3. ASSUME NEW r \in Run, Reserve(r)
      PROVE  TypeInv'
  <2>1. Effect(r, "snapshot", lease.epoch + 1, run[r].snap, run[r].severed,
               run[r].failures)
    BY <1>3, TestEffects
  <2>2. /\ UNCHANGED <<name, marker, row>> /\ (Fault \/ NoFault)
        /\ lease' \in LeaseRows /\ lease'.epoch = lease.epoch + 1
    BY <1>0, <1>3 DEF Reserve
  <2>3. /\ lease.epoch + 1 \in Nat /\ lease.epoch + 1 <= lease'.epoch
        /\ lease.epoch <= lease'.epoch /\ "snapshot" \in Steps
    BY <1>0, <2>2 DEF LeaseRows, Steps
  <2> QED
    BY <1>0, <2>1, <2>2, <2>3, EffectTypes
<1>4. ASSUME NEW r \in Run, ReserveFails(r)
      PROVE  TypeInv'
  <2>1. Same(r, "restore")
    BY <1>4, TestEffects
  <2>2. /\ UNCHANGED <<name, marker, row>> /\ (Fault \/ NoFault)
        /\ lease' \in LeaseRows /\ lease.epoch <= lease'.epoch
    BY <1>0, <1>4 DEF ReserveFails, LeaseRows
  <2>3. /\ run[r].token \in Nat /\ run[r].token <= lease'.epoch
        /\ "restore" \in Steps
    BY <1>0, <2>2 DEF LeaseRows, Steps, Memory
  <2> QED
    BY <1>0, <2>1, <2>2, <2>3, EffectTypes DEF Same
<1>5. ASSUME NEW r \in Run, Snapshot(r)
      PROVE  TypeInv'
  <2>1. /\ UNCHANGED <<lease, name, marker, row>> /\ (Fault \/ NoFault)
        /\ {"mark", "restore"} \subseteq Steps
    BY <1>5 DEF Snapshot, Steps
  <2>2. /\ run[r].token \in Nat /\ run[r].token <= lease'.epoch
        /\ lease' \in LeaseRows /\ lease.epoch <= lease'.epoch
    BY <1>0, <2>1 DEF LeaseRows, Memory
  <2>3. \/ Effect(r, "mark", run[r].token, name, run[r].severed, run[r].failures)
        \/ Same(r, "restore")
    BY <1>5, TestEffects
  <2> QED
    BY <1>0, <2>1, <2>2, <2>3, EffectTypes DEF Same
<1>6. ASSUME NEW r \in Run,
             \E step \in Steps : Same(r, step) \/ Fails(r),
             lease' \in {lease, [lease EXCEPT !.phase = "free"]},
             Fault \/ NoFault, name' \in Names,
             marker' \in [Run -> Names \cup {"none"}],
             row' \in [Run -> Verdicts \cup {"open"}]
      PROVE  TypeInv'
  <2>1. lease' \in LeaseRows /\ lease'.epoch = lease.epoch
    BY <1>0, <1>6 DEF LeaseRows
  <2> QED
    BY <1>6, <2>1, SameTypes DEF Same, Fails, Steps
<1>7. ASSUME NEW r \in Run,
             \/ LeaseBusy(r) \/ WriteMarker(r) \/ Configure(r) \/ Observe(r)
             \/ ReadBack(r)
      PROVE  TypeInv'
  <2>1. \E step \in Steps : Same(r, step)
    BY <1>7, TestEffects DEF Steps
  <2>2. /\ UNCHANGED <<lease, name, row>> /\ (Fault \/ NoFault)
        /\ marker' \in {marker, [marker EXCEPT ![r] = run[r].snap]}
    BY <1>7 DEF LeaseBusy, WriteMarker, Configure, Observe, ReadBack
  <2>3. marker' \in [Run -> Names \cup {"none"}]
    BY <1>0, <2>2 DEF Memory
  <2> QED
    BY <1>0, <1>6, <2>1, <2>2, <2>3
<1>8. ASSUME NEW r \in Run, SetProbe(r) \/ SetBack(r) \/ Die(r)
      PROVE  TypeInv'
  <2>1. \E step \in Steps : Same(r, step) \/ Fails(r)
    BY <1>8, TestEffects, CleanupEffects, OtherEffects DEF Steps
  <2>2. At(r, "reset") => run[r].snap \in Names
    BY <1>0 DEF RunInv, Working, Changing, At, Memory
  <2>3. Probe(r) \in Names
    BY DEF Probe, Names
  <2>4. UNCHANGED <<lease, marker, row>> /\ (Fault \/ NoFault) /\ name' \in Names
    BY <1>0, <1>8, <2>2, <2>3 DEF SetProbe, SetBack, Die
  <2> QED
    BY <1>0, <1>6, <2>1, <2>4
<1>9. ASSUME NEW r \in Run,
             \/ Restore(r) \/ ReadCurrent(r) \/ Revalidate(r) \/ Verify(r)
             \/ Unmark(r) \/ NothingToRelease(r) \/ Report(r)
      PROVE  TypeInv'
  <2>1. \E step \in Steps : Same(r, step) \/ Fails(r)
    BY <1>9, CleanupEffects DEF Steps
  <2>2. /\ UNCHANGED <<lease, name>> /\ (Fault \/ NoFault)
        /\ marker' \in {marker, [marker EXCEPT ![r] = "none"]}
        /\ row' = row \/ \E verdict \in Verdicts : row' = [row EXCEPT ![r] = verdict]
    BY <1>9 DEF Restore, ReadCurrent, Revalidate, Verify, Unmark, NothingToRelease,
       Report, Evaluated, Downgraded, Verdicts
  <2> QED
    BY <1>0, <1>6, <2>1, <2>2
<1>10. ASSUME NEW r \in Run, Release(r) \/ ReleaseUnknown(r) \/ VerifyRelease(r)
       PROVE  TypeInv'
  <2>1. Same(r, "released") \/ Same(r, "report") \/ ReleaseFailed(r)
    BY <1>10, CleanupEffects DEF ReleaseUnknown
  <2>2. /\ UNCHANGED <<name, marker, row>> /\ (Fault \/ NoFault)
        /\ lease' \in {lease, [lease EXCEPT !.phase = "free"]}
    BY <1>10 DEF Release, ReleaseUnknown, VerifyRelease
  <2>3. lease' \in LeaseRows /\ lease'.epoch = lease.epoch
    BY <1>0, <2>2 DEF LeaseRows
  <2>4. {"released", "report"} \subseteq Steps
    BY DEF Steps
  <2> QED
    BY <1>0, <2>1, <2>2, <2>3, <2>4, ReleaseFailedEffect, SameTypes DEF Same
<1>11. ASSUME NEW r \in Run, Sever(r)
       PROVE  TypeInv'
  <2>1. Effect(r, at[r], run[r].token, run[r].snap, TRUE, run[r].failures)
    BY <1>11, OtherEffects
  <2>2. UNCHANGED <<lease, name, marker, row>> /\ (Fault \/ NoFault)
    BY <1>11 DEF Sever
  <2>3. /\ run[r].token \in Nat /\ run[r].token <= lease'.epoch
        /\ lease.epoch <= lease'.epoch /\ at[r] \in Steps
    BY <1>0, <2>2 DEF LeaseRows, Memory
  <2> QED
    BY <1>0, <2>1, <2>2, <2>3, EffectTypes
<1> QED
  BY <1>1, <1>2, <1>3, <1>4, <1>5, <1>7, <1>8, <1>9, <1>10, <1>11
  DEF Next, RunStep


-----------------------------------------------------------------------------
(***************************************************************************)
(* What a step leaves alone.                                               *)
(***************************************************************************)
StepOf(r) == RunStep(r) \/ Sever(r) \/ Die(r)

\* A step of a run is not one of another.
LEMMA OthersKept ==
    ASSUME TypeInv, NEW r \in Run, StepOf(r)
    PROVE  \A s \in Run \ {r} :
               /\ at'[s] = at[s] /\ run'[s] = run[s]
               /\ marker'[s] = marker[s] /\ row'[s] = row[s]
<1>1. ASSUME NEW step, NEW token, NEW snap, NEW severed, NEW failures,
             Effect(r, step, token, snap, severed, failures)
      PROVE  \A s \in Run \ {r} : at'[s] = at[s] /\ run'[s] = run[s]
  BY <1>1 DEF Effect, TypeInv, TypeOK
<1>2. \A s \in Run \ {r} : at'[s] = at[s] /\ run'[s] = run[s]
  <2>1. ASSUME \E step : Same(r, step)
        PROVE  \A s \in Run \ {r} : at'[s] = at[s] /\ run'[s] = run[s]
    BY <1>1, <2>1 DEF Same
  <2>2. ASSUME Fails(r)
        PROVE  \A s \in Run \ {r} : at'[s] = at[s] /\ run'[s] = run[s]
    BY <1>1, <2>2 DEF Fails
  <2>3. ASSUME ReleaseFailed(r)
        PROVE  \A s \in Run \ {r} : at'[s] = at[s] /\ run'[s] = run[s]
    BY <1>1, <2>3, ReleaseFailedEffect
  <2>4. CASE Reserve(r) \/ Snapshot(r)
    BY <1>1, <2>1, <2>4, TestEffects
  <2>5. CASE \/ LeaseBusy(r) \/ ReserveFails(r) \/ WriteMarker(r) \/ Configure(r)
             \/ SetProbe(r) \/ Observe(r) \/ ReadBack(r)
    BY <2>1, <2>5, TestEffects
  <2>6. CASE \/ Restore(r) \/ ReadCurrent(r) \/ Revalidate(r) \/ SetBack(r)
             \/ Verify(r) \/ Unmark(r) \/ Release(r) \/ NothingToRelease(r)
             \/ VerifyRelease(r) \/ Report(r)
    BY <2>1, <2>2, <2>3, <2>6, CleanupEffects
  <2>7. CASE ReleaseUnknown(r)
    BY <2>3, <2>7 DEF ReleaseUnknown
  <2>8. CASE Sever(r) \/ Die(r)
    BY <1>1, <2>1, <2>8, OtherEffects
  <2> QED
    BY <2>4, <2>5, <2>6, <2>7, <2>8 DEF StepOf, RunStep
<1>3. \A s \in Run \ {r} : marker'[s] = marker[s]
  <2>1. \/ marker' = marker
        \/ \E n \in {"none", run[r].snap} : marker' = [marker EXCEPT ![r] = n]
    BY DEF StepOf, RunStep, Reserve, LeaseBusy, ReserveFails, Snapshot, WriteMarker,
       Configure, SetProbe, Observe, ReadBack, Restore, ReadCurrent, Revalidate,
       SetBack, Verify, Unmark, Release, ReleaseUnknown, NothingToRelease,
       VerifyRelease, Report, Sever, Die
  <2> QED
    BY <2>1 DEF TypeInv, TypeOK
<1>4. \A s \in Run \ {r} : row'[s] = row[s]
  <2>1. row' = row \/ \E verdict : row' = [row EXCEPT ![r] = verdict]
    BY DEF StepOf, RunStep, Reserve, LeaseBusy, ReserveFails, Snapshot, WriteMarker,
       Configure, SetProbe, Observe, ReadBack, Restore, ReadCurrent, Revalidate,
       SetBack, Verify, Unmark, Release, ReleaseUnknown, NothingToRelease,
       VerifyRelease, Report, Sever, Die
  <2> QED
    BY <2>1 DEF TypeInv, TypeOK
<1> QED
  BY <1>2, <1>3, <1>4

\* Only Reserve gives a run a token.
LEMMA TokenKept ==
    ASSUME TypeInv, NEW r \in Run, StepOf(r), ~Reserve(r)
    PROVE  run'[r].token = run[r].token
<1>1. CASE \/ LeaseBusy(r) \/ ReserveFails(r) \/ WriteMarker(r) \/ Configure(r)
           \/ SetProbe(r) \/ Observe(r) \/ ReadBack(r) \/ Snapshot(r)
  BY <1>1, TestEffects DEF Same, Effect
<1>2. CASE \/ Restore(r) \/ ReadCurrent(r) \/ Revalidate(r) \/ SetBack(r)
           \/ Verify(r) \/ Unmark(r) \/ Release(r) \/ NothingToRelease(r)
           \/ VerifyRelease(r) \/ Report(r)
  BY <1>2, CleanupEffects, ReleaseFailedEffect DEF Same, Fails, Effect
<1>3. CASE ReleaseUnknown(r)
  BY <1>3, ReleaseFailedEffect DEF ReleaseUnknown, Effect
<1>4. CASE Sever(r) \/ Die(r)
  BY <1>4, OtherEffects DEF Same, Effect
<1> QED
  BY <1>1, <1>2, <1>3, <1>4 DEF StepOf, RunStep

\* What a step of run r does to the lease: it is granted anew when nobody has
\* it, given back by the run it names, or left alone.
LEMMA LeaseMoves ==
    ASSUME NEW r \in Run, StepOf(r)
    PROVE  \/ lease.phase # "held" /\ lease' = Granted /\ (Reserve(r) \/ Fault)
           \/ /\ At(r, "release") /\ run[r].token # 0 /\ Named(r)
              /\ lease' = [lease EXCEPT !.phase = "free"]
           \/ ~Reserve(r) /\ lease' = lease
BY DEF StepOf, RunStep, Reserve, LeaseBusy, ReserveFails, Snapshot, WriteMarker,
   Configure, SetProbe, Observe, ReadBack, Restore, ReadCurrent, Revalidate,
   SetBack, Verify, Unmark, Release, ReleaseUnknown, NothingToRelease,
   VerifyRelease, Report, Sever, Die

\* The token a run is granted is newer than every other.
LEMMA TokensKept ==
    ASSUME TypeInv, NEW r \in Run, StepOf(r)
    PROVE  /\ Reserve(r) => run'[r].token = lease.epoch + 1 /\ lease' = Granted
           /\ \A s \in Run : ~Reserve(r) \/ s # r => run'[s].token = run[s].token
           /\ \A s \in Run : run[s].token \in 0 .. lease.epoch
           /\ lease \in LeaseRows
<1>1. Reserve(r) => run'[r].token = lease.epoch + 1 /\ lease' = Granted
  BY TestEffects DEF Effect, Reserve
<1> QED
  BY <1>1, TokenKept, OthersKept DEF TypeInv, TypeOK, LeaseRows

\* A step preserves what is known of the tokens.
LEMMA TokenStep ==
    ASSUME TypeInv, TokenInv, NEW r \in Run, StepOf(r)
    PROVE  TokenInv'
<1>1. lease'.phase = "held" => lease'.epoch > 0
  BY LeaseMoves, TokensKept DEF TokenInv, Granted, LeaseRows
<1>2. \A s, t \in Run : run'[s].token # 0 /\ run'[s].token = run'[t].token => s = t
  BY TokensKept DEF TokenInv, LeaseRows
<1> QED
  BY <1>1, <1>2 DEF TokenInv

\* Nobody takes a term away from another run that is in it.
LEMMA ValidKept ==
    ASSUME TypeInv, TokenInv, NEW r \in Run, StepOf(r), NEW s \in Run \ {r}
    PROVE  Valid(s)' <=> Valid(s)
<1>1. run'[s].token = run[s].token /\ run[s].token <= lease.epoch
  BY TokensKept DEF TypeInv, TypeOK
<1>2. lease \in LeaseRows
  BY TokensKept
<1>3. CASE lease.phase # "held" /\ lease' = Granted
  BY <1>1, <1>2, <1>3 DEF Valid, Granted, LeaseRows
<1>4. CASE /\ run[r].token # 0 /\ Named(r)
           /\ lease' = [lease EXCEPT !.phase = "free"]
  BY <1>1, <1>2, <1>4 DEF Valid, Named, TokenInv, LeaseRows
<1>5. CASE lease' = lease
  BY <1>1, <1>5 DEF Valid
<1> QED
  BY <1>3, <1>4, <1>5, LeaseMoves

\* Nor does a run that was released hold the lease again.
LEMMA ReleasedKept ==
    ASSUME TypeInv, NEW r \in Run, StepOf(r), NEW s \in Run, Released(s),
           ~Reserve(r) \/ s # r
    PROVE  Released(s)'
<1>1. /\ run'[s].token = run[s].token /\ run[s].token \in 0 .. lease.epoch
      /\ lease \in LeaseRows
  BY TokensKept
<1>2. CASE lease' = Granted
  BY <1>1, <1>2 DEF Released, Granted, LeaseRows
<1>3. CASE lease' = [lease EXCEPT !.phase = "free"] \/ lease' = lease
  BY <1>1, <1>3 DEF Released, LeaseRows
<1> QED
  BY <1>2, <1>3, LeaseMoves

-----------------------------------------------------------------------------
(***************************************************************************)
(* RunInv is kept.                                                         *)
(***************************************************************************)
LEMMA OtherRuns ==
    ASSUME TypeInv, TokenInv, NEW r \in Run, StepOf(r), NEW s \in Run \ {r},
           RunInv(s)
    PROVE  RunInv(s)'
BY OthersKept, ValidKept DEF RunInv, At

\* A step preserves what is known of the run that takes it.
LEMMA OwnRun ==
    ASSUME TypeInv, TokenInv, NEW r \in Run, StepOf(r), RunInv(r)
    PROVE  RunInv(r)'
<1> USE DEF RunInv, Working, Changing, At
<1>0. /\ lease.epoch \in Nat /\ run[r].token \in Nat /\ name # "none"
      /\ at \in [Run -> Steps] /\ marker \in [Run -> Names \cup {"none"}]
  BY DEF TypeInv, TypeOK, Memory, Names, User
<1>1. CASE Reserve(r)
  BY <1>0, <1>1, TestEffects DEF Reserve, Effect
<1>2. CASE Snapshot(r)
  BY <1>0, <1>2, TestEffects DEF Snapshot, Effect, Same
<1>3. CASE LeaseBusy(r) \/ ReserveFails(r) \/ Observe(r) \/ ReadBack(r)
  BY <1>0, <1>3, TestEffects
  DEF LeaseBusy, ReserveFails, Observe, ReadBack, Effect, Same
<1>4. CASE WriteMarker(r)
  BY <1>0, <1>4, TestEffects DEF WriteMarker, Effect, Same
<1>5. CASE Configure(r)
  BY <1>0, <1>5, TestEffects DEF Configure, Effect, Same, Valid
<1>6. CASE SetProbe(r)
  BY <1>0, <1>6, TestEffects DEF SetProbe, Effect, Same
<1>7. CASE Restore(r) \/ ReadCurrent(r)
  BY <1>0, <1>7, CleanupEffects DEF Restore, ReadCurrent, Effect, Same, Fails
<1>8. CASE Revalidate(r)
  BY <1>0, <1>8, CleanupEffects DEF Revalidate, Effect, Same, Fails, Valid
<1>9. CASE SetBack(r) \/ Verify(r)
  BY <1>0, <1>9, CleanupEffects DEF SetBack, Verify, Effect, Same, Fails
<1>10. CASE Unmark(r)
  BY <1>0, <1>10, CleanupEffects DEF Unmark, Effect, Same
<1>11. CASE Release(r) \/ ReleaseUnknown(r) \/ NothingToRelease(r)
  BY <1>0, <1>11, CleanupEffects, ReleaseFailedEffect
  DEF Release, ReleaseUnknown, NothingToRelease, Effect, Same
<1>12. CASE VerifyRelease(r) \/ Report(r)
  BY <1>0, <1>12, CleanupEffects, ReleaseFailedEffect
  DEF VerifyRelease, Report, Effect, Same
<1>13. CASE Sever(r)
  BY <1>0, <1>13, OtherEffects DEF Sever, Effect, Valid
<1>14. CASE Die(r)
  BY <1>0, <1>14, OtherEffects, ZenonT(30) DEF Die, Effect, Same
<1> QED
  BY <1>1, <1>2, <1>3, <1>4, <1>5, <1>6, <1>7, <1>8, <1>9, <1>10, <1>11, <1>12,
     <1>13, <1>14 DEF StepOf, RunStep

-----------------------------------------------------------------------------
(***************************************************************************)
(* EndInv is kept.                                                         *)
(***************************************************************************)
LEMMA OtherEnds ==
    ASSUME TypeInv, NEW r \in Run, StepOf(r), NEW s \in Run \ {r}, EndInv(s)
    PROVE  EndInv(s)'
BY OthersKept, ReleasedKept DEF EndInv, At, Restored

\* A step preserves what a run that ends has noted.
LEMMA OwnEnd ==
    ASSUME TypeInv, NEW r \in Run, StepOf(r), RunInv(r), EndInv(r)
    PROVE  EndInv(r)'
<1> USE DEF EndInv, Past, At, Restored
<1>0. /\ at \in [Run -> Steps] /\ marker \in [Run -> Names \cup {"none"}]
      /\ row \in [Run -> Verdicts \cup {"open"}]
  BY DEF TypeInv, TypeOK
<1>1. CASE \/ Reserve(r) \/ LeaseBusy(r) \/ ReserveFails(r) \/ Snapshot(r)
           \/ WriteMarker(r) \/ Configure(r) \/ SetProbe(r) \/ Observe(r)
           \/ ReadBack(r)
  <2>1. /\ at'[r] \in {"snapshot", "mark", "configure", "set", "readback", "observe",
                       "restore"}
        /\ at[r] # "over" /\ row' = row
    BY <1>0, <1>1, TestEffects
    DEF Reserve, LeaseBusy, ReserveFails, Snapshot, WriteMarker, Configure, SetProbe,
        Observe, ReadBack, Effect, Same
  <2> QED
    BY <2>1
<1>2. CASE Restore(r)
  BY <1>0, <1>2, CleanupEffects DEF Restore, Effect, Same, Fails, RunInv
<1>3. CASE ReadCurrent(r) \/ Revalidate(r) \/ SetBack(r) \/ Verify(r)
  <2>1. /\ \/ at'[r] \in {"verify", "revalidate", "reset", "unmark"}
           \/ at'[r] = "release" /\ run'[r].failures = {"restore"}
        /\ at[r] # "over" /\ row' = row
    BY <1>0, <1>3, CleanupEffects
    DEF ReadCurrent, Revalidate, SetBack, Verify, Effect, Same, Fails
  <2> QED
    BY <2>1
<1>4. CASE Unmark(r)
  BY <1>0, <1>4, CleanupEffects DEF Unmark, Effect, Same
<1>5. CASE Release(r) \/ ReleaseUnknown(r) \/ NothingToRelease(r) \/ VerifyRelease(r)
  <2>1. marker' = marker /\ row' = row /\ at[r] \in {"release", "released"}
    BY <1>5 DEF Release, ReleaseUnknown, NothingToRelease, VerifyRelease
  <2>2. CASE ReleaseFailed(r)
    BY <1>0, <2>1, <2>2, ReleaseFailedEffect DEF Effect
  <2>3. CASE Same(r, "released")
    BY <1>0, <2>1, <2>3 DEF Same, Effect
  <2>4. CASE Same(r, "report") /\ NothingToRelease(r)
    BY <1>0, <2>1, <2>4 DEF Same, Effect, NothingToRelease, Released
  <2>5. CASE /\ Same(r, "report") /\ VerifyRelease(r)
             /\ lease = [epoch |-> run[r].token, phase |-> "free"]
    BY <1>0, <2>1, <2>5 DEF Same, Effect, VerifyRelease, Released
  <2> QED
    BY <1>5, <2>2, <2>3, <2>4, <2>5, CleanupEffects DEF ReleaseUnknown
<1>6. CASE Report(r)
  <2>1. /\ at'[r] = "over" /\ run'[r].failures = run[r].failures
        /\ run'[r].token = run[r].token
    BY <1>0, <1>6, CleanupEffects DEF Effect, Same
  <2>2. row'[r] \in {row[r], Downgraded, Evaluated(r)}
    BY <1>0, <1>6 DEF Report
  <2>3. Evaluated(r) = "PASSED" => run[r].failures = {}
    BY DEF Evaluated
  <2> QED
    BY <1>6, <2>1, <2>2, <2>3 DEF Report, Released, Downgraded
<1>7. CASE Sever(r)
  BY <1>0, <1>7, OtherEffects DEF Sever, Effect
<1>8. CASE Die(r)
  BY <1>0, <1>8, OtherEffects DEF Die, Effect, Same
<1> QED
  BY <1>1, <1>2, <1>3, <1>4, <1>5, <1>6, <1>7, <1>8 DEF StepOf, RunStep

-----------------------------------------------------------------------------
(***************************************************************************)
(* NameInv is kept.                                                        *)
(***************************************************************************)
\* The name changes only under a command, of a run in its term, to the probe or
\* back to the snapshot.
LEMMA NameMoves ==
    ASSUME NEW r \in Run, StepOf(r), name' # name
    PROVE  /\ UNCHANGED <<lease, marker>>
           /\ \/ At(r, "set") /\ name' = Probe(r)
              \/ At(r, "reset") /\ name' = run[r].snap
BY DEF StepOf, RunStep, Reserve, LeaseBusy, ReserveFails, Snapshot, WriteMarker,
   Configure, SetProbe, Observe, ReadBack, Restore, ReadCurrent, Revalidate,
   SetBack, Verify, Unmark, Release, ReleaseUnknown, NothingToRelease,
   VerifyRelease, Report, Sever, Die, At

\* Two runs are not in their terms at once.
LEMMA OneValid ==
    ASSUME TypeInv, TokenInv, NEW r \in Run, NEW s \in Run, Valid(r), Valid(s)
    PROVE  r = s
<1>1. lease.epoch \in Nat
  BY DEF TypeInv, TypeOK
<1>2. lease.epoch # 0 /\ run[r].token = lease.epoch /\ run[s].token = lease.epoch
  BY <1>1 DEF Valid, TokenInv
<1> QED
  BY <1>2 DEF TokenInv

\* Only Snapshot gives a run a snapshot: the name.
LEMMA SnapKept ==
    ASSUME TypeInv, NEW r \in Run, StepOf(r)
    PROVE  run'[r].snap = run[r].snap \/ (run'[r].snap = name /\ name' = name)
<1>1. CASE \/ Reserve(r) \/ LeaseBusy(r) \/ ReserveFails(r) \/ WriteMarker(r)
           \/ Configure(r) \/ SetProbe(r) \/ Observe(r) \/ ReadBack(r)
  BY <1>1, TestEffects DEF Same, Effect
<1>2. CASE Snapshot(r)
  BY <1>2, TestEffects DEF Same, Effect, Snapshot
<1>3. CASE \/ Restore(r) \/ ReadCurrent(r) \/ Revalidate(r) \/ SetBack(r)
           \/ Verify(r) \/ Unmark(r) \/ Release(r) \/ NothingToRelease(r)
           \/ VerifyRelease(r) \/ Report(r)
  BY <1>3, CleanupEffects, ReleaseFailedEffect DEF Same, Fails, Effect
<1>4. CASE ReleaseUnknown(r)
  BY <1>4, ReleaseFailedEffect DEF ReleaseUnknown, Effect
<1>5. CASE Sever(r) \/ Die(r)
  BY <1>5, OtherEffects DEF Same, Effect
<1> QED
  BY <1>1, <1>2, <1>3, <1>4, <1>5 DEF StepOf, RunStep

\* A step preserves the marker of a changed name.
LEMMA NameStep ==
    ASSUME TypeInv, TokenInv, \A s \in Run : RunInv(s), NameInv,
           NEW r \in Run, StepOf(r)
    PROVE  NameInv'
<1>1. ASSUME name' # name
      PROVE  /\ Valid(r) /\ run[r].snap # "none"
             /\ \/ At(r, "set") /\ name' = Probe(r)
                \/ At(r, "reset") /\ name' = run[r].snap
  BY <1>1, NameMoves DEF RunInv, Working, Changing, At
<1>2. ASSUME NEW s \in Run, Valid(s)', run'[s].snap \notin {"none", User}
      PROVE  name' # User
  <2>1. CASE s # r
    <3>1. Valid(s) /\ run'[s] = run[s]
      BY <1>2, <2>1, ValidKept, OthersKept
    <3>2. name' = name
      BY <1>1, <2>1, <3>1, OneValid
    <3> QED
      BY <1>2, <3>1, <3>2 DEF NameInv
  <2>2. CASE s = r
    <3>1. CASE Reserve(r)
      BY <1>2, <2>2, <3>1, TestEffects DEF Effect, Reserve, RunInv, At
    <3>2. CASE run'[r].snap = run[r].snap /\ ~Reserve(r)
      <4>1. Valid(r)
        BY <1>2, <2>2, <3>2, LeaseMoves, TokensKept DEF Valid, Granted, LeaseRows
      <4>2. name # User
        BY <1>2, <2>2, <3>2, <4>1 DEF NameInv
      <4>3. name' \in {name, Probe(r), run[r].snap}
        BY <1>1
      <4> QED
        BY <1>2, <2>2, <3>2, <4>2, <4>3 DEF Probe, User
    <3>3. CASE run'[r].snap = name /\ name' = name
      BY <1>2, <2>2, <3>3
    <3> QED
      BY <3>1, <3>2, <3>3, SnapKept
  <2> QED
    BY <2>1, <2>2
<1>3. ASSUME name' # User
      PROVE  \E w \in Run : marker'[w] = User /\ at'[w] # "unmark"
  <2>1. CASE name = User
    <3>1. Valid(r) /\ run[r].snap = User /\ At(r, "set") /\ name' = Probe(r)
      BY <1>1, <1>3, <2>1 DEF NameInv
    <3>2. marker'[r] = User
      BY <1>3, <2>1, <3>1, NameMoves DEF RunInv, At
    <3>3. SetProbe(r) \/ Die(r) \/ Sever(r)
      BY <3>1
      DEF At, StepOf, RunStep, Reserve, LeaseBusy, ReserveFails, Snapshot,
          WriteMarker, Configure, Observe, ReadBack, Restore, ReadCurrent,
          Revalidate, SetBack, Verify, Unmark, Release, ReleaseUnknown,
          NothingToRelease, VerifyRelease, Report
    <3>4. at \in [Run -> Steps] /\ at[r] # "unmark"
      BY <3>1 DEF At, TypeInv, TypeOK
    <3>5. \E step \in {at[r], "readback", "observe", "restore", "dead"} :
             at' = [at EXCEPT ![r] = step]
      BY <3>3, TestEffects, OtherEffects DEF Same, Effect
    <3>6. at'[r] # "unmark"
      BY <3>4, <3>5
    <3> QED
      BY <3>2, <3>6
  <2>2. CASE name # User
    <3>1. PICK w \in Run : marker[w] = User /\ at[w] # "unmark"
      BY <2>2 DEF NameInv, At
    <3>2. CASE w # r
      BY <3>1, <3>2, OthersKept
    <3>3. CASE w = r
      <4>1. run[r].snap = User
        BY <3>1, <3>3 DEF RunInv, User
      <4>2. marker'[r] = User
        <5>1. \/ marker' = marker \/ marker' = [marker EXCEPT ![r] = run[r].snap]
          BY <3>1, <3>3
          DEF At, StepOf, RunStep, Reserve, LeaseBusy, ReserveFails, Snapshot,
              WriteMarker, Configure, SetProbe, Observe, ReadBack, Restore,
              ReadCurrent, Revalidate, SetBack, Verify, Unmark, Release,
              ReleaseUnknown, NothingToRelease, VerifyRelease, Report, Sever, Die
        <5> QED
          BY <3>1, <3>3, <4>1, <5>1 DEF TypeInv, TypeOK
      <4>3. at'[r] # "unmark"
        <5>1. at \in [Run -> Steps] /\ at[r] # "unmark" /\ name # run[r].snap
          BY <2>2, <3>1, <3>3, <4>1 DEF TypeInv, TypeOK
        <5>2. CASE \/ Reserve(r) \/ LeaseBusy(r) \/ ReserveFails(r) \/ WriteMarker(r)
                   \/ Configure(r) \/ SetProbe(r) \/ Observe(r) \/ ReadBack(r)
                   \/ Snapshot(r)
          BY <5>1, <5>2, TestEffects DEF Same, Effect
        <5>3. CASE \/ Restore(r) \/ ReadCurrent(r) \/ Revalidate(r) \/ SetBack(r)
                   \/ Verify(r) \/ Unmark(r) \/ Release(r) \/ NothingToRelease(r)
                   \/ VerifyRelease(r) \/ Report(r)
          BY <5>1, <5>3, CleanupEffects, ReleaseFailedEffect DEF Same, Fails, Effect
        <5>4. CASE ReleaseUnknown(r)
          BY <5>1, <5>4, ReleaseFailedEffect DEF ReleaseUnknown, Effect
        <5>5. CASE Sever(r) \/ Die(r)
          BY <5>1, <5>5, OtherEffects DEF Same, Effect
        <5> QED
          BY <5>2, <5>3, <5>4, <5>5 DEF StepOf, RunStep
      <4> QED
        BY <4>2, <4>3
    <3> QED
      BY <3>2, <3>3
  <2> QED
    BY <2>1, <2>2
<1> QED
  BY <1>2, <1>3 DEF NameInv, At

-----------------------------------------------------------------------------
(***************************************************************************)
(* CleanInv is kept by a step that is no fault.                            *)
(***************************************************************************)
LEMMA OtherClean ==
    ASSUME TypeInv, TokenInv, NEW r \in Run, RunInv(r), CleanInv(r), StepOf(r),
           NEW s \in Run \ {r}, RunInv(s), CleanInv(s)
    PROVE  CleanInv(s)'
<1>1. /\ at'[s] = at[s] /\ run'[s] = run[s] /\ marker'[s] = marker[s]
      /\ Valid(s)' <=> Valid(s)
  BY OthersKept, ValidKept
<1>2. ASSUME At(s, "verify")
      PROVE  name' = name
  <2>1. Valid(s)
    BY <1>2 DEF CleanInv, RunInv, Working, Changing, At
  <2>2. name' # name => Valid(r)
    BY NameMoves DEF RunInv, At
  <2> QED
    BY <2>1, <2>2, OneValid
<1>3. Released(s) => Released(s)'
  BY ReleasedKept
<1> QED
  BY <1>1, <1>2, <1>3 DEF CleanInv, At, Restored, Past

\* A step without a fault leaves its run clean.
LEMMA OwnClean ==
    ASSUME TypeInv, NEW r \in Run, RunInv(r), CleanInv(r), StepOf(r), ~Fault
    PROVE  CleanInv(r)'
<1> USE DEF At, Restored, Past, Working, Changing
<1>0. /\ at \in [Run -> Steps] /\ marker \in [Run -> Names \cup {"none"}]
      /\ lease.epoch \in Nat /\ lease \in LeaseRows
  BY DEF TypeInv, TypeOK, LeaseRows
<1>1. CASE Reserve(r)
  <2>1. /\ at'[r] = "snapshot" /\ lease' = Granted
        /\ run'[r].token = lease.epoch + 1 /\ ~run'[r].severed
    BY <1>0, <1>1, TestEffects DEF Reserve, Effect, RunInv
  <2> QED
    BY <2>1 DEF CleanInv, Valid, Granted
<1>2. CASE LeaseBusy(r)
  BY <1>0, <1>2, TestEffects DEF LeaseBusy, Effect, Same, RunInv, CleanInv
<1>3. CASE \/ Snapshot(r) \/ WriteMarker(r) \/ Configure(r) \/ SetProbe(r)
           \/ Observe(r) \/ ReadBack(r)
  <2>1. /\ at'[r] \notin {"verify"} \cup Past /\ run'[r].token = run[r].token
        /\ run'[r].severed = run[r].severed /\ lease' = lease
        /\ at[r] \notin {"released", "report", "over", "dead"}
    BY <1>0, <1>3, TestEffects
    DEF Snapshot, WriteMarker, Configure, SetProbe, Observe, ReadBack, Effect, Same
  <2> QED
    BY <2>1 DEF CleanInv, Valid
<1>4. CASE \/ Restore(r) \/ ReadCurrent(r) \/ Revalidate(r) \/ SetBack(r) \/ Verify(r)
  <2>1. /\ run[r].snap # "none" => run[r].token # 0 /\ Valid(r) /\ ~run[r].severed
        /\ at[r] = "verify" => name = run[r].snap
        /\ marker[r] \in {"none", run[r].snap}
        /\ at[r] # "restore" => run[r].snap # "none"
    BY <1>4 DEF Restore, ReadCurrent, Revalidate, SetBack, Verify, CleanInv, RunInv
  <2>2. /\ lease' = lease /\ marker' = marker
        /\ at[r] \notin {"released", "report", "over", "dead"}
        /\ ~SetBack(r) => name' = name
    BY <1>4 DEF Restore, ReadCurrent, Revalidate, SetBack, Verify
  <2>3. \/ run[r].snap = "none" /\ Same(r, "release")
        \/ \E step \in {"current", "revalidate", "reset", "unmark"} : Same(r, step)
        \/ name' = run[r].snap /\ Same(r, "verify")
    <3>1. CASE Restore(r) \/ Verify(r)
      BY <2>1, <3>1, CleanupEffects DEF Verify
    <3>2. CASE ReadCurrent(r) \/ SetBack(r)
      BY <2>2, <3>2, CleanupEffects DEF ReadCurrent
    <3>3. CASE Revalidate(r)
      BY <2>1, <3>3, CleanupEffects DEF Revalidate
    <3> QED
      BY <1>4, <3>1, <3>2, <3>3
  <2> QED
    BY <1>0, <2>1, <2>2, <2>3 DEF CleanInv, Same, Effect, Valid
<1>5. CASE Unmark(r)
  BY <1>0, <1>5, CleanupEffects DEF Unmark, Effect, Same, CleanInv, Valid
<1>6. CASE Release(r) \/ NothingToRelease(r) \/ VerifyRelease(r)
  <2>1. /\ \/ Same(r, "released") /\ lease' = [lease EXCEPT !.phase = "free"]
           \/ Same(r, "report") /\ run[r].token = 0
           \/ at[r] = "released" /\ (Same(r, "report") \/ ReleaseFailed(r))
              /\ lease' = lease
        /\ marker' = marker /\ marker[r] = "none"
    BY <1>6, CleanupEffects
    DEF Release, NothingToRelease, VerifyRelease, CleanInv, Valid, Named
  <2>2. /\ at'[r] \in {"released", "report"} /\ run'[r].token = run[r].token
    BY <1>0, <2>1, ReleaseFailedEffect DEF Same, Effect
  <2> QED
    BY <1>0, <1>6, <2>1, <2>2 DEF CleanInv, Released, LeaseRows
<1>7. CASE Report(r)
  BY <1>0, <1>7, CleanupEffects DEF Report, Effect, Same, CleanInv, Released
<1>8. ~(ReserveFails(r) \/ ReleaseUnknown(r) \/ Die(r) \/ Sever(r))
  BY DEF ReserveFails, ReleaseUnknown, Die, Sever, CleanInv
<1> QED
  BY <1>1, <1>2, <1>3, <1>4, <1>5, <1>6, <1>7, <1>8 DEF StepOf, RunStep

\* A term that ends when nothing went wrong is that of no run.
LEMMA LapseStep ==
    ASSUME GateInv, Lapse
    PROVE  /\ TokenInv' /\ NameInv'
           /\ \A r \in Run : RunInv(r)' /\ EndInv(r)'
           /\ ~Fault => \A r \in Run : CleanInv(r) => CleanInv(r)'
<1>1. /\ lease \in LeaseRows /\ lease.phase = "held"
      /\ lease' = [lease EXCEPT !.phase = "lapsed"]
      /\ UNCHANGED <<name, marker, at, run, row>>
      /\ \A r \in Run : Valid(r) => at[r] \notin {"set", "reset"}
      /\ \A r \in Run : run[r].token \in 0 .. lease.epoch
  BY DEF GateInv, TypeInv, TypeOK, LeaseRows, Lapse
<1>2. /\ lease'.epoch = lease.epoch /\ lease'.phase = "lapsed"
      /\ \A r \in Run : ~Valid(r)'
  BY <1>1 DEF LeaseRows, Valid
<1>3. \A r \in Run : Released(r) => Released(r)'
  BY <1>1, <1>2 DEF Released, LeaseRows
<1>4. TokenInv'
  BY <1>1, <1>2 DEF GateInv, TokenInv
<1>5. NameInv'
  BY <1>1, <1>2 DEF GateInv, NameInv, At
<1>6. \A r \in Run : RunInv(r)'
  BY <1>1, <1>2 DEF GateInv, RunInv, At
<1>7. \A r \in Run : EndInv(r)'
  BY <1>1, <1>3 DEF GateInv, EndInv, At, Restored
<1>8. ASSUME ~Fault, NEW r \in Run, CleanInv(r)
      PROVE  CleanInv(r)'
  <2>1. ~Renewing(r)
    BY <1>8 DEF Lapse
  <2>2. at[r] \notin {"released", "report", "over", "dead"} => run[r].token = 0
    BY <1>8, <2>1 DEF Renewing, CleanInv
  <2> QED
    BY <1>1, <1>3, <1>8, <2>2 DEF CleanInv, At, Restored
<1> QED
  BY <1>4, <1>5, <1>6, <1>7, <1>8

-----------------------------------------------------------------------------
\* Every step preserves the invariant.
LEMMA GateStep ==
    ASSUME GateInv, [Next]_vars
    PROVE  GateInv'
<1>1. TypeInv'
  BY TypeStep DEF GateInv
<1>2. CASE UNCHANGED vars
  BY <1>1, <1>2
  DEF GateInv, TokenInv, RunInv, EndInv, CleanInv, NameInv, vars, At, Valid, Restored,
      Released
<1>3. ASSUME NEW r \in Run, StepOf(r)
      PROVE  GateInv'
  <2>1. \A s \in Run : RunInv(s)' /\ EndInv(s)'
    BY <1>3, OtherRuns, OwnRun, OtherEnds, OwnEnd DEF GateInv
  <2>2. ASSUME faults' = 0
        PROVE  \A s \in Run : CleanInv(s)'
    <3>1. faults \in Nat /\ (Fault \/ NoFault)
      BY <1>3
      DEF GateInv, TypeInv, TypeOK, StepOf, RunStep, Reserve, LeaseBusy, ReserveFails,
          Snapshot, WriteMarker, Configure, SetProbe, Observe, ReadBack, Restore,
          ReadCurrent, Revalidate, SetBack, Verify, Unmark, Release, ReleaseUnknown,
          NothingToRelease, VerifyRelease, Report, Sever, Die
    <3>2. faults = 0 /\ ~Fault
      BY <2>2, <3>1 DEF Fault, NoFault
    <3> QED
      BY <1>3, <3>2, OtherClean, OwnClean DEF GateInv
  <2> QED
    BY <1>1, <1>3, <2>1, <2>2, TokenStep, NameStep DEF GateInv
<1>4. CASE Lapse
  <2>1. faults' = 0 => faults = 0 /\ ~Fault
    BY <1>4 DEF Lapse, Fault, NoFault, GateInv, TypeInv, TypeOK
  <2> QED
    BY <1>1, <1>4, <2>1, LapseStep DEF GateInv
<1> QED
  BY <1>2, <1>3, <1>4 DEF Next, StepOf

\* The invariant holds in every run of the gate.
LEMMA Inductive == Spec => []GateInv
<1>1. Init => GateInv
  <2> SUFFICES ASSUME Init PROVE GateInv
    OBVIOUS
  <2>1. /\ Blank \in Memory /\ Blank.token = 0 /\ Blank.snap = "none"
        /\ Blank.severed = FALSE /\ Blank.failures = {}
        /\ \A r \in Run : run[r] = Blank
    BY DEF Init, Blank, Memory, Stops
  <2>2. TypeInv
    BY <2>1, GateAssumption
    DEF Init, TypeInv, TypeOK, Memory, Stops, Names, Steps, Verdicts
  <2>3. \A r \in Run : RunInv(r) /\ EndInv(r) /\ CleanInv(r)
    BY <2>1
    DEF Init, RunInv, EndInv, CleanInv, At, Restored, Released, Working, Changing, Past
  <2> QED
    BY <2>1, <2>2, <2>3 DEF Init, GateInv, TokenInv, NameInv, Valid
<1>2. GateInv /\ [Next]_vars => GateInv'
  BY GateStep
<1> QED
  BY <1>1, <1>2, PTL DEF Spec

\* Every variable keeps its type, and no run's token is newer than the row.
THEOREM Typing == Spec => []TypeOK
<1>1. GateInv => TypeOK
  BY DEF GateInv, TypeInv
<1> QED
  BY <1>1, Inductive, PTL

\* Whatever fails, stalls or dies, and however many runs follow each other, an
\* account that is not back at the user's name has a marker with that name.
THEOREM NameRecoverable == Spec => []ChangedIsMarked
<1>1. GateInv => ChangedIsMarked
  BY DEF GateInv, NameInv, ChangedIsMarked
<1> QED
  BY <1>1, Inductive, PTL

\* A run that only lost records disturbed, and one that is PASSED, ends with
\* its change undone and its lease given back; any run that did not give it
\* back says so.
THEOREM CleanEnd == Spec => []EndsClean
<1>1. GateInv => EndsClean
  BY DEF GateInv, EndInv, CleanInv, EndsClean, At, Past
<1> QED
  BY <1>1, Inductive, PTL
=============================================================================
