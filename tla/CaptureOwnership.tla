--------------------------- MODULE CaptureOwnership ---------------------------
(***************************************************************************)
(* Taking ownership of one DUT's packet capture: the steps of              *)
(* CaptureSupervisor.establish_ownership, with the DUT fence, the producer *)
(* (tcpdump) lifecycle and the recovery it drives, interleaved over        *)
(* several controllers, crashes, lost SSH answers, producer deaths, DUT    *)
(* reboots and lapsing lease terms.                                        *)
(*                                                                         *)
(* The lease is the abstract authority CaptureLease implements.  A capture *)
(* epoch's token is its number, and because the token is fresh for every   *)
(* start request, a producer is identified by the token on its command     *)
(* line.  Producer 0 is a legacy producer, which carries no token.  A DUT  *)
(* script holds op.lock from start to end and so is one step.              *)
(***************************************************************************)
EXTENDS Integers, FiniteSets, Sequences, FiniteSetsExt

CONSTANTS
    Controller,         \* tasks that establish ownership, named by the worker
                        \* id they present; one id's tasks follow each other
    Session,            \* capture sessions of this DUT
    MaxLease,           \* bounds: lease epochs granted,
    MaxEpoch,           \*         capture epochs created,
    MaxFault            \*         crashes, lost answers, deaths, reboots

ASSUME OwnershipAssumption == {MaxLease, MaxEpoch, MaxFault} \subseteq Nat

VARIABLES
    lease,              \* capture_leases row: epoch, owner, phase
    session,            \* capture_sessions.state per session
    epochs,             \* capture_epochs rows, indexed by token
    gaps,               \* capture_gaps rows: [of, by, open]
    fence,              \* control files on the DUT; epoch 0 is no files
    boot,               \* boot id of the DUT
    producers,          \* live producers on the DUT
    pc, local,          \* per task: next step, and what it remembers
    faults              \* faults so far

db == <<lease, session, epochs, gaps>>
dut == <<fence, boot, producers>>
vars == <<db, dut, pc, local, faults>>

Tokens == 1 .. MaxEpoch
NoOwner == <<>>
Steps == {"idle", "acquire", "enter", "bootid", "readfence", "healscan",
          "clear", "publish", "observe", "recovering", "active", "scan",
          "stop", "kill", "end", "gap", "adopt", "rescan", "create", "precheck",
          "start", "poll", "running", "closegaps", "lookup", "verify",
          "restore", "ready", "failed"}
SessionState == {"CREATED", "ACQUIRING_LEASE", "RECOVERING", "PREPARING",
                 "WATCHING"}

\* resume_state, LeaseToken.lease_epoch, boot_id; then RecoveryManager's
\* active row, decision (kind, stale producers, current one) and the epoch
\* whose capture was found interrupted; then the epoch being started.
Blank == [session |-> "none", resume |-> "none", lease |-> 0, boot |-> 0,
          active |-> 0, kind |-> "none", stale |-> {}, victim |-> -1,
          current |-> -1, lost |-> 0, new |-> 0]

OwnerId(c) == <<local[c].session, c>>

(***************************************************************************)
(* Small steps of a task.                                                  *)
(***************************************************************************)
Goto(c, step) == pc' = [pc EXCEPT ![c] = step]
At(c, step) == pc[c] = step
Keep == local' = local
Fault == faults < MaxFault /\ faults' = faults + 1
NoFault == UNCHANGED faults

\* The local term check.  The row's term is the last one handed out, so it
\* answers for the token's.
TokenLive(c) == lease.epoch = local[c].lease /\ lease.phase = "held"

\* The check every fenced DUT script makes.
FenceAllowsAnything(c) == TRUE
FenceAllows(c) == fence.epoch = local[c].lease

-----------------------------------------------------------------------------
Init ==
    /\ lease = [epoch |-> 0, owner |-> NoOwner, phase |-> "free"]
    /\ session = [s \in Session |-> "CREATED"]
    /\ epochs = <<>>
    /\ gaps = {}
    /\ fence = [epoch |-> 0, owner |-> NoOwner]
    /\ boot = 0
    /\ producers \in {{}, {0}}
    /\ pc = [c \in Controller |-> "idle"]
    /\ local = [c \in Controller |-> Blank]
    /\ faults = 0

\* establish_ownership is called: read the business state (_recoverable_state).
Begin(c, s) ==
    /\ At(c, "idle")
    /\ local' = [local EXCEPT ![c] =
                    [Blank EXCEPT !.session = s, !.resume = session[s]]]
    /\ Goto(c, "acquire")
    /\ NoFault
    /\ UNCHANGED <<db, dut>>

\* The epoch of a lease that changes hands.
NextLeaseReusesReleased ==
    IF lease.phase = "free" /\ lease.epoch > 0 THEN lease.epoch ELSE lease.epoch + 1
NextLease == lease.epoch + 1

\* CaptureLeaseManager.acquire: refresh, or a new epoch of a free or lapsed
\* lease; a task that finds it held returns LEASE_BUSY and touched nothing.
AcquireLease(c) ==
    /\ At(c, "acquire")
    /\ IF lease.phase = "held" /\ lease.owner = OwnerId(c)
       THEN /\ local' = [local EXCEPT ![c].lease = lease.epoch]
            /\ lease' = lease
       ELSE /\ lease.phase # "held" /\ lease.epoch < MaxLease
            /\ local' = [local EXCEPT ![c].lease = NextLease]
            /\ lease' = [epoch |-> NextLease, owner |-> OwnerId(c),
                         phase |-> "held"]
    /\ Goto(c, "enter")
    /\ NoFault
    /\ UNCHANGED <<session, epochs, gaps, dut>>

LeaseBusy(c) ==
    /\ At(c, "acquire")
    /\ lease.phase = "held" /\ lease.owner # OwnerId(c)
    /\ Goto(c, "idle")
    /\ local' = [local EXCEPT ![c] = Blank]
    /\ NoFault
    /\ UNCHANGED <<db, dut>>

\* CaptureSessionRepository.transition: compare and set, or fail.
SessionCas(c, expected, next, step) ==
    LET s == local[c].session IN
    /\ IF session[s] = expected
       THEN session' = [session EXCEPT ![s] = next] /\ Goto(c, step)
       ELSE session' = session /\ Goto(c, "failed")
    /\ Keep /\ NoFault
    /\ UNCHANGED <<lease, epochs, gaps, dut>>

EnterRecovery(c) ==
    /\ At(c, "enter")
    /\ IF local[c].resume = "ACQUIRING_LEASE"
       THEN /\ Goto(c, "bootid") /\ Keep /\ NoFault
            /\ UNCHANGED <<db, dut>>
       ELSE SessionCas(c, local[c].resume, "ACQUIRING_LEASE", "bootid")

ReadBootId(c) ==
    /\ At(c, "bootid")
    /\ local' = [local EXCEPT ![c].boot = boot]
    /\ Goto(c, "readfence")
    /\ NoFault
    /\ UNCHANGED <<db, dut>>

(***************************************************************************)
(* FencedDeviceMutator.publish_fence.                                      *)
(***************************************************************************)
\* _ensure_token_live, then _heal_stale_fence reads the control files.
ReadFence(c) ==
    /\ At(c, "readfence")
    /\ Goto(c, CASE ~TokenLive(c) -> "failed"
                 [] TokenLive(c) /\ fence.owner \in {NoOwner, OwnerId(c)} ->
                        "publish"
                 [] TokenLive(c) /\ fence.owner \notin {NoOwner, OwnerId(c)} ->
                        "healscan")
    /\ Keep /\ NoFault
    /\ UNCHANGED <<db, dut>>

\* A live producer keeps the strict fence.
HealScan(c) ==
    /\ At(c, "healscan")
    /\ Goto(c, IF producers = {} THEN "clear" ELSE "publish")
    /\ Keep /\ NoFault
    /\ UNCHANGED <<db, dut>>

\* clear_stale_fence_script: removes the files whatever they now say.
ClearStaleFence(c) ==
    /\ At(c, "clear")
    /\ fence' = [epoch |-> 0, owner |-> NoOwner]
    /\ Goto(c, "publish")
    /\ Keep /\ NoFault
    /\ UNCHANGED <<db, boot, producers>>

\* publish_fence_script refuses to replace a higher epoch, or another owner
\* under the same one.
MayPublish(c) ==
    /\ fence.epoch <= local[c].lease
    /\ fence.epoch = local[c].lease => fence.owner = OwnerId(c)

WriteFence(c) ==
    fence' = [epoch |-> local[c].lease, owner |-> OwnerId(c)]

PublishFence(c) ==
    /\ At(c, "publish")
    /\ IF MayPublish(c)
       THEN WriteFence(c) /\ Goto(c, "recovering")
       ELSE UNCHANGED fence /\ Goto(c, "failed")
    /\ Keep /\ NoFault
    /\ UNCHANGED <<db, boot, producers>>

\* The answer of the script is lost; it may have run or not.
PublishUnknown(c) ==
    /\ At(c, "publish")
    /\ Fault
    /\ \/ MayPublish(c) /\ WriteFence(c)
       \/ UNCHANGED fence
    /\ Goto(c, "observe")
    /\ Keep
    /\ UNCHANGED <<db, boot, producers>>

\* Observe before retry: success if the fence is visible.
ObserveFence(c) ==
    /\ At(c, "observe")
    /\ Goto(c, IF FenceAllows(c) /\ fence.owner = OwnerId(c)
               THEN "recovering" ELSE "failed")
    /\ Keep /\ NoFault
    /\ UNCHANGED <<db, dut>>

EnterRecovering(c) ==
    /\ At(c, "recovering")
    /\ SessionCas(c, "ACQUIRING_LEASE", "RECOVERING", "active")

(***************************************************************************)
(* RecoveryManager.recover.                                                *)
(***************************************************************************)
\* running_for_session: the newest epoch that is STARTING or RUNNING.
ActiveEpochs(s) ==
    {e \in DOMAIN epochs : /\ epochs[e].session = s
                           /\ epochs[e].state \in {"STARTING", "RUNNING"}}
ActiveEpoch(s) == Max({0} \cup ActiveEpochs(s))

ReadActiveEpoch(c) ==
    /\ At(c, "active")
    /\ local' = [local EXCEPT ![c].active = ActiveEpoch(local[c].session)]
    /\ Goto(c, "scan")
    /\ NoFault
    /\ UNCHANGED <<db, dut>>

\* classify_recovery.  Only a producer that carries the active epoch's token
\* matches it.
MatchesExpected(a) == a # 0 /\ a \in producers
Classify(a) ==
    IF a # 0 /\ epochs[a].boot # boot THEN "DUT_REBOOT"
    ELSE CASE Cardinality(producers) > 1 -> "MULTIPLE_PRODUCERS"
           [] Cardinality(producers) = 1 /\ MatchesExpected(a) ->
                "SAME_SESSION_ALIVE"
           [] Cardinality(producers) = 1 /\ ~MatchesExpected(a) ->
                "OLD_SESSION_ALIVE"
           [] producers = {} /\ a # 0 -> "SAME_SESSION_DEAD"
           [] producers = {} /\ a = 0 -> "CLEAN"

\* What follows once the stale producers p are stopped: a reboot is recorded
\* before anything is stopped, every other loss after.
After(p, kind, current, lost) ==
    CASE p # {} -> "stop"
      [] p = {} /\ current # -1 -> "adopt"
      [] p = {} /\ current = -1 /\ kind # "DUT_REBOOT" /\ lost # 0 -> "end"
      [] p = {} /\ current = -1 /\ (kind = "DUT_REBOOT" \/ lost = 0) -> "rescan"

Scan(c) ==
    /\ At(c, "scan")
    /\ LET a == local[c].active
           kind == Classify(a)
           adopts == kind \in {"SAME_SESSION_ALIVE", "MULTIPLE_PRODUCERS"}
                        /\ MatchesExpected(a)
           current == IF adopts THEN a ELSE -1
           stale == producers \ {current}
           lost == IF adopts THEN 0 ELSE a
       IN /\ local' = [local EXCEPT ![c].kind = kind, ![c].current = current,
                                    ![c].stale = stale, ![c].lost = lost]
          /\ Goto(c, IF kind = "DUT_REBOOT" THEN "end"
                     ELSE After(stale, kind, current, lost))
    /\ NoFault
    /\ UNCHANGED <<db, dut>>

\* ProducerManager.stop_identity of the next stale producer: the local term
\* check, and later, on the DUT, the fenced script.
StopStale(c, p) ==
    /\ At(c, "stop")
    /\ p \in local[c].stale
    /\ local' = [local EXCEPT ![c].victim = p]
    /\ Goto(c, IF TokenLive(c) THEN "kill" ELSE "failed")
    /\ NoFault
    /\ UNCHANGED <<db, dut>>

KillStale(c) ==
    /\ At(c, "kill")
    /\ LET p == local[c].victim
           left == local[c].stale \ {p}
       IN IF FenceAllows(c)
          THEN /\ producers' = producers \ {p}
               /\ local' = [local EXCEPT ![c].stale = left, ![c].victim = -1]
               /\ Goto(c, After(left, local[c].kind, local[c].current,
                                local[c].lost))
          ELSE UNCHANGED producers /\ Keep /\ Goto(c, "failed")
    /\ NoFault
    /\ UNCHANGED <<db, fence, boot>>

\* The connection is lost under one of these two scripts: it may have run, and
\* nothing observes it, so the attempt fails.
ClearUnknown(c) ==
    /\ At(c, "clear")
    /\ Fault
    /\ fence' = [epoch |-> 0, owner |-> NoOwner] \/ UNCHANGED fence
    /\ Goto(c, "failed")
    /\ Keep
    /\ UNCHANGED <<db, boot, producers>>

KillUnknown(c) ==
    /\ At(c, "kill") /\ FenceAllows(c)
    /\ Fault
    /\ producers' \in {producers, producers \ {local[c].victim}}
    /\ Goto(c, "failed")
    /\ Keep
    /\ UNCHANGED <<db, fence, boot>>

\* CaptureEpochRepository.mark_ended(failed=True), idempotent.
LostEpochEnded == "ENDED"
LostEpochState == "FAILED"
EndLostEpoch(c) ==
    /\ At(c, "end")
    /\ epochs' = IF epochs[local[c].lost].state \in {"STARTING", "RUNNING"}
                 THEN [epochs EXCEPT ![local[c].lost].state = LostEpochState]
                 ELSE epochs
    /\ Goto(c, "gap")
    /\ Keep /\ NoFault
    /\ UNCHANGED <<lease, session, gaps, dut>>

\* CaptureGapRepository.create, in a transaction of its own.
OpenGap(c) ==
    /\ At(c, "gap")
    /\ gaps' = gaps \cup {[of |-> local[c].lost, by |-> local[c].lease,
                           open |-> TRUE]}
    /\ Goto(c, IF local[c].kind = "DUT_REBOOT"
               THEN After(local[c].stale, "DUT_REBOOT", -1, 0) ELSE "rescan")
    /\ Keep /\ NoFault
    /\ UNCHANGED <<lease, session, epochs, dut>>

\* adopt: the process must still be there.
Adopt(c) ==
    /\ At(c, "adopt")
    /\ Goto(c, IF local[c].current \in producers THEN "rescan" ELSE "failed")
    /\ Keep /\ NoFault
    /\ UNCHANGED <<db, dut>>

Rescan(c) ==
    /\ At(c, "rescan")
    /\ Goto(c, CASE Cardinality(producers) > 1 -> "failed"
                 [] Cardinality(producers) <= 1 /\ local[c].current # -1 ->
                        "lookup"
                 [] Cardinality(producers) <= 1 /\ local[c].current = -1 ->
                        "create")
    /\ Keep /\ NoFault
    /\ UNCHANGED <<db, dut>>

(***************************************************************************)
(* A new capture epoch, and ProducerManager.start.                         *)
(***************************************************************************)
CreateEpoch(c) ==
    /\ At(c, "create")
    /\ Len(epochs) < MaxEpoch
    /\ epochs' = Append(epochs, [session |-> local[c].session,
                                 state |-> "STARTING",
                                 boot |-> local[c].boot,
                                 lease |-> local[c].lease])
    /\ local' = [local EXCEPT ![c].new = Len(epochs) + 1]
    /\ Goto(c, "precheck")
    /\ NoFault
    /\ UNCHANGED <<lease, session, gaps, dut>>

\* CAPTURE_CONFLICT unless the DUT has no owned producer; the term check.
Precheck(c) ==
    /\ At(c, "precheck")
    /\ Goto(c, IF producers = {} /\ TokenLive(c) THEN "start" ELSE "failed")
    /\ Keep /\ NoFault
    /\ UNCHANGED <<db, dut>>

StartProducer(c) ==
    /\ At(c, "start")
    /\ IF FenceAllows(c)
       THEN producers' = producers \cup {local[c].new} /\ Goto(c, "poll")
       ELSE UNCHANGED producers /\ Goto(c, "failed")
    /\ Keep /\ NoFault
    /\ UNCHANGED <<db, fence, boot>>

\* The answer is lost: start() goes on to poll, it never starts twice.
StartUnknown(c) ==
    /\ At(c, "start")
    /\ Fault
    /\ \/ FenceAllows(c) /\ producers' = producers \cup {local[c].new}
       \/ UNCHANGED producers
    /\ Goto(c, "poll")
    /\ Keep
    /\ UNCHANGED <<db, fence, boot>>

\* PRODUCER_DUPLICATED, found, or PRODUCER_START_FAILED.
PollStarted(c) ==
    /\ At(c, "poll")
    /\ Goto(c, IF producers = {local[c].new} THEN "running" ELSE "failed")
    /\ Keep /\ NoFault
    /\ UNCHANGED <<db, dut>>

MarkRunning(c) ==
    /\ At(c, "running")
    /\ IF epochs[local[c].new].state = "STARTING"
       THEN /\ epochs' = [epochs EXCEPT ![local[c].new].state = "RUNNING"]
            /\ Goto(c, "closegaps")
       ELSE epochs' = epochs /\ Goto(c, "failed")
    /\ Keep /\ NoFault
    /\ UNCHANGED <<lease, session, gaps, dut>>

\* _close_recovery_gaps: the gap this recovery opened, if any.
CloseGaps(c) ==
    /\ At(c, "closegaps")
    /\ gaps' = {IF g.of = local[c].lost /\ g.by = local[c].lease
                THEN [g EXCEPT !.open = FALSE] ELSE g : g \in gaps}
    /\ Goto(c, "verify")
    /\ Keep /\ NoFault
    /\ UNCHANGED <<lease, session, epochs, dut>>

\* RECOVERY_ADOPTED_WITHOUT_DB_EPOCH
FindRunningEpoch(c) ==
    /\ At(c, "lookup")
    /\ Goto(c, IF ActiveEpoch(local[c].session) # 0 THEN "verify"
                                                    ELSE "failed")
    /\ Keep /\ NoFault
    /\ UNCHANGED <<db, dut>>

\* EXACTLY_ONE_PRODUCER_INVARIANT_FAILED
VerifyExactlyOne(c) ==
    /\ At(c, "verify")
    /\ Goto(c, IF Cardinality(producers) = 1 THEN "restore" ELSE "failed")
    /\ Keep /\ NoFault
    /\ UNCHANGED <<db, dut>>

\* restore_state
RestoreState(resume) ==
    IF resume \in {"CREATED", "ACQUIRING_LEASE", "RECOVERING", "PREPARING"}
    THEN "PREPARING" ELSE resume

Restore(c) ==
    /\ At(c, "restore")
    /\ SessionCas(c, "RECOVERING", RestoreState(local[c].resume), "ready")

\* Any exception: release the lease, best effort, and leave everything else.
GiveUp(c) ==
    /\ At(c, "failed")
    /\ \/ /\ lease' = IF /\ lease.epoch = local[c].lease
                         /\ lease.owner = OwnerId(c)
                         /\ lease.phase # "free"
                      THEN [lease EXCEPT !.phase = "free"] ELSE lease
          /\ NoFault
       \/ lease' = lease /\ Fault
    /\ Goto(c, "idle")
    /\ local' = [local EXCEPT ![c] = Blank]
    /\ UNCHANGED <<session, epochs, gaps, dut>>

(***************************************************************************)
(* The owner at work, and the environment.                                 *)
(***************************************************************************)
\* Readiness and arming take the session to WATCHING.
Arm(c) ==
    /\ At(c, "ready")
    /\ session[local[c].session] = "PREPARING"
    /\ session' = [session EXCEPT ![local[c].session] = "WATCHING"]
    /\ Keep /\ NoFault
    /\ UNCHANGED <<lease, epochs, gaps, dut, pc>>

\* The owner's context closes, or its worker dies: no release, no stop.
Leave(c) ==
    /\ ~At(c, "idle")
    /\ \/ At(c, "ready") /\ NoFault
       \/ ~At(c, "ready") /\ Fault
    /\ Goto(c, "idle")
    /\ local' = [local EXCEPT ![c] = Blank]
    /\ UNCHANGED <<db, dut>>

\* Time passes: the holder did not renew soon enough.
Lapse ==
    /\ lease.phase = "held"
    /\ lease' = [lease EXCEPT !.phase = "lapsed"]
    /\ UNCHANGED <<session, epochs, gaps, dut, pc, local, faults>>

ProducerDies(p) ==
    /\ p \in producers
    /\ Fault
    /\ producers' = producers \ {p}
    /\ UNCHANGED <<db, fence, boot, pc, local>>

\* /tmp is gone with the processes.
Reboot ==
    /\ Fault
    /\ boot' = boot + 1
    /\ producers' = {}
    /\ fence' = [epoch |-> 0, owner |-> NoOwner]
    /\ UNCHANGED <<db, pc, local>>

Establish(c) ==
    \/ \E s \in Session : Begin(c, s)
    \/ AcquireLease(c) \/ LeaseBusy(c) \/ EnterRecovery(c) \/ ReadBootId(c)
    \/ ReadFence(c) \/ HealScan(c) \/ ClearStaleFence(c) \/ ClearUnknown(c)
    \/ PublishFence(c) \/ PublishUnknown(c) \/ ObserveFence(c)
    \/ EnterRecovering(c) \/ ReadActiveEpoch(c) \/ Scan(c)
    \/ (\E p \in 0 .. MaxEpoch : StopStale(c, p)) \/ KillStale(c)
    \/ KillUnknown(c)
    \/ EndLostEpoch(c) \/ OpenGap(c) \/ Adopt(c) \/ Rescan(c)
    \/ CreateEpoch(c) \/ Precheck(c) \/ StartProducer(c) \/ StartUnknown(c)
    \/ PollStarted(c) \/ MarkRunning(c) \/ CloseGaps(c)
    \/ FindRunningEpoch(c) \/ VerifyExactlyOne(c) \/ Restore(c) \/ GiveUp(c)

Next ==
    \/ \E c \in Controller : Establish(c) \/ Arm(c) \/ Leave(c)
    \/ Lapse
    \/ \E p \in 0 .. MaxEpoch : ProducerDies(p)
    \/ Reboot

Spec == Init /\ [][Next]_vars

-----------------------------------------------------------------------------
(***************************************************************************)
(* Properties.                                                             *)
(***************************************************************************)
\* The variables hold values of their types.
TypeOK ==
    /\ lease \in [epoch : 0 .. MaxLease,
                  owner : {NoOwner} \cup (Session \X Controller),
                  phase : {"free", "held", "lapsed"}]
    /\ session \in [Session -> SessionState]
    /\ \A e \in DOMAIN epochs :
        epochs[e] \in [session : Session, boot : 0 .. MaxFault, lease : Nat,
                       state : {"STARTING", "RUNNING", "FAILED"}]
    /\ gaps \subseteq [of : Tokens, by : Nat, open : BOOLEAN]
    /\ fence.epoch \in 0 .. lease.epoch
    /\ producers \subseteq 0 .. Len(epochs)
    /\ pc \in [Controller -> Steps]
    /\ faults \in 0 .. MaxFault

\* The lease this module uses is the authority CaptureLease implements.
Authority == INSTANCE FencedAuthority
                WITH Owner <- {NoOwner} \cup (Session \X Controller),
                     epoch <- lease.epoch, owner <- lease.owner,
                     phase <- lease.phase
ImplementsAuthority == Authority!Spec

\* I-01, one legal producer per DUT: whatever is delayed, lost or restarted,
\* the DUT never runs two capture producers at once.
OneProducer == Cardinality(producers) <= 1

\* The epoch whose producer a task that finished establish_ownership returned.
EpochOf(c) == IF local[c].current # -1 THEN local[c].current ELSE local[c].new

\* An owner that is ready and still in its term shares the DUT with no
\* producer but the one it returned, however its predecessors were cut short.
ReadyOwnerAlone ==
    \A c \in Controller :
        (At(c, "ready") /\ TokenLive(c)) => producers \subseteq {EpochOf(c)}

\* A producer is stopped by a task only under an authority that is not older
\* than the one it was started under (deaths and reboots are faults).
StopIsNotStale ==
    \A p \in (producers \ producers') \ {0} :
        faults' = faults => fence.epoch >= epochs[p].lease
NoStaleStop == [][StopIsNotStale]_vars
=============================================================================
