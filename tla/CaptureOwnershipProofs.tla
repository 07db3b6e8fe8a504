------------------------ MODULE CaptureOwnershipProofs ------------------------
(***************************************************************************)
(* Proofs about CaptureOwnership, for any number of tasks, sessions, lease *)
(* terms, capture epochs and faults.                                       *)
(***************************************************************************)
EXTENDS CaptureOwnership, FiniteSetTheorems, SequenceTheorems,
        WellFoundedInduction, TLAPS

Kinds == {"none", "DUT_REBOOT", "MULTIPLE_PRODUCERS", "SAME_SESSION_ALIVE",
          "OLD_SESSION_ALIVE", "SAME_SESSION_DEAD", "CLEAN"}
Owners == {NoOwner} \cup (Session \X Controller)
EpochRows == [session : Session, boot : Nat, lease : Nat,
              state : {"STARTING", "RUNNING", "FAILED"}]
TokenSets == SUBSET Nat
Locals == [session : Session \cup {"none"}, resume : SessionState \cup {"none"},
           lease : Nat, boot : Nat, active : Nat, kind : Kinds,
           stale : TokenSets, victim : Int, current : Int, lost : Nat,
           new : Nat]

-----------------------------------------------------------------------------
(***************************************************************************)
(* The inductive invariant.                                                *)
(***************************************************************************)
\* The shapes of the variables.
Shapes ==
    /\ lease \in [epoch : 0 .. MaxLease, owner : Owners,
                  phase : {"free", "held", "lapsed"}]
    /\ session \in [Session -> SessionState]
    /\ epochs \in Seq(EpochRows)
    /\ gaps \subseteq [of : Tokens, by : Nat, open : BOOLEAN]
    /\ fence \in [epoch : Nat, owner : Owners]
    /\ boot \in Nat
    /\ producers \subseteq Nat
    /\ pc \in [Controller -> Steps]
    /\ local \in [Controller -> Locals]
    /\ faults \in Nat

\* A boot is a fault, a producer belongs to an epoch of the table, and an
\* epoch was created by a boot and under a lease that there has been.
TableInv ==
    /\ boot <= faults /\ faults <= MaxFault
    /\ Len(epochs) <= MaxEpoch
    /\ \A p \in producers : p <= Len(epochs)
    /\ \A e \in 1 .. Len(epochs) :
           epochs[e].boot <= boot /\ epochs[e].lease <= lease.epoch

\* Steps taken with a lease, with a lost epoch, with an epoch to start, and
\* without an adopted producer.
Tokened(c) == pc[c] \notin {"idle", "acquire"}
Losing == {"end", "gap"}
Starting == {"precheck", "start", "poll", "running"}
Unadopted == {"acquire", "enter", "bootid", "readfence", "healscan", "clear",
          "publish", "observe", "create", "closegaps"} \cup Starting

TaskInv(c) ==
    /\ ~At(c, "idle") => /\ local[c].session \in Session
                         /\ local[c].resume \in SessionState
    /\ local[c].boot <= boot
    /\ \A x \in {local[c].active, local[c].lost, local[c].new} \cup local[c].stale :
           x <= Len(epochs)
    /\ pc[c] \in Losing => local[c].lost # 0
    /\ pc[c] \in Starting => local[c].new # 0
    /\ pc[c] \in Unadopted => local[c].current = -1
    /\ At(c, "lookup") => local[c].current # -1

\* A lease epoch names one task: the row's owner while it is the newest.
LeaseInv ==
    /\ lease.phase = "held" => lease.epoch # 0
    /\ fence.epoch <= lease.epoch
    /\ \A c \in Controller : local[c].lease <= lease.epoch
    /\ \A c \in Controller : Tokened(c) =>
           /\ local[c].lease # 0
           /\ local[c].lease = lease.epoch => lease.owner = OwnerId(c)
    /\ \A c, d \in Controller :
           (Tokened(c) /\ Tokened(d) /\ c # d) => local[c].lease # local[d].lease

\* While the fence names a task about to start a producer, nobody else can
\* have started one since that task saw none.
StartInv ==
    \A c \in Controller : (At(c, "start") /\ FenceAllows(c)) => producers = {}

\* Authority was current when a task chose its victim, and the victim's epoch
\* was there.
VictimInv ==
    \A c \in Controller : (At(c, "kill") /\ local[c].victim # 0) =>
        /\ local[c].victim \in 1 .. Len(epochs)
        /\ epochs[local[c].victim].lease <= local[c].lease

\* Steps that follow a fence of the task's own.
Fenced == Steps \ {"idle", "acquire", "enter", "bootid", "readfence", "healscan",
                   "clear", "publish", "observe", "failed"}

\* From the publication of its fence to the end of its term, a task's start
\* cannot be overtaken by one prepared under an earlier fence.
BlockedInv ==
    \A c, d \in Controller :
        (TokenLive(c) /\ pc[c] \in Fenced /\ c # d /\ At(d, "start"))
            => ~FenceAllows(d)

\* In its term, a task that adopted or started a producer is alone with it.
Started == {"running", "closegaps", "verify", "restore", "ready"}
AloneInv ==
    \A c \in Controller :
        /\ TokenLive(c) /\ pc[c] \in Fenced
        /\ local[c].current # -1 \/ pc[c] \in Started
        => producers \subseteq {EpochOf(c)}

OwnershipInv ==
    /\ Shapes /\ TableInv
    /\ \A c \in Controller : TaskInv(c)
    /\ LeaseInv
    /\ StartInv /\ OneProducer
    /\ VictimInv
    /\ BlockedInv /\ AloneInv

-----------------------------------------------------------------------------
(***************************************************************************)
(* What the tables and the scan say.                                       *)
(***************************************************************************)
\* A set of indices that holds 0 has a maximum.
LEMMA MaxOfIndices ==
    ASSUME NEW n \in Nat, NEW S \in SUBSET (0 .. n), 0 \in S
    PROVE  Max(S) \in S
<1> DEFINE R == OpToRel(<, Nat)
<1> DEFINE D == {n - x : x \in S}
<1>1. IsWellFoundedOn(R, Nat)
  BY NatLessThanWellFounded
<1>2. D \subseteq Nat /\ n - 0 \in D
  BY SMT
<1>3. \A d, e \in Nat : e < d => <<e, d>> \in R
  BY DEF OpToRel
<1> HIDE DEF R
<1>4. PICK d \in D : \A e \in D : <<e, d>> \notin R
  <2> HIDE DEF D
  <2> QED
    BY <1>1, <1>2, WFMin
<1>5. \A e \in D : ~(e < d)
  <2> HIDE DEF D
  <2> QED
    BY <1>2, <1>3, <1>4
<1>6. PICK x \in S : d = n - x
  BY <1>4
<1>7. \A y \in S : x >= y
  <2>1. SUFFICES ASSUME NEW y \in S PROVE x >= y
    OBVIOUS
  <2>2. n - y \in D
    OBVIOUS
  <2>3. ~(n - y < n - x)
    BY <1>5, <1>6, <2>2
  <2> QED
    BY <2>3
<1> QED
  BY <1>6, <1>7 DEF Max

\* The epochs are numbered from one.
LEMMA EpochsNumbered ==
    ASSUME Shapes
    PROVE  /\ Len(epochs) \in Nat /\ DOMAIN epochs = 1 .. Len(epochs)
           /\ \A e \in 1 .. Len(epochs) : epochs[e] \in EpochRows
BY LenProperties, ElementOfSeq DEF Shapes

\* The active epoch of a session is one of the table, or none.
LEMMA ActiveInTable ==
    ASSUME Shapes, NEW s
    PROVE  ActiveEpoch(s) \in 0 .. Len(epochs)
<1>1. /\ Len(epochs) \in Nat
      /\ ({0} \cup ActiveEpochs(s)) \in SUBSET (0 .. Len(epochs))
  BY EpochsNumbered DEF ActiveEpochs
<1> QED
  BY <1>1, MaxOfIndices DEF ActiveEpoch

\* A DUT that runs at most one producer runs none or one.
LEMMA NoneOrOne ==
    ASSUME Shapes, TableInv, OneProducer
    PROVE  \/ producers = {} /\ Cardinality(producers) = 0
           \/ \E p \in producers : producers = {p} /\ Cardinality(producers) = 1
<1>1. producers \subseteq 0 .. Len(epochs) /\ Len(epochs) \in Nat
  BY EpochsNumbered DEF Shapes, TableInv
<1>2. IsFiniteSet(producers)
  <2>1. IsFiniteSet(0 .. Len(epochs))
    BY <1>1, FS_Interval
  <2> QED
    BY <1>1, <2>1, FS_Subset
<1>3. Cardinality(producers) \in {0, 1}
  BY <1>2, FS_CardinalityType DEF OneProducer
<1>4. CASE Cardinality(producers) = 0
  BY <1>2, <1>4, FS_EmptySet
<1>5. CASE Cardinality(producers) = 1
  <2>1. PICK p : producers = {p}
    BY <1>2, <1>5, FS_Singleton
  <2> QED
    BY <1>5, <2>1
<1> QED
  BY <1>3, <1>4, <1>5

\* The decision of recovery: a reboot is one of an active epoch, and a
\* producer is adopted only if it is the only one.
LEMMA Decided ==
    ASSUME Shapes, TableInv, OneProducer, NEW a \in Nat
    PROVE  /\ Classify(a) \in Kinds
           /\ Classify(a) = "DUT_REBOOT" => a # 0
           /\ (/\ Classify(a) \in {"SAME_SESSION_ALIVE", "MULTIPLE_PRODUCERS"}
               /\ MatchesExpected(a)) => producers = {a}
<1>1. CASE producers = {} /\ Cardinality(producers) = 0
  BY <1>1, SMT DEF Classify, MatchesExpected, Kinds
<1>2. CASE \E p \in producers : producers = {p} /\ Cardinality(producers) = 1
  BY <1>2, SMT DEF Classify, MatchesExpected, Kinds
<1> QED
  BY <1>1, <1>2, NoneOrOne
-----------------------------------------------------------------------------
(***************************************************************************)
(* What a task's step does to the tasks: it moves task c and leaves the    *)
(* others where they are, and what c then remembers is well formed.        *)
(***************************************************************************)
Moves(c) ==
    /\ pc' \in [Controller -> Steps] /\ local' \in [Controller -> Locals]
    /\ \A d \in Controller \ {c} : pc'[d] = pc[d] /\ local'[d] = local[d]

\* What task c remembers after the step; resume is as it was.
Remembers(c, owner, term, b, active, stale, victim, current, lost, new) ==
    LET m == local'[c] IN
    /\ m.session = owner /\ m.lease = term /\ m.boot = b /\ m.active = active
    /\ m.stale = stale /\ m.victim = victim /\ m.current = current
    /\ m.lost = lost /\ m.new = new

\* A task goes to one step, and the others stay.
LEMMA Goes ==
    ASSUME Shapes, NEW c \in Controller, NEW step \in Steps, Goto(c, step)
    PROVE  /\ pc' \in [Controller -> Steps] /\ pc'[c] = step
           /\ \A d \in Controller \ {c} : pc'[d] = pc[d]
BY DEF Shapes, Goto

\* A task writes what it remembers, and the others do not.
LEMMA Notes ==
    ASSUME Shapes, NEW c \in Controller, NEW m \in Locals,
           local' = [local EXCEPT ![c] = m]
    PROVE  /\ local' \in [Controller -> Locals] /\ local'[c] = m
           /\ \A d \in Controller \ {c} : local'[d] = local[d]
BY DEF Shapes

\* What a task remembers is a record.
LEMMA Noted ==
    ASSUME Shapes, NEW c \in Controller
    PROVE  local[c] \in Locals /\ pc[c] \in Steps
BY DEF Shapes

\* A task that returns or is called anew remembers nothing of its predecessor.
LEMMA BlankWritten ==
    ASSUME Shapes, NEW c \in Controller, NEW s \in Session \cup {"none"},
           NEW r \in SessionState \cup {"none"},
           local' = [local EXCEPT ![c] = [Blank EXCEPT !.session = s, !.resume = r]]
    PROVE  /\ local' \in [Controller -> Locals]
           /\ \A d \in Controller \ {c} : local'[d] = local[d]
           /\ Remembers(c, s, 0, 0, 0, {}, -1, -1, 0, 0) /\ local'[c].resume = r
<1> DEFINE m == [Blank EXCEPT !.session = s, !.resume = r]
<1>0. {} \in TokenSets /\ -1 \in Int /\ "none" \in Kinds
  BY DEF TokenSets, Kinds
<1>1. m \in Locals
  BY <1>0, ZenonT(60) DEF Blank, Locals
<1>2. /\ m.session = s /\ m.lease = 0 /\ m.boot = 0 /\ m.active = 0
      /\ m.stale = {} /\ m.victim = -1 /\ m.current = -1
      /\ m.lost = 0 /\ m.new = 0 /\ m.resume = r
  BY SMT DEF Blank
<1>3. local' = [local EXCEPT ![c] = m]
  OBVIOUS
<1> HIDE DEF m
<1>4. local' \in [Controller -> Locals] /\ local'[c] = m
      /\ \A d \in Controller \ {c} : local'[d] = local[d]
  BY <1>1, <1>3, Notes
<1> QED
  BY <1>2, <1>4 DEF Remembers

\* The lease of a task.
LEMMA TermWritten ==
    ASSUME Shapes, NEW c \in Controller, NEW e \in Nat,
           local' = [local EXCEPT ![c].lease = e]
    PROVE  LET m == local[c] IN
           /\ local' \in [Controller -> Locals]
           /\ \A d \in Controller \ {c} : local'[d] = local[d]
           /\ Remembers(c, m.session, e, m.boot, m.active, m.stale, m.victim,
                        m.current, m.lost, m.new)
           /\ local'[c].resume = m.resume
<1> DEFINE m == [local[c] EXCEPT !.lease = e]
<1>1. /\ m \in Locals /\ m.lease = e
      /\ m.session = local[c].session /\ m.boot = local[c].boot
      /\ m.active = local[c].active /\ m.stale = local[c].stale
      /\ m.victim = local[c].victim /\ m.current = local[c].current
      /\ m.lost = local[c].lost /\ m.new = local[c].new
      /\ m.resume = local[c].resume
  BY Noted, SMT DEF Locals
<1>2. local' = [local EXCEPT ![c] = m]
  OBVIOUS
<1> HIDE DEF m
<1>3. local' \in [Controller -> Locals] /\ local'[c] = m
      /\ \A d \in Controller \ {c} : local'[d] = local[d]
  BY <1>1, <1>2, Notes
<1> QED
  BY <1>1, <1>3 DEF Remembers

\* The boot id a task read.
LEMMA BootWritten ==
    ASSUME Shapes, NEW c \in Controller, NEW b \in Nat,
           local' = [local EXCEPT ![c].boot = b]
    PROVE  LET m == local[c] IN
           /\ local' \in [Controller -> Locals]
           /\ \A d \in Controller \ {c} : local'[d] = local[d]
           /\ Remembers(c, m.session, m.lease, b, m.active, m.stale,
                        m.victim, m.current, m.lost, m.new)
           /\ local'[c].resume = m.resume
<1> DEFINE m == [local[c] EXCEPT !.boot = b]
<1>1. m \in Locals
  BY Noted, ZenonT(60) DEF Locals
<1>2. /\ m.boot = b
      /\ m.session = local[c].session /\ m.lease = local[c].lease
      /\ m.active = local[c].active /\ m.stale = local[c].stale
      /\ m.victim = local[c].victim /\ m.current = local[c].current
      /\ m.lost = local[c].lost /\ m.new = local[c].new
      /\ m.resume = local[c].resume
  BY Noted, SMT DEF Locals
<1>3. local' = [local EXCEPT ![c] = m]
  OBVIOUS
<1> HIDE DEF m
<1>4. local' \in [Controller -> Locals] /\ local'[c] = m
      /\ \A d \in Controller \ {c} : local'[d] = local[d]
  BY <1>1, <1>3, Notes
<1> QED
  BY <1>2, <1>4 DEF Remembers

\* The active epoch a task read.
LEMMA ActiveWritten ==
    ASSUME Shapes, NEW c \in Controller, NEW a \in Nat,
           local' = [local EXCEPT ![c].active = a]
    PROVE  LET m == local[c] IN
           /\ local' \in [Controller -> Locals]
           /\ \A d \in Controller \ {c} : local'[d] = local[d]
           /\ Remembers(c, m.session, m.lease, m.boot, a, m.stale,
                        m.victim, m.current, m.lost, m.new)
           /\ local'[c].resume = m.resume
<1> DEFINE m == [local[c] EXCEPT !.active = a]
<1>1. m \in Locals
  BY Noted, ZenonT(60) DEF Locals
<1>2. /\ m.active = a
      /\ m.session = local[c].session /\ m.lease = local[c].lease
      /\ m.boot = local[c].boot /\ m.stale = local[c].stale
      /\ m.victim = local[c].victim /\ m.current = local[c].current
      /\ m.lost = local[c].lost /\ m.new = local[c].new
      /\ m.resume = local[c].resume
  BY Noted, SMT DEF Locals
<1>3. local' = [local EXCEPT ![c] = m]
  OBVIOUS
<1> HIDE DEF m
<1>4. local' \in [Controller -> Locals] /\ local'[c] = m
      /\ \A d \in Controller \ {c} : local'[d] = local[d]
  BY <1>1, <1>3, Notes
<1> QED
  BY <1>2, <1>4 DEF Remembers

\* The decision of a scan.
LEMMA DecisionWritten ==
    ASSUME Shapes, NEW c \in Controller, NEW k \in Kinds, NEW i \in Int,
           NEW ps \in TokenSets, NEW l \in Nat,
           local' = [local EXCEPT ![c].kind = k, ![c].current = i,
                                ![c].stale = ps, ![c].lost = l]
    PROVE  LET m == local[c] IN
           /\ local' \in [Controller -> Locals]
           /\ \A d \in Controller \ {c} : local'[d] = local[d]
           /\ Remembers(c, m.session, m.lease, m.boot, m.active, ps,
                        m.victim, i, l, m.new)
           /\ local'[c].resume = m.resume
<1> DEFINE m == [local[c] EXCEPT !.kind = k, !.current = i, !.stale = ps, !.lost = l]
<1>1. m \in Locals
  BY Noted, ZenonT(60) DEF Locals
<1>2. /\ m.stale = ps /\ m.current = i /\ m.lost = l
      /\ m.session = local[c].session /\ m.lease = local[c].lease
      /\ m.boot = local[c].boot /\ m.active = local[c].active
      /\ m.victim = local[c].victim /\ m.new = local[c].new
      /\ m.resume = local[c].resume
  BY Noted, SMT DEF Locals
<1>3. local' = [local EXCEPT ![c] = m]
  OBVIOUS
<1> HIDE DEF m
<1>4. local' \in [Controller -> Locals] /\ local'[c] = m
      /\ \A d \in Controller \ {c} : local'[d] = local[d]
  BY <1>1, <1>3, Notes
<1> QED
  BY <1>2, <1>4 DEF Remembers

\* The producer a task is about to stop.
LEMMA VictimWritten ==
    ASSUME Shapes, NEW c \in Controller, NEW p \in Int,
           local' = [local EXCEPT ![c].victim = p]
    PROVE  LET m == local[c] IN
           /\ local' \in [Controller -> Locals]
           /\ \A d \in Controller \ {c} : local'[d] = local[d]
           /\ Remembers(c, m.session, m.lease, m.boot, m.active,
                        m.stale, p, m.current, m.lost, m.new)
           /\ local'[c].resume = m.resume
<1> DEFINE m == [local[c] EXCEPT !.victim = p]
<1>1. m \in Locals
  BY Noted, ZenonT(60) DEF Locals
<1>2. /\ m.victim = p
      /\ m.session = local[c].session /\ m.lease = local[c].lease
      /\ m.boot = local[c].boot /\ m.active = local[c].active
      /\ m.stale = local[c].stale /\ m.current = local[c].current
      /\ m.lost = local[c].lost /\ m.new = local[c].new
      /\ m.resume = local[c].resume
  BY Noted, SMT DEF Locals
<1>3. local' = [local EXCEPT ![c] = m]
  OBVIOUS
<1> HIDE DEF m
<1>4. local' \in [Controller -> Locals] /\ local'[c] = m
      /\ \A d \in Controller \ {c} : local'[d] = local[d]
  BY <1>1, <1>3, Notes
<1> QED
  BY <1>2, <1>4 DEF Remembers

\* The producers a task has yet to stop.
LEMMA StaleWritten ==
    ASSUME Shapes, NEW c \in Controller, NEW ps \in TokenSets,
           local' = [local EXCEPT ![c].stale = ps, ![c].victim = -1]
    PROVE  LET m == local[c] IN
           /\ local' \in [Controller -> Locals]
           /\ \A d \in Controller \ {c} : local'[d] = local[d]
           /\ Remembers(c, m.session, m.lease, m.boot, m.active, ps,
                        -1, m.current, m.lost, m.new)
           /\ local'[c].resume = m.resume
<1> DEFINE m == [local[c] EXCEPT !.stale = ps, !.victim = -1]
<1>0. -1 \in Int
  OBVIOUS
<1>1. m \in Locals
  BY <1>0, Noted, ZenonT(60) DEF Locals
<1>2. /\ m.stale = ps /\ m.victim = -1
      /\ m.session = local[c].session /\ m.lease = local[c].lease
      /\ m.boot = local[c].boot /\ m.active = local[c].active
      /\ m.current = local[c].current /\ m.lost = local[c].lost
      /\ m.new = local[c].new /\ m.resume = local[c].resume
  BY Noted, SMT DEF Locals
<1>3. local' = [local EXCEPT ![c] = m]
  OBVIOUS
<1> HIDE DEF m
<1>4. local' \in [Controller -> Locals] /\ local'[c] = m
      /\ \A d \in Controller \ {c} : local'[d] = local[d]
  BY <1>1, <1>3, Notes
<1> QED
  BY <1>2, <1>4 DEF Remembers

\* The epoch a task is about to start.
LEMMA NewWritten ==
    ASSUME Shapes, NEW c \in Controller, NEW e \in Nat,
           local' = [local EXCEPT ![c].new = e]
    PROVE  LET m == local[c] IN
           /\ local' \in [Controller -> Locals]
           /\ \A d \in Controller \ {c} : local'[d] = local[d]
           /\ Remembers(c, m.session, m.lease, m.boot, m.active,
                        m.stale, m.victim, m.current, m.lost, e)
           /\ local'[c].resume = m.resume
<1> DEFINE m == [local[c] EXCEPT !.new = e]
<1>1. m \in Locals
  BY Noted, ZenonT(60) DEF Locals
<1>2. /\ m.new = e
      /\ m.session = local[c].session /\ m.lease = local[c].lease
      /\ m.boot = local[c].boot /\ m.active = local[c].active
      /\ m.stale = local[c].stale /\ m.victim = local[c].victim
      /\ m.current = local[c].current /\ m.lost = local[c].lost
      /\ m.resume = local[c].resume
  BY Noted, SMT DEF Locals
<1>3. local' = [local EXCEPT ![c] = m]
  OBVIOUS
<1> HIDE DEF m
<1>4. local' \in [Controller -> Locals] /\ local'[c] = m
      /\ \A d \in Controller \ {c} : local'[d] = local[d]
  BY <1>1, <1>3, Notes
<1> QED
  BY <1>2, <1>4 DEF Remembers

\* What follows the stops is a step of recovery; an epoch is ended if one is
\* lost.
LEMMA AfterSteps ==
    ASSUME NEW ps, NEW kind, NEW current, NEW lost
    PROVE  /\ After(ps, kind, current, lost) \in {"stop", "adopt", "end", "rescan"}
           /\ After(ps, kind, current, lost) = "end" => lost # 0
BY DEF After

-----------------------------------------------------------------------------
(***************************************************************************)
(* Each step moves one task, and that task's part of the invariant holds   *)
(* after it.                                                               *)
(***************************************************************************)
\* Steps that leave what the task remembers alone.
QuietStep(c) ==
    \/ EnterRecovery(c) \/ ReadFence(c) \/ HealScan(c) \/ ClearStaleFence(c)
    \/ ClearUnknown(c) \/ PublishFence(c) \/ PublishUnknown(c)
    \/ ObserveFence(c) \/ EnterRecovering(c) \/ KillUnknown(c)
    \/ EndLostEpoch(c) \/ OpenGap(c) \/ Adopt(c) \/ Rescan(c) \/ Precheck(c)
    \/ StartProducer(c) \/ StartUnknown(c) \/ PollStarted(c) \/ MarkRunning(c)
    \/ CloseGaps(c) \/ FindRunningEpoch(c) \/ VerifyExactlyOne(c) \/ Restore(c)

Work(c) == Establish(c) \/ Arm(c) \/ Leave(c)

\* The steps of a task, by what they write to its memory.
LEMMA WorkCases ==
    ASSUME NEW c \in Controller, Work(c)
    PROVE  \/ QuietStep(c)
           \/ KillStale(c) /\ ~FenceAllows(c)
           \/ Arm(c)
           \/ (\E s \in Session : Begin(c, s)) \/ LeaseBusy(c) \/ GiveUp(c)
           \/ Leave(c)
           \/ AcquireLease(c) \/ ReadBootId(c) \/ ReadActiveEpoch(c) \/ Scan(c)
           \/ (\E p \in 0 .. MaxEpoch : StopStale(c, p))
           \/ KillStale(c) /\ FenceAllows(c)
           \/ CreateEpoch(c)
BY DEF Work, Establish, QuietStep

\* A task that forgets everything: it returns, or leaves.
LEMMA ForgetMoves ==
    ASSUME Shapes, TableInv, NEW c \in Controller,
           LeaseBusy(c) \/ GiveUp(c) \/ Leave(c)
    PROVE  /\ Moves(c) /\ pc'[c] = "idle"
           /\ Remembers(c, "none", 0, 0, 0, {}, -1, -1, 0, 0)
           /\ boot' = boot /\ epochs' = epochs
<1>1. /\ local' = [local EXCEPT ![c] = Blank] /\ Goto(c, "idle")
      /\ boot' = boot /\ epochs' = epochs
  BY DEF LeaseBusy, GiveUp, Leave, db, dut
<1>2. Blank \in Locals
  <2>1. {} \in TokenSets /\ -1 \in Int /\ "none" \in Kinds
    BY DEF TokenSets, Kinds
  <2> QED
    BY <2>1, ZenonT(60) DEF Blank, Locals
<1>3. /\ local' \in [Controller -> Locals] /\ local'[c] = Blank
      /\ \A d \in Controller \ {c} : local'[d] = local[d]
  BY <1>1, <1>2, Notes
<1>4. Remembers(c, "none", 0, 0, 0, {}, -1, -1, 0, 0)
  BY <1>3 DEF Remembers, Blank
<1>5. /\ pc' \in [Controller -> Steps] /\ pc'[c] = "idle"
      /\ \A d \in Controller \ {c} : pc'[d] = pc[d]
  BY <1>1, Goes DEF Steps
<1> QED
  BY <1>1, <1>3, <1>4, <1>5 DEF Moves

\* A task is called for a session.
LEMMA BeginMoves ==
    ASSUME Shapes, TableInv, NEW c \in Controller, NEW s \in Session, Begin(c, s)
    PROVE  /\ Moves(c) /\ pc'[c] = "acquire"
           /\ Remembers(c, s, 0, 0, 0, {}, -1, -1, 0, 0)
           /\ local'[c].resume \in SessionState
           /\ boot' = boot /\ epochs' = epochs
<1>1. /\ local' = [local EXCEPT ![c] = [Blank EXCEPT !.session = s,
                                                     !.resume = session[s]]]
      /\ Goto(c, "acquire") /\ boot' = boot /\ epochs' = epochs
  BY DEF Begin, db, dut
<1>2. session[s] \in SessionState
  BY DEF Shapes
<1>3. /\ local' \in [Controller -> Locals]
      /\ \A d \in Controller \ {c} : local'[d] = local[d]
      /\ Remembers(c, s, 0, 0, 0, {}, -1, -1, 0, 0)
      /\ local'[c].resume = session[s]
  BY <1>1, <1>2, BlankWritten
<1>4. /\ pc' \in [Controller -> Steps] /\ pc'[c] = "acquire"
      /\ \A d \in Controller \ {c} : pc'[d] = pc[d]
  BY <1>1, Goes DEF Steps
<1> QED
  BY <1>1, <1>2, <1>3, <1>4 DEF Moves

\* The steps that only move the task.
LEMMA QuietMoves ==
    ASSUME Shapes, TableInv, OneProducer, NEW c \in Controller, TaskInv(c),
           QuietStep(c) \/ (KillStale(c) /\ ~FenceAllows(c)) \/ Arm(c)
    PROVE  /\ local' = local
           /\ pc' \in [Controller -> Steps]
           /\ \A d \in Controller \ {c} : pc'[d] = pc[d]
           /\ ~At(c, "idle") /\ ~At(c, "acquire")
           /\ pc'[c] \notin {"idle", "acquire"}
           /\ pc'[c] \in Losing => local[c].lost # 0
           /\ pc'[c] \in Starting => local[c].new # 0
           /\ pc'[c] \in Unadopted => local[c].current = -1
           /\ pc'[c] = "lookup" => local[c].current # -1
           /\ boot' = boot /\ Len(epochs') = Len(epochs)
<1>1. /\ pc \in [Controller -> Steps] /\ pc[c] \in Steps
      /\ epochs \in Seq(EpochRows)
  BY DEF Shapes
<1> USE <1>1 DEF Goto, At, Keep, db, dut, TaskInv, Losing, Starting, Unadopted,
        Steps
<1>2. CASE EnterRecovery(c) \/ EnterRecovering(c) \/ Restore(c)
  BY <1>2 DEF EnterRecovery, EnterRecovering, Restore, SessionCas
<1>3. CASE ReadFence(c) \/ HealScan(c) \/ ObserveFence(c)
  BY <1>3 DEF ReadFence, HealScan, ObserveFence
<1>4. CASE ClearStaleFence(c) \/ ClearUnknown(c) \/ PublishFence(c)
           \/ PublishUnknown(c)
  BY <1>4 DEF ClearStaleFence, ClearUnknown, PublishFence, PublishUnknown
<1>5. CASE KillUnknown(c) \/ (KillStale(c) /\ ~FenceAllows(c)) \/ Arm(c)
  BY <1>5 DEF KillUnknown, KillStale, Arm
<1>6. CASE EndLostEpoch(c)
  BY <1>6, ExceptSeq DEF EndLostEpoch
<1>7. CASE OpenGap(c)
  BY <1>7, AfterSteps DEF OpenGap
<1>8. CASE Adopt(c) \/ Precheck(c)
  BY <1>8 DEF Adopt, Precheck
<1>9. CASE Rescan(c)
  <2>1. Cardinality(producers) \in {0, 1}
    BY NoneOrOne
  <2> QED
    BY <1>9, <2>1 DEF Rescan
<1>10. CASE StartProducer(c) \/ StartUnknown(c) \/ PollStarted(c)
  BY <1>10 DEF StartProducer, StartUnknown, PollStarted
<1>11. CASE MarkRunning(c)
  BY <1>11 DEF MarkRunning
<1>12. CASE CloseGaps(c) \/ FindRunningEpoch(c) \/ VerifyExactlyOne(c)
  BY <1>12 DEF CloseGaps, FindRunningEpoch, VerifyExactlyOne
<1> QED
  BY <1>2, <1>3, <1>4, <1>5, <1>6, <1>7, <1>8, <1>9, <1>10,
     <1>11, <1>12 DEF QuietStep

\* The lease a task was granted, or found it holds.
LEMMA AcquireMoves ==
    ASSUME Shapes, TableInv, NEW c \in Controller, AcquireLease(c)
    PROVE  LET m == local[c] IN
           /\ Moves(c) /\ At(c, "acquire") /\ pc'[c] = "enter"
           /\ Remembers(c, m.session, lease'.epoch, m.boot, m.active, m.stale,
                        m.victim, m.current, m.lost, m.new)
           /\ local'[c].resume = m.resume
           /\ boot' = boot /\ epochs' = epochs
           /\ fence' = fence /\ producers' = producers
           /\ \/ /\ lease.phase = "held" /\ lease.owner = OwnerId(c)
                 /\ lease' = lease
              \/ /\ lease.phase # "held" /\ lease.epoch < MaxLease
                 /\ lease'.epoch = lease.epoch + 1 /\ lease'.owner = OwnerId(c)
                 /\ lease'.phase = "held"
                 /\ lease' = [epoch |-> lease.epoch + 1, owner |-> OwnerId(c),
                              phase |-> "held"]
<1>1. lease.epoch \in Nat /\ MaxLease \in Nat
  BY OwnershipAssumption, SMT DEF Shapes
<1>2. /\ boot' = boot /\ epochs' = epochs /\ fence' = fence
      /\ producers' = producers /\ At(c, "acquire") /\ Goto(c, "enter")
  BY DEF AcquireLease, dut
<1>3. /\ \/ /\ lease.phase = "held" /\ lease.owner = OwnerId(c)
            /\ lease' = lease
         \/ /\ lease.phase # "held" /\ lease.epoch < MaxLease
            /\ lease' = [epoch |-> lease.epoch + 1, owner |-> OwnerId(c),
                         phase |-> "held"]
      /\ local' = [local EXCEPT ![c].lease = lease'.epoch]
  BY DEF AcquireLease, NextLease
<1>4. lease'.epoch \in Nat
  BY <1>1, <1>3
<1>5. /\ pc' \in [Controller -> Steps] /\ pc'[c] = "enter"
      /\ \A d \in Controller \ {c} : pc'[d] = pc[d]
  BY <1>2, Goes DEF Steps
<1> DEFINE e == lease'.epoch
<1>6. e \in Nat /\ local' = [local EXCEPT ![c].lease = e]
  BY <1>3, <1>4
<1> HIDE DEF e
<1>7. /\ local' \in [Controller -> Locals]
      /\ \A d \in Controller \ {c} : local'[d] = local[d]
      /\ LET m == local[c] IN
         /\ Remembers(c, m.session, e, m.boot, m.active, m.stale, m.victim,
                      m.current, m.lost, m.new)
         /\ local'[c].resume = m.resume
  BY <1>6, TermWritten
<1> USE DEF e
<1>8. lease' = [epoch |-> lease.epoch + 1, owner |-> OwnerId(c), phase |-> "held"] =>
          /\ lease'.epoch = lease.epoch + 1 /\ lease'.owner = OwnerId(c)
          /\ lease'.phase = "held"
  OBVIOUS
<1> QED
  BY <1>2, <1>3, <1>5, <1>7, <1>8 DEF Moves

\* The boot id and the active epoch a task read.
LEMMA ReadMoves ==
    ASSUME Shapes, TableInv, NEW c \in Controller,
           ReadBootId(c) \/ ReadActiveEpoch(c)
    PROVE  LET m == local[c] IN
           /\ Moves(c)
           /\ pc[c] \in {"bootid", "active"} /\ pc'[c] \in {"readfence", "scan"}
           /\ pc'[c] = "scan" => pc[c] = "active"
           /\ pc'[c] = "readfence" => pc[c] = "bootid"
           /\ \E b \in {m.boot, boot}, a \in (0 .. Len(epochs)) \cup {m.active} :
                  Remembers(c, m.session, m.lease, b, a, m.stale, m.victim,
                            m.current, m.lost, m.new)
           /\ local'[c].resume = m.resume
           /\ boot' = boot /\ epochs' = epochs
           /\ lease' = lease /\ fence' = fence /\ producers' = producers
<1>1. CASE ReadBootId(c)
  <2>1. /\ pc[c] = "bootid" /\ Goto(c, "readfence")
        /\ boot' = boot /\ epochs' = epochs
        /\ lease' = lease /\ fence' = fence /\ producers' = producers
        /\ local' = [local EXCEPT ![c].boot = boot]
    BY <1>1 DEF ReadBootId, At, db, dut
  <2>2. /\ pc' \in [Controller -> Steps] /\ pc'[c] = "readfence"
        /\ \A d \in Controller \ {c} : pc'[d] = pc[d]
    BY <2>1, Goes DEF Steps
  <2>3. boot \in Nat
    BY DEF Shapes
  <2> QED
    BY <2>1, <2>2, <2>3, BootWritten DEF Moves
<1>2. CASE ReadActiveEpoch(c)
  <2>1. /\ pc[c] = "active" /\ Goto(c, "scan")
        /\ boot' = boot /\ epochs' = epochs
        /\ lease' = lease /\ fence' = fence /\ producers' = producers
        /\ local' = [local EXCEPT ![c].active = ActiveEpoch(local[c].session)]
    BY <1>2 DEF ReadActiveEpoch, At, db, dut
  <2>2. /\ pc' \in [Controller -> Steps] /\ pc'[c] = "scan"
        /\ \A d \in Controller \ {c} : pc'[d] = pc[d]
    BY <2>1, Goes DEF Steps
  <2>3. ActiveEpoch(local[c].session) \in 0 .. Len(epochs) /\ Len(epochs) \in Nat
    BY ActiveInTable, EpochsNumbered
  <2> DEFINE a == ActiveEpoch(local[c].session)
  <2>4. a \in Nat /\ local' = [local EXCEPT ![c].active = a]
    BY <2>1, <2>3
  <2> HIDE DEF a
  <2>5. /\ local' \in [Controller -> Locals]
        /\ \A d \in Controller \ {c} : local'[d] = local[d]
        /\ LET m == local[c] IN
           /\ Remembers(c, m.session, m.lease, m.boot, a, m.stale, m.victim,
                        m.current, m.lost, m.new)
           /\ local'[c].resume = m.resume
    BY <2>4, ActiveWritten
  <2>6. a \in 0 .. Len(epochs)
    BY <2>3 DEF a
  <2> QED
    BY <2>1, <2>2, <2>5, <2>6 DEF Moves
<1> QED
  BY <1>1, <1>2

\* The decision of a scan: what is lost, stale and adopted.
LEMMA ScanMoves ==
    ASSUME Shapes, TableInv, OneProducer, NEW c \in Controller, TaskInv(c), Scan(c)
    PROVE  LET m == local[c] IN
           /\ Moves(c) /\ At(c, "scan")
           /\ pc'[c] \in {"end", "stop", "adopt", "rescan"}
           /\ \E i \in {-1} \cup Nat, ps \in SUBSET producers, l \in {0, m.active} :
                  /\ Remembers(c, m.session, m.lease, m.boot, m.active, ps,
                               m.victim, i, l, m.new)
                  /\ i # -1 => producers = {i}
                  /\ pc'[c] = "end" => l # 0
           /\ local'[c].resume = m.resume
           /\ boot' = boot /\ epochs' = epochs
           /\ lease' = lease /\ fence' = fence /\ producers' = producers
<1> DEFINE a == local[c].active
           kind == Classify(a)
           adopts == kind \in {"SAME_SESSION_ALIVE", "MULTIPLE_PRODUCERS"}
                        /\ MatchesExpected(a)
           current == IF adopts THEN a ELSE -1
           stale == producers \ {current}
           lost == IF adopts THEN 0 ELSE a
           next == IF kind = "DUT_REBOOT" THEN "end"
                   ELSE After(stale, kind, current, lost)
<1>1. /\ At(c, "scan") /\ Goto(c, next)
      /\ local' = [local EXCEPT ![c].kind = kind, ![c].current = current,
                                ![c].stale = stale, ![c].lost = lost]
      /\ boot' = boot /\ epochs' = epochs
      /\ lease' = lease /\ fence' = fence /\ producers' = producers
  BY DEF Scan, db, dut
<1>2. a \in Nat /\ -1 \in Int
  BY Noted, SMT DEF Locals
<1>3. /\ kind \in Kinds
      /\ kind = "DUT_REBOOT" => a # 0
      /\ adopts => producers = {a}
  BY <1>2, Decided
<1> HIDE DEF a
<1>4. /\ current \in {-1} \cup Nat /\ current \in Int /\ lost \in Nat
      /\ lost \in {0, a}
      /\ current # -1 => producers = {current}
      /\ stale \in TokenSets /\ stale \in SUBSET producers
  BY <1>2, <1>3 DEF TokenSets, Shapes
<1>5. /\ next \in {"end", "stop", "adopt", "rescan"} /\ next \in Steps
      /\ next = "end" => lost # 0
  <2>1. kind = "DUT_REBOOT" => lost # 0
    BY <1>3
  <2>2. /\ After(stale, kind, current, lost) \in {"stop", "adopt", "end", "rescan"}
        /\ After(stale, kind, current, lost) = "end" => lost # 0
    BY AfterSteps
  <2> QED
    BY <2>1, <2>2 DEF Steps
<1> HIDE DEF kind, adopts, current, stale, lost, next
<1>6. LET m == local[c] IN
      /\ local' \in [Controller -> Locals]
      /\ \A d \in Controller \ {c} : local'[d] = local[d]
      /\ Remembers(c, m.session, m.lease, m.boot, m.active, stale,
                   m.victim, current, lost, m.new)
      /\ local'[c].resume = m.resume
  BY <1>1, <1>3, <1>4, DecisionWritten
<1>7. /\ pc' \in [Controller -> Steps] /\ pc'[c] = next
      /\ \A d \in Controller \ {c} : pc'[d] = pc[d]
  BY <1>1, <1>5, Goes
<1>8. \E i \in {-1} \cup Nat, ps \in SUBSET producers,
         l \in {0, local[c].active} :
          /\ LET m == local[c] IN
             Remembers(c, m.session, m.lease, m.boot, m.active, ps,
                       m.victim, i, l, m.new)
          /\ i # -1 => producers = {i}
          /\ pc'[c] = "end" => l # 0
  <2>1. lost \in {0, local[c].active}
    BY <1>4 DEF a
  <2> QED
    BY <1>4, <1>5, <1>6, <1>7, <2>1
<1> QED
  BY <1>1, <1>5, <1>6, <1>7, <1>8 DEF Moves

\* The producer a task is about to stop, once its term is checked.
LEMMA StopMoves ==
    ASSUME Shapes, TableInv, NEW c \in Controller, TaskInv(c),
           NEW p \in 0 .. MaxEpoch, StopStale(c, p)
    PROVE  LET m == local[c] IN
           /\ Moves(c) /\ At(c, "stop") /\ pc'[c] \in {"kill", "failed"}
           /\ pc'[c] = "kill" => TokenLive(c)
           /\ p \in m.stale
           /\ Remembers(c, m.session, m.lease, m.boot, m.active, m.stale,
                        p, m.current, m.lost, m.new)
           /\ local'[c].resume = m.resume
           /\ boot' = boot /\ epochs' = epochs
           /\ lease' = lease /\ fence' = fence /\ producers' = producers
<1>1. /\ At(c, "stop") /\ p \in local[c].stale
      /\ local' = [local EXCEPT ![c].victim = p]
      /\ Goto(c, IF TokenLive(c) THEN "kill" ELSE "failed")
      /\ boot' = boot /\ epochs' = epochs
      /\ lease' = lease /\ fence' = fence /\ producers' = producers
  BY DEF StopStale, db, dut
<1>2. (IF TokenLive(c) THEN "kill" ELSE "failed") \in Steps
  BY DEF Steps
<1>3. /\ pc' \in [Controller -> Steps]
      /\ pc'[c] = IF TokenLive(c) THEN "kill" ELSE "failed"
      /\ \A d \in Controller \ {c} : pc'[d] = pc[d]
  BY <1>1, <1>2, Goes
<1>4. p \in Int
  BY OwnershipAssumption, SMT
<1> QED
  BY <1>1, <1>3, <1>4, VictimWritten DEF Moves

\* A fenced stop.
LEMMA KillMoves ==
    ASSUME Shapes, TableInv, NEW c \in Controller, TaskInv(c),
           KillStale(c), FenceAllows(c)
    PROVE  LET m == local[c] IN
           /\ Moves(c) /\ At(c, "kill")
           /\ pc'[c] \in {"end", "stop", "adopt", "rescan"}
           /\ pc'[c] = "end" => m.lost # 0
           /\ \E ps \in SUBSET m.stale :
                  Remembers(c, m.session, m.lease, m.boot, m.active, ps, -1,
                            m.current, m.lost, m.new)
           /\ local'[c].resume = m.resume
           /\ boot' = boot /\ epochs' = epochs
           /\ lease' = lease /\ fence' = fence
           /\ producers' = producers \ {m.victim}
<1> DEFINE left == local[c].stale \ {local[c].victim}
           next == After(left, local[c].kind, local[c].current, local[c].lost)
<1>1. /\ At(c, "kill") /\ Goto(c, next)
      /\ local' = [local EXCEPT ![c].stale = left, ![c].victim = -1]
      /\ boot' = boot /\ epochs' = epochs
      /\ lease' = lease /\ fence' = fence
      /\ producers' = producers \ {local[c].victim}
  BY DEF KillStale, db
<1>2. left \in TokenSets /\ left \in SUBSET local[c].stale
  <2>1. local[c].stale \in TokenSets
    BY Noted, SMT DEF Locals
  <2> QED
    BY <2>1 DEF TokenSets
<1>3. /\ next \in {"end", "stop", "adopt", "rescan"} /\ next \in Steps
      /\ next = "end" => local[c].lost # 0
  BY AfterSteps DEF Steps
<1> HIDE DEF left, next
<1>4. LET m == local[c] IN
      /\ local' \in [Controller -> Locals]
      /\ \A d \in Controller \ {c} : local'[d] = local[d]
      /\ Remembers(c, m.session, m.lease, m.boot, m.active, left, -1,
                   m.current, m.lost, m.new)
      /\ local'[c].resume = m.resume
  BY <1>1, <1>2, StaleWritten
<1>5. /\ pc' \in [Controller -> Steps] /\ pc'[c] = next
      /\ \A d \in Controller \ {c} : pc'[d] = pc[d]
  BY <1>1, <1>3, Goes
<1> QED
  BY <1>1, <1>2, <1>3, <1>4, <1>5 DEF Moves

\* A new epoch, as this task saw its boot and its lease.
LEMMA CreateMoves ==
    ASSUME Shapes, TableInv, NEW c \in Controller, TaskInv(c), CreateEpoch(c)
    PROVE  LET m == local[c] IN
           /\ Moves(c) /\ At(c, "create") /\ pc'[c] = "precheck"
           /\ Remembers(c, m.session, m.lease, m.boot, m.active, m.stale,
                        m.victim, m.current, m.lost, Len(epochs'))
           /\ local'[c].resume = m.resume
           /\ epochs' \in Seq(EpochRows) /\ Len(epochs') = Len(epochs) + 1
           /\ Len(epochs') <= MaxEpoch
           /\ \A e \in 1 .. Len(epochs) : epochs'[e] = epochs[e]
           /\ epochs'[Len(epochs')].boot = m.boot
           /\ epochs'[Len(epochs')].lease = m.lease
           /\ boot' = boot
           /\ lease' = lease /\ fence' = fence /\ producers' = producers
<1> DEFINE row == [session |-> local[c].session, state |-> "STARTING",
                   boot |-> local[c].boot, lease |-> local[c].lease]
<1>1. /\ At(c, "create") /\ Goto(c, "precheck") /\ Len(epochs) < MaxEpoch
      /\ epochs' = Append(epochs, row)
      /\ local' = [local EXCEPT ![c].new = Len(epochs) + 1]
      /\ boot' = boot
      /\ lease' = lease /\ fence' = fence /\ producers' = producers
  BY DEF CreateEpoch, dut
<1>2. /\ row \in EpochRows
      /\ row.boot = local[c].boot /\ row.lease = local[c].lease
  <2>1. /\ local[c].session \in Session
        /\ local[c].boot \in Nat /\ local[c].lease \in Nat
    BY <1>1, Noted, SMT DEF TaskInv, At, Locals
  <2> QED
    BY <2>1, SMT DEF EpochRows
<1>3. epochs \in Seq(EpochRows) /\ Len(epochs) \in Nat /\ MaxEpoch \in Nat
  BY EpochsNumbered, OwnershipAssumption DEF Shapes
<1> HIDE DEF row
<1>4. /\ epochs' \in Seq(EpochRows) /\ Len(epochs') = Len(epochs) + 1
      /\ \A e \in 1 .. Len(epochs) : epochs'[e] = epochs[e]
      /\ epochs'[Len(epochs')] = row
  BY <1>1, <1>2, <1>3, AppendProperties
<1> DEFINE n == Len(epochs) + 1
<1>5. n \in Nat /\ n <= MaxEpoch /\ local' = [local EXCEPT ![c].new = n]
  BY <1>1, <1>3
<1> HIDE DEF n
<1>6. LET m == local[c] IN
      /\ local' \in [Controller -> Locals]
      /\ \A d \in Controller \ {c} : local'[d] = local[d]
      /\ Remembers(c, m.session, m.lease, m.boot, m.active, m.stale,
                   m.victim, m.current, m.lost, n)
      /\ local'[c].resume = m.resume
  BY <1>5, NewWritten
<1>7. /\ pc' \in [Controller -> Steps] /\ pc'[c] = "precheck"
      /\ \A d \in Controller \ {c} : pc'[d] = pc[d]
  BY <1>1, Goes DEF Steps
<1>8. n = Len(epochs')
  BY <1>4 DEF n
<1> QED
  BY <1>1, <1>2, <1>4, <1>5, <1>6, <1>7, <1>8 DEF Moves

-----------------------------------------------------------------------------
(***************************************************************************)
(* Who writes which variable.                                              *)
(***************************************************************************)
\* A step is one of a task's, the end of a term, or a fault of the DUT.
LEMMA NextCases ==
    ASSUME Next
    PROVE  \/ \E c \in Controller : Work(c)
           \/ Lapse
           \/ \E p \in 0 .. MaxEpoch : ProducerDies(p)
           \/ Reboot
BY DEF Next, Work

\* The lease changes when it is granted, given up or its term ends.
LEMMA LeaseWriters ==
    ASSUME NEW c \in Controller, Work(c)
    PROVE  lease' = lease \/ AcquireLease(c) \/ GiveUp(c)
BY DEF Work, Establish, Arm, Leave, Begin, LeaseBusy, EnterRecovery, SessionCas,
   ReadBootId, ReadFence, HealScan, ClearStaleFence, ClearUnknown, PublishFence,
   PublishUnknown, ObserveFence, EnterRecovering, ReadActiveEpoch, Scan,
   StopStale, KillStale, KillUnknown, EndLostEpoch, OpenGap, Adopt, Rescan,
   CreateEpoch, Precheck, StartProducer, StartUnknown, PollStarted, MarkRunning,
   CloseGaps, FindRunningEpoch, VerifyExactlyOne, Restore, db, dut

\* A session's state is compared and set.
LEMMA SessionWriters ==
    ASSUME NEW c \in Controller, Work(c)
    PROVE  session' = session \/ EnterRecovery(c) \/ EnterRecovering(c)
               \/ Restore(c) \/ Arm(c)
BY DEF Work, Establish, Leave, Begin, LeaseBusy, AcquireLease, GiveUp,
   ReadBootId, ReadFence, HealScan, ClearStaleFence, ClearUnknown, PublishFence,
   PublishUnknown, ObserveFence, ReadActiveEpoch, Scan,
   StopStale, KillStale, KillUnknown, EndLostEpoch, OpenGap, Adopt, Rescan,
   CreateEpoch, Precheck, StartProducer, StartUnknown, PollStarted, MarkRunning,
   CloseGaps, FindRunningEpoch, VerifyExactlyOne, db, dut

\* The epochs' rows are created, marked running and ended.
LEMMA EpochWriters ==
    ASSUME NEW c \in Controller, Work(c)
    PROVE  epochs' = epochs \/ EndLostEpoch(c) \/ CreateEpoch(c) \/ MarkRunning(c)
BY DEF Work, Establish, Arm, Leave, Begin, LeaseBusy, AcquireLease, GiveUp,
   EnterRecovery, SessionCas,
   ReadBootId, ReadFence, HealScan, ClearStaleFence, ClearUnknown, PublishFence,
   PublishUnknown, ObserveFence, EnterRecovering, ReadActiveEpoch, Scan,
   StopStale, KillStale, KillUnknown, OpenGap, Adopt, Rescan,
   Precheck, StartProducer, StartUnknown, PollStarted,
   CloseGaps, FindRunningEpoch, VerifyExactlyOne, Restore, db, dut

\* A gap is opened and closed.
LEMMA GapWriters ==
    ASSUME NEW c \in Controller, Work(c)
    PROVE  gaps' = gaps \/ OpenGap(c) \/ CloseGaps(c)
BY DEF Work, Establish, Arm, Leave, Begin, LeaseBusy, AcquireLease, GiveUp,
   EnterRecovery, SessionCas,
   ReadBootId, ReadFence, HealScan, ClearStaleFence, ClearUnknown, PublishFence,
   PublishUnknown, ObserveFence, EnterRecovering, ReadActiveEpoch, Scan,
   StopStale, KillStale, KillUnknown, EndLostEpoch, Adopt, Rescan,
   CreateEpoch, Precheck, StartProducer, StartUnknown, PollStarted, MarkRunning,
   FindRunningEpoch, VerifyExactlyOne, Restore, db, dut

\* The control files are cleared and published.
LEMMA FenceWriters ==
    ASSUME NEW c \in Controller, Work(c)
    PROVE  fence' = fence \/ ClearStaleFence(c) \/ ClearUnknown(c)
               \/ PublishFence(c) \/ PublishUnknown(c)
BY DEF Work, Establish, Arm, Leave, Begin, LeaseBusy, AcquireLease, GiveUp,
   EnterRecovery, SessionCas,
   ReadBootId, ReadFence, HealScan, ObserveFence, EnterRecovering,
   ReadActiveEpoch, Scan,
   StopStale, KillStale, KillUnknown, EndLostEpoch, OpenGap, Adopt, Rescan,
   CreateEpoch, Precheck, StartProducer, StartUnknown, PollStarted, MarkRunning,
   CloseGaps, FindRunningEpoch, VerifyExactlyOne, Restore, db, dut

\* A task stops producers and starts its own.
LEMMA ProducerWriters ==
    ASSUME NEW c \in Controller, Work(c)
    PROVE  producers' = producers \/ KillStale(c) \/ KillUnknown(c)
               \/ StartProducer(c) \/ StartUnknown(c)
BY DEF Work, Establish, Arm, Leave, Begin, LeaseBusy, AcquireLease, GiveUp,
   EnterRecovery, SessionCas,
   ReadBootId, ReadFence, HealScan, ClearStaleFence, ClearUnknown, PublishFence,
   PublishUnknown, ObserveFence, EnterRecovering, ReadActiveEpoch, Scan,
   StopStale, EndLostEpoch, OpenGap, Adopt, Rescan,
   CreateEpoch, Precheck, PollStarted, MarkRunning,
   CloseGaps, FindRunningEpoch, VerifyExactlyOne, Restore, db, dut

\* No task reboots the DUT, and a fault is counted.
LEMMA FaultsCounted ==
    ASSUME Shapes, TableInv, NEW c \in Controller, Work(c)
    PROVE  boot' = boot /\ faults' \in {faults, faults + 1} /\ faults' <= MaxFault
<1>1. faults \in Nat /\ MaxFault \in Nat /\ faults <= MaxFault
  BY OwnershipAssumption DEF Shapes, TableInv
<1>2. boot' = boot
  BY DEF Work, Establish, Arm, Leave, Begin, LeaseBusy, AcquireLease, GiveUp,
   EnterRecovery, SessionCas,
   ReadBootId, ReadFence, HealScan, ClearStaleFence, ClearUnknown, PublishFence,
   PublishUnknown, ObserveFence, EnterRecovering, ReadActiveEpoch, Scan,
   StopStale, KillStale, KillUnknown, EndLostEpoch, OpenGap, Adopt, Rescan,
   CreateEpoch, Precheck, StartProducer, StartUnknown, PollStarted, MarkRunning,
   CloseGaps, FindRunningEpoch, VerifyExactlyOne, Restore, db, dut
<1>3. NoFault \/ Fault
  BY DEF Work, Establish, Arm, Leave, Begin, LeaseBusy, AcquireLease, GiveUp,
   EnterRecovery, SessionCas,
   ReadBootId, ReadFence, HealScan, ClearStaleFence, ClearUnknown, PublishFence,
   PublishUnknown, ObserveFence, EnterRecovering, ReadActiveEpoch, Scan,
   StopStale, KillStale, KillUnknown, EndLostEpoch, OpenGap, Adopt, Rescan,
   CreateEpoch, Precheck, StartProducer, StartUnknown, PollStarted, MarkRunning,
   CloseGaps, FindRunningEpoch, VerifyExactlyOne, Restore
<1> QED
  BY <1>1, <1>2, <1>3 DEF NoFault, Fault

-----------------------------------------------------------------------------
(***************************************************************************)
(* The tasks' part of the invariant.                                       *)
(***************************************************************************)
\* The part for one task, from what it remembers after a step.
LEMMA TaskInvFrom ==
    ASSUME NEW c \in Controller, NEW s, NEW t, NEW b \in Nat, NEW a \in Nat,
           NEW ps, NEW v, NEW i, NEW l \in Nat, NEW n \in Nat,
           Remembers(c, s, t, b, a, ps, v, i, l, n),
           pc'[c] # "idle" => s \in Session /\ local'[c].resume \in SessionState,
           b <= boot', a <= Len(epochs'), l <= Len(epochs'), n <= Len(epochs'),
           \A p \in ps : p <= Len(epochs'),
           pc'[c] \in Losing => l # 0,
           pc'[c] \in Starting => n # 0,
           pc'[c] \in Unadopted => i = -1, pc'[c] # "lookup"
    PROVE  TaskInv(c)'
BY DEF TaskInv, Remembers, At

\* A step keeps the part of the task that takes it.
LEMMA OwnTask ==
    ASSUME Shapes, TableInv, OneProducer, NEW c \in Controller, TaskInv(c), Work(c)
    PROVE  Moves(c) /\ TaskInv(c)' /\ Len(epochs') \in Nat
           /\ Len(epochs) <= Len(epochs')
<1>1. /\ Len(epochs) \in Nat /\ boot \in Nat
      /\ \A p \in producers : p <= Len(epochs)
  BY EpochsNumbered DEF Shapes, TableInv
<1>2. /\ local[c].lease \in Nat /\ local[c].boot \in Nat
      /\ local[c].active \in Nat /\ local[c].lost \in Nat
      /\ local[c].new \in Nat
  BY Noted, SMT DEF Locals
<1>3. /\ pc[c] # "idle" => /\ local[c].session \in Session
                           /\ local[c].resume \in SessionState
      /\ local[c].boot <= boot
      /\ local[c].active <= Len(epochs) /\ local[c].lost <= Len(epochs)
      /\ local[c].new <= Len(epochs)
      /\ \A p \in local[c].stale : p <= Len(epochs)
  BY DEF TaskInv, At
<1>4. CASE QuietStep(c) \/ (KillStale(c) /\ ~FenceAllows(c)) \/ Arm(c)
  <2>1. /\ local' = local
        /\ pc' \in [Controller -> Steps]
        /\ \A d \in Controller \ {c} : pc'[d] = pc[d]
        /\ ~At(c, "idle") /\ pc'[c] \notin {"idle", "acquire"}
        /\ pc'[c] \in Losing => local[c].lost # 0
        /\ pc'[c] \in Starting => local[c].new # 0
        /\ pc'[c] \in Unadopted => local[c].current = -1
        /\ pc'[c] = "lookup" => local[c].current # -1
        /\ boot' = boot /\ Len(epochs') = Len(epochs)
    BY <1>4, QuietMoves
  <2>2. Moves(c)
    BY <2>1 DEF Moves, Shapes
  <2>3. TaskInv(c)'
    BY <2>1 DEF TaskInv, At
  <2> QED
    BY <1>1, <2>1, <2>2, <2>3
<1>5. CASE LeaseBusy(c) \/ GiveUp(c) \/ Leave(c)
  BY <1>1, <1>5, ForgetMoves, TaskInvFrom DEF Losing, Starting, Unadopted
<1>6. CASE \E s \in Session : Begin(c, s)
  BY <1>1, <1>6, BeginMoves, TaskInvFrom DEF Losing, Starting, Unadopted
<1>7. CASE AcquireLease(c)
  <2>1. LET m == local[c] IN
        /\ Moves(c) /\ At(c, "acquire") /\ pc'[c] = "enter"
        /\ Remembers(c, m.session, lease'.epoch, m.boot, m.active, m.stale,
                     m.victim, m.current, m.lost, m.new)
        /\ local'[c].resume = m.resume /\ boot' = boot /\ epochs' = epochs
    BY <1>7, AcquireMoves
  <2>2. /\ pc'[c] \notin Losing \cup Starting
        /\ local[c].current = -1
    BY <2>1 DEF Losing, Starting, Unadopted, TaskInv, At
  <2>3. TaskInv(c)'
    BY <1>1, <1>2, <1>3, <2>1, <2>2, TaskInvFrom DEF At
  <2> QED
    BY <1>1, <2>1, <2>3
<1>8. CASE ReadBootId(c) \/ ReadActiveEpoch(c)
  <2>1. PICK b \in {local[c].boot, boot},
             a \in (0 .. Len(epochs)) \cup {local[c].active} :
          LET m == local[c] IN
          Remembers(c, m.session, m.lease, b, a, m.stale, m.victim, m.current,
                    m.lost, m.new)
    BY <1>8, ReadMoves
  <2>2. /\ Moves(c) /\ pc[c] # "idle" /\ pc'[c] \in {"readfence", "scan"}
        /\ pc'[c] = "readfence" => pc[c] = "bootid"
        /\ local'[c].resume = local[c].resume /\ boot' = boot /\ epochs' = epochs
    BY <1>8, ReadMoves
  <2>3. b \in Nat /\ a \in Nat /\ b <= boot' /\ a <= Len(epochs')
    BY <1>1, <1>2, <1>3, <2>2
  <2>4. /\ pc'[c] \notin Losing \cup Starting
        /\ pc'[c] \in Unadopted => local[c].current = -1
        /\ pc'[c] # "lookup"
    BY <2>2 DEF Losing, Starting, Unadopted, TaskInv
  <2>5. TaskInv(c)'
    BY <1>1, <1>2, <1>3, <2>1, <2>2, <2>3, <2>4, TaskInvFrom
  <2> QED
    BY <1>1, <2>2, <2>5
<1>9. CASE Scan(c)
  <2>1. PICK i \in {-1} \cup Nat, ps \in SUBSET producers, l \in {0, local[c].active} :
          LET m == local[c] IN
          /\ Remembers(c, m.session, m.lease, m.boot, m.active, ps, m.victim, i,
                       l, m.new)
          /\ pc'[c] = "end" => l # 0
    BY <1>9, ScanMoves
  <2>2. /\ Moves(c) /\ At(c, "scan") /\ pc'[c] \in {"end", "stop", "adopt", "rescan"}
        /\ local'[c].resume = local[c].resume /\ boot' = boot /\ epochs' = epochs
    BY <1>9, ScanMoves
  <2>3. /\ l \in Nat /\ l <= Len(epochs) /\ \A p \in ps : p <= Len(epochs)
        /\ pc[c] # "idle"
    BY <1>1, <1>2, <1>3, <2>2 DEF At
  <2>4. /\ pc'[c] \notin Starting \cup Unadopted /\ pc'[c] # "lookup"
        /\ pc'[c] \in Losing => l # 0
    BY <2>1, <2>2 DEF Losing, Starting, Unadopted
  <2>5. TaskInv(c)'
    BY <1>1, <1>2, <1>3, <2>1, <2>2, <2>3, <2>4, TaskInvFrom
  <2> QED
    BY <1>1, <2>2, <2>5
<1>10. CASE \E p \in 0 .. MaxEpoch : StopStale(c, p)
  <2>1. PICK p \in 0 .. MaxEpoch : StopStale(c, p)
    BY <1>10
  <2>2. LET m == local[c] IN
        /\ Moves(c) /\ At(c, "stop") /\ pc'[c] \in {"kill", "failed"}
        /\ Remembers(c, m.session, m.lease, m.boot, m.active, m.stale, p,
                     m.current, m.lost, m.new)
        /\ local'[c].resume = m.resume /\ boot' = boot /\ epochs' = epochs
    BY <2>1, StopMoves
  <2>3. /\ pc'[c] \notin Losing \cup Starting \cup Unadopted /\ pc'[c] # "lookup"
        /\ pc[c] # "idle"
    BY <2>2 DEF Losing, Starting, Unadopted, At
  <2>4. TaskInv(c)'
    BY <1>1, <1>2, <1>3, <2>2, <2>3, TaskInvFrom
  <2> QED
    BY <1>1, <2>2, <2>4
<1>11. CASE KillStale(c) /\ FenceAllows(c)
  <2>1. PICK ps \in SUBSET local[c].stale :
          LET m == local[c] IN
          Remembers(c, m.session, m.lease, m.boot, m.active, ps, -1, m.current,
                    m.lost, m.new)
    BY <1>11, KillMoves
  <2>2. /\ Moves(c) /\ At(c, "kill") /\ pc'[c] \in {"end", "stop", "adopt", "rescan"}
        /\ pc'[c] = "end" => local[c].lost # 0
        /\ local'[c].resume = local[c].resume /\ boot' = boot /\ epochs' = epochs
    BY <1>11, KillMoves
  <2>3. /\ pc'[c] \notin Starting \cup Unadopted /\ pc'[c] # "lookup"
        /\ pc'[c] \in Losing => local[c].lost # 0
        /\ pc[c] # "idle" /\ \A p \in ps : p <= Len(epochs)
    BY <1>3, <2>1, <2>2 DEF Losing, Starting, Unadopted, At
  <2>4. TaskInv(c)'
    BY <1>1, <1>2, <1>3, <2>1, <2>2, <2>3, TaskInvFrom, SMTT(20)
  <2> QED
    BY <1>1, <2>2, <2>4
<1>12. CASE CreateEpoch(c)
  <2>1. LET m == local[c] IN
        /\ Moves(c) /\ At(c, "create") /\ pc'[c] = "precheck"
        /\ Remembers(c, m.session, m.lease, m.boot, m.active, m.stale,
                     m.victim, m.current, m.lost, Len(epochs'))
        /\ local'[c].resume = m.resume
        /\ Len(epochs') = Len(epochs) + 1 /\ boot' = boot
    BY <1>12, CreateMoves
  <2>2. local[c].current = -1 /\ pc[c] # "idle" /\ pc'[c] \notin Losing
    BY <2>1 DEF TaskInv, Unadopted, Losing, At
  <2>3. /\ Len(epochs') \in Nat /\ Len(epochs) <= Len(epochs') /\ Len(epochs') # 0
        /\ \A x \in Nat : x <= Len(epochs) => x <= Len(epochs')
    BY <1>1, <2>1
  <2>4. \A x \in local[c].stale : x \in Nat /\ x <= Len(epochs')
    BY <1>3, <2>3, Noted, SMT DEF Locals, TokenSets
  <2>5. TaskInv(c)'
    BY <1>2, <1>3, <2>1, <2>2, <2>3, <2>4, TaskInvFrom
  <2> QED
    BY <2>1, <2>3, <2>5
<1> QED
  BY <1>4, <1>5, <1>6, <1>7, <1>8, <1>9, <1>10, <1>11, <1>12, WorkCases

\* A step keeps the parts of the tasks that do not take it.
LEMMA OtherTask ==
    ASSUME NEW c \in Controller, NEW d \in Controller, d # c, Shapes, Moves(c),
           TaskInv(d), boot' = boot,
           Len(epochs) \in Nat, Len(epochs') \in Nat, Len(epochs) <= Len(epochs')
    PROVE  TaskInv(d)'
<1>1. pc'[d] = pc[d] /\ local'[d] = local[d]
  BY DEF Moves
<1>2. /\ local[d].active \in Nat /\ local[d].lost \in Nat /\ local[d].new \in Nat
      /\ \A p \in local[d].stale : p \in Nat
  BY Noted, SMT DEF Locals, TokenSets
<1> DEFINE X == {local[d].active, local[d].lost, local[d].new} \cup local[d].stale
<1>3. \A x \in X : x \in Nat /\ x <= Len(epochs)
  BY <1>2 DEF TaskInv
<1> HIDE DEF X
<1>4. \A x \in X : x <= Len(epochs')
  BY <1>3
<1>5. {local[d].active, local[d].lost, local[d].new} \cup local[d].stale = X
  BY DEF X
<1> QED
  BY <1>1, <1>4, <1>5 DEF TaskInv, At

\* A fault of the DUT or the end of a term moves no task.
LEMMA OutsideMoves ==
    ASSUME Shapes, TableInv,
           \/ Lapse
           \/ \E p \in 0 .. MaxEpoch : ProducerDies(p)
           \/ Reboot
    PROVE  /\ pc' = pc /\ local' = local /\ session' = session
           /\ epochs' = epochs /\ gaps' = gaps
           /\ faults' \in Nat /\ faults' <= MaxFault
           /\ \/ boot' = boot /\ faults <= faults'
              \/ boot' = boot + 1 /\ faults' = faults + 1
           /\ producers' \subseteq producers
           /\ \/ fence' = fence
              \/ fence' = [epoch |-> 0, owner |-> NoOwner]
           /\ \/ lease' = lease
              \/ /\ lease.phase = "held"
                 /\ lease' = [lease EXCEPT !.phase = "lapsed"]
<1>1. faults \in Nat /\ MaxFault \in Nat /\ faults <= MaxFault
  BY OwnershipAssumption DEF Shapes, TableInv
<1> QED
  BY <1>1 DEF Lapse, ProducerDies, Reboot, Fault, db, dut

\* Every step keeps every task's part.
LEMMA TaskStep ==
    ASSUME OwnershipInv, Next
    PROVE  /\ \A c \in Controller : TaskInv(c)'
           /\ pc' \in [Controller -> Steps] /\ local' \in [Controller -> Locals]
<1>0. /\ Shapes /\ TableInv /\ OneProducer
      /\ \A c \in Controller : TaskInv(c)
  BY DEF OwnershipInv
<1>1. CASE \E c \in Controller : Work(c)
  <2>1. PICK c \in Controller : Work(c)
    BY <1>1
  <2>2. /\ Moves(c) /\ TaskInv(c)' /\ Len(epochs) \in Nat /\ Len(epochs') \in Nat
        /\ Len(epochs) <= Len(epochs') /\ boot' = boot
    BY <1>0, <2>1, OwnTask, FaultsCounted, EpochsNumbered
  <2>3. \A d \in Controller : TaskInv(d)'
    BY <1>0, <2>2, OtherTask
  <2> QED
    BY <2>2, <2>3 DEF Moves
<1>2. CASE ~\E c \in Controller : Work(c)
  <2>1. /\ pc' = pc /\ local' = local /\ epochs' = epochs
        /\ boot' = boot \/ boot' = boot + 1
    BY <1>0, <1>2, NextCases, OutsideMoves
  <2>2. boot \in Nat /\ \A c \in Controller : local[c].boot \in Nat
    BY <1>0, Noted, SMT DEF Shapes, Locals
  <2>3. \A c \in Controller : TaskInv(c)'
    BY <1>0, <2>1, <2>2 DEF TaskInv, At
  <2> QED
    BY <1>0, <2>1, <2>3 DEF Shapes
<1> QED
  BY <1>1, <1>2

-----------------------------------------------------------------------------
(***************************************************************************)
(* The lease.                                                              *)
(***************************************************************************)
\* A step of a task grants it the lease, ends its use of one, or leaves both
\* the lease and the task's use of it alone.
LEMMA TokenMoves ==
    ASSUME Shapes, TableInv, OneProducer, NEW c \in Controller, TaskInv(c), Work(c)
    PROVE  \/ AcquireLease(c)
           \/ /\ ~Tokened(c)' /\ local'[c].lease = 0
              /\ lease' = lease \/ GiveUp(c)
           \/ /\ Tokened(c) /\ Tokened(c)'
              /\ local'[c].lease = local[c].lease
              /\ local'[c].session = local[c].session
              /\ lease' = lease
<1>1. GiveUp(c) => pc'[c] = "idle"
  BY Goes DEF GiveUp, Steps
<1>2. AcquireLease(c) => pc[c] = "acquire"
  BY DEF AcquireLease, At
<1>3. lease' = lease \/ AcquireLease(c) \/ GiveUp(c)
  BY LeaseWriters
<1>4. CASE QuietStep(c) \/ (KillStale(c) /\ ~FenceAllows(c)) \/ Arm(c)
  BY <1>1, <1>2, <1>3, <1>4, QuietMoves DEF Tokened, At
<1>5. CASE LeaseBusy(c) \/ GiveUp(c) \/ Leave(c)
  BY <1>3, <1>5, ForgetMoves DEF Tokened, Remembers
<1>6. CASE \E s \in Session : Begin(c, s)
  BY <1>3, <1>6, BeginMoves DEF Tokened, Remembers
<1>7. CASE ReadBootId(c) \/ ReadActiveEpoch(c)
  BY <1>7, ReadMoves DEF Tokened, Remembers
<1>8. CASE Scan(c)
  BY <1>8, ScanMoves DEF Tokened, Remembers, At
<1>9. CASE \E p \in 0 .. MaxEpoch : StopStale(c, p)
  BY <1>9, StopMoves DEF Tokened, Remembers, At
<1>10. CASE KillStale(c) /\ FenceAllows(c)
  BY <1>10, KillMoves DEF Tokened, Remembers, At
<1>11. CASE CreateEpoch(c)
  BY <1>11, CreateMoves DEF Tokened, Remembers, At
<1> QED
  BY <1>4, <1>5, <1>6, <1>7, <1>8, <1>9, <1>10, <1>11, WorkCases

LeaseRows == [epoch : 0 .. MaxLease, owner : Owners,
              phase : {"free", "held", "lapsed"}]

\* The row keeps its epoch and its owner, and is held only if it was.
Steady ==
    /\ lease'.epoch = lease.epoch /\ lease'.owner = lease.owner
    /\ lease'.phase = "held" => lease.phase = "held"

\* The row stays with its owner, or goes to the task that acquires it.
LEMMA LeaseStep ==
    ASSUME OwnershipInv, Next
    PROVE  /\ lease' \in LeaseRows
           /\ \/ Steady
              \/ \E c \in Controller :
                     /\ AcquireLease(c) /\ lease.phase # "held"
                     /\ lease'.epoch = lease.epoch + 1
                     /\ lease'.owner = OwnerId(c) /\ lease'.phase = "held"
<1>0. /\ Shapes /\ TableInv /\ \A c \in Controller : TaskInv(c)
      /\ lease \in LeaseRows
  BY DEF OwnershipInv, Shapes, LeaseRows
<1>1. CASE lease' = lease
  BY <1>0, <1>1 DEF Steady
<1>2. ASSUME NEW c \in Controller, AcquireLease(c)
      PROVE  /\ lease' \in LeaseRows
             /\ \/ Steady
                \/ /\ lease.phase # "held"
                   /\ lease'.epoch = lease.epoch + 1
                   /\ lease'.owner = OwnerId(c) /\ lease'.phase = "held"
  <2>1. \/ lease' = lease
        \/ /\ lease.phase # "held" /\ lease.epoch < MaxLease
           /\ lease'.epoch = lease.epoch + 1 /\ lease'.owner = OwnerId(c)
           /\ lease'.phase = "held"
           /\ lease' = [epoch |-> lease.epoch + 1, owner |-> OwnerId(c),
                        phase |-> "held"]
    BY <1>0, <1>2, AcquireMoves
  <2>2. OwnerId(c) \in Owners
    BY <1>0, <1>2 DEF AcquireLease, TaskInv, At, OwnerId, Owners
  <2>3. CASE lease' = lease
    BY <1>1, <2>3
  <2>4. CASE lease' # lease
    <3>1. lease.epoch + 1 \in 0 .. MaxLease
      BY <1>0, <2>1, <2>4, OwnershipAssumption DEF LeaseRows
    <3> QED
      BY <2>1, <2>2, <2>4, <3>1 DEF LeaseRows
  <2> QED
    BY <2>3, <2>4
<1>3. ASSUME Lapse \/ \E c \in Controller : GiveUp(c)
      PROVE  lease' \in LeaseRows /\ Steady
  <2>1. \/ lease' = lease
        \/ lease' = [lease EXCEPT !.phase = "lapsed"] /\ lease.phase = "held"
        \/ lease' = [lease EXCEPT !.phase = "free"]
    BY <1>3 DEF Lapse, GiveUp
  <2> QED
    BY <1>0, <2>1 DEF Steady, LeaseRows
<1>4. CASE \E c \in Controller : Work(c)
  BY <1>1, <1>2, <1>3, <1>4, LeaseWriters
<1>5. CASE ~\E c \in Controller : Work(c)
  <2>1. lease' = lease \/ Lapse
    BY <1>5, NextCases DEF ProducerDies, Reboot, db
  <2> QED
    BY <1>1, <1>3, <2>1
<1> QED
  BY <1>4, <1>5

\* A task clears the control files, or publishes its own lease in them.
LEMMA FenceMoves ==
    ASSUME Shapes, NEW c \in Controller, TaskInv(c), Work(c)
    PROVE  \/ fence' = fence
           \/ fence' = [epoch |-> 0, owner |-> NoOwner]
           \/ /\ At(c, "publish") /\ pc'[c] \in {"recovering", "observe"}
              /\ fence' = [epoch |-> local[c].lease, owner |-> OwnerId(c)]
<1>1. CASE PublishFence(c)
  BY <1>1 DEF PublishFence, WriteFence, Goto, Shapes
<1>2. CASE PublishUnknown(c)
  BY <1>2 DEF PublishUnknown, WriteFence, Goto, Shapes
<1> QED
  BY <1>1, <1>2, FenceWriters DEF ClearStaleFence, ClearUnknown

\* The shape of the control files, and the lease they name.
LEMMA FenceStep ==
    ASSUME OwnershipInv, Next
    PROVE  /\ fence' \in [epoch : Nat, owner : Owners]
           /\ fence'.epoch <= lease'.epoch
<1>1. /\ Shapes /\ TableInv /\ fence \in [epoch : Nat, owner : Owners]
      /\ fence.epoch <= lease.epoch /\ lease.epoch \in Nat
      /\ \A c \in Controller : local[c].lease <= lease.epoch /\ TaskInv(c)
  BY DEF OwnershipInv, Shapes, LeaseInv
<1>2. lease'.epoch \in Nat /\ lease.epoch <= lease'.epoch
  BY <1>1, LeaseStep DEF LeaseRows, Steady
<1>3. CASE fence' = fence
  BY <1>1, <1>2, <1>3
<1>4. CASE fence' = [epoch |-> 0, owner |-> NoOwner]
  BY <1>1, <1>2, <1>4 DEF Owners
<1>5. ASSUME NEW c \in Controller, At(c, "publish"),
             fence' = [epoch |-> local[c].lease, owner |-> OwnerId(c)]
      PROVE  fence' \in [epoch : Nat, owner : Owners]
             /\ fence'.epoch <= lease'.epoch
  <2>1. local[c].lease \in Nat
    BY <1>1, Noted, SMT DEF Locals
  <2>2. OwnerId(c) \in Owners
    BY <1>1, <1>5 DEF TaskInv, At, OwnerId, Owners
  <2> QED
    BY <1>1, <1>2, <1>5, <2>1, <2>2
<1>6. CASE \E c \in Controller : Work(c)
  BY <1>1, <1>3, <1>4, <1>5, <1>6, FenceMoves
<1>7. CASE ~\E c \in Controller : Work(c)
  BY <1>1, <1>3, <1>4, <1>7, NextCases, OutsideMoves
<1> QED
  BY <1>6, <1>7

\* A lease epoch goes on naming one task.
LEMMA LeaseInvStep ==
    ASSUME OwnershipInv, Next
    PROVE  LeaseInv'
<1>0. /\ Shapes /\ TableInv /\ OneProducer /\ LeaseInv
      /\ \A c \in Controller : TaskInv(c)
      /\ lease.epoch \in Nat /\ \A c \in Controller : local[c].lease \in Nat
  <2>1. /\ Shapes /\ TableInv /\ OneProducer /\ LeaseInv
        /\ \A c \in Controller : TaskInv(c)
    BY DEF OwnershipInv
  <2>2. lease.epoch \in Nat
    BY <2>1 DEF Shapes, LeaseRows
  <2>3. \A c \in Controller : local[c].lease \in Nat
    BY <2>1, Noted, SMT DEF Locals
  <2> QED
    BY <2>1, <2>2, <2>3
<1>1. /\ fence'.epoch <= lease'.epoch /\ lease'.epoch \in Nat
      /\ lease'.phase = "held" => lease'.epoch # 0
  BY <1>0, LeaseStep, FenceStep DEF LeaseRows, Steady, LeaseInv
<1>2. CASE \E c \in Controller : AcquireLease(c)
  <2>1. PICK c \in Controller : AcquireLease(c)
    BY <1>2
  <2>2. /\ Moves(c) /\ At(c, "acquire") /\ pc'[c] = "enter"
        /\ local'[c].lease = lease'.epoch /\ local'[c].session = local[c].session
        /\ \/ lease.phase = "held" /\ lease.owner = OwnerId(c) /\ lease' = lease
           \/ lease'.epoch = lease.epoch + 1 /\ lease'.owner = OwnerId(c)
    BY <1>0, <2>1, AcquireMoves DEF Remembers
  <2>3. OwnerId(c)' = OwnerId(c)
    BY <2>2 DEF OwnerId
  <2>4. \A d \in Controller \ {c} :
            /\ Tokened(d)' <=> Tokened(d)
            /\ local'[d].lease = local[d].lease /\ OwnerId(d)' = OwnerId(d)
            /\ OwnerId(d) # OwnerId(c)
    BY <2>2 DEF Moves, Tokened, OwnerId
  <2>5. lease'.epoch # 0 /\ lease'.owner = OwnerId(c)
    BY <1>0, <2>2 DEF LeaseInv
  <2>6. \A d \in Controller \ {c} : Tokened(d) => local[d].lease # lease'.epoch
    BY <1>0, <2>2, <2>4, <2>5 DEF LeaseInv
  <2> QED
    BY <1>0, <1>1, <2>2, <2>3, <2>4, <2>5, <2>6 DEF LeaseInv, Tokened
<1>3. CASE (\E c \in Controller : Work(c)) /\ ~\E c \in Controller : AcquireLease(c)
  <2>1. PICK c \in Controller : Work(c)
    BY <1>3
  <2>2. Moves(c)
    BY <1>0, <2>1, OwnTask
  <2>3. lease'.epoch = lease.epoch /\ lease'.owner = lease.owner
    BY <1>3, LeaseStep DEF Steady
  <2>4. \/ ~Tokened(c)' /\ local'[c].lease = 0
        \/ /\ Tokened(c) /\ Tokened(c)'
           /\ local'[c].lease = local[c].lease
           /\ local'[c].session = local[c].session
    BY <1>0, <1>3, <2>1, TokenMoves
  <2>5. \A d \in Controller \ {c} :
            /\ Tokened(d)' <=> Tokened(d)
            /\ local'[d].lease = local[d].lease /\ OwnerId(d)' = OwnerId(d)
    BY <2>2 DEF Moves, Tokened, OwnerId
  <2> QED
    BY <1>0, <1>1, <2>3, <2>4, <2>5 DEF LeaseInv, OwnerId
<1>4. CASE ~\E c \in Controller : Work(c)
  <2>1. pc' = pc /\ local' = local
    BY <1>0, <1>4, NextCases, OutsideMoves
  <2>2. lease'.epoch = lease.epoch /\ lease'.owner = lease.owner
    BY <1>4, LeaseStep DEF Steady, Work, Establish
  <2> QED
    BY <1>0, <1>1, <2>1, <2>2 DEF LeaseInv, Tokened, OwnerId
<1> QED
  BY <1>2, <1>3, <1>4

-----------------------------------------------------------------------------
(***************************************************************************)
(* Producers.                                                              *)
(***************************************************************************)
\* Tasks stop producers, and start the one of their new epoch.
LEMMA ProducerMoves ==
    ASSUME Shapes, NEW c \in Controller, Work(c)
    PROVE  \/ producers' \subseteq producers
           \/ /\ At(c, "start") /\ pc'[c] = "poll" /\ FenceAllows(c)
              /\ local' = local /\ fence' = fence /\ lease' = lease
              /\ producers' = producers \cup {local[c].new}
<1>1. CASE KillStale(c) \/ KillUnknown(c)
  BY <1>1 DEF KillStale, KillUnknown
<1>2. CASE StartProducer(c)
  BY <1>2, Goes DEF StartProducer, Keep, db, Steps
<1>3. CASE StartUnknown(c)
  BY <1>3, Goes DEF StartUnknown, Keep, db, Steps
<1> QED
  BY <1>1, <1>2, <1>3, ProducerWriters

\* A task that may start its producer sees none, and so is the only one.
LEMMA OneProducerStep ==
    ASSUME OwnershipInv, Next
    PROVE  OneProducer'
<1>0. Shapes /\ TableInv /\ OneProducer /\ StartInv
  BY DEF OwnershipInv
<1>1. IsFiniteSet(producers) /\ Cardinality(producers) \in Nat
      /\ Cardinality(producers) <= 1
  <2>1. \/ producers = {}
        \/ \E p \in producers : producers = {p}
    BY <1>0, NoneOrOne
  <2> QED
    BY <1>0, <2>1, FS_EmptySet, FS_Singleton DEF OneProducer
<1>2. CASE producers' \subseteq producers
  BY <1>1, <1>2, FS_Subset, FS_CardinalityType DEF OneProducer
<1>3. ASSUME NEW c \in Controller, At(c, "start"), FenceAllows(c),
             producers' = producers \cup {local[c].new}
      PROVE  OneProducer'
  <2>1. producers' = {local[c].new}
    BY <1>0, <1>3 DEF StartInv
  <2>2. Cardinality(producers') = 1
    BY <2>1, FS_Singleton
  <2> QED
    BY <2>2 DEF OneProducer
<1>4. producers' \subseteq producers \/ \E c \in Controller : Work(c)
  BY <1>0, NextCases, OutsideMoves
<1> QED
  BY <1>0, <1>2, <1>3, <1>4, ProducerMoves

\* How a task arrives at its start (from its look at the DUT, in its term), at
\* a stop (from the check of its term), among the steps that follow its own
\* fence (from that fence), and at the end of its start or adoption.
Arrivals(c) ==
    /\ pc'[c] = "start" =>
           /\ local' = local /\ lease' = lease /\ fence' = fence
           /\ producers' = producers
           /\ producers = {} /\ TokenLive(c) /\ At(c, "precheck")
    /\ pc'[c] = "kill" => \E p \in 0 .. MaxEpoch : StopStale(c, p)
    /\ (pc'[c] \in Fenced /\ pc[c] \notin Fenced) =>
           /\ At(c, "publish") \/ At(c, "observe")
           /\ pc'[c] = "recovering" /\ local' = local
           /\ fence'.epoch = local[c].lease
    /\ (pc'[c] \in Started /\ pc[c] \notin Started) =>
           \/ At(c, "poll") /\ producers' = {local[c].new} /\ local' = local
           \/ At(c, "lookup") /\ local' = local /\ producers' = producers

\* Steps that leave what the task remembers alone arrive so.
LEMMA QuietArrivals ==
    ASSUME Shapes, TableInv, OneProducer, NEW c \in Controller, TaskInv(c),
           QuietStep(c)
    PROVE  Arrivals(c)
<1>1. /\ pc \in [Controller -> Steps] /\ pc[c] \in Steps
      /\ local[c].lease \in Nat
  <2>1. pc \in [Controller -> Steps] /\ pc[c] \in Steps
    BY DEF Shapes
  <2>2. local[c].lease \in Nat
    BY Noted, SMT DEF Locals
  <2> QED
    BY <2>1, <2>2
<1> USE <1>1 DEF Goto, At, Keep, db, dut, Arrivals, Fenced, Started, Steps
<1>2. CASE EnterRecovery(c) \/ EnterRecovering(c) \/ Restore(c)
  BY <1>2 DEF EnterRecovery, EnterRecovering, Restore, SessionCas
<1>3. CASE ReadFence(c) \/ HealScan(c) \/ ObserveFence(c)
  BY <1>3 DEF ReadFence, HealScan, ObserveFence, FenceAllows
<1>4. CASE ClearStaleFence(c) \/ ClearUnknown(c) \/ PublishUnknown(c)
  BY <1>4 DEF ClearStaleFence, ClearUnknown, PublishUnknown
<1>5. CASE PublishFence(c)
  BY <1>5 DEF PublishFence, WriteFence
<1>6. CASE KillUnknown(c) \/ EndLostEpoch(c)
  BY <1>6 DEF KillUnknown, EndLostEpoch
<1>7. CASE OpenGap(c)
  BY <1>7, AfterSteps DEF OpenGap
<1>8. CASE Adopt(c) \/ Precheck(c)
  BY <1>8 DEF Adopt, Precheck
<1>9. CASE Rescan(c)
  <2>1. Cardinality(producers) \in {0, 1}
    BY NoneOrOne
  <2> QED
    BY <1>9, <2>1 DEF Rescan
<1>10. CASE StartProducer(c) \/ StartUnknown(c) \/ PollStarted(c) \/ MarkRunning(c)
  BY <1>10 DEF StartProducer, StartUnknown, PollStarted, MarkRunning
<1>11. CASE CloseGaps(c) \/ FindRunningEpoch(c) \/ VerifyExactlyOne(c)
  BY <1>11 DEF CloseGaps, FindRunningEpoch, VerifyExactlyOne
<1> QED
  BY <1>2, <1>3, <1>4, <1>5, <1>6, <1>7, <1>8, <1>9, <1>10, <1>11 DEF QuietStep

\* Every step of a task arrives so.
LEMMA Arrives ==
    ASSUME Shapes, TableInv, OneProducer, NEW c \in Controller, TaskInv(c), Work(c)
    PROVE  Arrivals(c)
<1> USE DEF Arrivals, Fenced, Started, At
<1>1. pc[c] \in Steps
  BY Noted
<1>2. CASE QuietStep(c)
  BY <1>2, QuietArrivals
<1>3. CASE (KillStale(c) /\ ~FenceAllows(c)) \/ Arm(c)
  BY <1>1, <1>3, Goes DEF KillStale, Arm, Steps
<1>4. CASE LeaseBusy(c) \/ GiveUp(c) \/ Leave(c)
  BY <1>4, ForgetMoves
<1>5. CASE \E s \in Session : Begin(c, s)
  BY <1>5, BeginMoves
<1>6. CASE AcquireLease(c)
  BY <1>6, AcquireMoves
<1>7. CASE ReadBootId(c) \/ ReadActiveEpoch(c)
  BY <1>1, <1>7, ReadMoves DEF Steps
<1>8. CASE Scan(c)
  BY <1>1, <1>8, ScanMoves DEF Steps
<1>9. CASE \E p \in 0 .. MaxEpoch : StopStale(c, p)
  BY <1>1, <1>9, StopMoves DEF Steps
<1>10. CASE KillStale(c) /\ FenceAllows(c)
  BY <1>1, <1>10, KillMoves DEF Steps
<1>11. CASE CreateEpoch(c)
  BY <1>1, <1>11, CreateMoves DEF Steps
<1> QED
  BY <1>2, <1>3, <1>4, <1>5, <1>6, <1>7, <1>8, <1>9, <1>10, <1>11, WorkCases

\* Two tasks that were granted the lease were granted different epochs of it.
LEMMA Distinct ==
    ASSUME OwnershipInv, NEW c \in Controller, NEW d \in Controller, c # d,
           Tokened(c), Tokened(d)
    PROVE  /\ local[c].lease # local[d].lease
           /\ local[c].lease # 0 /\ local[d].lease # 0
BY DEF OwnershipInv, LeaseInv

\* What a step may do to the fence, as another task sees it.
LEMMA FenceGone ==
    ASSUME OwnershipInv, Next, NEW c \in Controller, Tokened(c),
           fence'.epoch = local[c].lease
    PROVE  fence' = fence \/ (At(c, "publish") /\ Work(c))
<1>1. /\ Shapes /\ \A d \in Controller : TaskInv(d)
      /\ local[c].lease # 0
  BY DEF OwnershipInv, LeaseInv
<1>2. CASE \E d \in Controller : Work(d)
  <2>1. PICK d \in Controller : Work(d)
    BY <1>2
  <2>2. CASE fence' = fence
    BY <2>2
  <2>3. CASE fence' = [epoch |-> 0, owner |-> NoOwner]
    BY <1>1, <2>3
  <2>4. CASE At(d, "publish")
             /\ fence' = [epoch |-> local[d].lease, owner |-> OwnerId(d)]
    BY <2>1, <2>4, Distinct DEF Tokened, At
  <2> QED
    BY <1>1, <2>1, <2>2, <2>3, <2>4, FenceMoves
<1>3. CASE ~\E d \in Controller : Work(d)
  <2>1. fence' = fence \/ fence' = [epoch |-> 0, owner |-> NoOwner]
    BY <1>3, NextCases, OutsideMoves DEF OwnershipInv
  <2> QED
    BY <1>1, <2>1
<1> QED
  BY <1>2, <1>3

\* A task whose lease is not granted anew by the step, and who is in its term
\* after it, was before.
LEMMA TermKept ==
    ASSUME OwnershipInv, Next, NEW c \in Controller, Tokened(c),
           local'[c].lease = local[c].lease, TokenLive(c)'
    PROVE  TokenLive(c)
<1>1. lease.epoch \in Nat /\ local[c].lease \in Nat /\ local[c].lease <= lease.epoch
  BY Noted, SMT DEF OwnershipInv, Shapes, Locals, LeaseInv
<1>2. Steady \/ lease'.epoch = lease.epoch + 1
  BY LeaseStep
<1> QED
  BY <1>1, <1>2 DEF TokenLive, Steady

\* A task that is not moved by a step.
Stays(c) == pc'[c] = pc[c] /\ local'[c] = local[c]

\* Each step moves at most one task.
LEMMA OneMoves ==
    ASSUME OwnershipInv, Next, NEW c \in Controller, ~Work(c)
    PROVE  Stays(c)
<1>1. CASE \E d \in Controller : Work(d)
  <2>1. PICK d \in Controller : Work(d)
    BY <1>1
  <2>2. Moves(d)
    BY <2>1, OwnTask DEF OwnershipInv
  <2> QED
    BY <2>1, <2>2 DEF Moves, Stays
<1>2. CASE ~\E d \in Controller : Work(d)
  BY <1>2, NextCases, OutsideMoves DEF OwnershipInv, Stays
<1> QED
  BY <1>1, <1>2

\* Every producer was there, or was started by a task at its start with a
\* fence that allows it.
LEMMA StartedBy ==
    ASSUME OwnershipInv, Next
    PROVE  \/ producers' \subseteq producers
           \/ \E d \in Controller :
                  /\ Work(d) /\ At(d, "start") /\ pc'[d] = "poll"
                  /\ FenceAllows(d) /\ local' = local
                  /\ fence' = fence /\ lease' = lease
                  /\ producers' = producers \cup {local[d].new}
<1>1. CASE \E d \in Controller : Work(d)
  BY <1>1, ProducerMoves DEF OwnershipInv
<1>2. CASE ~\E d \in Controller : Work(d)
  BY <1>2, NextCases, OutsideMoves DEF OwnershipInv
<1> QED
  BY <1>1, <1>2

\* Nobody starts a producer in the window of a task whose fence stands.
LEMMA StartInvStep ==
    ASSUME OwnershipInv, Next
    PROVE  StartInv'
<1>0. /\ Shapes /\ TableInv /\ OneProducer /\ StartInv
      /\ \A d \in Controller : TaskInv(d)
  BY DEF OwnershipInv
<1> SUFFICES ASSUME NEW c \in Controller, pc'[c] = "start",
                    fence'.epoch = local'[c].lease
             PROVE  producers' = {}
  BY DEF StartInv, At, FenceAllows
<1>1. CASE Work(c)
  BY <1>0, <1>1, Arrives DEF Arrivals
<1>2. CASE ~Work(c)
  <2>1. At(c, "start") /\ local'[c] = local[c] /\ Tokened(c)
    BY <1>2, OneMoves DEF Stays, At, Tokened
  <2>2. fence' = fence
    BY <1>2, <2>1, FenceGone
  <2>3. producers = {}
    BY <1>0, <2>1, <2>2 DEF StartInv, FenceAllows
  <2>4. ASSUME NEW d \in Controller, Work(d), At(d, "start"), FenceAllows(d)
        PROVE  FALSE
    <3>1. c # d /\ Tokened(d)
      BY <1>2, <2>4 DEF Tokened, At
    <3>2. local[d].lease = local[c].lease
      BY <2>1, <2>2, <2>4 DEF FenceAllows
    <3> QED
      BY <2>1, <3>1, <3>2, Distinct
  <2> QED
    BY <2>3, <2>4, StartedBy
<1> QED
  BY <1>1, <1>2

\* A start prepared under an earlier fence stays blocked.
LEMMA BlockedInvStep ==
    ASSUME OwnershipInv, Next
    PROVE  BlockedInv'
<1>0. /\ Shapes /\ TableInv /\ OneProducer /\ BlockedInv
      /\ \A d \in Controller : TaskInv(d)
      /\ pc \in [Controller -> Steps]
  BY DEF OwnershipInv, Shapes
<1> SUFFICES ASSUME NEW c \in Controller, NEW d \in Controller, c # d,
                    TokenLive(c)', pc'[c] \in Fenced, pc'[d] = "start",
                    fence'.epoch = local'[d].lease
             PROVE  FALSE
  BY DEF BlockedInv, At, FenceAllows
<1>1. Tokened(c) /\ local'[c].lease = local[c].lease
  <2>1. CASE Work(c)
    <3>1. ~AcquireLease(c)
      BY <1>0, AcquireMoves DEF Fenced, Steps
    <3>2. Tokened(c)'
      BY DEF Tokened, Fenced
    <3> QED
      BY <1>0, <2>1, <3>1, <3>2, TokenMoves
  <2>2. CASE ~Work(c)
    BY <2>2, OneMoves DEF Stays, Tokened, Fenced
  <2> QED
    BY <2>1, <2>2
<1>2. TokenLive(c)
  BY <1>1, TermKept
<1>3. CASE Work(d)
  <2>1. TokenLive(d) /\ Tokened(d)
    BY <1>0, <1>3, Arrives DEF Arrivals, Tokened, At
  <2> QED
    BY <1>1, <1>2, <2>1, Distinct DEF TokenLive
<1>4. CASE ~Work(d)
  <2>1. At(d, "start") /\ local'[d] = local[d] /\ Tokened(d)
    BY <1>4, OneMoves DEF Stays, At, Tokened
  <2>2. fence' = fence /\ FenceAllows(d)
    BY <1>4, <2>1, FenceGone DEF FenceAllows
  <2>3. pc[c] \notin Fenced
    BY <1>0, <1>2, <2>1, <2>2 DEF BlockedInv
  <2>4. Work(c)
    BY <2>3, OneMoves DEF Stays
  <2>5. fence'.epoch = local[c].lease
    BY <1>0, <2>3, <2>4, Arrives DEF Arrivals
  <2> QED
    BY <1>1, <2>1, <2>5, Distinct
<1> QED
  BY <1>3, <1>4

\* The table grows, and a row keeps its boot and its lease.
LEMMA EpochStep ==
    ASSUME OwnershipInv, Next
    PROVE  /\ epochs' \in Seq(EpochRows)
           /\ Len(epochs) \in Nat /\ Len(epochs') \in Nat
           /\ Len(epochs) <= Len(epochs') /\ Len(epochs') <= MaxEpoch
           /\ \A e \in 1 .. Len(epochs) :
                  epochs'[e].boot = epochs[e].boot /\ epochs'[e].lease = epochs[e].lease
           /\ \A e \in 1 .. Len(epochs') :
                  epochs'[e].boot <= boot' /\ epochs'[e].lease <= lease'.epoch
<1>0. /\ Shapes /\ TableInv /\ OneProducer /\ \A c \in Controller : TaskInv(c)
      /\ epochs \in Seq(EpochRows) /\ Len(epochs) \in Nat
      /\ \A e \in 1 .. Len(epochs) : epochs[e] \in EpochRows
      /\ boot \in Nat /\ lease.epoch \in Nat
      /\ Len(epochs) <= MaxEpoch /\ MaxEpoch \in Nat
      /\ \A e \in 1 .. Len(epochs) :
             epochs[e].boot <= boot /\ epochs[e].lease <= lease.epoch
      /\ \A c \in Controller : local[c].lease <= lease.epoch /\ local[c].boot <= boot
  <2>1. /\ Shapes /\ TableInv /\ OneProducer /\ \A c \in Controller : TaskInv(c)
        /\ LeaseInv
    BY DEF OwnershipInv
  <2>2. lease.epoch \in Nat
    BY <2>1, SMT DEF Shapes
  <2> QED
    BY <2>1, <2>2, EpochsNumbered, OwnershipAssumption
       DEF Shapes, TableInv, LeaseInv, TaskInv
<1>1. /\ lease'.epoch \in Nat /\ lease.epoch <= lease'.epoch
      /\ boot' \in Nat /\ boot <= boot'
  <2>1. lease'.epoch \in Nat /\ lease.epoch <= lease'.epoch
    BY <1>0, LeaseStep DEF LeaseRows, Steady
  <2>2. boot' = boot \/ boot' = boot + 1
    BY <1>0, NextCases, FaultsCounted, OutsideMoves
  <2> QED
    BY <1>0, <2>1, <2>2
<1>2. \A e \in 1 .. Len(epochs) : epochs[e].lease \in Nat /\ epochs[e].boot \in Nat
  BY <1>0, SMT DEF EpochRows
<1>3. CASE epochs' = epochs
  BY <1>0, <1>1, <1>2, <1>3
<1>4. ASSUME NEW e \in 1 .. Len(epochs), NEW x \in {"STARTING", "RUNNING", "FAILED"},
             epochs' = [epochs EXCEPT ![e].state = x]
      PROVE  /\ epochs' \in Seq(EpochRows) /\ Len(epochs') = Len(epochs)
             /\ \A f \in 1 .. Len(epochs) :
                    epochs'[f].boot = epochs[f].boot
                    /\ epochs'[f].lease = epochs[f].lease
  <2> DEFINE row == [epochs[e] EXCEPT !.state = x]
  <2>1. row \in EpochRows /\ row.boot = epochs[e].boot /\ row.lease = epochs[e].lease
    <3>1. epochs[e] \in EpochRows
      BY <1>0
    <3>2. row \in EpochRows
      BY <1>4, <3>1, ZenonT(60) DEF EpochRows
    <3>3. row.boot = epochs[e].boot /\ row.lease = epochs[e].lease
      BY <3>1, SMT DEF EpochRows
    <3> QED
      BY <3>2, <3>3
  <2>2. epochs' = [epochs EXCEPT ![e] = row]
    BY <1>4
  <2> HIDE DEF row
  <2>3. /\ epochs' \in Seq(EpochRows) /\ Len(epochs') = Len(epochs)
        /\ \A f \in 1 .. Len(epochs) :
               epochs'[f] = IF f = e THEN row ELSE epochs[f]
    BY <1>0, <2>1, <2>2, ExceptSeq
  <2> QED
    BY <2>1, <2>3
<1>5. ASSUME NEW e \in 1 .. Len(epochs), NEW x \in {"STARTING", "RUNNING", "FAILED"},
             epochs' = [epochs EXCEPT ![e].state = x]
      PROVE  /\ epochs' \in Seq(EpochRows)
             /\ Len(epochs) \in Nat /\ Len(epochs') \in Nat
             /\ Len(epochs) <= Len(epochs') /\ Len(epochs') <= MaxEpoch
             /\ \A f \in 1 .. Len(epochs) :
                    epochs'[f].boot = epochs[f].boot /\ epochs'[f].lease = epochs[f].lease
             /\ \A f \in 1 .. Len(epochs') :
                    epochs'[f].boot <= boot' /\ epochs'[f].lease <= lease'.epoch
  <2>1. /\ epochs' \in Seq(EpochRows) /\ Len(epochs') = Len(epochs)
        /\ \A f \in 1 .. Len(epochs) : epochs'[f].boot = epochs[f].boot
                                      /\ epochs'[f].lease = epochs[f].lease
    BY <1>4, <1>5
  <2> QED
    BY <1>0, <1>1, <1>2, <2>1
<1>6. CASE \E c \in Controller : EndLostEpoch(c)
  <2>1. PICK c \in Controller : EndLostEpoch(c)
    BY <1>6
  <2>2. local[c].lost \in 1 .. Len(epochs)
    <3>1. At(c, "end") /\ local[c].lost \in Nat
      BY <1>0, <2>1, Noted, SMT DEF EndLostEpoch, Locals
    <3> QED
      BY <1>0, <3>1 DEF TaskInv, At, Losing
  <2>3. \/ epochs' = epochs
        \/ epochs' = [epochs EXCEPT ![local[c].lost].state = "FAILED"]
    BY <2>1 DEF EndLostEpoch, LostEpochState
  <2> QED
    BY <1>3, <1>5, <2>2, <2>3
<1>7. CASE \E c \in Controller : MarkRunning(c)
  <2>1. PICK c \in Controller : MarkRunning(c)
    BY <1>7
  <2>2. local[c].new \in 1 .. Len(epochs)
    <3>1. At(c, "running") /\ local[c].new \in Nat
      BY <1>0, <2>1, Noted, SMT DEF MarkRunning, Locals
    <3> QED
      BY <1>0, <3>1 DEF TaskInv, At, Starting
  <2>3. \/ epochs' = epochs
        \/ epochs' = [epochs EXCEPT ![local[c].new].state = "RUNNING"]
    BY <2>1 DEF MarkRunning
  <2> QED
    BY <1>3, <1>5, <2>2, <2>3
<1>8. CASE \E c \in Controller : CreateEpoch(c)
  <2>1. PICK c \in Controller : CreateEpoch(c)
    BY <1>8
  <2>2. /\ epochs' \in Seq(EpochRows) /\ Len(epochs') = Len(epochs) + 1
        /\ Len(epochs') <= MaxEpoch
        /\ \A e \in 1 .. Len(epochs) : epochs'[e] = epochs[e]
        /\ epochs'[Len(epochs')].boot = local[c].boot
        /\ epochs'[Len(epochs')].lease = local[c].lease
    BY <1>0, <2>1, CreateMoves
  <2>3. local[c].boot \in Nat /\ local[c].lease \in Nat
    BY <1>0, Noted, SMT DEF Locals
  <2>4. \A e \in 1 .. Len(epochs') : e \in 1 .. Len(epochs) \/ e = Len(epochs')
    BY <1>0, <2>2
  <2>5. ASSUME NEW e \in 1 .. Len(epochs')
        PROVE  epochs'[e].boot <= boot' /\ epochs'[e].lease <= lease'.epoch
    <3>1. CASE e \in 1 .. Len(epochs)
      BY <1>0, <1>1, <1>2, <2>2, <3>1
    <3>2. CASE e = Len(epochs')
      BY <1>0, <1>1, <2>2, <2>3, <3>2
    <3> QED
      BY <2>4, <3>1, <3>2
  <2> QED
    BY <1>0, <2>2, <2>5
<1>9. epochs' = epochs \/ \E c \in Controller :
          EndLostEpoch(c) \/ CreateEpoch(c) \/ MarkRunning(c)
  BY <1>0, NextCases, OutsideMoves, EpochWriters
<1> QED
  BY <1>3, <1>6, <1>7, <1>8, <1>9

\* A stop is chosen under authority that no epoch's exceeds.
LEMMA VictimInvStep ==
    ASSUME OwnershipInv, Next
    PROVE  VictimInv'
<1>0. /\ Shapes /\ TableInv /\ OneProducer /\ VictimInv /\ LeaseInv
      /\ \A d \in Controller : TaskInv(d)
  BY DEF OwnershipInv
<1>1. /\ Len(epochs) \in Nat /\ Len(epochs') \in Nat /\ Len(epochs) <= Len(epochs')
      /\ \A e \in 1 .. Len(epochs) : epochs'[e].lease = epochs[e].lease
  BY EpochStep
<1> SUFFICES ASSUME NEW c \in Controller, pc'[c] = "kill", local'[c].victim # 0
             PROVE  /\ local'[c].victim \in 1 .. Len(epochs')
                    /\ epochs'[local'[c].victim].lease <= local'[c].lease
  BY DEF VictimInv, At
<1>2. CASE Work(c)
  <2>1. PICK p \in 0 .. MaxEpoch : StopStale(c, p)
    BY <1>0, <1>2, Arrives DEF Arrivals
  <2>2. /\ local'[c].victim = p /\ local'[c].lease = local[c].lease
        /\ TokenLive(c) /\ p \in local[c].stale /\ epochs' = epochs
    BY <1>0, <2>1, StopMoves DEF Remembers
  <2>3. p \in 1 .. Len(epochs)
    BY <1>0, <1>1, <2>2, OwnershipAssumption DEF TaskInv
  <2> QED
    BY <1>0, <2>2, <2>3 DEF TableInv, TokenLive
<1>3. CASE ~Work(c)
  <2>1. At(c, "kill") /\ local'[c] = local[c]
    BY <1>3, OneMoves DEF Stays, At
  <2> QED
    BY <1>0, <1>1, <2>1 DEF VictimInv
<1> QED
  BY <1>2, <1>3

\* A task that follows its fence and has its producer.
HasProducer(c) ==
    pc[c] \in Fenced /\ (local[c].current # -1 \/ pc[c] \in Started)

\* It came to have it by adopting the only one or by finding it alone, and
\* keeps it without starting another.
LEMMA ComesToHave ==
    ASSUME Shapes, TableInv, OneProducer, NEW c \in Controller, TaskInv(c), Work(c),
           HasProducer(c)'
    PROVE  \/ producers' \subseteq {EpochOf(c)'}
           \/ HasProducer(c) /\ EpochOf(c)' = EpochOf(c) /\ producers' \subseteq producers
<1>1. pc[c] \in Steps
  BY Noted
<1>2. CASE QuietStep(c) \/ (KillStale(c) /\ ~FenceAllows(c)) \/ Arm(c)
  <2>1. local' = local /\ EpochOf(c)' = EpochOf(c)
    BY <1>2, QuietMoves DEF EpochOf
  <2>2. local[c].current # -1 \/ pc'[c] \in Started
    BY <2>1 DEF HasProducer
  <2>3. pc[c] \in Fenced
    <3>1. CASE pc[c] \notin Fenced
      <4>1. (At(c, "publish") \/ At(c, "observe")) /\ pc'[c] = "recovering"
        BY <3>1, Arrives DEF Arrivals, HasProducer
      <4> QED
        BY <2>2, <4>1 DEF TaskInv, Unadopted, Started, At
    <3> QED
      BY <3>1
  <2>4. producers' \subseteq producers
    <3>1. CASE At(c, "start") /\ pc'[c] = "poll"
      BY <2>2, <3>1 DEF TaskInv, Unadopted, Starting, Started, At
    <3> QED
      BY <3>1, ProducerMoves
  <2>5. CASE local[c].current = -1 /\ pc[c] \notin Started
    <3>1. \/ At(c, "poll") /\ producers' = {local[c].new}
          \/ At(c, "lookup")
      BY <2>2, <2>5, Arrives DEF Arrivals
    <3> QED
      BY <2>1, <2>5, <3>1 DEF TaskInv, EpochOf
  <2> QED
    BY <2>1, <2>3, <2>4, <2>5 DEF HasProducer
<1>3. CASE LeaseBusy(c) \/ GiveUp(c) \/ Leave(c)
  BY <1>3, ForgetMoves DEF HasProducer, Fenced
<1>4. CASE \E s \in Session : Begin(c, s)
  BY <1>4, BeginMoves DEF HasProducer, Fenced
<1>5. CASE AcquireLease(c)
  BY <1>5, AcquireMoves DEF HasProducer, Fenced
<1>6. CASE ReadBootId(c) \/ ReadActiveEpoch(c)
  <2>1. /\ pc'[c] = "scan" /\ pc[c] = "active" /\ producers' = producers
        /\ local'[c].current = local[c].current /\ local'[c].new = local[c].new
    BY <1>6, ReadMoves DEF HasProducer, Fenced, Remembers
  <2> QED
    BY <2>1 DEF HasProducer, Fenced, Started, Steps, EpochOf
<1>7. CASE Scan(c)
  <2>1. /\ pc'[c] \in {"end", "stop", "adopt", "rescan"} /\ producers' = producers
        /\ local'[c].current # -1 => producers = {local'[c].current}
    BY <1>7, ScanMoves DEF Remembers
  <2> QED
    BY <2>1 DEF HasProducer, Started, EpochOf
<1>8. CASE \E p \in 0 .. MaxEpoch : StopStale(c, p)
  <2>1. /\ pc'[c] \in {"kill", "failed"} /\ pc[c] = "stop" /\ producers' = producers
        /\ local'[c].current = local[c].current /\ local'[c].new = local[c].new
    BY <1>8, StopMoves DEF Remembers, At
  <2> QED
    BY <2>1 DEF HasProducer, Fenced, Started, Steps, EpochOf
<1>9. CASE KillStale(c) /\ FenceAllows(c)
  <2>1. /\ pc'[c] \in {"end", "stop", "adopt", "rescan"} /\ pc[c] = "kill"
        /\ producers' \subseteq producers
        /\ local'[c].current = local[c].current /\ local'[c].new = local[c].new
    BY <1>9, KillMoves DEF Remembers, At
  <2> QED
    BY <2>1 DEF HasProducer, Fenced, Started, Steps, EpochOf
<1>10. CASE CreateEpoch(c)
  <2>1. pc'[c] = "precheck" /\ local'[c].current = local[c].current
        /\ At(c, "create")
    BY <1>10, CreateMoves DEF Remembers
  <2> QED
    BY <2>1 DEF HasProducer, Started, TaskInv, Unadopted, At
<1> QED
  BY <1>2, <1>3, <1>4, <1>5, <1>6, <1>7, <1>8, <1>9, <1>10, WorkCases

\* A task in its term stays alone with its producer.
LEMMA AloneInvStep ==
    ASSUME OwnershipInv, Next
    PROVE  AloneInv'
<1>0. /\ Shapes /\ TableInv /\ OneProducer /\ BlockedInv /\ AloneInv
      /\ \A d \in Controller : TaskInv(d)
  BY DEF OwnershipInv
<1> SUFFICES ASSUME NEW c \in Controller, TokenLive(c)', HasProducer(c)'
             PROVE  producers' \subseteq {EpochOf(c)'}
  BY DEF AloneInv, HasProducer
<1>1. Tokened(c) /\ local'[c].lease = local[c].lease
  <2>1. CASE Work(c)
    <3>1. ~AcquireLease(c)
      BY <1>0, AcquireMoves DEF HasProducer, Fenced, Steps
    <3>2. Tokened(c)'
      BY DEF Tokened, HasProducer, Fenced
    <3> QED
      BY <1>0, <2>1, <3>1, <3>2, TokenMoves
  <2>2. CASE ~Work(c)
    BY <2>2, OneMoves DEF Stays, Tokened, HasProducer, Fenced
  <2> QED
    BY <2>1, <2>2
<1>2. TokenLive(c)
  BY <1>1, TermKept
<1>3. HasProducer(c) => producers \subseteq {EpochOf(c)}
  BY <1>0, <1>2 DEF AloneInv, HasProducer
<1>4. CASE Work(c)
  BY <1>0, <1>3, <1>4, ComesToHave
<1>5. CASE ~Work(c)
  <2>1. HasProducer(c) /\ EpochOf(c)' = EpochOf(c)
    BY <1>5, OneMoves DEF Stays, HasProducer, EpochOf
  <2>2. ASSUME NEW d \in Controller, Work(d), At(d, "start"), FenceAllows(d)
        PROVE  FALSE
    BY <1>0, <1>2, <1>5, <2>1, <2>2 DEF BlockedInv, HasProducer
  <2> QED
    BY <1>3, <2>1, <2>2, StartedBy
<1> QED
  BY <1>4, <1>5

-----------------------------------------------------------------------------
(***************************************************************************)
(* The shapes of the variables, and the invariant as a whole.              *)
(***************************************************************************)
\* A session's state stays one.
LEMMA SessionStep ==
    ASSUME OwnershipInv, Next
    PROVE  session' \in [Session -> SessionState]
<1>0. /\ Shapes /\ TableInv /\ session \in [Session -> SessionState]
      /\ \A c \in Controller : TaskInv(c)
  BY DEF OwnershipInv, Shapes
<1>1. ASSUME NEW s, NEW x \in SessionState, session' = [session EXCEPT ![s] = x]
      PROVE  session' \in [Session -> SessionState]
  BY <1>0, <1>1
<1>2. ASSUME NEW c \in Controller, NEW x, NEW y \in SessionState, NEW z,
             SessionCas(c, x, y, z)
      PROVE  session' \in [Session -> SessionState]
  BY <1>0, <1>1, <1>2 DEF SessionCas
<1>3. ASSUME NEW c \in Controller, Work(c)
      PROVE  session' \in [Session -> SessionState]
  <2>1. CASE EnterRecovery(c)
    <3>1. "ACQUIRING_LEASE" \in SessionState
      BY DEF SessionState
    <3> QED
      BY <1>0, <1>2, <2>1, <3>1 DEF EnterRecovery, db
  <2>2. CASE EnterRecovering(c)
    <3>1. "RECOVERING" \in SessionState
      BY DEF SessionState
    <3> QED
      BY <1>2, <2>2, <3>1 DEF EnterRecovering
  <2>3. CASE Restore(c)
    <3>1. local[c].resume \in SessionState
      BY <1>0, <2>3 DEF Restore, TaskInv, At
    <3>2. RestoreState(local[c].resume) \in SessionState
      BY <3>1 DEF RestoreState, SessionState
    <3> QED
      BY <1>2, <2>3, <3>2 DEF Restore
  <2>4. CASE Arm(c)
    <3>1. "WATCHING" \in SessionState
      BY DEF SessionState
    <3> QED
      BY <1>1, <2>4, <3>1 DEF Arm
  <2> QED
    BY <1>0, <1>3, <2>1, <2>2, <2>3, <2>4, SessionWriters
<1> QED
  BY <1>0, <1>3, NextCases, OutsideMoves

\* A gap stays one.
LEMMA GapStep ==
    ASSUME OwnershipInv, Next
    PROVE  gaps' \subseteq [of : Tokens, by : Nat, open : BOOLEAN]
<1>0. /\ Shapes /\ TableInv /\ gaps \subseteq [of : Tokens, by : Nat, open : BOOLEAN]
      /\ \A c \in Controller : TaskInv(c)
  BY DEF OwnershipInv, Shapes
<1>1. ASSUME NEW c \in Controller, OpenGap(c)
      PROVE  gaps' \subseteq [of : Tokens, by : Nat, open : BOOLEAN]
  <2>1. local[c].lost \in Nat /\ local[c].lease \in Nat /\ At(c, "gap")
    BY <1>1, <1>0, Noted, SMT DEF OpenGap, Locals
  <2>2. local[c].lost \in Tokens
    <3>1. local[c].lost # 0 /\ local[c].lost <= Len(epochs)
      BY <1>0, <2>1 DEF TaskInv, At, Losing
    <3>2. Len(epochs) \in Nat /\ Len(epochs) <= MaxEpoch /\ MaxEpoch \in Nat
      BY <1>0, EpochsNumbered, OwnershipAssumption DEF TableInv
    <3> QED
      BY <2>1, <3>1, <3>2 DEF Tokens
  <2>3. gaps' = gaps \cup {[of |-> local[c].lost, by |-> local[c].lease,
                            open |-> TRUE]}
    BY <1>1 DEF OpenGap
  <2> DEFINE g == [of |-> local[c].lost, by |-> local[c].lease, open |-> TRUE]
  <2>4. g \in [of : Tokens, by : Nat, open : BOOLEAN]
    BY <2>1, <2>2
  <2> HIDE DEF g
  <2>5. gaps' = gaps \cup {g}
    BY <2>3 DEF g
  <2> QED
    BY <1>0, <2>4, <2>5
<1>2. ASSUME NEW c \in Controller, CloseGaps(c)
      PROVE  gaps' \subseteq [of : Tokens, by : Nat, open : BOOLEAN]
  <2>1. gaps' = {IF g.of = local[c].lost /\ g.by = local[c].lease
                 THEN [g EXCEPT !.open = FALSE] ELSE g : g \in gaps}
    BY <1>2 DEF CloseGaps
  <2>2. \A g \in gaps : [g EXCEPT !.open = FALSE]
            \in [of : Tokens, by : Nat, open : BOOLEAN]
    BY <1>0
  <2> QED
    BY <1>0, <2>1, <2>2
<1> QED
  BY <1>0, <1>1, <1>2, NextCases, OutsideMoves, GapWriters

\* Producers are those of epochs of the table, and faults are bounded.
LEMMA DutStep ==
    ASSUME OwnershipInv, Next
    PROVE  /\ producers' \subseteq Nat
           /\ \A p \in producers' : p <= Len(epochs')
           /\ boot' \in Nat /\ faults' \in Nat
           /\ boot' <= faults' /\ faults' <= MaxFault
<1>0. /\ Shapes /\ TableInv /\ producers \subseteq Nat
      /\ boot \in Nat /\ faults \in Nat /\ boot <= faults /\ faults <= MaxFault
      /\ \A p \in producers : p <= Len(epochs)
      /\ \A c \in Controller : TaskInv(c)
  BY DEF OwnershipInv, Shapes, TableInv
<1>1. /\ Len(epochs) \in Nat /\ Len(epochs') \in Nat
      /\ Len(epochs) <= Len(epochs')
  BY EpochStep
<1>2. /\ boot' \in Nat /\ faults' \in Nat /\ boot' <= faults' /\ faults' <= MaxFault
  <2>1. \/ boot' = boot /\ faults' \in Nat /\ faults <= faults'
        \/ boot' = boot + 1 /\ faults' = faults + 1
    BY <1>0, NextCases, FaultsCounted, OutsideMoves
  <2>2. faults' <= MaxFault
    BY <1>0, NextCases, FaultsCounted, OutsideMoves
  <2> QED
    BY <1>0, <2>1, <2>2
<1>3. \A c \in Controller : local[c].new \in Nat /\ local[c].new <= Len(epochs)
  BY <1>0, Noted, SMT DEF TaskInv, Locals
<1>4. \A p \in producers' : p \in Nat /\ p <= Len(epochs)
  <2>1. CASE producers' \subseteq producers
    BY <1>0, <2>1
  <2>2. ASSUME NEW c \in Controller, producers' = producers \cup {local[c].new}
        PROVE  \A p \in producers' : p \in Nat /\ p <= Len(epochs)
    BY <1>0, <1>3, <2>2
  <2> QED
    BY <2>1, <2>2, StartedBy
<1> QED
  BY <1>1, <1>2, <1>4

\* A step keeps the invariant.
LEMMA OwnershipStep ==
    ASSUME OwnershipInv, Next
    PROVE  OwnershipInv'
<1>1. Shapes'
  BY LeaseStep, SessionStep, EpochStep, GapStep, FenceStep, DutStep, TaskStep
     DEF Shapes, LeaseRows
<1>2. TableInv'
  BY EpochStep, DutStep DEF TableInv
<1> QED
  BY <1>1, <1>2, TaskStep, LeaseInvStep, StartInvStep, OneProducerStep,
     VictimInvStep, BlockedInvStep, AloneInvStep DEF OwnershipInv

\* So does a step that changes nothing.
LEMMA OwnershipStutter ==
    ASSUME OwnershipInv, UNCHANGED vars
    PROVE  OwnershipInv'
BY DEF OwnershipInv, vars, db, dut, Shapes, TableInv, TaskInv, LeaseInv, StartInv,
   OneProducer, VictimInv, BlockedInv, AloneInv, At, Tokened, TokenLive,
   FenceAllows, OwnerId, EpochOf, LeaseRows

\* It holds at first.
LEMMA OwnershipInit ==
    ASSUME Init
    PROVE  OwnershipInv
<1> USE OwnershipAssumption
<1>1. Blank \in Locals
  <2>1. {} \in TokenSets /\ -1 \in Int /\ "none" \in Kinds
    BY DEF TokenSets, Kinds
  <2> QED
    BY <2>1, ZenonT(60) DEF Blank, Locals
<1>2. /\ epochs \in Seq(EpochRows) /\ Len(epochs) = 0
      /\ producers \in {{}, {0}}
      /\ pc = [c \in Controller |-> "idle"]
      /\ local = [c \in Controller |-> Blank]
  BY EmptySeq DEF Init
<1>3. Shapes
  BY <1>1, <1>2, SMT DEF Init, Shapes, Owners, SessionState, Steps
<1>4. TableInv
  BY <1>2 DEF Init, TableInv
<1>5. \A c \in Controller : TaskInv(c)
  BY <1>2 DEF Init, TaskInv, At, Blank, Losing, Starting, Unadopted
<1>6. LeaseInv
  BY <1>2 DEF Init, LeaseInv, Tokened, Blank
<1>7. OneProducer
  <2>1. Cardinality({}) = 0 /\ Cardinality({0}) = 1
    BY FS_EmptySet, FS_Singleton
  <2>2. producers = {} \/ producers = {0}
    BY <1>2
  <2>3. Cardinality(producers) = 0 \/ Cardinality(producers) = 1
    BY <2>1, <2>2
  <2> QED
    BY <2>3 DEF OneProducer
<1>8. StartInv /\ VictimInv /\ BlockedInv /\ AloneInv
  BY <1>2 DEF StartInv, VictimInv, BlockedInv, AloneInv, At, Fenced
<1> QED
  BY <1>3, <1>4, <1>5, <1>6, <1>7, <1>8 DEF OwnershipInv

\* The invariant is one.
LEMMA Inductive == Spec => []OwnershipInv
<1>1. Init => OwnershipInv
  BY OwnershipInit
<1>2. OwnershipInv /\ [Next]_vars => OwnershipInv'
  BY OwnershipStep, OwnershipStutter
<1> QED
  BY <1>1, <1>2, PTL DEF Spec

-----------------------------------------------------------------------------
(***************************************************************************)
(* The theorems.                                                           *)
(***************************************************************************)
\* The lease row, the sessions, the epochs, the gaps and the tasks are always
\* well formed.
THEOREM Typing == Spec => []TypeOK
<1>1. OwnershipInv => TypeOK
  <2> SUFFICES ASSUME OwnershipInv PROVE TypeOK
    OBVIOUS
  <2>1. /\ Shapes /\ TableInv /\ fence.epoch <= lease.epoch /\ lease.epoch \in Nat
    BY SMT DEF OwnershipInv, Shapes, LeaseInv
  <2>2. /\ Len(epochs) \in Nat /\ DOMAIN epochs = 1 .. Len(epochs)
        /\ \A e \in 1 .. Len(epochs) : epochs[e] \in EpochRows
    BY <2>1, EpochsNumbered
  <2>3. faults \in 0 .. MaxFault /\ MaxFault \in Nat
    BY <2>1, OwnershipAssumption DEF Shapes, TableInv
  <2>4. \A e \in DOMAIN epochs :
            epochs[e] \in [session : Session, boot : 0 .. MaxFault, lease : Nat,
                           state : {"STARTING", "RUNNING", "FAILED"}]
    <3> SUFFICES ASSUME NEW e \in 1 .. Len(epochs)
                 PROVE  epochs[e] \in
                            [session : Session, boot : 0 .. MaxFault, lease : Nat,
                             state : {"STARTING", "RUNNING", "FAILED"}]
      BY <2>2
    <3>1. epochs[e] \in EpochRows /\ epochs[e].boot <= boot
      BY <2>1, <2>2 DEF TableInv
    <3>2. epochs[e].boot \in 0 .. MaxFault
      BY <2>1, <2>3, <3>1 DEF EpochRows, TableInv, Shapes
    <3> QED
      BY <3>1, <3>2 DEF EpochRows
  <2>5. producers \subseteq 0 .. Len(epochs) /\ fence.epoch \in 0 .. lease.epoch
    BY <2>1, <2>2 DEF Shapes, TableInv
  <2> QED
    BY <2>1, <2>3, <2>4, <2>5 DEF TypeOK, Shapes, Owners
<1> QED
  BY <1>1, Inductive, PTL

\* I-01: whatever is delayed, lost or restarted, the DUT never runs two capture
\* producers at once.
THEOREM AtMostOne == Spec => []OneProducer
<1>1. OwnershipInv => OneProducer
  BY DEF OwnershipInv
<1> QED
  BY <1>1, Inductive, PTL

\* An owner that is ready and in its term shares the DUT with no producer but
\* the one establish_ownership returned.
THEOREM OwnerAlone == Spec => []ReadyOwnerAlone
<1>1. OwnershipInv => ReadyOwnerAlone
  BY DEF OwnershipInv, AloneInv, ReadyOwnerAlone, At, Fenced, Started, Steps
<1> QED
  BY <1>1, Inductive, PTL

\* Only a fenced stop takes a producer from the DUT without a fault.
LEMMA StopStep ==
    ASSUME OwnershipInv, Next
    PROVE  StopIsNotStale
<1> SUFFICES ASSUME NEW p \in producers, p \notin producers', p # 0,
                    faults' = faults
             PROVE  fence.epoch >= epochs[p].lease
  BY DEF StopIsNotStale
<1>0. /\ Shapes /\ VictimInv /\ faults \in Nat
      /\ \A c \in Controller : local[c].lease \in Nat
      /\ Len(epochs) \in Nat
      /\ \A e \in 1 .. Len(epochs) : epochs[e].lease \in Nat
  <2>1. Shapes /\ VictimInv /\ faults \in Nat
    BY DEF OwnershipInv, Shapes
  <2> QED
    BY <2>1, Noted, EpochsNumbered, SMT DEF Locals, EpochRows
<1>1. ~Fault
  BY <1>0 DEF Fault
<1>2. \E c \in Controller : KillStale(c)
  BY <1>1, NextCases, ProducerWriters
     DEF Lapse, ProducerDies, Reboot, KillUnknown, StartProducer, StartUnknown, dut
<1>3. PICK c \in Controller : KillStale(c)
  BY <1>2
<1>4. /\ At(c, "kill") /\ FenceAllows(c) /\ p = local[c].victim
  BY <1>3 DEF KillStale
<1>5. p \in 1 .. Len(epochs) /\ epochs[p].lease <= local[c].lease
  BY <1>0, <1>4 DEF VictimInv
<1> QED
  BY <1>0, <1>4, <1>5 DEF FenceAllows

\* A task stops a producer only under an authority that is not older than the
\* one the producer was started under.
THEOREM StopsAreCurrent == Spec => NoStaleStop
<1>1. OwnershipInv /\ [Next]_vars => [StopIsNotStale]_vars
  BY StopStep
<1> QED
  BY <1>1, Inductive, PTL DEF Spec, NoStaleStop

\* Each step is one of the abstract authority, or leaves it alone.
LEMMA AuthorityStep ==
    ASSUME OwnershipInv, [Next]_vars
    PROVE  [Authority!Next]_(Authority!vars)
<1>0. /\ Shapes /\ TableInv /\ lease \in LeaseRows
      /\ \A c \in Controller : TaskInv(c)
  BY DEF OwnershipInv, Shapes, LeaseRows
<1>1. CASE lease' = lease
  BY <1>1 DEF Authority!vars
<1>2. ASSUME NEW c \in Controller, AcquireLease(c), lease' # lease
      PROVE  Authority!Next
  <2>1. /\ lease.phase # "held" /\ lease'.epoch = lease.epoch + 1
        /\ lease'.owner = OwnerId(c) /\ lease'.phase = "held"
    BY <1>0, <1>2, AcquireMoves
  <2>2. OwnerId(c) \in {NoOwner} \cup (Session \X Controller)
    BY <1>0, <1>2 DEF AcquireLease, TaskInv, At, OwnerId
  <2>3. lease.phase \in {"free", "lapsed"}
    BY <1>0, <2>1 DEF LeaseRows
  <2> QED
    BY <2>1, <2>2, <2>3 DEF Authority!Next, Authority!Grant, Authority!Granted
<1>3. ASSUME NEW c \in Controller, GiveUp(c), lease' # lease
      PROVE  Authority!Next
  <2>1. lease.phase # "free" /\ lease' = [lease EXCEPT !.phase = "free"]
    BY <1>3 DEF GiveUp
  <2>2. /\ lease.phase \in {"held", "lapsed"} /\ lease'.phase = "free"
        /\ lease'.epoch = lease.epoch /\ lease'.owner = lease.owner
    BY <1>0, <2>1 DEF LeaseRows
  <2> QED
    BY <2>2 DEF Authority!Next, Authority!GiveUp, Authority!Granted
<1>4. ASSUME Lapse
      PROVE  Authority!Next
  <2>1. /\ lease.phase = "held" /\ lease'.phase = "lapsed"
        /\ lease'.epoch = lease.epoch /\ lease'.owner = lease.owner
    BY <1>0, <1>4 DEF Lapse, LeaseRows
  <2> QED
    BY <2>1 DEF Authority!Next, Authority!TermMoves, Authority!Granted
<1>5. lease' = lease \/ Lapse \/ \E c \in Controller : AcquireLease(c) \/ GiveUp(c)
  BY NextCases, LeaseWriters DEF vars, db, ProducerDies, Reboot
<1> QED
  BY <1>1, <1>2, <1>3, <1>4, <1>5

\* The lease as the tasks of this module use it is the authority CaptureLease
\* implements: numbered epochs, one owner each, handed over only when free or
\* lapsed.
THEOREM Refinement == Spec => ImplementsAuthority
<1>1. Init => Authority!Init
  BY DEF Init, Authority!Init
<1>2. OwnershipInv /\ [Next]_vars => [Authority!Next]_(Authority!vars)
  BY AuthorityStep
<1> QED
  BY <1>1, <1>2, Inductive, PTL DEF Spec, ImplementsAuthority, Authority!Spec
=============================================================================
