------------------------------ MODULE WatchLoop ------------------------------
(***************************************************************************)
(* _watch_real_v11: the loop that watches one reproduction session, with   *)
(* the telephone it listens to and the capture files it fetches.           *)
(*                                                                         *)
(* Three things run side by side: the telephone, whose hook events reach   *)
(* the loop through a queue; the producer on the DUT, which goes on to a   *)
(* new file now and then; and a fetch of files, one at a time, which the   *)
(* loop starts and looks at when it is done.  An ONHOOK is only latched:   *)
(* the attempt ends when the files that cover it have been inspected.      *)
(*                                                                         *)
(* engine "ring" is V1's platform: the ONHOOK seals the ring (its producer *)
(* stops), one file is fetched at a time, and what is left is counted.     *)
(* With engine "v2" sealing and stopping do nothing, a fetch takes all     *)
(* files that are closed, and the open one is not counted.                 *)
(***************************************************************************)
EXTENDS Naturals, Sequences, SequencesExt

CONSTANTS
    Engines,        \* engines a session may run under, of "ring" and "v2"
    MaxCycle,       \* bounds: times the telephone is picked up,
    MaxFiles,       \*         closed files waiting on the DUT,
    MaxFault        \*         bindings and transfers that fail

ASSUME WatchAssumption ==
    /\ Engines \subseteq {"ring", "v2"}
    /\ {MaxCycle, MaxFiles, MaxFault} \subseteq Nat

VARIABLES
    engine,     \* the session's engine
    phone,      \* hook, number of the cycle, and whether its INVITE was sent
    recorded,   \* cycles whose INVITE the producer wrote to a file
    events,     \* hook events on their way, each its time on the DUT's clock
    ring,       \* the producer and its files; a file is the set of its marks
    st,         \* state of the session, "OVER" when it listens no longer
    att,        \* reproduction_attempts rows
    seg,        \* the fetch under way
    loop,       \* the local variables of the loop
    faults

dut == <<engine, phone, recorded, events>>
vars == <<dut, ring, st, att, seg, loop, faults>>

Cycles == 1 .. MaxCycle
\* OFFHOOK and ONHOOK of a cycle, as times.
Off(c) == 2 * c - 1
On(c) == 2 * c
IsOff(e) == e % 2 = 1
CycleOf(e) == (e + 1) \div 2

Invite(c) == [kind |-> "INVITE", cycle |-> c]
Rtp(c) == [kind |-> "RTP", cycle |-> c]
Mark == [kind : {"INVITE", "RTP"}, cycle : Cycles]

Listening == {"WATCHING", "ACTIVITY_DETECTED", "CAPTURING"}
OnDut == (UNION Range(ring.closed)) \cup ring.open

\* `since`: the attempt under way when the fetch was started; `late`: it was
\* started after the ONHOOK now latched.
Fetch(at, final, since, late) ==
    [at |-> at, final |-> final, since |-> since, late |-> late, got |-> {}, left |-> 0]

Active == {i \in DOMAIN att : att[i].status = "ACTIVE"}
Newest == IF Active = {} THEN 0 ELSE CHOOSE i \in Active : \A j \in Active : j <= i
NewAttempt(c) == [status |-> "ACTIVE", cycles |-> {c}, bound |-> 0, end |-> 0]
EndedMisnamed(status, at) == [att EXCEPT ![at].status = "ENDED", ![at].end = loop.pending]
EndedAs(status, at) == [att EXCEPT ![at].status = status, ![at].end = loop.pending]

-----------------------------------------------------------------------------
Gone == [on |-> "none", closed |-> <<>>, open |-> {}]
Init ==
    /\ engine \in Engines
    /\ phone = [hook |-> "on", cycle |-> 0, invited |-> FALSE]
    /\ recorded = {}
    /\ events = <<>>
    /\ ring = IF engine = "ring" THEN Gone ELSE [Gone EXCEPT !.on = "on"]
    /\ st = "WATCHING"
    /\ att = <<>>
    /\ seg = Fetch(IF engine = "ring" THEN "starting" ELSE "wait", FALSE, 0, FALSE)
    /\ loop = [call |-> 0, pending |-> 0, lastoff |-> 0, sealed |-> FALSE]
    /\ faults = 0

(***************************************************************************)
(* The telephone.  A number is dialled no sooner than the loop has read    *)
(* the OFFHOOK; an ONHOOK may be read after the next OFFHOOK.              *)
(***************************************************************************)
PickUp ==
    LET c == phone.cycle + 1 IN
    /\ phone.hook = "on" /\ phone.cycle < MaxCycle
    /\ phone' = [hook |-> "off", cycle |-> c, invited |-> FALSE]
    /\ \/ events' = Append(events, Off(c))
       \/ /\ events # <<>> /\ ~IsOff(Last(events))
          /\ events' = Front(events) \o <<Off(c), Last(events)>>
    /\ UNCHANGED <<engine, recorded, ring, st, att, seg, loop, faults>>

HangUp ==
    /\ phone.hook = "off"
    /\ phone' = [phone EXCEPT !.hook = "on"]
    /\ events' = Append(events, On(phone.cycle))
    /\ UNCHANGED <<engine, recorded, ring, st, att, seg, loop, faults>>

Write(mark) ==
    ring' = IF ring.on = "on" THEN [ring EXCEPT !.open = @ \cup {mark}] ELSE ring

Dial ==
    LET c == phone.cycle IN
    /\ phone.hook = "off" /\ ~phone.invited
    /\ Off(c) \notin Range(events)
    /\ phone' = [phone EXCEPT !.invited = TRUE]
    /\ Write(Invite(c))
    /\ recorded' = IF ring.on = "on" THEN recorded \cup {c} ELSE recorded
    /\ UNCHANGED <<engine, events, st, att, seg, loop, faults>>

Talk ==
    /\ phone.hook = "off" /\ phone.invited /\ ring.on = "on"
    /\ Write(Rtp(phone.cycle))
    /\ UNCHANGED <<dut, st, att, seg, loop, faults>>

(***************************************************************************)
(* The producer and the fetches.                                           *)
(***************************************************************************)
Rotate ==
    /\ ring.on = "on" /\ Len(ring.closed) < MaxFiles
    /\ ring' = [ring EXCEPT !.closed = Append(@, ring.open), !.open = {}]
    /\ UNCHANGED <<dut, st, att, seg, loop, faults>>

StartProducer ==
    /\ seg.at = "starting"
    /\ ring' = [Gone EXCEPT !.on = "on"]
    /\ seg' = [seg EXCEPT !.at = "wait"]
    /\ UNCHANGED <<dut, st, att, loop, faults>>

\* The files a fetch may take, oldest first: the ring gives one that is not open,
\* if there is one in time, and counts the open file as left; drain_once takes as
\* many as the pump carries to the store, all of them unless it fails.
TakesClosed == IF Len(ring.closed) < 2 THEN {0} ELSE {1}
Takes == IF engine = "v2" THEN 0 .. Len(ring.closed)
         ELSE {IF ring.closed = <<>> THEN 0 ELSE 1}
OpenFiles == IF engine = "ring" /\ ring.on = "on" THEN 1 ELSE 0

Fetches ==
    /\ seg.at = "wait"
    /\ \E k \in Takes :
        /\ IF engine = "v2" /\ k < Len(ring.closed)
           THEN faults < MaxFault /\ faults' = faults + 1 ELSE UNCHANGED faults
        /\ ring' = [ring EXCEPT !.closed = SubSeq(@, k + 1, Len(@))]
        /\ seg' = [seg EXCEPT !.at = "done",
                              !.got = UNION {ring.closed[i] : i \in 1 .. k},
                              !.left = Len(ring.closed) - k + OpenFiles]
    /\ UNCHANGED <<dut, st, att, loop>>

(***************************************************************************)
(* The loop reads a hook event.                                            *)
(***************************************************************************)
Seals == engine = "ring" /\ ring.on = "on"
Sealed ==
    IF Seals THEN [on |-> "sealed", closed |-> Append(ring.closed, ring.open), open |-> {}]
    ELSE ring

\* _onhook_precedes_offhook, or the latch is set already.
StaleNever(e) == loop.pending # 0
Stale(e) == e <= loop.lastoff \/ loop.pending # 0

IgnoresOnhook ==
    /\ st \in Listening /\ events # <<>> /\ ~IsOff(Head(events))
    /\ Stale(Head(events))
    /\ events' = Tail(events)
    /\ UNCHANGED <<engine, phone, recorded, ring, st, att, seg, loop, faults>>

LatchesOnhook ==
    /\ st \in Listening /\ events # <<>> /\ ~IsOff(Head(events))
    /\ ~Stale(Head(events))
    /\ events' = Tail(events)
    /\ loop' = [loop EXCEPT !.pending = Head(events), !.sealed = TRUE]
    /\ seg' = [seg EXCEPT !.late = FALSE]
    /\ ring' = IF loop.sealed THEN ring ELSE Sealed
    /\ UNCHANGED <<engine, phone, recorded, st, att, faults>>

\* record_activity in WATCHING; in another state the OFFHOOK only resets the
\* latch, and the attempt under way goes on with it.
HearsOffhook ==
    LET e == Head(events) IN
    /\ st \in Listening /\ events # <<>> /\ IsOff(e)
    /\ events' = Tail(events)
    /\ IF st = "WATCHING"
       THEN /\ att' = Append(att, NewAttempt(CycleOf(e)))
            /\ st' = "ACTIVITY_DETECTED"
       ELSE /\ att' = IF Newest = 0 THEN att
                      ELSE [att EXCEPT ![Newest].cycles = @ \cup {CycleOf(e)}]
            /\ UNCHANGED st
    /\ loop' = [loop EXCEPT !.pending = 0, !.lastoff = IF e > @ THEN e ELSE @]
    /\ UNCHANGED <<engine, phone, recorded, ring, seg, faults>>

(***************************************************************************)
(* The loop finds a fetch done: it binds the call, then ends the attempt   *)
(* or fetches on.                                                          *)
(***************************************************************************)
\* The cycle of the binding signal; an INVITE in the file comes first.
Signal(kind) == {m.cycle : m \in {n \in seg.got : n.kind = kind}}
First(cs) == CHOOSE c \in cs : \A d \in cs : c <= d

\* _binding_precedes_end.  Whether an RTP packet in a file whose fetch was under
\* way at the ONHOOK counts as before it depends on where it is in the file.
InviteInTime == seg.since = Newest
RtpInTime == IF loop.pending = 0 THEN {TRUE} ELSE IF seg.late THEN {FALSE} ELSE BOOLEAN

\* The cycle to bind the attempt by, or 0.
Bindings ==
    IF Newest = 0 \/ loop.call # 0 THEN {0}
    ELSE IF Signal("INVITE") # {}
    THEN {IF InviteInTime THEN First(Signal("INVITE")) ELSE 0}
    ELSE IF Signal("RTP") # {}
    THEN {IF in THEN First(Signal("RTP")) ELSE 0 : in \in RtpInTime}
    ELSE {0}

\* stop_segmented_ring removes the files with the producer.
StopsRing == engine = "ring"

\* _should_restart_ring_after_end, asked after every fetch.
RestartsNever(state, call) == FALSE
Restarts(state, call) ==
    loop.sealed /\ call = 0 /\ state \in {"WATCHING", "ACTIVITY_DETECTED"}
After(state, call) == IF Restarts(state, call) /\ StopsRing THEN Gone ELSE ring

\* start_segment, which starts the producer if there is none.
Spawn(r, final, since, pending) ==
    Fetch(IF engine = "ring" /\ r.on = "none" THEN "starting" ELSE "wait",
          final, since, pending # 0)

\* The loop goes on in this state with this call and latch, and fetches.
Continue(state, call, pending) ==
    /\ st' = state
    /\ loop' = [call |-> call, pending |-> pending,
                lastoff |-> IF loop.pending # 0 /\ pending = 0 THEN 0 ELSE loop.lastoff,
                sealed |-> loop.sealed /\ ~Restarts(state, call)]
    /\ ring' = After(state, call)

FinalEarly == TRUE
IsFinal == seg.final /\ seg.left = 0
MustDrain == loop.pending # 0 /\ ~IsFinal

\* The state, the call and the attempts once the fetched files are bound.
Bound(c) ==
    IF c = 0 THEN [st |-> st, call |-> loop.call, att |-> att]
    ELSE [st |-> "CAPTURING", call |-> Newest, att |-> [att EXCEPT ![Newest].bound = c]]

\* No ONHOOK is latched.
FetchesOn(b) ==
    /\ loop.pending = 0
    /\ att' = b.att
    /\ Continue(b.st, b.call, 0)
    /\ seg' = Spawn(ring', FALSE, Newest, 0)

\* The fetch is started before the ring may be stopped.
Drains(b) ==
    /\ MustDrain
    /\ att' = b.att
    /\ Continue(b.st, b.call, loop.pending)
    /\ seg' = Spawn(ring, TRUE, Newest, loop.pending)

\* end_call; _after_call lets the session listen on, or closes it.
EndsCall(b) ==
    /\ loop.pending # 0 /\ ~MustDrain
    /\ b.call # 0
    /\ att' = [EndedAs("COMPLETED", b.call) EXCEPT ![b.call].bound = b.att[b.call].bound]
    /\ \/ /\ Continue("WATCHING", 0, 0)
          /\ seg' = Spawn(ring', FALSE, 0, 0)
       \/ Continue("OVER", 0, 0) /\ UNCHANGED seg

\* end_activity_without_call.
EndsActivity(b) ==
    /\ loop.pending # 0 /\ ~MustDrain
    /\ b.call = 0
    /\ att' = IF Newest = 0 THEN att ELSE EndedAs("INVALID", Newest)
    /\ Continue("WATCHING", 0, 0)
    /\ seg' = Spawn(ring', FALSE, 0, 0)

FetchDone ==
    /\ st \in Listening /\ seg.at = "done"
    /\ \E c \in Bindings : \E done \in {c, 0} :
        /\ IF done = c THEN UNCHANGED faults ELSE faults < MaxFault /\ faults' = faults + 1
        /\ \/ FetchesOn(Bound(done)) \/ Drains(Bound(done))
           \/ EndsCall(Bound(done)) \/ EndsActivity(Bound(done))
    /\ UNCHANGED dut

\* A timeout, a monitor that stopped, or a cancellation.
Closes ==
    /\ st \in Listening
    /\ st' = "OVER"
    /\ UNCHANGED <<dut, ring, att, seg, loop, faults>>

-----------------------------------------------------------------------------
Telephone == PickUp \/ HangUp \/ Dial \/ Talk
FetchStep == StartProducer \/ Fetches
ReadStep == IgnoresOnhook \/ LatchesOnhook \/ HearsOffhook

Next == Telephone \/ Rotate \/ FetchStep \/ ReadStep \/ FetchDone \/ Closes

\* The loop runs ten times a second and fetches come back.
Fairness == WF_vars(FetchStep) /\ WF_vars(ReadStep) /\ WF_vars(FetchDone)

Spec == Init /\ [][Next]_vars
FairSpec == Spec /\ Fairness

-----------------------------------------------------------------------------
TypeOK ==
    /\ phone \in [hook : {"on", "off"}, cycle : 0 .. MaxCycle, invited : BOOLEAN]
    /\ recorded \subseteq Cycles
    /\ events \in Seq(1 .. 2 * MaxCycle)
    /\ ring.on \in {"none", "on", "sealed"} /\ ring.open \subseteq Mark
    /\ ring.closed \in Seq(SUBSET Mark) /\ Len(ring.closed) <= MaxFiles + 1
    /\ st \in Listening \cup {"OVER"}
    /\ att \in Seq([status : {"ACTIVE", "COMPLETED", "INVALID"}, cycles : SUBSET Cycles,
                    bound : 0 .. MaxCycle, end : 0 .. 2 * MaxCycle])
    /\ seg \in [at : {"starting", "wait", "done"}, final : BOOLEAN, since : Nat,
                late : BOOLEAN, got : SUBSET Mark, left : Nat]
    /\ loop \in [call : Nat, pending : 0 .. 2 * MaxCycle, lastoff : 0 .. 2 * MaxCycle,
                 sealed : BOOLEAN]
    /\ faults \in 0 .. MaxFault

\* The hang-up an attempt is ended with is later than every pick-up the attempt
\* went through: neither an ONHOOK delivered after the next OFFHOOK nor the latch
\* of an earlier cycle becomes the end anchor of a later one
\* (_onhook_precedes_offhook, the reset in _latch_first_end_anchor).
EndAnchorFresh ==
    \A i \in DOMAIN att : att[i].end # 0 => \A c \in att[i].cycles : Off(c) < att[i].end

\* While a call is bound, what its files hold leaves the DUT only in a fetch, and
\* the call is ended when nothing is left there: the loop seals, drains and only
\* then lets end_call and the removal of the ring follow.
CallEvidenceKept ==
    [][/\ loop.call # 0 => OnDut \subseteq OnDut' \cup seg'.got
       /\ (engine = "ring" /\ loop.call # 0 /\ loop'.call = 0) => OnDut = {}]_vars

\* After a hang-up the attempt ends: the drain reaches no files left however the
\* fetches and the seal overlap, unless the telephone is picked up again or the
\* session stops listening.  One case is excepted: an ONHOOK read before the
\* producer has started seals nothing, and a producer that starts later is not
\* sealed by the next ONHOOK, so there is always an open file left.
SealMissed == engine = "ring" /\ loop.sealed /\ ring.on = "on"
HangupEnds ==
    (phone.hook = "on" /\ Active # {})
        ~> (phone.hook = "off" \/ Active = {} \/ SealMissed \/ st = "OVER")

\* A session that waits for the next call with its ring sealed gets a recording
\* producer again (_should_restart_ring_after_end, start_segment).
RecordsAgain ==
    (st = "WATCHING" /\ ring.on # "on") ~> (ring.on = "on" \/ st # "WATCHING")

\* An attempt declared to have had no call had none the producer recorded.
InvalidHadNoCall ==
    \A i \in DOMAIN att : att[i].status = "INVALID" => att[i].cycles \cap recorded = {}
=============================================================================
