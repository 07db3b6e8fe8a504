---------------------------- MODULE WatchLoopProofs ----------------------------
(***************************************************************************)
(* Proofs about WatchLoop, for both engines and any number of cycles,      *)
(* files and faults: type correctness; an attempt is never ended with a    *)
(* hang-up earlier than one of its pick-ups; what the files of a call hold *)
(* leaves the DUT only in a fetch.                                         *)
(***************************************************************************)
EXTENDS WatchLoop, SequenceTheorems, WellFoundedInduction, TLAPS

Attempts == [status : {"ACTIVE", "COMPLETED", "INVALID"}, cycles : SUBSET Cycles,
             bound : 0 .. MaxCycle, end : 0 .. 2 * MaxCycle]
Files == SUBSET Mark
Held(s) == UNION Range(s)
Rings == [on : {"none", "on", "sealed"}, closed : Seq(Files), open : Files]
Fetchings == [at : {"starting", "wait", "done"}, final : BOOLEAN, since : Nat,
              late : BOOLEAN, got : Files, left : Nat]
Loops == [call : Nat, pending : 0 .. 2 * MaxCycle, lastoff : 0 .. 2 * MaxCycle,
          sealed : BOOLEAN]

-----------------------------------------------------------------------------
(***************************************************************************)
(* The inductive invariant.                                                *)
(***************************************************************************)
\* A telephone that is off the hook is in one of its cycles.
Phones == [hook : {"on", "off"}, cycle : 0 .. MaxCycle, invited : BOOLEAN]
PhoneInv == phone.hook = "off" => phone.cycle \in Cycles

\* One attempt is under way, none while the session waits for a call, and a call
\* that is bound is that attempt's.
OneInv ==
    /\ \A i, j \in Active : i = j
    /\ st = "WATCHING" => Active = {}
    /\ loop.call \in {0} \cup Active

\* The attempt under way has no end yet, its pick-ups are not later than the last
\* one the loop knows of, and earlier than a hang-up it holds.
OrderInv ==
    \A i \in Active :
        /\ att[i].end = 0
        /\ \A c \in att[i].cycles :
            Off(c) <= loop.lastoff /\ (loop.pending # 0 => Off(c) < loop.pending)

\* A producer that does not record has no open file; when it was sealed, the file
\* it had open is one more that is closed.  Where there is none, and one is
\* started, there are no files.
RingInv ==
    /\ ring \in Rings
    /\ ring.on = "on" => Len(ring.closed) <= MaxFiles
    /\ ring.on # "on" => ring.open = {}
    /\ ring.on = "none" => ring.closed = <<>>
    /\ seg.at = "starting" => ring.on = "none"

\* A fetch that left nothing left nothing that a producer could add to.
LeftInv ==
    (engine = "ring" /\ seg.at = "done" /\ seg.left = 0)
        => ring.on # "on" /\ ring.closed = <<>>

LoopInv ==
    /\ TypeOK /\ PhoneInv /\ RingInv /\ LeftInv
    /\ OneInv /\ OrderInv /\ EndAnchorFresh

-----------------------------------------------------------------------------
(***************************************************************************)
(* Times and cycles.                                                       *)
(***************************************************************************)
\* The pick-up and the hang-up of a cycle are times; a pick-up is its cycle's.
LEMMA Times ==
    /\ MaxCycle \in Nat /\ MaxFiles \in Nat /\ MaxFault \in Nat
    /\ \A c \in Cycles : /\ Off(c) \in 1 .. 2 * MaxCycle
                         /\ On(c) \in 1 .. 2 * MaxCycle
    /\ \A e \in 1 .. 2 * MaxCycle :
        CycleOf(e) \in Cycles /\ (IsOff(e) => Off(CycleOf(e)) = e)
<1>1. MaxCycle \in Nat /\ MaxFiles \in Nat /\ MaxFault \in Nat
  BY WatchAssumption
<1>2. ASSUME NEW c \in Cycles
      PROVE  Off(c) \in 1 .. 2 * MaxCycle /\ On(c) \in 1 .. 2 * MaxCycle
  BY <1>1, SMT DEF Cycles, Off, On
<1>3. ASSUME NEW e \in 1 .. 2 * MaxCycle
      PROVE  CycleOf(e) \in Cycles /\ (IsOff(e) => Off(CycleOf(e)) = e)
  BY <1>1, SMT DEF Cycles, Off, IsOff, CycleOf
<1> QED
  BY <1>1, <1>2, <1>3

\* The first of some cycles is one of them.
LEMMA FirstOne ==
    ASSUME NEW cs \in SUBSET Cycles, cs # {}
    PROVE  First(cs) \in cs
<1> DEFINE R == OpToRel(<, Nat)
<1>1. IsWellFoundedOn(R, Nat)
  BY NatLessThanWellFounded
<1>2. cs \subseteq Nat
  BY Times, SMT DEF Cycles
<1>3. \A d, e \in Nat : e < d => <<e, d>> \in R
  BY DEF OpToRel
<1> HIDE DEF R
<1>4. PICK c \in cs : \A d \in cs : <<d, c>> \notin R
  BY <1>1, <1>2, WFMin
<1>5. \A d \in cs : ~(d < c)
  BY <1>2, <1>3, <1>4
<1>6. \A d \in cs : c <= d
  BY <1>2, <1>5, SMT
<1> QED
  BY <1>4, <1>6, Zenon DEF First

-----------------------------------------------------------------------------
(***************************************************************************)
(* The telephone.                                                          *)
(***************************************************************************)
PhoneOK ==
    /\ phone' \in Phones /\ (phone'.hook = "off" => phone'.cycle \in Cycles)
    /\ recorded' \subseteq Cycles
    /\ events' \in Seq(1 .. 2 * MaxCycle)

\* The telephone stays sound while nobody touches it.
LEMMA PhoneSame ==
    ASSUME TypeOK, PhoneInv, phone' = phone, recorded' = recorded,
           events' = events \/ (events # <<>> /\ events' = Tail(events))
    PROVE  PhoneOK
<1>1. events \in Seq(1 .. 2 * MaxCycle)
  BY DEF TypeOK
<1>2. events # <<>> => Tail(events) \in Seq(1 .. 2 * MaxCycle)
  BY <1>1, HeadTailProperties
<1> QED
  BY <1>1, <1>2, Zenon DEF TypeOK, PhoneInv, PhoneOK, Phones

\* A pick-up is heard last, or before the hang-up that was last.
LEMMA PhonePicked ==
    ASSUME TypeOK, PickUp
    PROVE  PhoneOK
<1> DEFINE c == phone.cycle + 1
<1>1. phone \in Phones /\ recorded \subseteq Cycles /\ events \in Seq(1 .. 2 * MaxCycle)
  BY DEF TypeOK, Phones
<1>2. c \in Cycles /\ c \in 0 .. MaxCycle
  <2>1. phone.cycle \in 0 .. MaxCycle /\ phone.cycle < MaxCycle
    BY <1>1 DEF PickUp, Phones
  <2> QED
    BY <2>1, Times, SMT DEF Cycles
<1>3. phone' = [hook |-> "off", cycle |-> c, invited |-> FALSE] /\ recorded' = recorded
  BY DEF PickUp
<1>4. \/ events' = Append(events, Off(c))
      \/ events # <<>> /\ events' = Front(events) \o <<Off(c), Last(events)>>
  BY DEF PickUp
<1> HIDE DEF c
<1>5. Off(c) \in 1 .. 2 * MaxCycle
  BY <1>2, Times
<1>6. Append(events, Off(c)) \in Seq(1 .. 2 * MaxCycle)
  BY <1>1, <1>5, AppendProperties
<1>7. ASSUME events # <<>>
      PROVE  Front(events) \o <<Off(c), Last(events)>> \in Seq(1 .. 2 * MaxCycle)
  <2>1. Len(events) \in Nat /\ Len(events) >= 1
    BY <1>1, <1>7, LenProperties, EmptySeq, SMT
  <2>2. \A i \in 1 .. Len(events) : events[i] \in 1 .. 2 * MaxCycle
    BY <1>1, ElementOfSeq, LenProperties
  <2>3. Last(events) \in 1 .. 2 * MaxCycle
    BY <2>1, <2>2, SMT DEF Last
  <2>4. Front(events) \in Seq(1 .. 2 * MaxCycle)
    <3>1. Len(events) - 1 \in Int /\ 1 \in Int
          /\ 1 .. Len(events) - 1 \subseteq 1 .. Len(events)
      BY <2>1, SMT
    <3>2. \A i \in 1 .. Len(events) - 1 : events[i] \in 1 .. 2 * MaxCycle
      BY <2>2, <3>1
    <3> QED
      BY <3>1, <3>2, SubSeqProperties DEF Front
  <2>5. <<Off(c), Last(events)>> \in Seq(1 .. 2 * MaxCycle)
    <3> DEFINE T == 1 .. 2 * MaxCycle
               x == Off(c)
               y == Last(events)
    <3>1. x \in T /\ y \in T
      BY <1>5, <2>3
    <3> HIDE DEF T, x, y
    <3>2. <<x, y>> \in Seq(T)
      BY <3>1, SMT
    <3> QED
      BY <3>2 DEF T, x, y
  <2> QED
    BY <2>4, <2>5, ConcatProperties
<1>8. phone' \in Phones /\ phone'.cycle = c
  BY <1>2, <1>3 DEF Phones
<1> QED
  BY <1>1, <1>2, <1>3, <1>4, <1>6, <1>7, <1>8 DEF PhoneOK

\* A hang-up is heard last; a number that is dialled is recorded for its cycle.
LEMMA PhoneUsed ==
    ASSUME TypeOK, PhoneInv, HangUp \/ Dial
    PROVE  PhoneOK
<1>1. phone \in Phones /\ recorded \subseteq Cycles /\ events \in Seq(1 .. 2 * MaxCycle)
  BY DEF TypeOK, Phones
<1>2. phone.cycle \in Cycles /\ "on" \in {"on", "off"} /\ TRUE \in BOOLEAN
  BY DEF HangUp, Dial, PhoneInv
<1>3. CASE HangUp
  <2>1. /\ phone' = [phone EXCEPT !.hook = "on"] /\ recorded' = recorded
        /\ events' = Append(events, On(phone.cycle))
    BY <1>3 DEF HangUp
  <2>2. phone' \in Phones
    BY <1>1, <1>2, <2>1, Zenon DEF Phones
  <2>3. phone'.cycle = phone.cycle
    BY <1>1, <2>1, SMT DEF Phones
  <2>4. events' \in Seq(1 .. 2 * MaxCycle)
    <3>1. On(phone.cycle) \in 1 .. 2 * MaxCycle
      BY <1>2, Times
    <3> QED
      BY <1>1, <2>1, <3>1, AppendProperties
  <2> QED
    BY <1>1, <1>2, <2>1, <2>2, <2>3, <2>4 DEF PhoneOK
<1>4. CASE Dial
  <2>1. /\ phone' = [phone EXCEPT !.invited = TRUE] /\ events' = events
        /\ recorded' \in {recorded, recorded \cup {phone.cycle}}
    BY <1>4, Zenon DEF Dial
  <2>2. phone' \in Phones
    BY <1>1, <1>2, <2>1, Zenon DEF Phones
  <2>3. phone'.cycle = phone.cycle
    BY <1>1, <2>1, SMT DEF Phones
  <2> QED
    BY <1>1, <1>2, <2>1, <2>2, <2>3 DEF PhoneOK
<1> QED
  BY <1>3, <1>4

\* Reading an event takes it from the queue; nothing else touches the telephone.
LEMMA PhoneStep ==
    ASSUME TypeOK, PhoneInv, [Next]_vars
    PROVE  PhoneOK /\ engine' = engine
<1>1. CASE PickUp \/ HangUp \/ Dial
  BY <1>1, PhonePicked, PhoneUsed DEF PickUp, HangUp, Dial
<1>2. CASE Talk \/ Rotate \/ FetchStep \/ FetchDone \/ Closes \/ UNCHANGED vars
  BY <1>2, PhoneSame DEF Talk, Rotate, FetchStep, StartProducer, Fetches, FetchDone,
     Closes, vars, dut
<1>3. CASE ReadStep
  BY <1>3, PhoneSame DEF ReadStep, IgnoresOnhook, LatchesOnhook, HearsOffhook
<1> QED
  BY <1>1, <1>2, <1>3 DEF Next, Telephone

-----------------------------------------------------------------------------
(***************************************************************************)
(* The attempts.                                                           *)
(***************************************************************************)
Over == {"COMPLETED", "INVALID"}

\* What the attempts are, as a sequence.
LEMMA AttemptsAre ==
    ASSUME TypeOK
    PROVE  /\ att \in Seq(Attempts) /\ Len(att) \in Nat /\ DOMAIN att = 1 .. Len(att)
           /\ \A i \in DOMAIN att : /\ att[i] \in Attempts /\ i \in Nat /\ i # 0
                                    /\ att[i].cycles \subseteq Cycles
           /\ Active \subseteq DOMAIN att
<1>1. att \in Seq(Attempts)
  BY DEF TypeOK, Attempts
<1>2. Len(att) \in Nat /\ DOMAIN att = 1 .. Len(att)
  BY <1>1, LenProperties
<1>3. \A i \in DOMAIN att : i \in Nat /\ i # 0
  BY <1>2, SMT
<1>4. \A i \in DOMAIN att : att[i] \in Attempts
  BY <1>1, ElementOfSeq
<1>5. \A i \in DOMAIN att : att[i].cycles \subseteq Cycles
  BY <1>4 DEF Attempts
<1>6. Active \subseteq DOMAIN att
  BY DEF Active
<1> QED
  BY <1>1, <1>2, <1>3, <1>4, <1>5, <1>6

\* The newest attempt under way is the one that is.
LEMMA NewestOne ==
    ASSUME TypeOK, OneInv
    PROVE  \/ Newest = 0 /\ Active = {}
           \/ /\ Newest \in Active /\ Active = {Newest} /\ Newest # 0
              /\ Newest \in DOMAIN att /\ Newest \in Nat
              /\ att[Newest] \in Attempts /\ att[Newest].status = "ACTIVE"
<1>1. CASE Active = {}
  BY <1>1 DEF Newest
<1>2. CASE Active # {}
  <2>1. PICK i \in Active : TRUE
    BY <1>2
  <2>2. Active = {i}
    BY <2>1 DEF OneInv
  <2>3. i \in Nat /\ i # 0 /\ i \in DOMAIN att /\ att[i] \in Attempts
    BY <2>1, AttemptsAre
  <2>4. \A j \in Active : j <= i
    BY <2>2, <2>3, SMT
  <2>5. Newest \in Active
    BY <2>1, <2>2, <2>4, Zenon DEF Newest
  <2>6. att[Newest].status = "ACTIVE"
    BY <2>5 DEF Active
  <2> QED
    BY <2>2, <2>3, <2>5, <2>6
<1> QED
  BY <1>1, <1>2

\* One attempt written.
LEMMA AttemptWritten ==
    ASSUME TypeOK, NEW i \in DOMAIN att, NEW m \in Attempts
    PROVE  LET a == [att EXCEPT ![i] = m]
           IN  /\ a \in Seq(Attempts) /\ DOMAIN a = DOMAIN att
               /\ a[i] = m /\ \A j \in DOMAIN att \ {i} : a[j] = att[j]
<1> DEFINE a == [att EXCEPT ![i] = m]
<1>1. att \in Seq(Attempts)
  BY AttemptsAre
<1>2. a \in Seq(Attempts) /\ DOMAIN a = DOMAIN att
  BY <1>1, ExceptSeq
<1>3. a[i] = m /\ \A j \in DOMAIN att \ {i} : a[j] = att[j]
  BY <1>1
<1> QED
  BY <1>2, <1>3

\* An attempt ended: its end is the hang-up that was held.
IsEnded(a, i) ==
    /\ a \in Seq(Attempts) /\ DOMAIN a = DOMAIN att
    /\ a[i].end = loop.pending /\ a[i].status \in Over /\ a[i].cycles = att[i].cycles
    /\ \A j \in DOMAIN att \ {i} : a[j] = att[j]

\* An attempt that ends, a call bound to it or not.
LEMMA AttemptEnded ==
    ASSUME TypeOK, NEW i \in DOMAIN att, NEW s \in Over
    PROVE  /\ IsEnded(EndedAs(s, i), i)
           /\ \A d \in 0 .. MaxCycle :
                IsEnded([EndedAs(s, i) EXCEPT ![i].bound = d], i)
<1> DEFINE m == [att[i] EXCEPT !.status = s, !.end = loop.pending]
           n(d) == [m EXCEPT !.bound = d]
<1>1. att[i] \in Attempts /\ att \in Seq(Attempts)
  BY AttemptsAre
<1>2. loop.pending \in 0 .. 2 * MaxCycle /\ s \in {"ACTIVE", "COMPLETED", "INVALID"}
  BY DEF TypeOK, Over
<1>3. m \in Attempts
  BY <1>1, <1>2, Zenon DEF Attempts
<1>4. m.status = s /\ m.end = loop.pending /\ m.cycles = att[i].cycles
  BY <1>1, SMT DEF Attempts
<1>5. EndedAs(s, i) = [att EXCEPT ![i] = m]
  BY <1>1, Zenon DEF EndedAs
<1> HIDE DEF m
<1>6. IsEnded(EndedAs(s, i), i)
  BY <1>3, <1>4, <1>5, AttemptWritten DEF IsEnded
<1>7. ASSUME NEW d \in 0 .. MaxCycle
      PROVE  IsEnded([EndedAs(s, i) EXCEPT ![i].bound = d], i)
  <2>1. n(d) \in Attempts
    BY <1>3, Zenon DEF Attempts
  <2>2. n(d).status = s /\ n(d).end = loop.pending /\ n(d).cycles = att[i].cycles
    BY <1>3, <1>4, SMT DEF Attempts
  <2>3. /\ EndedAs(s, i) \in Seq(Attempts) /\ DOMAIN EndedAs(s, i) = DOMAIN att
        /\ EndedAs(s, i)[i] = m
        /\ \A j \in DOMAIN att \ {i} : EndedAs(s, i)[j] = att[j]
    BY <1>3, <1>5, AttemptWritten
  <2> DEFINE e == EndedAs(s, i)
             f == [e EXCEPT ![i] = n(d)]
  <2>4. [e EXCEPT ![i].bound = d] = f
    BY <2>3, Zenon
  <2> HIDE DEF n, e
  <2>5. f \in Seq(Attempts) /\ DOMAIN f = DOMAIN att
    BY <2>1, <2>3, ExceptSeq DEF e
  <2>6. f[i] = n(d) /\ \A j \in DOMAIN att \ {i} : f[j] = att[j]
    BY <2>3 DEF e
  <2> HIDE DEF f
  <2>7. IsEnded(f, i)
    BY <2>2, <2>5, <2>6 DEF IsEnded
  <2> QED
    BY <2>4, <2>7 DEF e
<1> QED
  BY <1>6, <1>7

-----------------------------------------------------------------------------
(***************************************************************************)
(* A fetch is done: what it binds.                                         *)
(***************************************************************************)
\* A call is bound by a cycle, to the attempt under way and only once.
LEMMA BindingsOne ==
    ASSUME TypeOK, NEW c \in Bindings
    PROVE  c = 0 \/ (c \in Cycles /\ Newest # 0 /\ loop.call = 0)
<1>1. ASSUME NEW kind, Signal(kind) # {}
      PROVE  First(Signal(kind)) \in Cycles
  <2>1. Signal(kind) \in SUBSET Cycles
    BY DEF TypeOK, Signal, Mark
  <2> QED
    BY <1>1, <2>1, FirstOne
<1>2. CASE Newest = 0 \/ loop.call # 0
  BY <1>2 DEF Bindings
<1>3. CASE ~(Newest = 0 \/ loop.call # 0) /\ Signal("INVITE") # {}
  BY <1>1, <1>3 DEF Bindings
<1>4. CASE ~(Newest = 0 \/ loop.call # 0) /\ Signal("INVITE") = {}
  BY <1>1, <1>4 DEF Bindings
<1> QED
  BY <1>2, <1>3, <1>4

\* The state, the call and the attempts once a call may be bound.
IsBound(b) ==
    /\ b.att \in Seq(Attempts) /\ DOMAIN b.att = DOMAIN att
    /\ \A i \in DOMAIN att : /\ b.att[i].status = att[i].status
                             /\ b.att[i].cycles = att[i].cycles
                             /\ b.att[i].end = att[i].end
    /\ b.st \in Listening /\ (b.st = "WATCHING" => Active = {})
    /\ b.call \in {0} \cup Active
    /\ loop.call # 0 => b.call = loop.call

\* An attempt that is bound.
LEMMA BoundOne ==
    ASSUME TypeOK, OneInv, st \in Listening, NEW c \in Bindings, NEW d \in {c, 0}
    PROVE  IsBound(Bound(d))
<1>1. CASE d = 0
  <2>1. Bound(d) = [st |-> st, call |-> loop.call, att |-> att]
    BY <1>1 DEF Bound
  <2>2. loop.call \in {0} \cup Active /\ (st = "WATCHING" => Active = {})
    BY DEF OneInv
  <2> QED
    BY <2>1, <2>2, AttemptsAre DEF IsBound
<1>2. CASE d # 0
  <2> DEFINE n == Newest
             m == [att[n] EXCEPT !.bound = d]
             a == [att EXCEPT ![n] = m]
  <2>1. d \in Cycles /\ n # 0 /\ loop.call = 0
    BY <1>2, BindingsOne
  <2>2. n \in Active /\ n \in DOMAIN att /\ att[n] \in Attempts
    BY <2>1, NewestOne
  <2>3. d \in 0 .. MaxCycle
    BY <2>1, Times, SMT DEF Cycles
  <2>4. Bound(d) = [st |-> "CAPTURING", call |-> n, att |-> a]
    BY <1>2 DEF Bound
  <2> HIDE DEF n
  <2>5. m \in Attempts
    BY <2>2, <2>3, Zenon DEF Attempts
  <2>6. m.status = att[n].status /\ m.cycles = att[n].cycles /\ m.end = att[n].end
    BY <2>2, SMT DEF Attempts
  <2> HIDE DEF m
  <2>7. /\ a \in Seq(Attempts) /\ DOMAIN a = DOMAIN att
        /\ a[n] = m /\ \A j \in DOMAIN att \ {n} : a[j] = att[j]
    BY <2>2, <2>5, AttemptWritten
  <2> HIDE DEF a
  <2>8. "CAPTURING" \in Listening
    BY DEF Listening
  <2> QED
    BY <2>1, <2>2, <2>4, <2>6, <2>7, <2>8 DEF IsBound
<1> QED
  BY <1>1, <1>2

-----------------------------------------------------------------------------
(***************************************************************************)
(* The session, the attempts and the latch.                                *)
(***************************************************************************)
WatchOK ==
    /\ st' \in Listening \cup {"OVER"} /\ att' \in Seq(Attempts) /\ loop' \in Loops
    /\ OneInv' /\ OrderInv' /\ EndAnchorFresh'

WatchInv == TypeOK /\ OneInv /\ OrderInv /\ EndAnchorFresh

\* The loop does not run, or it stops.
LEMMA WatchRests ==
    ASSUME WatchInv, UNCHANGED <<att, loop>>, st' = st \/ st' = "OVER"
    PROVE  WatchOK
<1>1. Active' = Active
  BY DEF Active
<1>2. st' \in Listening \cup {"OVER"} /\ (st' = "WATCHING" => st = "WATCHING")
  BY DEF WatchInv, TypeOK
<1>3. att' \in Seq(Attempts) /\ loop' \in Loops
  BY DEF WatchInv, TypeOK, Attempts, Loops
<1>4. OneInv'
  BY <1>1, <1>2, Zenon DEF WatchInv, OneInv
<1>5. OrderInv'
  BY <1>1, Zenon DEF WatchInv, OrderInv, Off
<1>6. EndAnchorFresh'
  BY Zenon DEF WatchInv, EndAnchorFresh, Off
<1> QED
  BY <1>2, <1>3, <1>4, <1>5, <1>6 DEF WatchOK

\* The event at the head of the queue.
LEMMA HeadEvent ==
    ASSUME TypeOK, events # <<>>
    PROVE  /\ Head(events) \in 1 .. 2 * MaxCycle /\ Head(events) \in 0 .. 2 * MaxCycle
           /\ Head(events) \in Nat /\ Head(events) # 0
<1>1. Head(events) \in 1 .. 2 * MaxCycle
  BY HeadTailProperties DEF TypeOK
<1> QED
  BY <1>1, Times, SMT

\* A hang-up that is later than the last pick-up is held.
LEMMA WatchLatches ==
    ASSUME WatchInv, LatchesOnhook
    PROVE  WatchOK
<1> DEFINE e == Head(events)
<1>1. TypeOK /\ OneInv /\ OrderInv /\ EndAnchorFresh
  BY DEF WatchInv
<1>2. /\ e \in 0 .. 2 * MaxCycle /\ e \in Nat /\ ~(e <= loop.lastoff) /\ loop.pending = 0
      /\ loop' = [loop EXCEPT !.pending = e, !.sealed = TRUE]
      /\ st' = st /\ att' = att
  BY <1>1, HeadEvent DEF LatchesOnhook, Stale
<1> HIDE DEF e
<1>3. loop \in Loops /\ TRUE \in BOOLEAN
  BY <1>1 DEF TypeOK, Loops
<1>4. loop' \in Loops
  BY <1>2, <1>3, ZenonT(30) DEF Loops
<1>5. loop'.pending = e /\ loop'.call = loop.call /\ loop'.lastoff = loop.lastoff
  BY <1>2, <1>3, SMT DEF Loops
<1>6. Active' = Active
  BY <1>2 DEF Active
<1>7. OneInv'
  BY <1>1, <1>2, <1>5, <1>6, Zenon DEF OneInv
<1>8. ASSUME NEW i \in Active', NEW c \in att'[i].cycles
      PROVE  Off(c) <= loop'.lastoff /\ Off(c) < loop'.pending
  <2>1. Off(c) <= loop.lastoff
    BY <1>1, <1>2, <1>6, <1>8 DEF OrderInv
  <2>2. c \in Cycles
    BY <1>1, <1>2, <1>6, <1>8, AttemptsAre
  <2>3. Off(c) \in Nat /\ loop.lastoff \in Nat
    BY <1>3, <2>2, Times, SMT DEF Loops
  <2> QED
    BY <1>2, <1>5, <2>1, <2>3, SMT
<1>9. OrderInv'
  BY <1>1, <1>2, <1>6, <1>8, Zenon DEF OrderInv, Off
<1>10. EndAnchorFresh'
  BY <1>1, <1>2, Zenon DEF EndAnchorFresh, Off
<1> QED
  BY <1>1, <1>2, <1>4, <1>7, <1>9, <1>10 DEF WatchOK, TypeOK, Attempts

\* A pick-up opens an attempt, or is one more of the attempt under way.
LEMMA WatchHears ==
    ASSUME WatchInv, HearsOffhook
    PROVE  WatchOK
<1> DEFINE e == Head(events)
           c == CycleOf(e)
           l == IF e > loop.lastoff THEN e ELSE loop.lastoff
<1>1. TypeOK /\ OneInv /\ OrderInv /\ EndAnchorFresh
  BY DEF WatchInv
<1>2. /\ e \in 1 .. 2 * MaxCycle /\ e \in 0 .. 2 * MaxCycle /\ e \in Nat
      /\ c \in Cycles /\ Off(c) = e
  BY <1>1, HeadEvent, Times DEF HearsOffhook
<1>3. /\ loop' = [loop EXCEPT !.pending = 0, !.lastoff = l]
      /\ IF st = "WATCHING"
         THEN att' = Append(att, NewAttempt(c)) /\ st' = "ACTIVITY_DETECTED"
         ELSE /\ att' = IF Newest = 0 THEN att
                        ELSE [att EXCEPT ![Newest].cycles = @ \cup {c}]
              /\ st' = st
  BY Zenon DEF HearsOffhook
<1>4. loop \in Loops
  BY <1>1 DEF TypeOK, Loops
<1>5. loop.lastoff \in Nat /\ loop.lastoff \in 0 .. 2 * MaxCycle
  BY <1>4, Times, SMT DEF Loops
<1>6. l \in 0 .. 2 * MaxCycle /\ l \in Nat /\ e <= l /\ loop.lastoff <= l
  BY <1>2, <1>5, SMT
<1> HIDE DEF c, e, l
<1>7. loop' \in Loops
  <2>1. 0 \in 0 .. 2 * MaxCycle
    BY Times, SMT
  <2> QED
    BY <1>3, <1>4, <1>6, <2>1, ZenonT(30) DEF Loops
<1>8. loop'.pending = 0 /\ loop'.lastoff = l /\ loop'.call = loop.call
  BY <1>3, <1>4, SMT DEF Loops
<1>9. CASE st = "WATCHING"
  <2> DEFINE m == NewAttempt(c)
             n == Len(att) + 1
  <2>1. m \in Attempts /\ m.status = "ACTIVE" /\ m.cycles = {c} /\ m.end = 0
    <3>1. 0 \in 0 .. 2 * MaxCycle /\ 0 \in 0 .. MaxCycle
      BY Times, SMT
    <3> QED
      BY <1>2, <3>1 DEF NewAttempt, Attempts
  <2> HIDE DEF m
  <2>2. /\ att' \in Seq(Attempts) /\ Len(att') = n
        /\ \A i \in 1 .. Len(att) : att'[i] = att[i]
        /\ att'[n] = m
    BY <1>1, <1>3, <1>9, <2>1, AttemptsAre, AppendProperties DEF m
  <2>3. DOMAIN att' = DOMAIN att \cup {n} /\ \A i \in DOMAIN att : att'[i] = att[i]
    <3>1. DOMAIN att' = 1 .. Len(att')
      BY <2>2, LenProperties
    <3> QED
      BY <1>1, <2>2, <3>1, AttemptsAre, SMT
  <2>4. Active = {} /\ loop.call = 0
    BY <1>1, <1>9 DEF OneInv
  <2> HIDE DEF n
  <2>5. Active' = {n}
    BY <2>1, <2>2, <2>3, <2>4 DEF Active
  <2>6. OneInv'
    BY <1>3, <1>8, <1>9, <2>4, <2>5 DEF OneInv
  <2>7. OrderInv'
    <3>1. Off(c) <= l
      BY <1>2, <1>6
    <3> QED
      BY <1>8, <2>1, <2>2, <2>5, <3>1 DEF OrderInv, Off
  <2>8. EndAnchorFresh'
    BY <1>1, <2>1, <2>2, <2>3, Zenon DEF EndAnchorFresh, Off
  <2>9. st' \in Listening
    BY <1>3, <1>9 DEF Listening
  <2> QED
    BY <1>7, <2>2, <2>6, <2>7, <2>8, <2>9 DEF WatchOK
<1>10. CASE st # "WATCHING" /\ Newest # 0
  <2> DEFINE n == Newest
             m == [att[n] EXCEPT !.cycles = @ \cup {c}]
  <2>1. /\ n \in Active /\ Active = {n} /\ n \in DOMAIN att /\ att[n] \in Attempts
        /\ att[n].status = "ACTIVE"
    BY <1>1, <1>10, NewestOne
  <2>2. att' = [att EXCEPT ![n] = m] /\ st' = st
    BY <1>3, <1>10, Zenon
  <2> HIDE DEF n
  <2>3. att[n].cycles \cup {c} \in SUBSET Cycles
    BY <1>2, <2>1 DEF Attempts
  <2>4. m \in Attempts
    BY <2>1, <2>3, Zenon DEF Attempts
  <2>5. /\ m.status = "ACTIVE" /\ m.end = att[n].end
        /\ m.cycles = att[n].cycles \cup {c}
    BY <2>1, SMT DEF Attempts
  <2> HIDE DEF m
  <2>6. /\ att' \in Seq(Attempts) /\ DOMAIN att' = DOMAIN att
        /\ att'[n] = m /\ \A j \in DOMAIN att \ {n} : att'[j] = att[j]
    BY <1>1, <2>1, <2>2, <2>4, AttemptWritten
  <2>7. Active' = Active
    BY <2>1, <2>5, <2>6 DEF Active
  <2>8. OneInv'
    BY <1>1, <1>8, <2>2, <2>7, Zenon DEF OneInv
  <2>9. att[n].end = 0
    BY <1>1, <2>1 DEF OrderInv
  <2>10. ASSUME NEW d \in att'[n].cycles
         PROVE  Off(d) <= loop'.lastoff
    <3>1. CASE d = c
      BY <1>2, <1>6, <1>8, <3>1
    <3>2. CASE d \in att[n].cycles
      <4>1. Off(d) <= loop.lastoff
        BY <1>1, <2>1, <3>2 DEF OrderInv
      <4>2. Off(d) \in Nat
        BY <1>1, <2>1, <3>2, AttemptsAre, Times, SMT
      <4> QED
        BY <1>5, <1>6, <1>8, <4>1, <4>2, SMT
    <3> QED
      BY <2>5, <2>6, <3>1, <3>2
  <2>11. OrderInv'
    BY <1>8, <2>1, <2>5, <2>6, <2>7, <2>9, <2>10, Zenon DEF OrderInv, Off
  <2>12. EndAnchorFresh'
    BY <1>1, <2>5, <2>6, <2>9, Zenon DEF EndAnchorFresh, Off
  <2> QED
    BY <1>1, <1>7, <2>2, <2>6, <2>8, <2>11, <2>12 DEF WatchOK, TypeOK
<1>11. CASE st # "WATCHING" /\ Newest = 0
  <2>1. att' = att /\ st' = st /\ Active = {}
    BY <1>1, <1>3, <1>11, NewestOne
  <2>2. Active' = {}
    BY <2>1 DEF Active
  <2> QED
    BY <1>1, <1>7, <1>8, <1>11, <2>1, <2>2, Zenon
       DEF WatchOK, TypeOK, Attempts, OneInv, OrderInv, EndAnchorFresh, Off
<1> QED
  BY <1>9, <1>10, <1>11

\* The loop's variables as it goes on.
LEMMA WentOn ==
    ASSUME TypeOK, NEW s, NEW call \in Nat, NEW p \in {0, loop.pending}, Continue(s, call, p)
    PROVE  /\ loop' \in Loops /\ loop'.call = call /\ loop'.pending = p /\ st' = s
           /\ (loop.pending = 0 \/ p # 0) => loop'.lastoff = loop.lastoff
<1> DEFINE l == IF loop.pending # 0 /\ p = 0 THEN 0 ELSE loop.lastoff
           b == loop.sealed /\ ~Restarts(s, call)
<1>1. loop' = [call |-> call, pending |-> p, lastoff |-> l, sealed |-> b] /\ st' = s
  BY DEF Continue
<1>2. loop \in Loops
  BY DEF TypeOK, Loops
<1>3. 0 \in 0 .. 2 * MaxCycle
  BY Times, SMT
<1>4. p \in 0 .. 2 * MaxCycle /\ l \in 0 .. 2 * MaxCycle
  BY <1>2, <1>3 DEF Loops
<1>5. b \in BOOLEAN
  BY <1>2 DEF Loops
<1> HIDE DEF b
<1>6. (loop.pending = 0 \/ p # 0) => l = loop.lastoff
  OBVIOUS
<1> HIDE DEF l
<1> QED
  BY <1>1, <1>4, <1>5, <1>6 DEF Loops

\* The attempt goes on, with a call or without.
LEMMA WatchGoesOn ==
    ASSUME WatchInv, NEW b, IsBound(b), FetchesOn(b) \/ Drains(b)
    PROVE  WatchOK
<1>1. TypeOK /\ OneInv /\ OrderInv /\ EndAnchorFresh
  BY DEF WatchInv
<1>2. att' = b.att /\ Continue(b.st, b.call, loop.pending)
  BY DEF FetchesOn, Drains
<1>3. b.call \in Nat
  BY <1>1, AttemptsAre DEF IsBound
<1>4. /\ loop' \in Loops /\ loop'.call = b.call /\ loop'.pending = loop.pending
      /\ loop'.lastoff = loop.lastoff /\ st' = b.st
  <2>1. loop.pending \in {0, loop.pending} /\ (loop.pending = 0 \/ loop.pending # 0)
    OBVIOUS
  <2> QED
    BY <1>1, <1>2, <1>3, <2>1, WentOn
<1>5. Active' = Active
  BY <1>2 DEF Active, IsBound
<1>6. OneInv'
  BY <1>1, <1>4, <1>5, Zenon DEF OneInv, IsBound
<1>7. \A i \in DOMAIN att : att'[i].end = att[i].end /\ att'[i].cycles = att[i].cycles
  BY <1>2 DEF IsBound
<1>8. OrderInv'
  BY <1>1, <1>4, <1>5, <1>7, AttemptsAre DEF OrderInv, Off
<1>9. EndAnchorFresh'
  BY <1>1, <1>2, <1>7, Zenon DEF EndAnchorFresh, Off, IsBound
<1> QED
  BY <1>2, <1>4, <1>6, <1>8, <1>9 DEF WatchOK, IsBound

\* The attempt under way is ended: its end is later than its pick-ups.
LEMMA WatchEnds ==
    ASSUME WatchInv, NEW n \in Active, IsEnded(att', n), loop.pending # 0,
           NEW s \in {"WATCHING", "OVER"}, Continue(s, 0, 0)
    PROVE  WatchOK
<1>1. TypeOK /\ OneInv /\ OrderInv /\ EndAnchorFresh
  BY DEF WatchInv
<1>2. loop' \in Loops /\ loop'.call = 0 /\ st' = s
  BY <1>1, WentOn
<1>3. /\ Active = {n} /\ n \in DOMAIN att /\ att' \in Seq(Attempts)
      /\ DOMAIN att' = DOMAIN att /\ att'[n].status \in Over
      /\ att'[n].end = loop.pending /\ att'[n].cycles = att[n].cycles
      /\ \A j \in DOMAIN att \ {n} : att'[j] = att[j]
  BY <1>1 DEF OneInv, IsEnded, Active
<1>4. Active' = {}
  BY <1>3, Zenon DEF Active, Over
<1>5. EndAnchorFresh'
  <2>1. \A c \in att[n].cycles : Off(c) < loop.pending
    BY <1>1 DEF OrderInv
  <2> QED
    BY <1>1, <1>3, <2>1, Zenon DEF EndAnchorFresh, Off
<1>6. s \in Listening \cup {"OVER"}
  BY DEF Listening
<1> QED
  BY <1>2, <1>3, <1>4, <1>5, <1>6 DEF WatchOK, OneInv, OrderInv

\* A hang-up is held and no attempt is under way.
LEMMA WatchEmpty ==
    ASSUME WatchInv, Active = {}, att' = att, Continue("WATCHING", 0, 0)
    PROVE  WatchOK
<1>1. TypeOK /\ OneInv /\ OrderInv /\ EndAnchorFresh
  BY DEF WatchInv
<1>2. loop' \in Loops /\ loop'.call = 0 /\ st' = "WATCHING"
  BY <1>1, WentOn
<1>3. Active' = {}
  BY DEF Active
<1>4. "WATCHING" \in Listening
  BY DEF Listening
<1> QED
  BY <1>1, <1>2, <1>3, <1>4, Zenon
     DEF WatchOK, TypeOK, Attempts, OneInv, OrderInv, EndAnchorFresh, Off

\* What a fetch that is done leads to.
LEMMA WatchDone ==
    ASSUME WatchInv, FetchDone
    PROVE  WatchOK
<1>1. TypeOK /\ OneInv
  BY DEF WatchInv
<1>0. PICK c \in Bindings : \E d \in {c, 0} :
            \/ FetchesOn(Bound(d)) \/ Drains(Bound(d))
            \/ EndsCall(Bound(d)) \/ EndsActivity(Bound(d))
  BY Zenon DEF FetchDone
<1>2. PICK d \in {c, 0} :
            \/ FetchesOn(Bound(d)) \/ Drains(Bound(d))
            \/ EndsCall(Bound(d)) \/ EndsActivity(Bound(d))
  BY <1>0
<1> DEFINE b == Bound(d)
<1>3. IsBound(b)
  BY <1>1, BoundOne DEF FetchDone
<1> HIDE DEF b
<1>4. CASE FetchesOn(b) \/ Drains(b)
  BY <1>3, <1>4, WatchGoesOn
<1>5. CASE EndsCall(b)
  <2> DEFINE n == b.call
             k == b.att[n].bound
  <2>1. /\ loop.pending # 0 /\ n # 0
        /\ att' = [EndedAs("COMPLETED", n) EXCEPT ![n].bound = k]
        /\ Continue("WATCHING", 0, 0) \/ Continue("OVER", 0, 0)
    BY <1>5 DEF EndsCall
  <2>2. n \in Active /\ n \in DOMAIN att
    BY <1>1, <1>3, <2>1, AttemptsAre DEF IsBound
  <2>3. k \in 0 .. MaxCycle
    <3>1. b.att[n] \in Attempts
      BY <1>3, <2>2, ElementOfSeq DEF IsBound
    <3> QED
      BY <3>1 DEF Attempts
  <2> HIDE DEF k, n
  <2>4. IsEnded(att', n)
    BY <1>1, <2>1, <2>2, <2>3, AttemptEnded DEF Over
  <2> QED
    BY <2>1, <2>2, <2>4, WatchEnds
<1>6. CASE EndsActivity(b)
  <2>1. loop.pending # 0 /\ Continue("WATCHING", 0, 0)
    BY <1>6 DEF EndsActivity
  <2>2. CASE Newest = 0
    BY <1>1, <1>6, <2>1, <2>2, NewestOne, WatchEmpty DEF EndsActivity
  <2>3. CASE Newest # 0
    <3>1. Newest \in Active /\ Newest \in DOMAIN att
      BY <1>1, <2>3, NewestOne
    <3>2. att' = EndedAs("INVALID", Newest)
      BY <1>6, <2>3 DEF EndsActivity
    <3>3. IsEnded(att', Newest)
      BY <1>1, <3>1, <3>2, AttemptEnded DEF Over
    <3> QED
      BY <2>1, <3>1, <3>3, WatchEnds
  <2> QED
    BY <2>2, <2>3
<1> QED
  BY <1>2, <1>4, <1>5, <1>6 DEF b

\* Every step.
LEMMA WatchStep ==
    ASSUME WatchInv, [Next]_vars
    PROVE  WatchOK
<1>1. CASE Telephone \/ Rotate \/ FetchStep \/ IgnoresOnhook \/ Closes \/ UNCHANGED vars
  BY <1>1, WatchRests DEF Telephone, PickUp, HangUp, Dial, Talk, Rotate, FetchStep,
     StartProducer, Fetches, IgnoresOnhook, Closes, vars
<1> QED
  BY <1>1, WatchLatches, WatchHears, WatchDone DEF Next, ReadStep

-----------------------------------------------------------------------------
(***************************************************************************)
(* The producer, its files and the fetches, and what the files hold.       *)
(***************************************************************************)
RingOK ==
    /\ RingInv' /\ LeftInv' /\ seg' \in Fetchings
    /\ Len(ring'.closed) <= MaxFiles + 1
    /\ faults' \in 0 .. MaxFault
EvidenceOK ==
    /\ loop.call # 0 => OnDut \subseteq OnDut' \cup seg'.got
    /\ (engine = "ring" /\ loop.call # 0 /\ loop'.call = 0) => OnDut = {}

FilesInv == TypeOK /\ RingInv /\ LeftInv

\* What a sequence of files holds, with one more, and without the first few.
LEMMA FilesHold ==
    ASSUME NEW s \in Seq(Files)
    PROVE  /\ Held(<<>>) = {}
           /\ \A f \in Files : /\ Append(s, f) \in Seq(Files)
                               /\ Len(Append(s, f)) = Len(s) + 1
                               /\ Held(Append(s, f)) = Held(s) \cup f
           /\ \A k \in 0 .. Len(s) :
                LET t == SubSeq(s, k + 1, Len(s))
                    g == UNION {s[i] : i \in 1 .. k}
                IN  /\ t \in Seq(Files) /\ Len(t) = Len(s) - k /\ g \in Files
                    /\ Held(s) \subseteq Held(t) \cup g
<1>1. Len(s) \in Nat /\ DOMAIN s = 1 .. Len(s) /\ \A i \in 1 .. Len(s) : s[i] \in Files
  BY LenProperties, ElementOfSeq
<1>2. Held(<<>>) = {}
  <2>1. DOMAIN <<>> = {}
    BY SMT
  <2> QED
    BY <2>1 DEF Range, Held
<1>3. ASSUME NEW f \in Files
      PROVE  /\ Append(s, f) \in Seq(Files) /\ Len(Append(s, f)) = Len(s) + 1
             /\ Held(Append(s, f)) = Held(s) \cup f
  <2> DEFINE t == Append(s, f)
  <2>1. /\ t \in Seq(Files) /\ Len(t) = Len(s) + 1
        /\ \A i \in 1 .. Len(s) : t[i] = s[i]
        /\ t[Len(s) + 1] = f
    BY AppendProperties
  <2> HIDE DEF t
  <2>2. DOMAIN t = DOMAIN s \cup {Len(s) + 1}
    <3>1. DOMAIN t = 1 .. Len(t)
      BY <2>1, LenProperties
    <3> QED
      BY <1>1, <2>1, <3>1, SMT
  <2>3. Range(t) = Range(s) \cup {f}
    BY <1>1, <2>1, <2>2, ZenonT(30) DEF Range
  <2>4. Held(t) = Held(s) \cup f
    BY <2>3, SMT DEF Held
  <2> QED
    BY <2>1, <2>4 DEF t
<1>4. ASSUME NEW k \in 0 .. Len(s)
      PROVE  LET t == SubSeq(s, k + 1, Len(s))
                 g == UNION {s[i] : i \in 1 .. k}
             IN  /\ t \in Seq(Files) /\ Len(t) = Len(s) - k /\ g \in Files
                 /\ Held(s) \subseteq Held(t) \cup g
  <2> DEFINE t == SubSeq(s, k + 1, Len(s))
             g == UNION {s[i] : i \in 1 .. k}
  <2>1. /\ k + 1 \in Int /\ Len(s) \in Int /\ k \in Nat /\ k <= Len(s)
        /\ k + 1 .. Len(s) \subseteq 1 .. Len(s) /\ 1 .. k \subseteq 1 .. Len(s)
    BY <1>1, SMT
  <2>2. \A i \in k + 1 .. Len(s) : s[i] \in Files
    BY <1>1, <2>1
  <2>3. /\ t \in Seq(Files)
        /\ Len(t) = IF k + 1 <= Len(s) THEN Len(s) - (k + 1) + 1 ELSE 0
        /\ \A i \in 1 .. Len(s) - (k + 1) + 1 : t[i] = s[k + 1 + i - 1]
    BY <2>1, <2>2, SubSeqProperties
  <2> HIDE DEF t
  <2>4. Len(t) = Len(s) - k
    <3>1. Len(t) = IF k + 1 <= Len(s) THEN Len(s) - (k + 1) + 1 ELSE 0
      BY <2>3
    <3>2. k \in Nat /\ k <= Len(s) /\ Len(s) \in Nat
      BY <1>1, <2>1
    <3> HIDE DEF g
    <3> QED
      BY <3>1, <3>2, SMT
  <2>5. g \in Files
    BY <1>1, <2>1 DEF Files
  <2>6. ASSUME NEW i \in 1 .. Len(s)
        PROVE  s[i] \in Range(t) \/ s[i] \subseteq g
    <3>1. CASE i <= k
      <4>1. i \in 1 .. k
        BY <1>1, <2>1, <3>1, SMT
      <4> QED
        BY <4>1
    <3>2. CASE ~(i <= k)
      <4>1. /\ i - k \in 1 .. Len(s) - (k + 1) + 1 /\ i - k \in 1 .. Len(t)
            /\ k + 1 + (i - k) - 1 = i
        BY <1>1, <2>1, <2>4, <3>2, SMT
      <4>2. t[i - k] = s[i]
        BY <2>3, <4>1
      <4>3. DOMAIN t = 1 .. Len(t)
        BY <2>3, LenProperties
      <4> QED
        BY <4>1, <4>2, <4>3 DEF Range
    <3> QED
      BY <3>1, <3>2
  <2> HIDE DEF g
  <2>7. Held(s) \subseteq Held(t) \cup g
    <3>1. \A f \in Range(s) : f \subseteq Held(t) \cup g
      <4>1. \A f \in Range(t) : f \subseteq Held(t)
        BY DEF Held
      <4>2. \A f \in Range(s) : \E i \in 1 .. Len(s) : f = s[i]
        BY <1>1 DEF Range
      <4> QED
        BY <2>6, <4>1, <4>2
    <3> QED
      BY <3>1 DEF Held
  <2> QED
    BY <2>3, <2>4, <2>5, <2>7 DEF t, g
<1> QED
  BY <1>2, <1>3, <1>4

\* The ring, its files and the fetch, as they are typed.
LEMMA RingIs ==
    ASSUME FilesInv
    PROVE  /\ ring \in Rings /\ ring.closed \in Seq(Files) /\ Len(ring.closed) \in Nat
           /\ ring.open \in Files /\ ring.on \in {"none", "on", "sealed"}
           /\ seg \in Fetchings /\ loop \in Loops
           /\ seg.at \in {"starting", "wait", "done"} /\ seg.left \in Nat
           /\ <<>> \in Seq(Files) /\ {} \in Files /\ Len(<<>>) = 0
<1>1. ring \in Rings /\ seg \in Fetchings /\ loop \in Loops
  BY DEF FilesInv, TypeOK, RingInv, Fetchings, Files, Loops
<1>2. ring.closed \in Seq(Files) /\ ring.open \in Files /\ ring.on \in {"none", "on", "sealed"}
  BY <1>1 DEF Rings
<1>3. Len(ring.closed) \in Nat
  BY <1>2, LenProperties
<1>4. seg.at \in {"starting", "wait", "done"} /\ seg.left \in Nat
  BY <1>1 DEF Fetchings
<1>5. <<>> \in Seq(Files) /\ {} \in Files /\ Len(<<>>) = 0
  BY EmptySeq, SMT DEF Files
<1> QED
  BY <1>1, <1>2, <1>3, <1>4, <1>5

\* A ring without files.
LEMMA GoneIs ==
    ASSUME FilesInv, NEW s \in {"none", "on", "sealed"}
    PROVE  LET r == [Gone EXCEPT !.on = s]
           IN  r \in Rings /\ r.on = s /\ r.closed = <<>> /\ r.open = {}
<1> DEFINE r == [Gone EXCEPT !.on = s]
<1>1. Gone \in Rings /\ Gone.closed = <<>> /\ Gone.open = {}
  BY RingIs DEF Gone, Rings
<1>2. r \in Rings
  BY <1>1, Zenon DEF Rings
<1>3. r.on = s /\ r.closed = Gone.closed /\ r.open = Gone.open
  BY <1>1, SMT DEF Rings
<1> QED
  BY <1>1, <1>2, <1>3

\* The loop goes on with the files as they are, and keeps the call.
LEMMA RingRests ==
    ASSUME FilesInv, ring' = ring, seg' = seg, faults' = faults, engine' = engine,
           loop'.call = loop.call
    PROVE  RingOK /\ EvidenceOK
<1>1. OnDut' = OnDut
  BY DEF OnDut
<1>2. EvidenceOK
  BY <1>1, Zenon DEF EvidenceOK
<1> QED
  BY <1>2 DEF FilesInv, RingOK, RingInv, LeftInv, TypeOK, Fetchings, Files

\* What is dialled and spoken is written to the open file.
LEMMA RingWrites ==
    ASSUME FilesInv, PhoneInv, Dial \/ Talk
    PROVE  RingOK /\ EvidenceOK
<1> DEFINE mark == IF Dial THEN Invite(phone.cycle) ELSE Rtp(phone.cycle)
<1>1. /\ Write(mark) /\ seg' = seg /\ faults' = faults /\ engine' = engine /\ loop' = loop
  BY DEF Dial, Talk, dut
<1>2. mark \in Mark
  <2>1. phone.cycle \in Cycles
    BY DEF Dial, Talk, PhoneInv
  <2> QED
    BY <2>1 DEF Mark, Invite, Rtp
<1> HIDE DEF mark
<1>3. CASE ring.on # "on"
  BY <1>1, <1>3, RingRests DEF Write
<1>4. CASE ring.on = "on"
  <2> DEFINE o == ring.open \cup {mark}
  <2>1. ring' = [ring EXCEPT !.open = o]
    BY <1>1, <1>4, Zenon DEF Write
  <2>2. o \in Files
    BY <1>2, RingIs DEF Files
  <2>3. ring.open \subseteq o
    OBVIOUS
  <2> HIDE DEF o
  <2>4. ring' \in Rings
    BY <2>1, <2>2, RingIs, Zenon DEF Rings
  <2>5. ring'.on = "on" /\ ring'.closed = ring.closed /\ ring'.open = o
    BY <1>4, <2>1, RingIs, SMT DEF Rings
  <2>6. RingInv' /\ LeftInv'
    BY <1>1, <1>4, <2>4, <2>5 DEF FilesInv, RingInv, LeftInv
  <2>7. EvidenceOK
    BY <1>1, <2>3, <2>5, Zenon DEF EvidenceOK, OnDut, Held
  <2> QED
    BY <1>1, <2>5, <2>6, <2>7 DEF RingOK, FilesInv, TypeOK, Fetchings, Files
<1> QED
  BY <1>3, <1>4

\* The producer goes on to a new file.
LEMMA RingRotates ==
    ASSUME FilesInv, Rotate
    PROVE  RingOK /\ EvidenceOK
<1> DEFINE s == Append(ring.closed, ring.open)
<1>1. /\ ring.on = "on" /\ Len(ring.closed) < MaxFiles
      /\ ring' = [ring EXCEPT !.closed = s, !.open = {}]
      /\ seg' = seg /\ faults' = faults /\ engine' = engine /\ loop' = loop
  BY DEF Rotate, dut
<1>2. /\ s \in Seq(Files) /\ Len(s) = Len(ring.closed) + 1
      /\ Held(s) = Held(ring.closed) \cup ring.open
  BY RingIs, FilesHold
<1> HIDE DEF s
<1>3. ring' \in Rings
  BY <1>1, <1>2, RingIs, ZenonT(30) DEF Rings
<1>4. ring'.on = "on" /\ ring'.closed = s /\ ring'.open = {}
  BY <1>1, RingIs, SMT DEF Rings
<1>5. Len(ring'.closed) <= MaxFiles /\ Len(ring'.closed) <= MaxFiles + 1
  BY <1>1, <1>2, <1>4, RingIs, Times, SMT
<1>6. RingInv' /\ LeftInv'
  BY <1>1, <1>3, <1>4, <1>5 DEF FilesInv, RingInv, LeftInv
<1>7. EvidenceOK
  BY <1>1, <1>2, <1>4, Zenon DEF EvidenceOK, OnDut, Held
<1> QED
  BY <1>1, <1>5, <1>6, <1>7 DEF RingOK, FilesInv, TypeOK, Fetchings, Files

\* A producer is started where there is none, and no file.
LEMMA RingStarts ==
    ASSUME FilesInv, StartProducer
    PROVE  RingOK /\ EvidenceOK
<1>1. /\ seg.at = "starting" /\ ring' = [Gone EXCEPT !.on = "on"]
      /\ seg' = [seg EXCEPT !.at = "wait"]
      /\ faults' = faults /\ engine' = engine /\ loop' = loop
  BY DEF StartProducer, dut
<1>2. ring' \in Rings /\ ring'.on = "on" /\ ring'.closed = <<>> /\ ring'.open = {}
  BY <1>1, GoneIs
<1>3. seg' \in Fetchings
  BY <1>1, RingIs, Zenon DEF Fetchings
<1>4. seg'.at = "wait"
  BY <1>1, RingIs, SMT DEF Fetchings
<1>5. ring.closed = <<>> /\ ring.open = {}
  BY <1>1 DEF FilesInv, RingInv
<1>6. OnDut = {}
  BY <1>5, RingIs, FilesHold DEF OnDut, Held
<1>7. Len(ring'.closed) = 0 /\ 0 <= MaxFiles /\ 0 <= MaxFiles + 1
  BY <1>2, RingIs, Times, SMT
<1> QED
  BY <1>1, <1>2, <1>3, <1>4, <1>6, <1>7
     DEF RingOK, EvidenceOK, RingInv, LeftInv, FilesInv, TypeOK

\* A fetch carries away the oldest files; what it leaves are closed files it did
\* not take and the open one.
LEMMA RingFetches ==
    ASSUME FilesInv, Fetches
    PROVE  RingOK /\ EvidenceOK
<1>1. PICK k \in Takes :
        /\ IF engine = "v2" /\ k < Len(ring.closed)
           THEN faults < MaxFault /\ faults' = faults + 1 ELSE UNCHANGED faults
        /\ ring' = [ring EXCEPT !.closed = SubSeq(@, k + 1, Len(@))]
        /\ seg' = [seg EXCEPT !.at = "done",
                              !.got = UNION {ring.closed[i] : i \in 1 .. k},
                              !.left = Len(ring.closed) - k + OpenFiles]
  BY DEF Fetches
<1> DEFINE s == ring.closed
           t == SubSeq(s, k + 1, Len(s))
           g == UNION {s[i] : i \in 1 .. k}
           n == Len(s) - k + OpenFiles
<1>2. s \in Seq(Files) /\ Len(s) \in Nat
  BY RingIs
<1>3. k \in 0 .. Len(s)
  <2>1. CASE engine = "v2"
    BY <2>1 DEF Takes
  <2>2. CASE engine # "v2" /\ s = <<>>
    BY <1>2, <2>2, SMT DEF Takes
  <2>3. CASE engine # "v2" /\ s # <<>>
    <3>1. Len(s) # 0
      BY <1>2, <2>3, EmptySeq
    <3> QED
      BY <1>2, <2>3, <3>1, SMT DEF Takes
  <2> QED
    BY <2>1, <2>2, <2>3
<1>4. /\ t \in Seq(Files) /\ Len(t) = Len(s) - k /\ g \in Files
      /\ Held(s) \subseteq Held(t) \cup g
  BY <1>2, <1>3, FilesHold
<1>5. /\ n \in Nat /\ Len(t) <= Len(s) /\ Len(t) \in Nat
      /\ n = 0 => Len(t) = 0 /\ OpenFiles = 0
  <2>1. OpenFiles \in {0, 1}
    BY DEF OpenFiles
  <2>2. Len(t) = Len(s) - k
    BY <1>4
  <2> HIDE DEF t, g, s
  <2> QED
    BY <1>2, <1>3, <2>1, <2>2, SMT
<1>6. ring' = [ring EXCEPT !.closed = t]
  BY <1>1, Zenon
<1>7. seg' = [seg EXCEPT !.at = "done", !.got = g, !.left = n]
  BY <1>1
<1> HIDE DEF t, g, n
<1>8. ring' \in Rings
  BY <1>4, <1>6, RingIs, Zenon DEF Rings
<1>9. ring'.on = ring.on /\ ring'.closed = t /\ ring'.open = ring.open
  BY <1>6, RingIs, SMT DEF Rings
<1>10. seg' \in Fetchings
  <2>1. "done" \in {"starting", "wait", "done"}
    OBVIOUS
  <2> QED
    BY <1>4, <1>5, <1>7, <2>1, RingIs, ZenonT(30) DEF Fetchings
<1>11. seg'.at = "done" /\ seg'.got = g /\ seg'.left = n
  BY <1>7, RingIs, SMT DEF Fetchings
<1>12. faults' \in 0 .. MaxFault
  <2>1. faults \in 0 .. MaxFault
    BY DEF FilesInv, TypeOK
  <2>2. faults' = faults \/ (faults < MaxFault /\ faults' = faults + 1)
    BY <1>1, Zenon
  <2> QED
    BY <2>1, <2>2, Times, SMT
<1>13. s = <<>> => t = <<>>
  <2>1. ASSUME s = <<>>
        PROVE  Len(t) = 0
    BY <1>5, <2>1, RingIs, SMT
  <2> QED
    BY <1>4, <2>1, EmptySeq
<1>14. RingInv'
  <2>1. ring.on = "on" => Len(t) <= MaxFiles
    <3>1. ring.on = "on" => Len(s) <= MaxFiles
      BY DEF FilesInv, RingInv
    <3> QED
      BY <1>2, <1>5, <3>1, Times, SMT
  <2> QED
    BY <1>8, <1>9, <1>11, <1>13, <2>1 DEF FilesInv, RingInv
<1>15. LeftInv'
  <2> SUFFICES ASSUME engine' = "ring", n = 0
               PROVE  ring'.on # "on" /\ ring'.closed = <<>>
    BY <1>11 DEF LeftInv
  <2>1. Len(t) = 0 /\ OpenFiles = 0 /\ engine = "ring"
    BY <1>5 DEF Fetches, dut
  <2>2. t = <<>>
    BY <1>4, <2>1, EmptySeq
  <2>3. ring.on # "on"
    BY <2>1, SMT DEF OpenFiles
  <2> QED
    BY <1>9, <2>2, <2>3
<1>16. Len(ring'.closed) <= MaxFiles + 1
  <2>1. Len(s) <= MaxFiles + 1
    BY DEF FilesInv, TypeOK
  <2> QED
    BY <1>2, <1>5, <1>9, <2>1, Times, SMT
<1>17. EvidenceOK
  <2>1. loop' = loop
    BY DEF Fetches
  <2> QED
    BY <1>4, <1>9, <1>11, <2>1 DEF EvidenceOK, OnDut, Held
<1> QED
  BY <1>10, <1>12, <1>14, <1>15, <1>16, <1>17 DEF RingOK

\* A hang-up that is held seals a ring that records: the open file is closed.
LEMMA RingLatches ==
    ASSUME FilesInv, LatchesOnhook
    PROVE  RingOK /\ EvidenceOK
<1> DEFINE s == Append(ring.closed, ring.open)
<1>1. /\ seg' = [seg EXCEPT !.late = FALSE] /\ faults' = faults /\ engine' = engine
      /\ loop' = [loop EXCEPT !.pending = Head(events), !.sealed = TRUE]
      /\ \/ ring' = ring
         \/ ring.on = "on" /\ ring' = [on |-> "sealed", closed |-> s, open |-> {}]
  BY Zenon DEF LatchesOnhook, Sealed, Seals
<1>2. /\ s \in Seq(Files) /\ Len(s) = Len(ring.closed) + 1
      /\ Held(s) = Held(ring.closed) \cup ring.open
  BY RingIs, FilesHold
<1> HIDE DEF s
<1>3. seg' \in Fetchings
  BY <1>1, RingIs, Zenon DEF Fetchings
<1>4. seg'.at = seg.at /\ seg'.left = seg.left
  BY <1>1, RingIs, SMT DEF Fetchings
<1>5. loop'.call = loop.call
  BY <1>1, RingIs, SMT DEF Loops
<1>6. CASE ring' = ring
  <2>1. OnDut' = OnDut
    BY <1>6 DEF OnDut
  <2>2. EvidenceOK
    BY <1>5, <2>1, Zenon DEF EvidenceOK
  <2> QED
    BY <1>1, <1>3, <1>4, <1>6, <2>2 DEF FilesInv, RingOK, RingInv, LeftInv, TypeOK
<1>7. CASE ring.on = "on" /\ ring' = [on |-> "sealed", closed |-> s, open |-> {}]
  <2>1. ring' \in Rings /\ ring'.on = "sealed" /\ ring'.closed = s /\ ring'.open = {}
    BY <1>2, <1>7, RingIs DEF Rings
  <2>2. Len(s) <= MaxFiles + 1
    <3>1. Len(ring.closed) <= MaxFiles /\ Len(ring.closed) \in Nat
      BY <1>7, RingIs DEF FilesInv, RingInv
    <3> QED
      BY <1>2, <3>1, Times, SMT
  <2>3. RingInv' /\ LeftInv'
    BY <1>1, <1>4, <1>7, <2>1 DEF FilesInv, RingInv, LeftInv
  <2>4. EvidenceOK
    BY <1>2, <1>5, <2>1, Zenon DEF EvidenceOK, OnDut, Held
  <2> QED
    BY <1>1, <1>3, <2>1, <2>2, <2>3, <2>4 DEF FilesInv, RingOK, TypeOK
<1> QED
  BY <1>1, <1>6, <1>7

\* A pick-up touches neither the files nor the call.
LEMMA RingHears ==
    ASSUME FilesInv, HearsOffhook
    PROVE  RingOK /\ EvidenceOK
<1>1. /\ ring' = ring /\ seg' = seg /\ faults' = faults /\ engine' = engine
      /\ loop' = [loop EXCEPT !.pending = 0,
                              !.lastoff = IF Head(events) > @ THEN Head(events) ELSE @]
  BY DEF HearsOffhook
<1>2. loop'.call = loop.call
  BY <1>1, RingIs, SMT DEF Loops
<1> QED
  BY <1>1, <1>2, RingRests

\* A fetch that is started: of a producer to be started, or of its files.
LEMMA Spawned ==
    ASSUME FilesInv, NEW r, NEW b \in BOOLEAN, NEW n \in Nat, NEW p, seg' = Spawn(r, b, n, p)
    PROVE  /\ seg' \in Fetchings /\ seg'.at # "done" /\ (seg'.at = "starting" => r.on = "none")
<1>1. seg' = [at |-> IF engine = "ring" /\ r.on = "none" THEN "starting" ELSE "wait",
              final |-> b, since |-> n, late |-> p # 0, got |-> {}, left |-> 0]
  BY DEF Spawn, Fetch
<1> QED
  BY <1>1, RingIs, SMT DEF Fetchings

\* The ring is kept or removed with its files, and another fetch is started.
LEMMA RingSpawns ==
    ASSUME FilesInv, ring' \in {Gone, ring}, engine' = engine, faults' \in 0 .. MaxFault,
           NEW r \in {ring, ring'}, NEW b \in BOOLEAN, NEW n \in Nat, NEW p,
           seg' = Spawn(r, b, n, p)
    PROVE  RingOK
<1>1. seg' \in Fetchings /\ seg'.at # "done" /\ (seg'.at = "starting" => r.on = "none")
  BY Spawned
<1>2. Gone \in Rings /\ Gone.on = "none" /\ Gone.closed = <<>> /\ Gone.open = {}
  BY RingIs DEF Gone, Rings
<1>3. RingInv'
  BY <1>1, <1>2 DEF FilesInv, RingInv
<1>4. LeftInv'
  BY <1>1 DEF LeftInv
<1>5. Len(ring'.closed) <= MaxFiles + 1
  <2>1. Len(<<>>) <= MaxFiles + 1
    BY RingIs, Times, SMT
  <2> QED
    BY <1>2, <2>1 DEF FilesInv, TypeOK
<1> QED
  BY <1>1, <1>3, <1>4, <1>5 DEF RingOK

\* A fetch that is done.  The call of a ring is ended with nothing left on the DUT.
LEMMA RingDone ==
    ASSUME FilesInv, WatchInv, FetchDone
    PROVE  RingOK /\ EvidenceOK
<1>0. PICK c \in Bindings : \E d \in {c, 0} :
            /\ IF d = c THEN UNCHANGED faults ELSE faults < MaxFault /\ faults' = faults + 1
            /\ \/ FetchesOn(Bound(d)) \/ Drains(Bound(d))
               \/ EndsCall(Bound(d)) \/ EndsActivity(Bound(d))
  BY Zenon DEF FetchDone
<1>1. PICK d \in {c, 0} :
            /\ IF d = c THEN UNCHANGED faults ELSE faults < MaxFault /\ faults' = faults + 1
            /\ \/ FetchesOn(Bound(d)) \/ Drains(Bound(d))
               \/ EndsCall(Bound(d)) \/ EndsActivity(Bound(d))
  BY <1>0
<1> DEFINE b == Bound(d)
<1>2. /\ IsBound(b) /\ TypeOK /\ OneInv /\ st \in Listening /\ seg.at = "done"
      /\ engine' = engine
  BY BoundOne DEF FetchDone, WatchInv, dut
<1>3. faults' \in 0 .. MaxFault
  <2>1. faults \in 0 .. MaxFault
    BY <1>2 DEF TypeOK
  <2>2. faults' = faults \/ (faults < MaxFault /\ faults' = faults + 1)
    BY <1>1, Zenon
  <2> QED
    BY <2>1, <2>2, Times, SMT
<1>4. FetchesOn(b) \/ Drains(b) \/ EndsCall(b) \/ EndsActivity(b)
  BY <1>1
<1> HIDE DEF b
<1>5. Newest \in Nat /\ 0 \in Nat /\ TRUE \in BOOLEAN /\ FALSE \in BOOLEAN
  BY <1>2, NewestOne
<1>6. ASSUME NEW s, NEW call, NEW p, Continue(s, call, p)
      PROVE  /\ ring' \in {Gone, ring}
             /\ (call # 0 \/ engine # "ring" \/ s = "OVER") => ring' = ring
             /\ loop'.call = call
  BY <1>6 DEF Continue, After, Restarts, StopsRing
<1>7. CASE FetchesOn(b) \/ Drains(b)
  <2>1. Continue(b.st, b.call, 0) \/ Continue(b.st, b.call, loop.pending)
    BY <1>7 DEF FetchesOn, Drains
  <2>2. \/ seg' = Spawn(ring', FALSE, Newest, 0)
        \/ seg' = Spawn(ring, TRUE, Newest, loop.pending)
    BY <1>7 DEF FetchesOn, Drains
  <2>3. ring' \in {Gone, ring} /\ loop'.call = b.call /\ (b.call # 0 => ring' = ring)
    BY <1>6, <2>1
  <2>4. RingOK
    BY <1>2, <1>3, <1>5, <2>2, <2>3, RingSpawns
  <2>5. EvidenceOK
    <3> SUFFICES ASSUME loop.call # 0
                 PROVE  OnDut \subseteq OnDut' /\ loop'.call # 0
      BY Zenon DEF EvidenceOK
    <3>1. b.call # 0
      BY <1>2 DEF IsBound
    <3> QED
      BY <2>3, <3>1 DEF OnDut
  <2> QED
    BY <2>4, <2>5
<1>8. CASE EndsCall(b)
  <2>1. /\ seg.left = 0
        /\ \/ Continue("WATCHING", 0, 0) /\ seg' = Spawn(ring', FALSE, 0, 0)
           \/ Continue("OVER", 0, 0) /\ seg' = seg
    BY <1>8 DEF EndsCall, MustDrain, IsFinal
  <2>2. ring' \in {Gone, ring} /\ (engine # "ring" => ring' = ring)
    BY <1>6, <2>1
  <2>3. RingOK
    <3>1. CASE Continue("WATCHING", 0, 0) /\ seg' = Spawn(ring', FALSE, 0, 0)
      BY <1>2, <1>3, <1>5, <2>2, <3>1, RingSpawns
    <3>2. CASE Continue("OVER", 0, 0) /\ seg' = seg
      <4>1. ring' = ring
        BY <1>6, <3>2
      <4> QED
        BY <1>2, <1>3, <3>2, <4>1, RingIs DEF FilesInv, RingOK, RingInv, LeftInv, TypeOK
    <3> QED
      BY <2>1, <3>1, <3>2
  <2>4. EvidenceOK
    <3>1. CASE engine = "ring"
      <4>1. ring.closed = <<>> /\ ring.open = {}
        BY <1>2, <2>1, <3>1 DEF FilesInv, LeftInv, RingInv
      <4>2. OnDut = {}
        BY <4>1, RingIs, FilesHold DEF OnDut, Held
      <4> QED
        BY <4>2 DEF EvidenceOK
    <3>2. CASE engine # "ring"
      BY <2>2, <3>2 DEF EvidenceOK, OnDut
    <3> QED
      BY <3>1, <3>2
  <2> QED
    BY <2>3, <2>4
<1>9. CASE EndsActivity(b)
  <2>1. /\ b.call = 0 /\ Continue("WATCHING", 0, 0) /\ seg' = Spawn(ring', FALSE, 0, 0)
    BY <1>9 DEF EndsActivity
  <2>2. ring' \in {Gone, ring}
    BY <1>6, <2>1
  <2>3. RingOK
    BY <1>2, <1>3, <1>5, <2>1, <2>2, RingSpawns
  <2>4. loop.call = 0
    BY <1>2, <2>1 DEF IsBound
  <2> QED
    BY <2>3, <2>4 DEF EvidenceOK
<1> QED
  BY <1>4, <1>7, <1>8, <1>9

\* Every step.
LEMMA RingStep ==
    ASSUME FilesInv, PhoneInv, WatchInv, [Next]_vars
    PROVE  RingOK /\ EvidenceOK
<1>1. CASE PickUp \/ HangUp \/ IgnoresOnhook \/ Closes \/ UNCHANGED vars
  BY <1>1, RingRests DEF PickUp, HangUp, IgnoresOnhook, Closes, vars, dut
<1> QED
  BY <1>1, RingWrites, RingRotates, RingStarts, RingFetches, RingLatches, RingHears, RingDone
     DEF Next, Telephone, FetchStep, ReadStep

-----------------------------------------------------------------------------
(***************************************************************************)
(* The theorems.                                                           *)
(***************************************************************************)
LEMMA Initially == Init => LoopInv
<1> SUFFICES ASSUME Init
             PROVE  LoopInv
  OBVIOUS
<1>1. /\ <<>> \in Seq(1 .. 2 * MaxCycle) /\ <<>> \in Seq(Attempts) /\ <<>> \in Seq(Files)
      /\ DOMAIN <<>> = {} /\ Len(<<>>) = 0
  BY EmptySeq, SMT
<1>2. /\ 0 \in 0 .. MaxCycle /\ 0 \in 0 .. 2 * MaxCycle /\ 0 \in 0 .. MaxFault
      /\ 0 <= MaxFiles /\ 0 <= MaxFiles + 1
  BY Times, SMT
<1>3. phone \in Phones /\ phone.hook = "on"
  BY <1>2 DEF Init, Phones
<1>4. /\ ring \in Rings /\ ring.closed = <<>> /\ ring.open = {}
      /\ ring.on = IF engine = "ring" THEN "none" ELSE "on"
  <2>1. Gone \in Rings
    BY <1>1 DEF Gone, Rings, Files
  <2>2. CASE engine = "ring"
    BY <2>1, <2>2 DEF Init, Gone
  <2>3. CASE engine # "ring"
    <3>1. ring = [Gone EXCEPT !.on = "on"]
      BY <2>3 DEF Init
    <3>2. ring \in Rings
      BY <2>1, <3>1, Zenon DEF Rings
    <3>3. ring.on = "on" /\ ring.closed = Gone.closed /\ ring.open = Gone.open
      BY <2>1, <3>1, SMT DEF Rings
    <3> QED
      BY <2>3, <3>2, <3>3 DEF Gone
  <2> QED
    BY <2>2, <2>3
<1>5. /\ seg = [at |-> IF engine = "ring" THEN "starting" ELSE "wait", final |-> FALSE,
                since |-> 0, late |-> FALSE, got |-> {}, left |-> 0]
  BY DEF Init, Fetch
<1>6. seg \in Fetchings
  BY <1>5, SMT DEF Fetchings, Files
<1>7. loop \in Loops /\ loop.call = 0
  BY <1>2 DEF Init, Loops
<1>8. Active = {}
  BY <1>1 DEF Init, Active
<1>9. st = "WATCHING" /\ "WATCHING" \in Listening /\ att = <<>> /\ recorded = {}
      /\ events = <<>> /\ faults = 0
  BY DEF Init, Listening
<1>10. TypeOK
  BY <1>1, <1>2, <1>3, <1>4, <1>6, <1>7, <1>9
     DEF TypeOK, Phones, Rings, Files, Fetchings, Loops, Attempts
<1> QED
  BY <1>1, <1>2, <1>3, <1>4, <1>5, <1>7, <1>8, <1>9, <1>10
     DEF LoopInv, PhoneInv, RingInv, LeftInv, OneInv, OrderInv, EndAnchorFresh

\* Every step preserves the invariant.
LEMMA Inductive == LoopInv /\ [Next]_vars => LoopInv'
<1> SUFFICES ASSUME LoopInv, [Next]_vars
             PROVE  LoopInv'
  OBVIOUS
<1>1. TypeOK /\ PhoneInv /\ FilesInv /\ WatchInv
  BY DEF LoopInv, FilesInv, WatchInv
<1>2. PhoneOK
  BY <1>1, PhoneStep
<1>3. WatchOK
  BY <1>1, WatchStep
<1>4. RingOK
  BY <1>1, RingStep
<1>5. TypeOK'
  <2>1. ring'.on \in {"none", "on", "sealed"} /\ ring'.open \in Files
        /\ ring'.closed \in Seq(Files)
    BY <1>4 DEF RingOK, RingInv, Rings
  <2> QED
    BY <1>2, <1>3, <1>4, <2>1, Zenon
       DEF TypeOK, PhoneOK, WatchOK, RingOK, Phones, Files, Fetchings, Loops, Attempts
<1> QED
  BY <1>2, <1>3, <1>4, <1>5 DEF LoopInv, PhoneOK, WatchOK, RingOK, PhoneInv

\* Every reachable state satisfies the invariant.
THEOREM Invariance == Spec => []LoopInv
BY Initially, Inductive, PTL DEF Spec

\* The variables hold values of their types: a sealed ring has one file more than
\* one that records may have, and no fetch counts less than nothing.
THEOREM Typing == Spec => []TypeOK
<1>1. LoopInv => TypeOK
  BY DEF LoopInv
<1> QED
  BY <1>1, Invariance, PTL

\* The end of an attempt is later than every pick-up the attempt went through
\* (_onhook_precedes_offhook, _latch_first_end_anchor).
THEOREM FreshAnchors == Spec => []EndAnchorFresh
<1>1. LoopInv => EndAnchorFresh
  BY DEF LoopInv
<1> QED
  BY <1>1, Invariance, PTL

\* What the files of a bound call hold leaves the DUT only in a fetch, and the
\* call of a ring is ended when nothing is left there (_watch_real_v11,
\* end_call, stop_segmented_ring).
THEOREM EvidenceKept == Spec => CallEvidenceKept
<1>1. LoopInv /\ [Next]_vars => EvidenceOK
  BY RingStep DEF LoopInv, FilesInv, WatchInv
<1>2. EvidenceOK =>
        [/\ loop.call # 0 => OnDut \subseteq OnDut' \cup seg'.got
         /\ (engine = "ring" /\ loop.call # 0 /\ loop'.call = 0) => OnDut = {}]_vars
  BY Zenon DEF EvidenceOK
<1> QED
  BY <1>1, <1>2, Invariance, PTL DEF Spec, CallEvidenceKept

=============================================================================
