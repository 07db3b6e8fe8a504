-------------------------- MODULE AttemptSessionProofs --------------------------
(***************************************************************************)
(* Proofs about AttemptSession, for any thresholds and timers in the order *)
(* the module assumes, any delay of hook events, and any number of         *)
(* attempts and restarts: the target of a session ran to its end; with no  *)
(* signal in a session that is cleaned up, the cleanup comes after the     *)
(* last attempt; with no signal that is late, one attempt is going on.     *)
(***************************************************************************)
EXTENDS AttemptSession, FiniteSetTheorems, SequenceTheorems, WellFoundedInduction,
        TLAPS

\* What the rows, the sanitizer and the transactions of a handler are.
Starts == 0 .. StartCap
Ends == None .. EndCap
Attempts == [state : AttemptState, fallback : BOOLEAN, start : Starts, end : Ends]
Ages == None .. HookCap
Hooks == [state : {"ONHOOK", "OFFHOOK"}, onhook : Ages, start : Ages,
          rebound : BOOLEAN, held : Ages]
Sessions == [state : Listening \cup AfterTarget, age : 0 .. TimerCap + HookLate,
             target : 0 .. MaxAttempt]
Raws == [phone : {"ONHOOK", "OFFHOOK"}, age : 0 .. HookLate]
ItemTypes == {"PROVISIONAL", "CONFIRMED", "ENDED", "GLITCH", "OTHER", "PROMOTE",
              "ADVANCE", "TIMERS", "BIND", "EVALUATED"}
Items == {i \in [type : ItemTypes, age : Nat] :
             /\ i.type \in {"PROVISIONAL", "ADVANCE"} => i.age <= HookLate
             /\ i.type = "BIND" => i.age <= SignalLate}

-----------------------------------------------------------------------------
(***************************************************************************)
(* The inductive invariant.                                                *)
(***************************************************************************)
Shapes ==
    /\ hook \in Hooks /\ (hook.start = None \/ hook.held = None)
    /\ attempts \in Seq(Attempts) /\ Len(attempts) <= MaxAttempt
    /\ session \in Sessions
    /\ todo \in Seq(Items)
    /\ touched \subseteq DOMAIN attempts
    /\ raw \in Raws

\* An OFFHOOK is applied first, or second after the end of the call before it;
\* unless an attempt is going on that it refines, there is room for its own.
OffhookInv ==
    \A i \in DOMAIN todo : todo[i].type = "PROVISIONAL" =>
        \/ i = 1 /\ (Room \/ Active # {})
        \/ i = 2 /\ Room /\ todo[1].type = "ENDED"

\* The target is an attempt, and there is one from its confirmation on.
TargetInv ==
    /\ session.target \in {0} \cup DOMAIN attempts
    /\ session.state = "WATCHING" => session.target = 0
    /\ session.state = "TARGET_CONFIRMED" => session.target # 0

\* What is over has ended; an attempt that goes on has not.
Ran == {"ENDED", "EVIDENCE_FINALIZING", "EVALUATED"}
RanInv ==
    session.target # 0 /\ session.state \in AfterTarget =>
        attempts[session.target].state \in Ran

EndInv == \A a \in Active : attempts[a].end = None
SingleInv == \A a, b \in Active : a = b

\* The cleanup finds the attempts evaluated, and nothing under way adds one.
Closing == {"CLEANUP", "COMPLETED"}
CleanupInv ==
    session.state \in Closing =>
        /\ \A a \in DOMAIN attempts : attempts[a].state \in DoneState
        /\ \A i \in DOMAIN todo : todo[i].type \notin {"PROVISIONAL", "BIND"}

-----------------------------------------------------------------------------
(***************************************************************************)
(* Largest and smallest.                                                   *)
(***************************************************************************)
\* A set of indices and 0 has a maximum.
LEMMA MaxOfIndices ==
    ASSUME NEW n \in Nat, NEW S \in SUBSET (0 .. n), S # {}
    PROVE  Max(S) \in S /\ \A y \in S : y <= Max(S)
<1> DEFINE R == OpToRel(<, Nat)
<1> DEFINE D == {n - x : x \in S}
<1>1. IsWellFoundedOn(R, Nat)
  BY NatLessThanWellFounded
<1>2. D \subseteq Nat
  BY SMT
<1>3. D # {}
  <2>1. PICK x \in S : TRUE
    OBVIOUS
  <2>2. n - x \in D
    BY <2>1
  <2> QED
    BY <2>2
<1>4. \A d, e \in Nat : e < d => <<e, d>> \in R
  BY DEF OpToRel
<1> HIDE DEF R
<1>5. PICK d \in D : \A e \in D : <<e, d>> \notin R
  <2> HIDE DEF D
  <2> QED
    BY <1>1, <1>2, <1>3, WFMin
<1>6. \A e \in D : ~(e < d)
  <2> HIDE DEF D
  <2> QED
    BY <1>2, <1>4, <1>5
<1>7. PICK x \in S : d = n - x
  BY <1>5
<1>8. \A y \in S : x >= y
  BY <1>6, <1>7
<1> QED
  BY <1>7, <1>8 DEF Max

\* The larger and the smaller of two, and the largest of four.
LEMMA MaxOfTwo ==
    ASSUME NEW a \in Nat, NEW b \in Nat
    PROVE  Max({a, b}) \in Nat /\ a <= Max({a, b}) /\ b <= Max({a, b})
<1> DEFINE x == IF a <= b THEN b ELSE a
<1>1. x \in {a, b} /\ \A y \in {a, b} : x >= y
  BY SMT
<1> QED
  BY <1>1, SMT DEF Max

\* The smaller of two numbers.
LEMMA MinOfTwo ==
    ASSUME NEW a \in Int, NEW b \in Int
    PROVE  Min({a, b}) \in {a, b} /\ Min({a, b}) <= a /\ Min({a, b}) <= b
<1> DEFINE x == IF a <= b THEN a ELSE b
<1>1. x \in {a, b} /\ \A y \in {a, b} : x <= y
  BY SMT
<1> QED
  BY <1>1, SMT DEF Min

\* The largest of four.
LEMMA MaxOfFour ==
    ASSUME NEW a \in Nat, NEW b \in Nat, NEW c \in Nat, NEW d \in Nat
    PROVE  /\ Max({a, b, c, d}) \in Nat
           /\ a <= Max({a, b, c, d}) /\ b <= Max({a, b, c, d})
           /\ c <= Max({a, b, c, d}) /\ d <= Max({a, b, c, d})
<1> DEFINE S == {a, b, c, d}
<1>1. \E x \in S : \A y \in S : x >= y
  <2> DEFINE p == IF a <= b THEN b ELSE a
             q == IF c <= d THEN d ELSE c
             x == IF p <= q THEN q ELSE p
  <2>1. p \in Nat /\ q \in Nat /\ p \in S /\ q \in S /\ a <= p /\ b <= p /\ c <= q /\ d <= q
    BY SMT
  <2> HIDE DEF p, q
  <2>2. x \in S /\ x >= p /\ x >= q /\ x \in Nat
    BY <2>1, SMT
  <2> HIDE DEF x
  <2>3. x >= a /\ x >= b /\ x >= c /\ x >= d
    BY <2>1, <2>2, SMT
  <2> QED
    BY <2>2, <2>3
<1>2. Max(S) \in S /\ \A y \in S : Max(S) >= y
  <2> HIDE DEF S
  <2> QED
    BY <1>1, Zenon DEF Max
<1>3. S \subseteq Nat
  OBVIOUS
<1> QED
  BY <1>2, <1>3, SMT

-----------------------------------------------------------------------------
(***************************************************************************)
(* Ages.                                                                   *)
(***************************************************************************)
LEMMA Caps ==
    /\ HookCap \in Nat /\ HookLate < HookCap
    /\ Past(Rebound) \in 0 .. HookCap /\ Past(FlashMax) \in 0 .. HookCap
    /\ Past(Max({Glitch, Stable})) \in 0 .. HookCap
    /\ StartCap \in Nat /\ HookLate <= StartCap
    /\ EndCap \in Nat /\ TimerCap \in Nat
<1>1. /\ Glitch \in Nat /\ Rebound \in Nat /\ Stable \in Nat /\ FlashMax \in Nat
      /\ HookLate \in Nat /\ SignalLate \in Nat /\ PostTarget \in Nat
      /\ DrainTimeout \in Nat
  BY SessionAssumption
<1> DEFINE M == Max({Glitch, Rebound, Stable, FlashMax})
           G == Max({Glitch, Stable})
<1>2. /\ M \in Nat /\ Glitch <= M /\ Rebound <= M /\ Stable <= M /\ FlashMax <= M
  BY <1>1, MaxOfFour
<1>3. G \in Nat /\ G \in {Glitch, Stable}
  <2>1. G \in Nat
    BY <1>1, MaxOfTwo
  <2>2. \E x \in {Glitch, Stable} : \A y \in {Glitch, Stable} : x >= y
    <3>1. CASE Glitch <= Stable
      BY <1>1, <3>1, SMT
    <3>2. CASE ~(Glitch <= Stable)
      BY <1>1, <3>2, SMT
    <3> QED
      BY <3>1, <3>2
  <2>3. G \in {Glitch, Stable}
    BY <2>2, Zenon DEF Max
  <2> QED
    BY <2>1, <2>3
<1>4. StartCap \in Nat /\ HookLate <= StartCap /\ TimerCap \in Nat
  BY <1>1, MaxOfTwo DEF StartCap, TimerCap
<1>5. HookCap = M + HookLate + 1 /\ Past(Rebound) = Rebound + HookLate + 1
      /\ Past(FlashMax) = FlashMax + HookLate + 1 /\ Past(G) = G + HookLate + 1
  BY DEF HookCap, Past
<1> HIDE DEF M, G
<1>6. EndCap \in Nat
  BY <1>1, SMT DEF EndCap
<1>7. G <= M
  BY <1>2, <1>3
<1>8. HookCap \in Nat /\ HookLate < HookCap
  BY <1>1, <1>2, <1>5, SMT
<1>9. /\ Past(Rebound) \in 0 .. HookCap /\ Past(FlashMax) \in 0 .. HookCap
      /\ Past(G) \in 0 .. HookCap
  BY <1>1, <1>2, <1>3, <1>5, <1>7, <1>8, SMT
<1> QED
  BY <1>4, <1>6, <1>8, <1>9 DEF G

\* The age of an event that is handled late is an age.
LEMMA LateAge ==
    /\ None \in Ages /\ None \in Ends /\ None = -1
    /\ \A l \in 0 .. HookLate : l \in Ages /\ l \in Starts /\ l \in Nat /\ l # None
BY Caps, SessionAssumption, SMT DEF Ages, Ends, Starts, None

\* A capped age stays an age, and one that is not known stays unknown.
LEMMA GrownOlder ==
    ASSUME NEW n \in Nat, NEW cap \in 0 .. n
    PROVE  /\ \A age \in None .. n : Older(age, cap) \in None .. n
           /\ \A age \in 0 .. n : Older(age, cap) \in 0 .. n
           /\ Older(None, cap) = None
           /\ \A age \in 0 .. n : Older(age, cap) # None
<1>1. Older(None, cap) = None
  BY DEF Older
<1>2. ASSUME NEW age \in 0 .. n
      PROVE  Older(age, cap) \in 0 .. n
  <2>1. Min({age + 1, cap}) \in {age + 1, cap} /\ Min({age + 1, cap}) <= cap
    BY MinOfTwo, SMT
  <2>2. age # None
    BY SMT DEF None
  <2>3. Older(age, cap) = Min({age + 1, cap})
    BY <2>2 DEF Older
  <2> QED
    BY <2>1, <2>3, SMT
<1>3. \A age \in None .. n : age = None \/ age \in 0 .. n
  BY SMT DEF None
<1>4. None \in None .. n /\ 0 .. n \subseteq None .. n /\ None \notin 0 .. n
  BY SMT DEF None
<1> QED
  BY <1>1, <1>2, <1>3, <1>4

-----------------------------------------------------------------------------
(***************************************************************************)
(* The attempt that is going on, and the one a signal is given to.         *)
(***************************************************************************)
LEMMA SomeIndex ==
    ASSUME Shapes, NEW S \in SUBSET (DOMAIN attempts)
    PROVE  /\ Max({0} \cup S) \in {0} \cup S
           /\ Max({0} \cup S) = 0 => S = {}
<1> DEFINE n == Len(attempts)
<1>1. attempts \in Seq(Attempts) /\ n \in Nat /\ DOMAIN attempts = 1 .. n
  BY LenProperties DEF Shapes
<1> HIDE DEF n
<1>2. {0} \cup S \in SUBSET (0 .. n) /\ {0} \cup S # {}
  BY <1>1, SMT
<1>3. /\ Max({0} \cup S) \in {0} \cup S
      /\ \A y \in {0} \cup S : y <= Max({0} \cup S)
  BY <1>1, <1>2, MaxOfIndices
<1>4. ASSUME NEW y \in S
      PROVE  y >= 1 /\ y \in Nat
  BY <1>1, SMT
<1>5. Max({0} \cup S) = 0 => S = {}
  BY <1>3, <1>4, SMT
<1> QED
  BY <1>3, <1>5

\* The current attempt is one that is active, if there is one.
LEMMA CurrentOne ==
    ASSUME Shapes
    PROVE  /\ Current \in {0} \cup Active
           /\ Current = 0 => Active = {}
           /\ Active \subseteq DOMAIN attempts
           /\ Current \in DOMAIN attempts \/ Current = 0
<1>1. Active \in SUBSET (DOMAIN attempts)
  BY DEF Active
<1> QED
  BY <1>1, SomeIndex DEF Current

\* The candidate for a label is an attempt, if any covers it.
LEMMA CandidateOne ==
    ASSUME Shapes, NEW l
    PROVE  /\ Candidate(l) \in {0} \cup DOMAIN attempts
           /\ Candidate(l) = 0 => \A a \in DOMAIN attempts : ~Covers(a, l)
<1> DEFINE S == {a \in DOMAIN attempts : Covers(a, l)}
<1>1. S \in SUBSET (DOMAIN attempts)
  OBVIOUS
<1>2. Candidate(l) = Max({0} \cup S)
  BY DEF Candidate
<1>3. Candidate(l) \in {0} \cup S /\ (Candidate(l) = 0 => S = {})
  <2> HIDE DEF S
  <2> QED
    BY <1>1, <1>2, SomeIndex
<1> QED
  BY <1>3

-----------------------------------------------------------------------------
(***************************************************************************)
(* What a step may do to the attempts.  None goes away, what ran to its    *)
(* end or is done with stays so, and one that is going on was so before,   *)
(* or is new and has no end.                                               *)
(***************************************************************************)
Kept ==
    /\ attempts' \in Seq(Attempts)
    /\ Len(attempts') <= MaxAttempt
    /\ DOMAIN attempts \subseteq DOMAIN attempts'
    /\ \A a \in DOMAIN attempts :
        /\ attempts[a].state \in Ran => attempts'[a].state \in Ran
        /\ attempts[a].state \in DoneState => attempts'[a].state \in DoneState
        /\ attempts'[a].state \in ActiveState => attempts[a].state \in ActiveState
        /\ attempts'[a].state \in ActiveState /\ attempts[a].end = None =>
               attempts'[a].end = None
    /\ \A a \in DOMAIN attempts' \ DOMAIN attempts : attempts'[a].end = None
SameLength == Len(attempts') = Len(attempts) /\ DOMAIN attempts' = DOMAIN attempts

\* A step that writes no attempt keeps them.
LEMMA AttemptsUntouched ==
    ASSUME Shapes, attempts' = attempts
    PROVE  Kept /\ SameLength
BY DEF Shapes, Kept, SameLength

\* One attempt written.
Goes(old, new) ==
    /\ old.state \in Ran => new.state \in Ran
    /\ old.state \in DoneState => new.state \in DoneState
    /\ new.state \in ActiveState => old.state \in ActiveState
    /\ new.state \in ActiveState /\ old.end = None => new.end = None
\* A step that writes one attempt as it may go keeps them.
LEMMA AttemptWritten ==
    ASSUME Shapes, NEW a \in DOMAIN attempts, NEW m \in Attempts,
           attempts' = [attempts EXCEPT ![a] = m], Goes(attempts[a], m)
    PROVE  Kept /\ SameLength
<1>1. attempts \in Seq(Attempts) /\ Len(attempts) <= MaxAttempt
  BY DEF Shapes
<1>2. /\ attempts' \in Seq(Attempts) /\ Len(attempts') = Len(attempts)
      /\ DOMAIN attempts' = DOMAIN attempts
  BY <1>1, ExceptSeq
<1>3. attempts'[a] = m /\ \A b \in DOMAIN attempts \ {a} : attempts'[b] = attempts[b]
  BY <1>1
<1> QED
  BY <1>1, <1>2, <1>3, Zenon DEF Kept, SameLength, Goes

\* Its state alone written.
LEMMA StateWritten ==
    ASSUME Shapes, NEW a \in DOMAIN attempts, NEW s \in AttemptState, SetState(a, s),
           /\ attempts[a].state \in Ran => s \in Ran
           /\ attempts[a].state \in DoneState => s \in DoneState
           /\ s \in ActiveState => attempts[a].state \in ActiveState
    PROVE  Kept /\ SameLength
<1> DEFINE m == [attempts[a] EXCEPT !.state = s]
<1>1. attempts[a] \in Attempts
  BY ElementOfSeq DEF Shapes
<1>2. m \in Attempts
  BY <1>1, Zenon DEF Attempts
<1>3. m.state = s /\ m.end = attempts[a].end
  BY <1>1, SMT DEF Attempts
<1>4. attempts' = [attempts EXCEPT ![a] = m]
  BY DEF SetState
<1> HIDE DEF m
<1> QED
  BY <1>2, <1>3, <1>4, AttemptWritten DEF Goes

\* Its end written, and a state that is not active.
LEMMA EndWritten ==
    ASSUME Shapes, NEW a \in Active, NEW s \in {"ENDED", "CLASSIFIED_GLITCH"},
           NEW age \in Nat, End(a, s, age)
    PROVE  Kept /\ SameLength
<1> DEFINE e == Min({age, EndCap})
           m == [attempts[a] EXCEPT !.state = s, !.end = e]
<1>1. a \in DOMAIN attempts /\ attempts[a] \in Attempts /\ attempts[a].state \in ActiveState
  BY ElementOfSeq DEF Shapes, Active, StillActive
<1>2. e \in Ends
  <2>1. e \in {age, EndCap} /\ e <= EndCap /\ EndCap \in Nat
    BY MinOfTwo, Caps
  <2> QED
    BY <2>1, SMT DEF Ends, None
<1> HIDE DEF e
<1>3. s \in AttemptState /\ s \notin ActiveState
  BY DEF AttemptState, DoneState, ActiveState
<1>4. m \in Attempts
  BY <1>1, <1>2, <1>3, Zenon DEF Attempts
<1>5. m.state = s
  BY <1>1, SMT DEF Attempts
<1>6. attempts' = [attempts EXCEPT ![a] = m]
  BY <1>1, Zenon DEF End, e
<1> HIDE DEF m
<1>7. attempts[a].state \notin Ran \cup DoneState
  BY <1>1 DEF ActiveState, Ran, DoneState
<1> QED
  BY <1>1, <1>3, <1>4, <1>5, <1>6, <1>7, AttemptWritten DEF Goes

\* A new one.
LEMMA AttemptAdded ==
    ASSUME Shapes, NEW s \in ActiveState, NEW b \in BOOLEAN, NEW age \in Nat, Room,
           NewAttempt(s, b, age)
    PROVE  /\ Kept /\ Len(attempts') = Len(attempts) + 1
           /\ DOMAIN attempts' = DOMAIN attempts \cup {Len(attempts) + 1}
<1> DEFINE t == Min({age, StartCap})
           m == [state |-> s, fallback |-> b, start |-> t, end |-> None]
<1>1. t \in Starts
  <2>1. StartCap \in Nat /\ age \in Int /\ StartCap \in Int
    BY Caps, SMT
  <2>2. t \in {age, StartCap} /\ t <= StartCap
    BY <2>1, MinOfTwo
  <2> QED
    BY <2>1, <2>2, SMT DEF Starts
<1> HIDE DEF t
<1>2. s \in AttemptState
  BY DEF AttemptState
<1>3. m \in Attempts
  BY <1>1, <1>2, LateAge DEF Attempts
<1>4. m.end = None
  OBVIOUS
<1>5. attempts' = Append(attempts, m)
  BY DEF NewAttempt, t
<1> HIDE DEF m
<1>6. attempts \in Seq(Attempts) /\ Len(attempts) < MaxAttempt /\ Len(attempts) \in Nat
  BY LenProperties DEF Shapes, Room
<1>7. /\ attempts' \in Seq(Attempts) /\ Len(attempts') = Len(attempts) + 1
      /\ \A i \in 1 .. Len(attempts) : attempts'[i] = attempts[i]
      /\ attempts'[Len(attempts) + 1] = m
  BY <1>3, <1>5, <1>6, AppendProperties
<1>8. DOMAIN attempts = 1 .. Len(attempts) /\ DOMAIN attempts' = 1 .. Len(attempts) + 1
  BY <1>6, <1>7, LenProperties
<1>9. DOMAIN attempts' = DOMAIN attempts \cup {Len(attempts) + 1}
  BY <1>6, <1>8, SMT
<1>10. Len(attempts') <= MaxAttempt
  BY <1>6, <1>7, SessionAssumption, SMT
<1> QED
  BY <1>4, <1>7, <1>8, <1>9, <1>10 DEF Kept

\* The attempts grow older together.
LEMMA AttemptsOlder ==
    ASSUME Shapes, Pass
    PROVE  Kept /\ SameLength
<1> DEFINE m(a) == [attempts[a] EXCEPT !.start = Older(@, StartCap),
                                       !.end = Older(@, EndCap)]
<1>1. attempts \in Seq(Attempts) /\ Len(attempts) \in Nat /\ Len(attempts) <= MaxAttempt
      /\ DOMAIN attempts = 1 .. Len(attempts)
  BY LenProperties DEF Shapes
<1>2. ASSUME NEW a \in DOMAIN attempts
      PROVE  /\ m(a) \in Attempts /\ m(a).state = attempts[a].state
             /\ attempts[a].end = None => m(a).end = None
  <2>1. attempts[a] \in Attempts
    BY <1>1, ElementOfSeq
  <2>2. attempts[a].start \in Starts /\ attempts[a].end \in Ends
    BY <2>1, Zenon DEF Attempts
  <2>3. Older(attempts[a].start, StartCap) \in Starts
    <3>1. StartCap \in Nat /\ StartCap \in 0 .. StartCap
      BY Caps, SMT
    <3> QED
      BY <2>2, <3>1, GrownOlder DEF Starts
  <2>4. Older(attempts[a].end, EndCap) \in Ends
    <3>1. EndCap \in Nat /\ EndCap \in 0 .. EndCap
      BY Caps, SMT
    <3> QED
      BY <2>2, <3>1, GrownOlder DEF Ends
  <2>5. m(a) \in Attempts
    BY <2>1, <2>3, <2>4, Zenon DEF Attempts
  <2>6. m(a).state = attempts[a].state /\ m(a).end = Older(attempts[a].end, EndCap)
    BY <2>1, SMT DEF Attempts
  <2> QED
    BY <2>5, <2>6 DEF Older
<1>3. attempts' = [a \in DOMAIN attempts |-> m(a)]
  BY Zenon DEF Pass
<1> HIDE DEF m
<1>4. attempts' \in Seq(Attempts) /\ Len(attempts') = Len(attempts)
      /\ DOMAIN attempts' = DOMAIN attempts
  <2>1. attempts' \in [1 .. Len(attempts) -> Attempts]
    BY <1>1, <1>2, <1>3
  <2> QED
    BY <1>1, <1>3, <2>1, LenProperties, SeqDef
<1>5. \A a \in DOMAIN attempts : attempts'[a] = m(a)
  BY <1>3
<1> QED
  BY <1>1, <1>2, <1>4, <1>5 DEF Kept, SameLength

\* The attempts a handler confirmed are verified together.
LEMMA AttemptsPromoted ==
    ASSUME Shapes, PromoteConfirmed
    PROVE  Kept /\ SameLength
<1> DEFINE m(a) == [attempts[a] EXCEPT !.state = "DATA_PLANE_VERIFYING"]
           n(a) == IF a \in touched /\ attempts[a].state = "CONFIRMED" THEN m(a)
                   ELSE attempts[a]
<1>1. attempts \in Seq(Attempts) /\ Len(attempts) \in Nat /\ Len(attempts) <= MaxAttempt
      /\ DOMAIN attempts = 1 .. Len(attempts)
  BY LenProperties DEF Shapes
<1>2. ASSUME NEW a \in DOMAIN attempts
      PROVE  n(a) \in Attempts /\ Goes(attempts[a], n(a))
  <2>1. attempts[a] \in Attempts
    BY <1>1, ElementOfSeq
  <2>2. "DATA_PLANE_VERIFYING" \in AttemptState
    BY DEF AttemptState, ActiveState
  <2>3. m(a) \in Attempts
    BY <2>1, <2>2, Zenon DEF Attempts
  <2>4. m(a).state = "DATA_PLANE_VERIFYING" /\ m(a).end = attempts[a].end
    BY <2>1, SMT DEF Attempts
  <2> HIDE DEF m
  <2>5. CASE a \in touched /\ attempts[a].state = "CONFIRMED"
    BY <2>3, <2>4, <2>5 DEF Goes, Ran, DoneState, ActiveState
  <2>6. CASE ~(a \in touched /\ attempts[a].state = "CONFIRMED")
    BY <2>1, <2>6 DEF Goes
  <2> QED
    BY <2>5, <2>6
<1>3. attempts' = [a \in DOMAIN attempts |-> n(a)]
  BY Zenon DEF PromoteConfirmed
<1> HIDE DEF m, n
<1>4. attempts' \in Seq(Attempts) /\ Len(attempts') = Len(attempts)
      /\ DOMAIN attempts' = DOMAIN attempts
  <2>1. attempts' \in [1 .. Len(attempts) -> Attempts]
    BY <1>1, <1>2, <1>3
  <2> QED
    BY <1>1, <1>3, <2>1, LenProperties, SeqDef
<1>5. \A a \in DOMAIN attempts : attempts'[a] = n(a)
  BY <1>3
<1> QED
  BY <1>1, <1>2, <1>4, <1>5, Zenon DEF Kept, SameLength, Goes

-----------------------------------------------------------------------------
(***************************************************************************)
(* The sanitizer: its ages stay ages, and it never has a candidate and a   *)
(* held hang-up at once.                                                   *)
(***************************************************************************)
HookOK == hook' \in Hooks /\ (hook'.start = None \/ hook'.held = None)

\* Its next values, from the fields.
LEMMA HookWritten ==
    ASSUME NEW s \in {"ONHOOK", "OFFHOOK"}, NEW o \in Ages, NEW t \in Ages,
           NEW r \in BOOLEAN, NEW h \in Ages, t = None \/ h = None,
           hook' = [state |-> s, onhook |-> o, start |-> t, rebound |-> r, held |-> h]
    PROVE  HookOK
BY SMT DEF HookOK, Hooks

\* The sanitizer as a record of its fields.
LEMMA HookFields ==
    ASSUME Shapes
    PROVE  /\ hook = [state |-> hook.state, onhook |-> hook.onhook, start |-> hook.start,
                      rebound |-> hook.rebound, held |-> hook.held]
           /\ hook.state \in {"ONHOOK", "OFFHOOK"} /\ hook.onhook \in Ages
           /\ hook.start \in Ages /\ hook.rebound \in BOOLEAN /\ hook.held \in Ages
           /\ hook.start = None \/ hook.held = None
BY SMT DEF Shapes, Hooks

\* A hook nobody touches stays sound.
LEMMA HookSame ==
    ASSUME Shapes, hook' = hook
    PROVE  HookOK
BY DEF Shapes, HookOK

\* A pulse that is over, as a bounce, a flash or a rebound.
LEMMA HookPulse ==
    ASSUME Shapes, NEW l \in 0 .. HookLate,
           OffhookBounce(l) \/ OffhookFlash(l) \/ OnhookRebound(l)
    PROVE  HookOK
<1>1. hook' \in { [hook EXCEPT !.held = None, !.state = "OFFHOOK"],
                  [hook EXCEPT !.start = None, !.state = "ONHOOK"] }
  BY Zenon DEF OffhookBounce, OffhookFlash, OnhookRebound
<1>2. ASSUME NEW s \in {"ONHOOK", "OFFHOOK"}
      PROVE  /\ [hook EXCEPT !.held = None, !.state = s] \in Hooks
             /\ [hook EXCEPT !.held = None, !.state = s].held = None
             /\ [hook EXCEPT !.start = None, !.state = s] \in Hooks
             /\ [hook EXCEPT !.start = None, !.state = s].start = None
  <2>1. hook \in Hooks
    BY DEF Shapes
  <2> QED
    BY <2>1, LateAge, ZenonT(30) DEF Hooks
<1>3. "ONHOOK" \in {"ONHOOK", "OFFHOOK"} /\ "OFFHOOK" \in {"ONHOOK", "OFFHOOK"}
  OBVIOUS
<1> QED
  BY <1>1, <1>2, <1>3, Zenon DEF HookOK

\* A new call, or a candidate for one.
LEMMA HookCandidate ==
    ASSUME Shapes, NEW l \in 0 .. HookLate, OffhookNewCall(l) \/ OffhookCandidate(l)
    PROVE  HookOK
<1>1. l \in Ages /\ None \in Ages
  BY LateAge
<1>2. CASE OffhookNewCall(l)
  <2>1. MayRebound(hook.held, l) \in BOOLEAN
    BY DEF MayRebound
  <2>2. hook' = [state |-> "ONHOOK", onhook |-> hook.held, start |-> l,
                 rebound |-> MayRebound(hook.held, l), held |-> None]
    BY <1>2 DEF OffhookNewCall, NextCall
  <2>3. hook.held \in Ages /\ "ONHOOK" \in {"ONHOOK", "OFFHOOK"}
    BY HookFields
  <2> HIDE DEF MayRebound
  <2> QED
    BY <1>1, <2>1, <2>2, <2>3, HookWritten
<1>3. CASE OffhookCandidate(l)
  <2> DEFINE r == MayRebound(hook.onhook, l)
  <2>1. r \in BOOLEAN
    BY DEF MayRebound
  <2>2. hook' = [hook EXCEPT !.start = l, !.rebound = r] /\ hook.held = None
    BY <1>3 DEF OffhookCandidate
  <2> HIDE DEF r
  <2>3. hook \in Hooks
    BY DEF Shapes
  <2>4. hook' \in Hooks
    BY <1>1, <2>1, <2>2, <2>3, ZenonT(30) DEF Hooks
  <2>5. hook'.held = None
    BY <2>2, <2>3, SMT DEF Hooks
  <2> QED
    BY <2>4, <2>5 DEF HookOK
<1> QED
  BY <1>2, <1>3

\* A confirmed candidate.
LEMMA HookConfirmed ==
    ASSUME Shapes, hook' = Confirmed
    PROVE  HookOK
<1>1. hook \in Hooks /\ None \in Ages /\ "OFFHOOK" \in {"ONHOOK", "OFFHOOK"}
  BY LateAge DEF Shapes
<1>2. hook' \in Hooks
  BY <1>1, ZenonT(30) DEF Hooks, Confirmed
<1>3. hook'.start = None
  BY <1>1, SMT DEF Hooks, Confirmed
<1> QED
  BY <1>2, <1>3 DEF HookOK

\* A hang-up: repeated, after a short call, held back, or an end.
LEMMA HookOnhook ==
    ASSUME Shapes, NEW l \in 0 .. HookLate,
           OnhookDuplicate(l) \/ OnhookShortCall(l) \/ OnhookHeld(l) \/ OnhookEnd(l)
    PROVE  HookOK
<1>1. /\ hook \in Hooks /\ None \in Ages /\ l \in Ages
      /\ "ONHOOK" \in {"ONHOOK", "OFFHOOK"} /\ (hook.start = None \/ hook.held = None)
  BY LateAge DEF Shapes
<1>2. CASE OnhookDuplicate(l)
  <2>1. CASE hook.held # None
    BY <1>2, <2>1, HookSame DEF OnhookDuplicate
  <2>2. CASE hook.held = None
    <3>1. hook' = [hook EXCEPT !.onhook = l]
      BY <1>2, <2>2 DEF OnhookDuplicate
    <3>2. hook' \in Hooks
      BY <1>1, <3>1, ZenonT(30) DEF Hooks
    <3>3. hook'.held = hook.held
      BY <1>1, <3>1, SMT DEF Hooks
    <3> QED
      BY <2>2, <3>2, <3>3 DEF HookOK
  <2> QED
    BY <2>1, <2>2
<1>3. CASE OnhookShortCall(l)
  <2>1. hook' = [hook EXCEPT !.start = None, !.state = "ONHOOK", !.onhook = l]
    BY <1>3 DEF OnhookShortCall
  <2>2. hook' \in Hooks
    BY <1>1, <2>1, ZenonT(30) DEF Hooks
  <2>3. hook'.start = None
    BY <1>1, <2>1, SMT DEF Hooks
  <2> QED
    BY <2>2, <2>3 DEF HookOK
<1>4. CASE OnhookHeld(l)
  <2>1. hook' = [hook EXCEPT !.held = l] /\ hook.start = None
    BY <1>4 DEF OnhookHeld
  <2>2. hook' \in Hooks
    BY <1>1, <2>1, ZenonT(30) DEF Hooks
  <2>3. hook'.start = None
    BY <1>1, <2>1, SMT DEF Hooks
  <2> QED
    BY <2>2, <2>3 DEF HookOK
<1>5. CASE OnhookEnd(l)
  <2>1. hook' = [hook EXCEPT !.state = "ONHOOK", !.onhook = l] /\ hook.start = None
    BY <1>5 DEF OnhookEnd
  <2>2. hook' \in Hooks
    BY <1>1, <2>1, ZenonT(30) DEF Hooks
  <2>3. hook'.start = None
    BY <1>1, <2>1, SMT DEF Hooks
  <2> QED
    BY <2>2, <2>3 DEF HookOK
<1> QED
  BY <1>2, <1>3, <1>4, <1>5

\* A tick confirms, flushes, or leaves it.
LEMMA HookTick ==
    ASSUME Shapes, Tick
    PROVE  HookOK
<1> DEFINE flushed == [hook EXCEPT !.held = None, !.state = "ONHOOK",
                                   !.onhook = hook.held]
<1>1. hook' \in {Confirmed, flushed, hook}
  BY SMT DEF Tick
<1>2. /\ hook \in Hooks /\ None \in Ages /\ "ONHOOK" \in {"ONHOOK", "OFFHOOK"}
  BY LateAge DEF Shapes
<1>3. hook.held \in Ages
  BY <1>2, SMT DEF Hooks
<1>4. flushed \in Hooks
  BY <1>2, <1>3, ZenonT(30) DEF Hooks
<1>5. flushed.held = None
  BY <1>2, SMT DEF Hooks
<1> HIDE DEF flushed
<1> QED
  BY <1>1, <1>4, <1>5, HookSame, HookConfirmed DEF HookOK

\* Time passes.
LEMMA HookPass ==
    ASSUME Shapes, Pass
    PROVE  HookOK
<1> DEFINE o == Older(hook.onhook, Past(Rebound))
           t == Older(hook.start, Past(Max({Glitch, Stable})))
           h == Older(hook.held, Past(FlashMax))
<1>1. hook' = [hook EXCEPT !.onhook = o, !.start = t, !.held = h]
  BY Zenon DEF Pass
<1>2. hook \in Hooks /\ (hook.start = None \/ hook.held = None)
  BY DEF Shapes
<1>3. hook.onhook \in Ages /\ hook.start \in Ages /\ hook.held \in Ages
  BY HookFields
<1>4. o \in Ages /\ t \in Ages /\ h \in Ages
  BY <1>3, Caps, GrownOlder DEF Ages
<1>5. (hook.start = None => t = None) /\ (hook.held = None => h = None)
  BY DEF Older
<1> HIDE DEF o, t, h
<1>6. hook' \in Hooks
  BY <1>1, <1>2, <1>4, ZenonT(60) DEF Hooks
<1>7. hook'.start = t /\ hook'.held = h
  BY <1>1, <1>2, SMT DEF Hooks
<1> QED
  BY <1>2, <1>5, <1>6, <1>7 DEF HookOK

\* Every step keeps the hook sound.
LEMMA HookStep ==
    ASSUME Shapes, [Next]_vars
    PROVE  HookOK
<1>1. CASE HookEvent
  <2>1. PICK l \in 0 .. HookLate :
            \/ OffhookBounce(l) \/ OffhookFlash(l) \/ OffhookNewCall(l)
            \/ OffhookDuplicate(l) \/ OffhookCandidate(l) \/ Dtmf(l)
            \/ OnhookDuplicate(l) \/ OnhookRebound(l) \/ OnhookShortCall(l)
            \/ OnhookHeld(l) \/ OnhookEnd(l)
    BY <1>1 DEF HookEvent
  <2>2. CASE OffhookDuplicate(l)
    BY <2>2, HookSame DEF OffhookDuplicate
  <2>3. CASE Dtmf(l)
    BY <2>3, HookSame, HookConfirmed DEF Dtmf, Confirm
  <2> QED
    BY <2>1, <2>2, <2>3, HookPulse, HookCandidate, HookOnhook
<1>2. CASE Restart
  <2>1. NoHook = [state |-> "ONHOOK", onhook |-> None, start |-> None,
                  rebound |-> FALSE, held |-> None]
    BY DEF NoHook
  <2>2. "ONHOOK" \in {"ONHOOK", "OFFHOOK"} /\ FALSE \in BOOLEAN
    OBVIOUS
  <2> QED
    BY <1>2, <2>1, <2>2, LateAge, HookWritten DEF Restart
<1>3. CASE \E l \in 0 .. SignalLate : Signal(l)
  BY <1>3, HookSame, HookConfirmed DEF Signal, Confirm
<1>4. CASE UNCHANGED hook
  BY <1>4, HookSame
<1>5. CASE Work
  BY <1>4, <1>5 DEF Work, ApplyProvisional, ApplyConfirmed, ApplyEnd, ApplyOther,
     PromoteConfirmed, AdvancePostTarget, AdvanceTimers, Bind, MarkEvaluated
<1>6. CASE Caller
  BY <1>3, <1>4, <1>6 DEF Caller, MarkTargetConfirmed, FinalizeAttempt,
     BeginEvidenceDrain, BeginCoverageFinalizing, BeginCleanup, CompleteFromCleanup,
     memory
<1>7. CASE EvidenceDurable \/ CleanupRun \/ UNCHANGED vars
  BY <1>4, <1>7 DEF EvidenceDurable, CleanupRun, vars, memory
<1> QED
  BY <1>1, <1>2, <1>5, <1>6, <1>7, HookTick, HookPass DEF Next

-----------------------------------------------------------------------------
(***************************************************************************)
(* The transactions of a handler.  Most handlers neither apply an OFFHOOK  *)
(* nor bind a signal.                                                      *)
(***************************************************************************)
Quiet == {i \in Items : i.type \notin {"PROVISIONAL", "BIND"}}

\* A transaction of a type at an age.
LEMMA ItemIs ==
    ASSUME NEW t \in ItemTypes, NEW age \in Nat,
           t \in {"PROVISIONAL", "ADVANCE"} => age <= HookLate,
           t = "BIND" => age <= SignalLate
    PROVE  /\ Item(t, age) \in Items /\ Item(t, age).type = t /\ Item(t, age).age = age
           /\ t \notin {"PROVISIONAL", "BIND"} => Item(t, age) \in Quiet
BY DEF Item, Items, Quiet

\* Those that end every handler.
LEMMA Endings ==
    /\ Promote \in Quiet /\ Timers \in Quiet
    /\ \A l \in 0 .. HookLate : Advance(l) \in Quiet
<1>1. 0 \in Nat /\ \A l \in 0 .. HookLate : l \in Nat /\ l <= HookLate
  BY SessionAssumption, SMT
<1>2. {"PROMOTE", "TIMERS", "ADVANCE"} \subseteq ItemTypes
  BY DEF ItemTypes
<1>3. Promote \in Quiet
  BY <1>1, <1>2, ItemIs DEF Promote
<1>4. Timers \in Quiet
  BY <1>1, <1>2, ItemIs DEF Timers
<1>5. ASSUME NEW l \in 0 .. HookLate
      PROVE  Advance(l) \in Quiet
  BY <1>1, <1>2, ItemIs DEF Advance
<1> QED
  BY <1>3, <1>4, <1>5

\* Short sequences of them.
LEMMA QuietSeq ==
    /\ <<>> \in Seq(Quiet)
    /\ \A x \in Quiet : <<x>> \in Seq(Quiet)
    /\ \A x, y \in Quiet : <<x, y>> \in Seq(Quiet)
    /\ \A x, y, z \in Quiet : <<x, y, z>> \in Seq(Quiet)
    /\ \A s, t \in Seq(Quiet) : s \o t \in Seq(Quiet)
<1>1. <<>> \in Seq(Quiet)
  BY EmptySeq
<1>2. \A s, t \in Seq(Quiet) : s \o t \in Seq(Quiet)
  BY ConcatProperties
<1> QED
  BY <1>1, <1>2, SMT

\* A confirmation on the way.
LEMMA QuietConfirmation ==
    ASSUME Shapes
    PROVE  Confirmation \in Seq(Quiet)
<1>1. CASE hook.start = None
  BY <1>1, QuietSeq DEF Confirmation
<1>2. CASE hook.start # None
  <2>1. hook.start \in Ages /\ HookCap \in Nat
    BY HookFields, Caps
  <2>2. hook.start \in Nat
    BY <1>2, <2>1, SMT DEF Ages, None
  <2>3. "CONFIRMED" \in ItemTypes
    BY DEF ItemTypes
  <2>4. Item("CONFIRMED", hook.start) \in Quiet
    BY <2>2, <2>3, ItemIs
  <2> QED
    BY <1>2, <2>4, QuietSeq DEF Confirmation
<1> QED
  BY <1>1, <1>2

\* The transactions a hook event appends to its own.
LEMMA Acted ==
    ASSUME Shapes, NEW l \in 0 .. HookLate, NEW kind, Event(kind, l),
           NEW items \in Seq(Quiet), Act(items)
    PROVE  todo' \in Seq(Quiet)
<1>1. raw'.age = l
  BY DEF Event
<1>2. Promote \in Quiet /\ Advance(l) \in Quiet
  BY Endings
<1>3. todo' = items \o <<Promote, Advance(l)>>
  BY <1>1 DEF Act
<1> QED
  BY <1>2, <1>3, QuietSeq

\* The hook events that only end, confirm or name an attempt.
LEMMA QuietEvents ==
    ASSUME Shapes, NEW l \in 0 .. HookLate,
           \/ OffhookBounce(l) \/ OffhookFlash(l) \/ OffhookDuplicate(l) \/ Dtmf(l)
           \/ OnhookDuplicate(l) \/ OnhookRebound(l) \/ OnhookShortCall(l)
           \/ OnhookHeld(l) \/ OnhookEnd(l)
    PROVE  todo' \in Seq(Quiet)
<1>1. l \in Nat
  BY SessionAssumption, SMT
<1>2. {"GLITCH", "OTHER", "CONFIRMED", "ENDED"} \subseteq ItemTypes
  BY DEF ItemTypes
<1>3. /\ Item("GLITCH", l) \in Quiet /\ Item("OTHER", l) \in Quiet
      /\ Item("ENDED", l) \in Quiet
  BY <1>1, <1>2, ItemIs
<1>4. /\ <<Item("GLITCH", l)>> \in Seq(Quiet) /\ <<Item("OTHER", l)>> \in Seq(Quiet)
      /\ <<Item("ENDED", l)>> \in Seq(Quiet) /\ <<>> \in Seq(Quiet)
  BY <1>3, QuietSeq
<1>5. Confirmation \in Seq(Quiet)
  BY QuietConfirmation
<1>6. CASE OffhookBounce(l)
  BY <1>4, <1>6, Acted DEF OffhookBounce
<1>7. CASE OffhookFlash(l)
  BY <1>4, <1>7, Acted DEF OffhookFlash
<1>8. CASE OffhookDuplicate(l)
  BY <1>4, <1>8, Acted DEF OffhookDuplicate
<1>9. CASE Dtmf(l)
  <2>1. Confirmation \o <<Item("OTHER", l)>> \in Seq(Quiet)
    BY <1>4, <1>5, QuietSeq
  <2> QED
    BY <1>9, <2>1, Acted DEF Dtmf
<1>10. CASE OnhookDuplicate(l)
  BY <1>4, <1>10, Acted DEF OnhookDuplicate
<1>11. CASE OnhookRebound(l)
  BY <1>4, <1>11, Acted DEF OnhookRebound
<1>12. CASE OnhookShortCall(l)
  <2>1. hook.start # None
    BY <1>12 DEF OnhookShortCall
  <2>2. hook.start \in Nat
    BY <2>1, HookFields, Caps, SMT DEF Ages, None
  <2>3. Item("CONFIRMED", hook.start) \in Quiet
    BY <1>2, <2>2, ItemIs
  <2>4. <<Item("CONFIRMED", hook.start), Item("ENDED", l)>> \in Seq(Quiet)
    BY <1>3, <2>3, QuietSeq
  <2> QED
    BY <1>12, <2>4, Acted DEF OnhookShortCall
<1>13. CASE OnhookHeld(l)
  BY <1>4, <1>13, Acted DEF OnhookHeld
<1>14. CASE OnhookEnd(l)
  BY <1>4, <1>14, Acted DEF OnhookEnd
<1> QED
  BY <1>6, <1>7, <1>8, <1>9, <1>10, <1>11, <1>12, <1>13, <1>14

\* A tick confirms, ends, promotes and looks at the timers.
LEMMA QuietTick ==
    ASSUME Shapes, Tick
    PROVE  todo' \in Seq(Quiet)
<1> DEFINE c == IF hook.start # None /\ hook.start >= Stable THEN Confirmation ELSE <<>>
           f == IF FlushDue THEN <<Item("ENDED", hook.held)>> ELSE <<>>
           e == <<Promote, Advance(0), Timers>>
<1>1. todo' = c \o f \o e
  BY DEF Tick
<1>2. c \in Seq(Quiet)
  BY QuietConfirmation, QuietSeq
<1>3. f \in Seq(Quiet)
  <2>1. CASE FlushDue
    <3>1. hook.held \in Nat
      BY <2>1, HookFields, Caps, SMT DEF FlushDue, Ages, None
    <3>2. Item("ENDED", hook.held) \in Quiet
      BY <3>1, ItemIs DEF ItemTypes
    <3> QED
      BY <2>1, <3>2, QuietSeq
  <2>2. CASE ~FlushDue
    BY <2>2, QuietSeq
  <2> QED
    BY <2>1, <2>2
<1>4. e \in Seq(Quiet)
  <2>1. 0 \in 0 .. HookLate
    BY SessionAssumption, SMT
  <2> QED
    BY <2>1, Endings, QuietSeq
<1> HIDE DEF c, f, e
<1> QED
  BY <1>1, <1>2, <1>3, <1>4, QuietSeq

\* One or two transactions.
LEMMA OneOrTwo ==
    ASSUME NEW S, NEW c \in S, NEW d \in S
    PROVE  /\ <<c>> \in Seq(S) /\ Len(<<c>>) = 1 /\ <<c>>[1] = c
           /\ <<c, d>> \in Seq(S) /\ Len(<<c, d>>) = 2
           /\ <<c, d>>[1] = c /\ <<c, d>>[2] = d
BY SMT

\* Two more transactions after some.
LEMMA Joined ==
    ASSUME NEW S, NEW s \in Seq(S), NEW u \in Seq(S), Len(u) = 2
    PROVE  /\ s \o u \in Seq(S) /\ DOMAIN (s \o u) = 1 .. Len(s) + 2
           /\ \A i \in 1 .. Len(s) : (s \o u)[i] = s[i]
           /\ (s \o u)[Len(s) + 1] = u[1] /\ (s \o u)[Len(s) + 2] = u[2]
<1>0. /\ s \o u \in Seq(S) /\ Len(s \o u) = Len(s) + Len(u)
      /\ \A i \in 1 .. Len(s) + Len(u) :
            (s \o u)[i] = IF i <= Len(s) THEN s[i] ELSE u[i - Len(s)]
  BY ConcatProperties
<1> DEFINE t == s \o u
<1> HIDE DEF t
<1>1. /\ t \in Seq(S) /\ Len(t) = Len(s) + 2
      /\ \A i \in 1 .. Len(s) + 2 : t[i] = IF i <= Len(s) THEN s[i] ELSE u[i - Len(s)]
  BY <1>0, Zenon DEF t
<1>2. Len(s) \in Nat /\ DOMAIN t = 1 .. Len(t)
  BY <1>1, LenProperties
<1>3. /\ t \in Seq(S) /\ DOMAIN t = 1 .. Len(s) + 2
      /\ \A i \in 1 .. Len(s) : t[i] = s[i]
      /\ t[Len(s) + 1] = u[1] /\ t[Len(s) + 2] = u[2]
  BY <1>1, <1>2, SMT
<1> QED
  BY <1>3 DEF t

\* An OFFHOOK that is applied: after the end of the call before it, or first.
LEMMA OffhookTodo ==
    ASSUME Shapes, NEW l \in 0 .. HookLate, OffhookNewCall(l) \/ OffhookCandidate(l)
    PROVE  /\ todo' \in Seq(Items)
           /\ \A i \in DOMAIN todo' : todo'[i].type # "BIND"
           /\ \A i \in DOMAIN todo' : todo'[i].type = "PROVISIONAL" =>
                \/ i = 1 /\ (Room \/ Active # {})
                \/ i = 2 /\ Room /\ todo'[1].type = "ENDED"
<1> DEFINE p == Item("PROVISIONAL", l)
           t == Advance(l)
<1>1. p \in Items /\ p.type = "PROVISIONAL"
  BY SessionAssumption, SMT, ItemIs DEF ItemTypes
<1>2. /\ Promote \in Items /\ Promote.type \notin {"PROVISIONAL", "BIND"}
      /\ t \in Items /\ t.type \notin {"PROVISIONAL", "BIND"}
  BY Endings DEF Quiet
<1>3. CASE OffhookNewCall(l)
  <2> DEFINE e == Item("ENDED", hook.held)
  <2>1. hook.held # None /\ Room
    BY <1>3 DEF OffhookNewCall
  <2>2. hook.held \in Nat
    BY <2>1, HookFields, Caps, SMT DEF Ages, None
  <2>3. e \in Items /\ e.type = "ENDED"
    BY <2>2, ItemIs DEF ItemTypes
  <2>4. todo' = <<e, p>> \o <<Promote, t>>
    BY <1>3 DEF OffhookNewCall, Event, Act
  <2> HIDE DEF e, p, t
  <2> DEFINE s == <<e, p>>
             u == <<Promote, t>>
  <2>5. s \in Seq(Items) /\ Len(s) = 2 /\ s[1] = e /\ s[2] = p
    BY <1>1, <2>3, OneOrTwo
  <2>6. /\ todo' = s \o u /\ u \in Seq(Items) /\ Len(u) = 2
        /\ u[1] = Promote /\ u[2] = t
    BY <1>2, <2>4, OneOrTwo
  <2> HIDE DEF s, u
  <2>7. /\ todo' \in Seq(Items) /\ DOMAIN todo' = 1 .. Len(s) + 2
        /\ \A i \in 1 .. Len(s) : todo'[i] = s[i]
        /\ todo'[Len(s) + 1] = Promote /\ todo'[Len(s) + 2] = t
    BY <2>5, <2>6, Joined
  <2>8. /\ todo'[1] = e /\ todo'[2] = p /\ todo'[3] = Promote /\ todo'[4] = t
        /\ DOMAIN todo' = 1 .. 4
    BY <2>5, <2>7, SMT
  <2>9. \A i \in 1 .. 4 : i = 1 \/ i = 2 \/ i = 3 \/ i = 4
    BY SMT
  <2> QED
    BY <1>1, <1>2, <2>1, <2>3, <2>7, <2>8, <2>9
<1>4. CASE OffhookCandidate(l)
  <2>1. Room \/ Active # {}
    BY <1>4, CurrentOne DEF OffhookCandidate
  <2>2. todo' = <<p>> \o <<Promote, t>>
    BY <1>4 DEF OffhookCandidate, Event, Act
  <2> HIDE DEF p, t
  <2> DEFINE s == <<p>>
             u == <<Promote, t>>
  <2>3. s \in Seq(Items) /\ Len(s) = 1 /\ s[1] = p
    BY <1>1, OneOrTwo
  <2>4. /\ todo' = s \o u /\ u \in Seq(Items) /\ Len(u) = 2
        /\ u[1] = Promote /\ u[2] = t
    BY <1>2, <2>2, OneOrTwo
  <2> HIDE DEF s, u
  <2>5. /\ todo' \in Seq(Items) /\ DOMAIN todo' = 1 .. Len(s) + 2
        /\ \A i \in 1 .. Len(s) : todo'[i] = s[i]
        /\ todo'[Len(s) + 1] = Promote /\ todo'[Len(s) + 2] = t
    <3>1. s \in Seq(Items) /\ u \in Seq(Items) /\ Len(u) = 2
      BY <2>3, <2>4
    <3>2. /\ s \o u \in Seq(Items) /\ DOMAIN (s \o u) = 1 .. Len(s) + 2
          /\ \A i \in 1 .. Len(s) : (s \o u)[i] = s[i]
          /\ (s \o u)[Len(s) + 1] = u[1] /\ (s \o u)[Len(s) + 2] = u[2]
      BY <3>1, Joined
    <3> QED
      BY <2>4, <3>2, Zenon
  <2>6. /\ todo'[1] = p /\ todo'[2] = Promote /\ todo'[3] = t
        /\ DOMAIN todo' = 1 .. 3
    BY <2>3, <2>5, SMT
  <2>7. \A i \in 1 .. 3 : i = 1 \/ i = 2 \/ i = 3
    BY SMT
  <2> QED
    BY <1>1, <1>2, <2>1, <2>5, <2>6, <2>7
<1> QED
  BY <1>3, <1>4

\* A signal that is bound.
LEMMA SignalTodo ==
    ASSUME Shapes, NEW l \in 0 .. SignalLate, Signal(l)
    PROVE  /\ todo' \in Seq(Items)
           /\ \A i \in DOMAIN todo' : todo'[i].type # "PROVISIONAL"
<1> DEFINE Silent == {i \in Items : i.type # "PROVISIONAL"}
           c == IF hook.start = None THEN <<>> ELSE Confirmation \o <<Promote>>
           b == Item("BIND", l)
<1>1. Quiet \subseteq Silent
  BY DEF Quiet
<1>2. c \in Seq(Quiet)
  BY QuietConfirmation, Endings, QuietSeq
<1>3. b \in Silent /\ Promote \in Silent
  <2>1. l \in Nat /\ l <= SignalLate
    BY SessionAssumption, SMT
  <2>2. b \in Items /\ b.type = "BIND"
    BY <2>1, ItemIs DEF ItemTypes
  <2> QED
    BY <1>1, <2>2, Endings
<1>4. todo' = c \o <<b, Promote>>
  BY DEF Signal
<1> HIDE DEF b, c, Silent
<1>5. c \in Seq(Silent)
  BY <1>1, <1>2, SMT
<1>6. <<b, Promote>> \in Seq(Silent)
  BY <1>3, SMT
<1>7. todo' \in Seq(Silent)
  BY <1>4, <1>5, <1>6, ConcatProperties
<1>8. todo' \in Seq(Items)
  BY <1>7, SMT DEF Silent
<1>9. \A i \in DOMAIN todo' : todo'[i] \in Silent
  BY <1>7, ElementOfSeq
<1> QED
  BY <1>8, <1>9 DEF Silent
-----------------------------------------------------------------------------
(***************************************************************************)
(* One transaction of a handler.  It makes room for none, and an attempt   *)
(* more only for an OFFHOOK while none is going on, or for a signal that   *)
(* no attempt covers.                                                      *)
(***************************************************************************)
Grows ==
    /\ Len(attempts') = Len(attempts) + 1
    /\ DOMAIN attempts' = DOMAIN attempts \cup {Len(attempts) + 1}
OffhookOpens == First("PROVISIONAL") /\ Current = 0
SignalOpens ==
    /\ First("BIND") /\ Head(todo).age \in 0 .. SignalLate
    /\ Candidate(Head(todo).age) = 0
Worked ==
    /\ Kept
    /\ SameLength \/ (Grows /\ (OffhookOpens \/ SignalOpens))
    /\ touched' \subseteq DOMAIN attempts'
    /\ raw' = raw
    /\ todo' \in {Tail(todo), <<>>}

\* The transaction at the head.
LEMMA HeadItem ==
    ASSUME Shapes, NEW t, First(t)
    PROVE  /\ todo # <<>> /\ todo \in Seq(Items) /\ Len(todo) \in Nat /\ Len(todo) >= 1
           /\ Head(todo) \in Items /\ Head(todo) = todo[1] /\ todo[1].type = t
           /\ 1 \in DOMAIN todo /\ Head(todo).age \in Nat
<1>1. todo \in Seq(Items) /\ todo # <<>> /\ Head(todo).type = t
  BY DEF Shapes, First
<1>2. Len(todo) \in Nat /\ Len(todo) >= 1 /\ DOMAIN todo = 1 .. Len(todo)
  BY <1>1, LenProperties, EmptySeq, SMT
<1>3. Head(todo) \in Items /\ Head(todo) = todo[1]
  BY <1>1, HeadTailProperties, SMT
<1>4. Head(todo).age \in Nat
  BY <1>3 DEF Items
<1>5. 1 \in DOMAIN todo
  BY <1>2, SMT
<1> QED
  BY <1>1, <1>2, <1>3, <1>4, <1>5

\* An OFFHOOK: the attempt that is going on, or a new one.
LEMMA ProvisionalWorks ==
    ASSUME Shapes, OffhookInv, ApplyProvisional
    PROVE  Worked
<1>1. First("PROVISIONAL") /\ raw' = raw
  BY DEF ApplyProvisional, outside
<1>2. /\ Head(todo) \in Items /\ Head(todo) = todo[1] /\ Head(todo).age \in Nat
      /\ 1 \in DOMAIN todo /\ todo[1].type = "PROVISIONAL"
  BY <1>1, HeadItem
<1>3. CASE Current = 0
  <2>1. Room
    BY <1>2, <1>3, CurrentOne, SMT DEF OffhookInv
  <2>2. NewAttempt("PROVISIONAL", FALSE, Head(todo).age) /\ Done({Len(attempts) + 1})
    BY <1>3 DEF ApplyProvisional, Reuse
  <2>3. "PROVISIONAL" \in ActiveState /\ FALSE \in BOOLEAN
    BY DEF ActiveState
  <2>4. Kept /\ Grows
    BY <1>2, <2>1, <2>2, <2>3, AttemptAdded DEF Grows
  <2>5. touched' \subseteq DOMAIN attempts'
    BY <2>2, <2>4 DEF Done, Grows, Shapes
  <2> QED
    BY <1>1, <1>3, <2>2, <2>4, <2>5 DEF Worked, OffhookOpens, Done
<1>4. CASE Current # 0
  <2> DEFINE c == Current
             h == Head(todo).age
             m == [attempts[c] EXCEPT !.start = h]
  <2>1. c \in Active /\ c \in DOMAIN attempts
    BY <1>4, CurrentOne
  <2>2. Done({c}) /\ (attempts' = attempts \/ attempts' = [attempts EXCEPT ![c] = m])
    BY <1>4, Zenon DEF ApplyProvisional, Reuse
  <2>3. attempts[c] \in Attempts
    BY <2>1, ElementOfSeq DEF Shapes
  <2>4. h \in Starts
    <3>1. h <= HookLate
      BY <1>2 DEF Items
    <3> QED
      BY <1>2, <3>1, Caps, SessionAssumption, SMT DEF Starts
  <2> HIDE DEF h, c
  <2>5. m \in Attempts
    BY <2>3, <2>4, Zenon DEF Attempts
  <2>6. m.state = attempts[c].state /\ m.end = attempts[c].end
    BY <2>3, SMT DEF Attempts
  <2> HIDE DEF m
  <2>7. Goes(attempts[c], m)
    BY <2>6 DEF Goes
  <2>8. Kept /\ SameLength
    BY <2>1, <2>2, <2>5, <2>7, AttemptWritten, AttemptsUntouched
  <2>9. touched' \subseteq DOMAIN attempts'
    BY <2>1, <2>2, <2>8 DEF Done, SameLength, Shapes
  <2> QED
    BY <1>1, <2>2, <2>8, <2>9 DEF Worked, Done
<1> QED
  BY <1>3, <1>4

\* A confirmation, of an attempt or in vain.
LEMMA ConfirmedWorks ==
    ASSUME Shapes, ApplyConfirmed
    PROVE  Worked
<1>1. raw' = raw
  BY DEF ApplyConfirmed, outside
<1>2. CASE Current = 0
  <2>1. Raise /\ attempts' = attempts
    BY <1>2 DEF ApplyConfirmed
  <2> QED
    BY <1>1, <2>1, AttemptsUntouched DEF Worked, Raise
<1>3. CASE Current # 0
  <2>1. Current \in DOMAIN attempts
    BY <1>3, CurrentOne
  <2>2. /\ Done({Current})
        /\ \/ attempts' = attempts
           \/ attempts[Current].state = "PROVISIONAL" /\ SetState(Current, "CONFIRMED")
    BY <1>3, Zenon DEF ApplyConfirmed
  <2>3. Kept /\ SameLength
    <3>1. CASE attempts' = attempts
      BY <3>1, AttemptsUntouched
    <3>2. CASE attempts[Current].state = "PROVISIONAL" /\ SetState(Current, "CONFIRMED")
      <4>1. "CONFIRMED" \in AttemptState
        BY DEF AttemptState, ActiveState
      <4>2. /\ attempts[Current].state \notin Ran /\ attempts[Current].state \notin DoneState
            /\ attempts[Current].state \in ActiveState
        BY <3>2 DEF Ran, DoneState, ActiveState
      <4> QED
        BY <2>1, <3>2, <4>1, <4>2, StateWritten
    <3> QED
      BY <2>2, <3>1, <3>2
  <2>4. touched' \subseteq DOMAIN attempts'
    BY <2>1, <2>2, <2>3 DEF Done, SameLength, Shapes
  <2> QED
    BY <1>1, <2>2, <2>3, <2>4 DEF Worked, Done
<1> QED
  BY <1>2, <1>3

\* The end of the attempt that is going on, if one is.
LEMMA EndWorks ==
    ASSUME Shapes, ApplyEnd
    PROVE  Worked /\ SameLength
<1>1. raw' = raw /\ Done({Current} \ {0})
  BY DEF ApplyEnd, outside
<1>2. Kept /\ SameLength
  <2>1. CASE Current = 0
    BY <2>1, AttemptsUntouched DEF ApplyEnd
  <2>2. CASE Current # 0
    <3> DEFINE s == IF First("ENDED") THEN "ENDED" ELSE "CLASSIFIED_GLITCH"
    <3>1. Current \in Active /\ s \in {"ENDED", "CLASSIFIED_GLITCH"}
      BY <2>2, CurrentOne
    <3>2. Head(todo).age \in Nat
      BY HeadItem DEF ApplyEnd
    <3>3. End(Current, s, Head(todo).age)
      BY <2>2 DEF ApplyEnd
    <3> HIDE DEF s
    <3> QED
      BY <3>1, <3>2, <3>3, EndWritten
  <2> QED
    BY <2>1, <2>2
<1>3. touched' \subseteq DOMAIN attempts'
  <2>1. {Current} \ {0} \subseteq DOMAIN attempts
    BY CurrentOne
  <2> QED
    BY <1>1, <1>2, <2>1 DEF Done, SameLength, Shapes
<1> QED
  BY <1>1, <1>2, <1>3 DEF Worked, Done

\* A signal: the attempt that covers it, a new one, or an exception.
LEMMA BindWorks ==
    ASSUME Shapes, Bind
    PROVE  Worked
<1> DEFINE a == Candidate(Head(todo).age)
<1>1. raw' = raw /\ First("BIND")
  BY DEF Bind, outside
<1>2. Head(todo).age \in 0 .. SignalLate /\ Head(todo).age \in Nat
  <2>1. Head(todo) \in Items /\ Head(todo).type = "BIND" /\ Head(todo).age \in Nat
    BY <1>1, HeadItem
  <2>2. Head(todo).age <= SignalLate
    BY <2>1 DEF Items
  <2> QED
    BY <2>1, <2>2, SessionAssumption, SMT
<1>3. \/ a = 0 /\ Room /\ NewAttempt("CONFIRMED", TRUE, Head(todo).age)
            /\ Done({Len(attempts) + 1})
      \/ a # 0 /\ Done({a}) /\ attempts' = attempts
      \/ Raise /\ attempts' = attempts
  BY Zenon DEF Bind
<1>4. a \in {0} \cup DOMAIN attempts
  BY CandidateOne
<1>5. CASE /\ a = 0 /\ Room /\ NewAttempt("CONFIRMED", TRUE, Head(todo).age)
           /\ Done({Len(attempts) + 1})
  <2>1. "CONFIRMED" \in ActiveState /\ TRUE \in BOOLEAN
    BY DEF ActiveState
  <2>2. Kept /\ Grows
    BY <1>2, <1>5, <2>1, AttemptAdded DEF Grows
  <2>3. touched' \subseteq DOMAIN attempts'
    BY <1>5, <2>2 DEF Done, Grows, Shapes
  <2> QED
    BY <1>1, <1>2, <1>5, <2>2, <2>3 DEF Worked, SignalOpens, Done
<1>6. CASE a # 0 /\ Done({a}) /\ attempts' = attempts
  <2> HIDE DEF a
  <2>1. Kept /\ SameLength
    BY <1>6, AttemptsUntouched
  <2>2. touched' \subseteq DOMAIN attempts'
    BY <1>4, <1>6 DEF Done, Shapes
  <2> QED
    BY <1>1, <1>6, <2>1, <2>2 DEF Worked, Done
<1>7. CASE Raise /\ attempts' = attempts
  BY <1>1, <1>7, AttemptsUntouched DEF Worked, Raise
<1> QED
  BY <1>3, <1>5, <1>6, <1>7

\* The other transactions that are done with: none writes more than states.
LEMMA OtherWorks ==
    ASSUME Shapes,
           ApplyOther \/ PromoteConfirmed \/ AdvancePostTarget \/ MarkEvaluated
    PROVE  Worked
<1>1. CASE ApplyOther
  <2>1. Done({Current} \ {0}) /\ attempts' = attempts /\ raw' = raw
    BY <1>1 DEF ApplyOther, outside
  <2>2. {Current} \ {0} \subseteq DOMAIN attempts
    BY CurrentOne
  <2> QED
    BY <2>1, <2>2, AttemptsUntouched DEF Worked, Done, Shapes
<1>2. CASE PromoteConfirmed
  BY <1>2, AttemptsPromoted DEF PromoteConfirmed, Worked, outside
<1>3. CASE AdvancePostTarget
  BY <1>3, AttemptsUntouched DEF AdvancePostTarget, Worked, Shapes, outside
<1>4. CASE MarkEvaluated
  <2>1. PICK a \in touched : SetState(a, "EVALUATED")
    BY <1>4 DEF MarkEvaluated
  <2>2. a \in DOMAIN attempts
    BY DEF Shapes
  <2>3. "EVALUATED" \in AttemptState \cap Ran \cap DoneState
        /\ "EVALUATED" \notin ActiveState
    BY DEF AttemptState, DoneState, Ran, ActiveState
  <2>4. Kept /\ SameLength
    BY <2>1, <2>2, <2>3, StateWritten
  <2> QED
    BY <1>4, <2>4 DEF MarkEvaluated, Worked, outside
<1> QED
  BY <1>1, <1>2, <1>3, <1>4

\* What a transaction does; the timers may leave another to do.
LEMMA WorkStep ==
    ASSUME Shapes, OffhookInv, Work
    PROVE  \/ Worked /\ (First("ENDED") => SameLength)
           \/ /\ First("TIMERS") /\ todo' = todo /\ attempts' = attempts
              /\ touched' = touched /\ raw' = raw
<1>1. CASE ApplyProvisional
  BY <1>1, ProvisionalWorks DEF ApplyProvisional, First
<1>2. CASE ApplyConfirmed
  BY <1>2, ConfirmedWorks DEF ApplyConfirmed, First
<1>3. CASE ApplyEnd
  BY <1>3, EndWorks
<1>4. CASE Bind
  BY <1>4, BindWorks DEF Bind, First
<1>5. CASE ApplyOther \/ PromoteConfirmed \/ AdvancePostTarget \/ MarkEvaluated
  BY <1>5, OtherWorks DEF ApplyOther, PromoteConfirmed, AdvancePostTarget,
     MarkEvaluated, First
<1>6. CASE AdvanceTimers
  <2>1. /\ First("TIMERS") /\ attempts' = attempts /\ touched' = touched /\ raw' = raw
        /\ todo' = todo \/ todo' = Tail(todo)
    BY <1>6, Zenon DEF AdvanceTimers, outside
  <2>2. Kept /\ SameLength /\ touched' \subseteq DOMAIN attempts'
    BY <2>1, AttemptsUntouched DEF Shapes
  <2> QED
    BY <2>1, <2>2 DEF Worked
<1> QED
  BY <1>1, <1>2, <1>3, <1>4, <1>5, <1>6 DEF Work
-----------------------------------------------------------------------------
(***************************************************************************)
(* The kinds of step, by what they do to the transactions that are left    *)
(* and to the attempts.                                                    *)
(***************************************************************************)
Takes == Worked /\ (First("ENDED") => SameLength)
Rests == UNCHANGED <<todo, attempts, touched>>
Starting ==
    /\ todo' \in Seq(Quiet)
    /\ Kept /\ SameLength
    /\ touched' \subseteq DOMAIN attempts'
Offhook == \E l \in 0 .. HookLate : OffhookNewCall(l) \/ OffhookCandidate(l)
Signalled == \E l \in 0 .. SignalLate : Signal(l)

\* A hook event applies an OFFHOOK or starts a quiet handler.
LEMMA EventKinds ==
    ASSUME Shapes, HookEvent
    PROVE  Starting \/ Offhook
<1>1. PICK l \in 0 .. HookLate :
            \/ OffhookBounce(l) \/ OffhookFlash(l) \/ OffhookNewCall(l)
            \/ OffhookDuplicate(l) \/ OffhookCandidate(l) \/ Dtmf(l)
            \/ OnhookDuplicate(l) \/ OnhookRebound(l) \/ OnhookShortCall(l)
            \/ OnhookHeld(l) \/ OnhookEnd(l)
  BY DEF HookEvent
<1>2. CASE OffhookNewCall(l) \/ OffhookCandidate(l)
  BY <1>2 DEF Offhook
<1>3. CASE \/ OffhookBounce(l) \/ OffhookFlash(l) \/ OffhookDuplicate(l) \/ Dtmf(l)
           \/ OnhookDuplicate(l) \/ OnhookRebound(l) \/ OnhookShortCall(l)
           \/ OnhookHeld(l) \/ OnhookEnd(l)
  <2>1. todo' \in Seq(Quiet)
    BY <1>3, QuietEvents
  <2>2. attempts' = attempts /\ touched' = touched
    BY <1>3 DEF OffhookBounce, OffhookFlash, OffhookDuplicate, Dtmf, OnhookDuplicate,
       OnhookRebound, OnhookShortCall, OnhookHeld, OnhookEnd, Event
  <2> QED
    BY <2>1, <2>2, AttemptsUntouched DEF Starting, Shapes
<1> QED
  BY <1>1, <1>2, <1>3

\* A call from outside starts finalizing an attempt, binds a signal or moves the
\* session.
LEMMA CallerKinds ==
    ASSUME Shapes, Caller
    PROVE  Starting \/ Signalled \/ Rests
<1>1. CASE Signalled
  BY <1>1
<1>2. ASSUME NEW a \in DOMAIN attempts, FinalizeAttempt(a)
      PROVE  Starting
  <2>1. /\ attempts[a].state \in {"ENDED", "EVIDENCE_FINALIZING"}
        /\ SetState(a, "EVIDENCE_FINALIZING")
        /\ todo' = <<Item("EVALUATED", 0)>> /\ touched' = {a}
    BY <1>2 DEF FinalizeAttempt
  <2>2. /\ "EVIDENCE_FINALIZING" \in AttemptState \cap Ran
        /\ "EVIDENCE_FINALIZING" \notin ActiveState
        /\ attempts[a].state \notin DoneState
    BY <2>1 DEF AttemptState, Ran, ActiveState, DoneState
  <2>3. Kept /\ SameLength
    BY <2>1, <2>2, StateWritten
  <2>4. Item("EVALUATED", 0) \in Quiet
    BY ItemIs DEF ItemTypes
  <2>5. todo' \in Seq(Quiet)
    BY <2>1, <2>4, QuietSeq
  <2>6. touched' \subseteq DOMAIN attempts'
    BY <2>1, <2>3 DEF SameLength
  <2> QED
    BY <2>3, <2>5, <2>6 DEF Starting
<1>3. ASSUME NEW a \in DOMAIN attempts, MarkTargetConfirmed(a)
      PROVE  Rests
  BY <1>3 DEF MarkTargetConfirmed, memory, Rests
<1>4. CASE \/ BeginEvidenceDrain \/ BeginCoverageFinalizing \/ BeginCleanup
           \/ CompleteFromCleanup
  BY <1>4 DEF BeginEvidenceDrain, BeginCoverageFinalizing, BeginCleanup,
     CompleteFromCleanup, memory, Rests
<1> QED
  BY <1>1, <1>2, <1>3, <1>4 DEF Caller, Signalled

\* Every step is of one of the kinds.
LEMMA Kinds ==
    ASSUME Shapes, OffhookInv, [Next]_vars
    PROVE  Takes \/ Rests \/ Starting \/ Offhook \/ Signalled
<1>1. CASE HookEvent
  BY <1>1, EventKinds
<1>2. CASE Tick
  <2>1. attempts' = attempts /\ touched' = touched
    BY <1>2 DEF Tick
  <2> QED
    BY <1>2, <2>1, QuietTick, AttemptsUntouched DEF Starting, Shapes
<1>3. CASE Work
  BY <1>3, WorkStep DEF Takes, Rests
<1>4. CASE Caller
  BY <1>4, CallerKinds
<1>5. CASE EvidenceDurable \/ CleanupRun \/ UNCHANGED vars
  BY <1>5 DEF EvidenceDurable, CleanupRun, vars, memory, Rests
<1>6. CASE Pass
  <2>1. todo' = <<>> /\ touched' = touched
    BY <1>6 DEF Pass, Idle
  <2>2. Kept /\ SameLength
    BY <1>6, AttemptsOlder
  <2> QED
    BY <2>1, <2>2, QuietSeq DEF Starting, Shapes, SameLength
<1>7. CASE Restart
  <2>1. todo' = <<>> /\ touched' = {} /\ attempts' = attempts
    BY <1>7 DEF Restart
  <2> QED
    BY <2>1, QuietSeq, AttemptsUntouched DEF Starting
<1> QED
  BY <1>1, <1>2, <1>3, <1>4, <1>5, <1>6, <1>7 DEF Next

\* What the tail of a handler still holds.
LEMMA TailItems ==
    ASSUME Shapes, todo # <<>>
    PROVE  /\ Tail(todo) \in Seq(Items)
           /\ \A i \in DOMAIN Tail(todo) :
                i \in Nat /\ i >= 1 /\ i + 1 \in DOMAIN todo
                /\ Tail(todo)[i] = todo[i + 1]
<1>1. todo \in Seq(Items)
  BY DEF Shapes
<1>2. /\ Tail(todo) \in Seq(Items) /\ Len(Tail(todo)) = Len(todo) - 1
      /\ \A i \in 1 .. Len(Tail(todo)) : Tail(todo)[i] = todo[i + 1]
  BY <1>1, HeadTailProperties
<1>3. /\ Len(todo) \in Nat /\ DOMAIN todo = 1 .. Len(todo)
      /\ DOMAIN Tail(todo) = 1 .. Len(Tail(todo))
  BY <1>1, <1>2, LenProperties
<1> QED
  BY <1>2, <1>3, SMT

\* An OFFHOOK is one a signal does not bind; a signal applies no OFFHOOK.
LEMMA OffhookIs ==
    ASSUME Shapes, Offhook
    PROVE  /\ todo' \in Seq(Items) /\ UNCHANGED <<attempts, touched, session>>
           /\ \E l \in 0 .. HookLate : Event("OFFHOOK", l)
           /\ \A i \in DOMAIN todo' : todo'[i].type = "PROVISIONAL" =>
                \/ i = 1 /\ (Room \/ Active # {})
                \/ i = 2 /\ Room /\ todo'[1].type = "ENDED"
<1>1. PICK l \in 0 .. HookLate : OffhookNewCall(l) \/ OffhookCandidate(l)
  BY DEF Offhook
<1>2. Event("OFFHOOK", l)
  BY <1>1 DEF OffhookNewCall, OffhookCandidate
<1>3. UNCHANGED <<attempts, touched, session>>
  BY <1>2 DEF Event
<1> QED
  BY <1>1, <1>2, <1>3, OffhookTodo

\* A signal changes no attempt at once: it queues its items.
LEMMA SignalIs ==
    ASSUME Shapes, Signalled
    PROVE  /\ todo' \in Seq(Items) /\ UNCHANGED <<attempts, touched, session>>
           /\ session.state \in SignalStates
           /\ \A i \in DOMAIN todo' : todo'[i].type # "PROVISIONAL"
<1>1. PICK l \in 0 .. SignalLate : Signal(l)
  BY DEF Signalled
<1> QED
  BY <1>1, SignalTodo DEF Signal

\* A quiet handler has neither.
LEMMA StartingIs ==
    ASSUME Starting
    PROVE  /\ todo' \in Seq(Items)
           /\ \A i \in DOMAIN todo' : todo'[i].type \notin {"PROVISIONAL", "BIND"}
<1>1. todo' \in Seq(Quiet)
  BY DEF Starting
<1>2. todo' \in Seq(Items)
  BY <1>1, SMT DEF Quiet
<1>3. \A i \in DOMAIN todo' : todo'[i] \in Quiet
  BY <1>1, ElementOfSeq
<1> QED
  BY <1>2, <1>3 DEF Quiet

\* No step but those of Takes, Rests and Starting writes the attempts, and none
\* loses one.
LEMMA StepKeeps ==
    ASSUME Shapes, OffhookInv, [Next]_vars
    PROVE  Kept /\ touched' \subseteq DOMAIN attempts' /\ todo' \in Seq(Items)
<1>1. CASE Takes
  <2>1. Kept /\ touched' \subseteq DOMAIN attempts' /\ todo' \in {Tail(todo), <<>>}
    BY <1>1 DEF Takes, Worked
  <2>2. todo' \in Seq(Items)
    <3>1. todo = <<>> \/ Tail(todo) \in Seq(Items)
      BY TailItems
    <3>2. Tail(<<>>) = <<>> /\ <<>> \in Seq(Items)
      BY SMT
    <3> QED
      BY <2>1, <3>1, <3>2
  <2> QED
    BY <2>1, <2>2
<1>2. CASE Rests
  BY <1>2, AttemptsUntouched DEF Rests, Shapes
<1>3. CASE Starting
  BY <1>3, StartingIs DEF Starting
<1>4. CASE Offhook
  BY <1>4, OffhookIs, AttemptsUntouched DEF Shapes
<1>5. CASE Signalled
  BY <1>5, SignalIs, AttemptsUntouched DEF Shapes
<1> QED
  BY <1>1, <1>2, <1>3, <1>4, <1>5, Kinds
-----------------------------------------------------------------------------
(***************************************************************************)
(* The session and the last hook event.                                    *)
(***************************************************************************)
Stays == session'.state = session.state /\ session'.target = session.target
Observes == /\ session.state = "TARGET_CONFIRMED"
            /\ session'.state = "POST_TARGET_OBSERVATION"
            /\ session'.target = session.target
            /\ attempts[session.target].state = "ENDED"
Drains == /\ session.state \in {"WATCHING"} \cup (AfterTarget \ Closing)
          /\ session'.state \in AfterTarget \ Closing
          /\ session'.target = session.target
Cleans == /\ \A a \in DOMAIN attempts : attempts[a].state \in DoneState
          /\ attempts' = attempts /\ todo' = <<>>
          /\ session.state = "COVERAGE_FINALIZING" /\ session'.state = "CLEANUP"
          /\ session'.target = session.target
Completes == /\ session.state = "CLEANUP" /\ session'.state = "COMPLETED"
             /\ session'.target = session.target
Targets == /\ session.state = "WATCHING" /\ session'.state = "TARGET_CONFIRMED"
           /\ session'.target \in DOMAIN attempts
Moves == /\ session' \in Sessions
         /\ Stays \/ Observes \/ Drains \/ Cleans \/ Completes \/ Targets

\* A session nobody writes makes a legal move.
LEMMA SessionSame ==
    ASSUME Shapes, session' = session
    PROVE  Moves
BY DEF Shapes, Moves, Stays

\* A transition at an age a time can have.
LEMMA SessionMoved ==
    ASSUME Shapes, NEW s \in AfterTarget, NEW t \in 0 .. HookLate, MoveTo(s, t)
    PROVE  /\ session' \in Sessions
           /\ session'.state = s /\ session'.target = session.target
<1>1. session \in Sessions
  BY DEF Shapes
<1>2. t \in 0 .. TimerCap + HookLate
  BY Caps, SessionAssumption, SMT
<1>3. s \in Listening \cup AfterTarget
  OBVIOUS
<1>4. session' = [session EXCEPT !.state = s, !.age = t]
  BY DEF MoveTo
<1>5. session' \in Sessions
  BY <1>1, <1>2, <1>3, <1>4, ZenonT(30) DEF Sessions
<1>6. session'.state = s /\ session'.target = session.target
  BY <1>1, <1>4, SMT DEF Sessions
<1> QED
  BY <1>5, <1>6

\* The end of the target, and the timers after it.
LEMMA SessionWork ==
    ASSUME Shapes, Work
    PROVE  Moves
<1>1. /\ {"POST_TARGET_OBSERVATION", "EVIDENCE_DRAINING", "COVERAGE_FINALIZING"}
            \subseteq AfterTarget \ Closing
      /\ 0 \in 0 .. HookLate
  BY SessionAssumption, SMT DEF AfterTarget, Closing
<1>2. CASE AdvancePostTarget
  <2>1. CASE session' = session
    BY <2>1, SessionSame
  <2>2. CASE session' # session
    <3>1. /\ First("ADVANCE") /\ session.state = "TARGET_CONFIRMED" /\ Over(session.target)
          /\ MoveTo("POST_TARGET_OBSERVATION", Head(todo).age)
      BY <1>2, <2>2, Zenon DEF AdvancePostTarget
    <3>2. Head(todo).age \in 0 .. HookLate
      <4>1. Head(todo) \in Items /\ Head(todo).type = "ADVANCE" /\ Head(todo).age \in Nat
        BY <3>1, HeadItem
      <4>2. Head(todo).age <= HookLate
        BY <4>1 DEF Items
      <4> QED
        BY <4>1, <4>2, SessionAssumption, SMT
    <3>3. /\ session' \in Sessions /\ session'.state = "POST_TARGET_OBSERVATION"
          /\ session'.target = session.target
      BY <1>1, <3>1, <3>2, SessionMoved
    <3> QED
      BY <3>1, <3>3 DEF Moves, Observes, Over
  <2> QED
    BY <2>1, <2>2
<1>3. CASE AdvanceTimers
  <2>1. CASE session' = session
    BY <2>1, SessionSame
  <2>2. CASE session' # session
    <3>1. \/ TailOver /\ MoveTo("EVIDENCE_DRAINING", 0)
          \/ DrainOver /\ MoveTo("COVERAGE_FINALIZING", 0)
      BY <1>3, <2>2, Zenon DEF AdvanceTimers
    <3>2. session.state \in AfterTarget \ Closing
      BY <1>1, <3>1 DEF TailOver, DrainOver
    <3>3. /\ session' \in Sessions /\ session'.state \in AfterTarget \ Closing
          /\ session'.target = session.target
      BY <1>1, <3>1, SessionMoved
    <3> QED
      BY <3>2, <3>3 DEF Moves, Drains
  <2> QED
    BY <2>1, <2>2
<1>4. CASE session' = session
  BY <1>4, SessionSame
<1> QED
  BY <1>2, <1>3, <1>4 DEF Work, ApplyProvisional, ApplyConfirmed, ApplyEnd, ApplyOther,
     PromoteConfirmed, Bind, MarkEvaluated

\* The calls from outside.
LEMMA SessionCaller ==
    ASSUME Shapes, Caller
    PROVE  Moves
<1>1. /\ {"POST_TARGET_OBSERVATION", "EVIDENCE_DRAINING", "COVERAGE_FINALIZING"}
            \subseteq AfterTarget \ Closing
      /\ {"CLEANUP", "COMPLETED"} \subseteq AfterTarget
      /\ 0 \in 0 .. HookLate
  BY SessionAssumption, SMT DEF AfterTarget, Closing
<1>2. ASSUME NEW a \in DOMAIN attempts, MarkTargetConfirmed(a)
      PROVE  Moves
  <2>1. /\ session' = [state |-> "TARGET_CONFIRMED", age |-> 0, target |-> a]
        /\ session.state = "WATCHING"
    BY <1>2 DEF MarkTargetConfirmed
  <2>2. a \in 0 .. MaxAttempt
    <3>1. DOMAIN attempts = 1 .. Len(attempts) /\ Len(attempts) \in Nat
          /\ Len(attempts) <= MaxAttempt
      BY LenProperties DEF Shapes
    <3> QED
      BY <3>1, SessionAssumption, SMT
  <2>3. 0 \in 0 .. TimerCap + HookLate
    BY Caps, SessionAssumption, SMT
  <2>4. "TARGET_CONFIRMED" \in Listening \cup AfterTarget
    BY DEF Listening
  <2>5. session' \in Sessions
    BY <2>1, <2>2, <2>3, <2>4 DEF Sessions
  <2> QED
    BY <2>1, <2>5 DEF Moves, Targets
<1>3. CASE BeginEvidenceDrain \/ BeginCoverageFinalizing
  <2>1. /\ session.state \in {"WATCHING"} \cup (AfterTarget \ Closing)
        /\ MoveTo("EVIDENCE_DRAINING", 0) \/ MoveTo("COVERAGE_FINALIZING", 0)
    BY <1>1, <1>3 DEF BeginEvidenceDrain, BeginCoverageFinalizing
  <2>2. /\ session' \in Sessions /\ session'.state \in AfterTarget \ Closing
        /\ session'.target = session.target
    BY <1>1, <2>1, SessionMoved
  <2> QED
    BY <2>1, <2>2 DEF Moves, Drains
<1>4. CASE BeginCleanup
  <2>1. /\ \A a \in DOMAIN attempts : attempts[a].state \in DoneState
        /\ attempts' = attempts /\ todo' = <<>> /\ session.state = "COVERAGE_FINALIZING"
        /\ MoveTo("CLEANUP", 0)
    BY <1>4 DEF BeginCleanup, Finished, Idle, memory
  <2> QED
    BY <1>1, <2>1, SessionMoved DEF Moves, Cleans
<1>5. CASE CompleteFromCleanup
  <2>1. session.state = "CLEANUP" /\ MoveTo("COMPLETED", 0)
    BY <1>5 DEF CompleteFromCleanup
  <2> QED
    BY <1>1, <2>1, SessionMoved DEF Moves, Completes
<1>6. CASE session' = session
  BY <1>6, SessionSame
<1> QED
  BY <1>2, <1>3, <1>4, <1>5, <1>6 DEF Caller, Signal, FinalizeAttempt

\* The session moves along, stays, or confirms its target.
LEMMA SessionStep ==
    ASSUME Shapes, [Next]_vars
    PROVE  Moves
<1>1. CASE Pass
  <2> DEFINE t == Older(session.age, TimerCap)
  <2>1. session \in Sessions
    BY DEF Shapes
  <2>2. session.age \in 0 .. TimerCap + HookLate
    BY <2>1 DEF Sessions
  <2>3. t \in 0 .. TimerCap + HookLate
    <3>1. TimerCap + HookLate \in Nat /\ TimerCap \in 0 .. TimerCap + HookLate
      BY Caps, SessionAssumption, SMT
    <3> QED
      BY <2>2, <3>1, GrownOlder
  <2>4. session' = session \/ session' = [session EXCEPT !.age = t]
    BY <1>1, Zenon DEF Pass
  <2> HIDE DEF t
  <2>5. session' \in Sessions
    BY <2>1, <2>3, <2>4, ZenonT(30) DEF Sessions
  <2>6. session'.state = session.state /\ session'.target = session.target
    BY <2>1, <2>4, SMT DEF Sessions
  <2> QED
    BY <2>5, <2>6 DEF Moves, Stays
<1>2. CASE HookEvent
  BY <1>2, SessionSame DEF HookEvent, Event, OffhookBounce, OffhookFlash, OffhookNewCall,
     OffhookDuplicate, OffhookCandidate, Dtmf, OnhookDuplicate, OnhookRebound,
     OnhookShortCall, OnhookHeld, OnhookEnd
<1>3. CASE Tick \/ EvidenceDurable \/ CleanupRun \/ Restart \/ UNCHANGED vars
  BY <1>3, SessionSame DEF Tick, EvidenceDurable, CleanupRun, Restart, vars
<1> QED
  BY <1>1, <1>2, <1>3, SessionWork, SessionCaller DEF Next

\* The last hook event grows older, until another is handled.
LEMMA RawStep ==
    ASSUME Shapes, [Next]_vars
    PROVE  raw' \in Raws
<1>0. raw \in Raws
  BY DEF Shapes
<1>1. CASE Pass
  <2> DEFINE t == Older(raw.age, HookLate)
  <2>1. raw.age \in 0 .. HookLate
    BY <1>0 DEF Raws
  <2>2. t \in 0 .. HookLate
    <3>1. HookLate \in Nat /\ HookLate \in 0 .. HookLate
      BY SessionAssumption, SMT
    <3> QED
      BY <2>1, <3>1, GrownOlder
  <2>3. raw' = [raw EXCEPT !.age = t]
    BY <1>1, Zenon DEF Pass
  <2> HIDE DEF t
  <2> QED
    BY <1>0, <2>2, <2>3, ZenonT(30) DEF Raws
<1>2. CASE HookEvent
  <2>1. PICK l \in 0 .. HookLate, kind \in {"OFFHOOK", "ONHOOK", "DTMF"} : Event(kind, l)
    BY <1>2 DEF HookEvent, OffhookBounce, OffhookFlash, OffhookNewCall,
     OffhookDuplicate, OffhookCandidate, Dtmf, OnhookDuplicate, OnhookRebound,
     OnhookShortCall, OnhookHeld, OnhookEnd
  <2>2. raw.phone \in {"ONHOOK", "OFFHOOK"}
    BY <1>0 DEF Raws
  <2>3. raw' = [phone |-> IF kind = "DTMF" THEN raw.phone ELSE kind, age |-> l]
    BY <2>1 DEF Event
  <2> QED
    BY <2>2, <2>3, SMT DEF Raws
<1>3. CASE raw' = raw
  BY <1>0, <1>3
<1>4. CASE Work \/ Caller
  BY <1>3, <1>4 DEF Work, Caller, ApplyProvisional, ApplyConfirmed, ApplyEnd, ApplyOther,
     PromoteConfirmed, AdvancePostTarget, AdvanceTimers, Bind, MarkEvaluated, Signal,
     MarkTargetConfirmed, FinalizeAttempt, BeginEvidenceDrain, BeginCoverageFinalizing,
     BeginCleanup, CompleteFromCleanup, outside
<1>5. CASE Tick \/ EvidenceDurable \/ CleanupRun \/ Restart \/ UNCHANGED vars
  BY <1>3, <1>5 DEF Tick, EvidenceDurable, CleanupRun, Restart, vars, outside
<1> QED
  BY <1>1, <1>2, <1>4, <1>5 DEF Next
-----------------------------------------------------------------------------
(***************************************************************************)
(* The invariant: what every session keeps (AttemptInv), what one that     *)
(* hears no signal while it is cleaned up keeps (CleanupInv), and what one *)
(* keeps whose signals are handled at once (SingleInv).                    *)
(***************************************************************************)
AttemptInv == Shapes /\ OffhookInv /\ TargetInv /\ RanInv /\ EndInv

\* The bounds of the sequences and the sets of their elements are kept.
LEMMA ShapesStep ==
    ASSUME Shapes, OffhookInv, [Next]_vars
    PROVE  Shapes'
<1>1. Kept /\ touched' \subseteq DOMAIN attempts' /\ todo' \in Seq(Items)
  BY StepKeeps
<1>2. HookOK /\ Moves /\ raw' \in Raws
  BY HookStep, SessionStep, RawStep
<1> QED
  BY <1>1, <1>2, Zenon DEF Shapes, Kept, HookOK, Moves

\* The end of the call before it makes no attempt, so the room is still there.
LEMMA OffhookStep ==
    ASSUME Shapes, OffhookInv, [Next]_vars
    PROVE  OffhookInv'
<1> SUFFICES ASSUME NEW i \in DOMAIN todo', todo'[i].type = "PROVISIONAL"
             PROVE  \/ i = 1 /\ (Room' \/ Active' # {})
                    \/ i = 2 /\ Room' /\ todo'[1].type = "ENDED"
  BY DEF OffhookInv
<1>1. CASE Takes
  <2>1. todo' \in {Tail(todo), <<>>} /\ (First("ENDED") => SameLength)
    BY <1>1 DEF Takes, Worked
  <2>2. todo' # <<>>
    BY SMT
  <2>3. todo' = Tail(todo) /\ todo # <<>>
    <3>1. Tail(<<>>) = <<>>
      BY SMT
    <3> QED
      BY <2>1, <2>2, <3>1
  <2>4. /\ i \in Nat /\ i >= 1 /\ i + 1 \in DOMAIN todo /\ todo[i + 1].type = "PROVISIONAL"
    BY <2>3, TailItems
  <2>5. i + 1 = 2 /\ Room /\ todo[1].type = "ENDED"
    BY <2>4, SMT DEF OffhookInv
  <2>6. Head(todo) = todo[1]
    BY <2>3, HeadTailProperties DEF Shapes
  <2>7. First("ENDED")
    BY <2>3, <2>5, <2>6 DEF First
  <2>8. Len(attempts') = Len(attempts)
    BY <2>1, <2>7 DEF SameLength
  <2> QED
    BY <2>4, <2>5, <2>8, SMT DEF Room
<1>2. CASE Rests
  BY <1>2 DEF Rests, OffhookInv, Room, Active
<1>3. CASE Starting
  BY <1>3, StartingIs
<1>4. CASE Offhook
  BY <1>4, OffhookIs DEF Room, Active
<1>5. CASE Signalled
  BY <1>5, SignalIs
<1> QED
  BY <1>1, <1>2, <1>3, <1>4, <1>5, Kinds

\* The target is confirmed once, while the session is watching.
LEMMA TargetStep ==
    ASSUME Shapes, OffhookInv, TargetInv, [Next]_vars
    PROVE  TargetInv'
<1>1. DOMAIN attempts \subseteq DOMAIN attempts'
  BY StepKeeps DEF Kept
<1>2. /\ "WATCHING" \notin AfterTarget /\ "TARGET_CONFIRMED" \notin AfterTarget
      /\ 0 \notin DOMAIN attempts
  <2>1. DOMAIN attempts = 1 .. Len(attempts)
    BY LenProperties DEF Shapes
  <2> QED
    BY <2>1, SMT DEF AfterTarget
<1>3. CASE Stays
  BY <1>1, <1>3 DEF TargetInv, Stays
<1>4. CASE Targets
  BY <1>1, <1>2, <1>4 DEF TargetInv, Targets
<1>5. CASE Observes \/ Drains \/ Cleans \/ Completes
  <2>1. session'.state \in AfterTarget /\ session'.target = session.target
    BY <1>5 DEF Observes, Drains, Cleans, Completes, AfterTarget
  <2> QED
    BY <1>1, <1>2, <2>1 DEF TargetInv
<1> QED
  BY <1>3, <1>4, <1>5, SessionStep DEF Moves

\* The target was over when the session left TARGET_CONFIRMED, and what has run
\* to its end stays so.
LEMMA RanStep ==
    ASSUME Shapes, OffhookInv, TargetInv, RanInv, [Next]_vars
    PROVE  RanInv'
<1> SUFFICES ASSUME session'.target # 0, session'.state \in AfterTarget
             PROVE  attempts'[session'.target].state \in Ran
  BY DEF RanInv
<1>1. \A a \in DOMAIN attempts : attempts[a].state \in Ran => attempts'[a].state \in Ran
  BY StepKeeps DEF Kept
<1>2. CASE Stays
  BY <1>1, <1>2 DEF Stays, RanInv, TargetInv
<1>3. CASE Observes
  BY <1>1, <1>3 DEF Observes, TargetInv, Ran
<1>4. CASE Drains \/ Cleans \/ Completes
  <2>1. session'.target = session.target
    BY <1>4 DEF Drains, Cleans, Completes
  <2>2. session.state \in AfterTarget
    BY <1>4, <2>1 DEF Drains, Cleans, Completes, TargetInv, AfterTarget
  <2> QED
    BY <1>1, <2>1, <2>2 DEF RanInv, TargetInv
<1>5. CASE Targets
  BY <1>5 DEF Targets, AfterTarget
<1> QED
  BY <1>2, <1>3, <1>4, <1>5, SessionStep DEF Moves

\* An end is written together with a state that is not active.
LEMMA EndStep ==
    ASSUME Shapes, OffhookInv, EndInv, [Next]_vars
    PROVE  EndInv'
<1> SUFFICES ASSUME NEW a \in Active'
             PROVE  attempts'[a].end = None
  BY DEF EndInv
<1>1. a \in DOMAIN attempts' /\ attempts'[a].state \in ActiveState
  BY DEF Active, StillActive
<1>2. CASE a \in DOMAIN attempts
  <2>1. attempts[a].state \in ActiveState
    BY <1>1, <1>2, StepKeeps DEF Kept
  <2>2. attempts[a].end = None
    BY <1>2, <2>1 DEF EndInv, Active, StillActive
  <2> QED
    BY <1>1, <1>2, <2>2, StepKeeps DEF Kept
<1>3. CASE a \notin DOMAIN attempts
  BY <1>1, <1>3, StepKeeps DEF Kept
<1> QED
  BY <1>2, <1>3

\* Every step preserves the invariant.
LEMMA AttemptStep ==
    AttemptInv /\ [Next]_vars => AttemptInv'
BY ShapesStep, OffhookStep, TargetStep, RanStep, EndStep DEF AttemptInv

\* The invariants hold at first.
LEMMA Initially == Init => AttemptInv /\ CleanupInv /\ SingleInv
<1> SUFFICES ASSUME Init
             PROVE  AttemptInv /\ CleanupInv /\ SingleInv
  OBVIOUS
<1>1. /\ attempts = <<>> /\ todo = <<>> /\ touched = {}
      /\ attempts \in Seq(Attempts) /\ todo \in Seq(Items)
      /\ DOMAIN attempts = {} /\ DOMAIN todo = {} /\ Len(attempts) = 0
  BY SMT DEF Init
<1>2. hook \in Hooks /\ hook.start = None
  <2>1. None \in Ages /\ "ONHOOK" \in {"ONHOOK", "OFFHOOK"} /\ FALSE \in BOOLEAN
    BY LateAge
  <2> QED
    BY <2>1 DEF Init, NoHook, Hooks
<1>3. session \in Sessions /\ session.state = "WATCHING" /\ session.target = 0
  <2>1. 0 \in 0 .. TimerCap + HookLate /\ 0 \in 0 .. MaxAttempt
    BY Caps, SessionAssumption, SMT
  <2>2. "WATCHING" \in Listening \cup AfterTarget
    BY DEF Listening
  <2> QED
    BY <2>1, <2>2 DEF Init, Sessions
<1>4. raw \in Raws
  BY SessionAssumption, SMT DEF Init, Raws
<1>5. Len(attempts) <= MaxAttempt
  BY <1>1, SessionAssumption, SMT
<1>6. Active = {}
  BY <1>1 DEF Active
<1>7. session.state \notin AfterTarget /\ session.state \notin Closing
      /\ session.state # "TARGET_CONFIRMED"
  BY <1>3 DEF AfterTarget, Closing
<1> QED
  BY <1>1, <1>2, <1>3, <1>4, <1>5, <1>6, <1>7 DEF AttemptInv, Shapes, OffhookInv,
     TargetInv, RanInv, EndInv, CleanupInv, SingleInv

-----------------------------------------------------------------------------
\* While the session is cleaned up no attempt is going on, so no OFFHOOK is heard.
LEMMA CleanupStep ==
    ASSUME SignalStates \cap Closing = {}, Shapes, OffhookInv, CleanupInv, [Next]_vars
    PROVE  CleanupInv'
<1> SUFFICES ASSUME session'.state \in Closing
             PROVE  /\ \A a \in DOMAIN attempts' : attempts'[a].state \in DoneState
                    /\ \A i \in DOMAIN todo' :
                        todo'[i].type \notin {"PROVISIONAL", "BIND"}
  BY DEF CleanupInv
<1>1. CASE Cleans
  <2>1. DOMAIN <<>> = {}
    BY SMT
  <2> QED
    BY <1>1, <2>1 DEF Cleans
<1>2. CASE ~Cleans
  <2>1. session.state \in Closing
    BY <1>2, SessionStep DEF Moves, Stays, Observes, Drains, Completes, Targets, Closing
  <2>2. /\ \A a \in DOMAIN attempts : attempts[a].state \in DoneState
        /\ \A i \in DOMAIN todo : todo[i].type \notin {"PROVISIONAL", "BIND"}
    BY <2>1 DEF CleanupInv
  <2>3. Active = {}
    BY <2>2 DEF Active, StillActive, ActiveState, DoneState
  <2>4. SameLength =>
            \A a \in DOMAIN attempts' : attempts'[a].state \in DoneState
    BY <2>2, StepKeeps DEF Kept, SameLength
  <2>5. CASE Takes
    <3>1. ~First("PROVISIONAL") /\ ~First("BIND")
      BY <2>2, HeadItem
    <3>2. SameLength /\ todo' \in {Tail(todo), <<>>}
      BY <2>5, <3>1 DEF Takes, Worked, OffhookOpens, SignalOpens
    <3>3. DOMAIN <<>> = {} /\ Tail(<<>>) = <<>>
      BY SMT
    <3>4. todo # <<>> => \A i \in DOMAIN Tail(todo) :
                            Tail(todo)[i].type \notin {"PROVISIONAL", "BIND"}
      BY <2>2, TailItems
    <3> QED
      BY <2>4, <3>2, <3>3, <3>4
  <2>6. CASE Rests
    BY <2>2, <2>6 DEF Rests
  <2>7. CASE Starting
    BY <2>4, <2>7, StartingIs DEF Starting
  <2>8. CASE Offhook
    <3>1. Current # 0 \/ session.state \in Listening \/ session.state = "WATCHING"
      BY <2>8, OffhookIs DEF Event, Accepts
    <3>2. Current = 0
      BY <2>3, CurrentOne
    <3> QED
      BY <2>1, <3>1, <3>2 DEF Listening, Closing
  <2>9. CASE Signalled
    BY <2>1, <2>9, SignalIs
  <2> QED
    BY <2>5, <2>6, <2>7, <2>8, <2>9, Kinds
<1> QED
  BY <1>1, <1>2

-----------------------------------------------------------------------------
\* A signal handled at once is covered by any attempt that is going on.
LEMMA CoveredAtOnce ==
    ASSUME SignalLate = 0, Shapes, EndInv, SignalOpens
    PROVE  Active = {}
<1>1. Head(todo).age = 0 /\ Candidate(0) = 0
  BY SMT DEF SignalOpens
<1>2. \A a \in DOMAIN attempts : ~Covers(a, 0)
  BY <1>1, CandidateOne
<1>3. ASSUME NEW a \in Active
      PROVE  FALSE
  <2>1. a \in DOMAIN attempts /\ attempts[a].state \in ActiveState /\ attempts[a].end = None
    BY DEF Active, StillActive, EndInv
  <2>2. attempts[a] \in Attempts
    BY <2>1, ElementOfSeq DEF Shapes
  <2>3. attempts[a].start >= 0
    BY <2>2, Caps, SMT DEF Attempts, Starts
  <2>4. attempts[a].state # "CLASSIFIED_GLITCH"
    BY <2>1 DEF ActiveState
  <2>5. Covers(a, 0)
    BY <2>1, <2>3, <2>4 DEF Covers
  <2> QED
    BY <1>2, <2>1, <2>5
<1> QED
  BY <1>3

\* An attempt is opened only while none is going on.
LEMMA SingleStep ==
    ASSUME SignalLate = 0, Shapes, OffhookInv, EndInv, SingleInv, [Next]_vars
    PROVE  SingleInv'
<1>1. ASSUME SameLength
      PROVE  Active' \subseteq Active
  BY <1>1, StepKeeps DEF SameLength, Kept, Active, StillActive
<1>2. CASE SameLength
  BY <1>1, <1>2 DEF SingleInv
<1>3. CASE ~SameLength
  <2>1. Takes
    BY <1>3, Kinds, OffhookIs, SignalIs DEF Rests, Starting, SameLength
  <2>2. Grows /\ (OffhookOpens \/ SignalOpens)
    BY <1>3, <2>1 DEF Takes, Worked
  <2>3. Active = {}
    BY <2>2, CoveredAtOnce, CurrentOne DEF OffhookOpens
  <2>4. Active' \subseteq {Len(attempts) + 1}
    BY <2>2, <2>3, StepKeeps DEF Grows, Kept, Active, StillActive
  <2> QED
    BY <2>4 DEF SingleInv
<1> QED
  BY <1>2, <1>3

-----------------------------------------------------------------------------
(***************************************************************************)
(* The theorems.                                                           *)
(***************************************************************************)
\* Every session keeps AttemptInv.
THEOREM Invariance == Spec => []AttemptInv
<1>1. Init => AttemptInv
  BY Initially
<1> QED
  BY <1>1, AttemptStep, PTL DEF Spec

\* The variables hold values of their types: the sanitizer has a candidate or a
\* held hang-up, never both, and every name of a handler is an attempt.
THEOREM Typing == Spec => []TypeOK
<1>1. AttemptInv => TypeOK
  <2> SUFFICES ASSUME AttemptInv
               PROVE  TypeOK
    OBVIOUS
  <2>1. Shapes
    BY DEF AttemptInv
  <2>2. \A a \in DOMAIN attempts : attempts[a] \in Attempts
    BY <2>1, ElementOfSeq DEF Shapes
  <2> QED
    BY <2>1, <2>2, Zenon DEF TypeOK, Shapes, Attempts, Starts, Ends, Hooks, Ages, Sessions
<1> QED
  BY <1>1, Invariance, PTL

\* A session is past TARGET_CONFIRMED only when its target attempt ended, and
\* never on a pulse that was discarded (_advance_post_target_if_ended).
THEOREM TargetRan == Spec => []TargetRanToItsEnd
<1>1. AttemptInv => TargetRanToItsEnd
  <2> SUFFICES ASSUME AttemptInv, session.target # 0, session.state \in AfterTarget
               PROVE  /\ Rank(attempts[session.target].state) >= 3
                      /\ attempts[session.target].state # "CLASSIFIED_GLITCH"
    BY DEF TargetRanToItsEnd
  <2>1. attempts[session.target].state \in Ran
    BY DEF AttemptInv, RanInv
  <2> QED
    BY <2>1, SMT DEF Ran, Rank, DoneState
<1> QED
  BY <1>1, Invariance, PTL

\* A session that hears no signal while it is cleaned up is cleaned up only
\* after its last attempt was evaluated (begin_cleanup).
THEOREM CleanedAfter ==
    SignalStates \cap {"CLEANUP", "COMPLETED"} = {}
        => (Spec => []CleanupAfterLastAttempt)
<1> SUFFICES ASSUME SignalStates \cap Closing = {}
             PROVE  Spec => []CleanupAfterLastAttempt
  BY DEF Closing
<1>1. Init => AttemptInv /\ CleanupInv
  BY Initially
<1>2. AttemptInv /\ CleanupInv /\ [Next]_vars => (AttemptInv /\ CleanupInv)'
  BY AttemptStep, CleanupStep DEF AttemptInv
<1>3. CleanupInv => CleanupAfterLastAttempt
  BY DEF CleanupInv, Closing, CleanupAfterLastAttempt
<1> QED
  BY <1>1, <1>2, <1>3, PTL DEF Spec

\* A session whose signals are handled at once has one attempt going on at a
\* time, whatever restarts cut short and however late its hook events are
\* (SessionRepository, CallBindingService).
THEOREM OneAtATime == SignalLate = 0 => (Spec => []OneActive)
<1> SUFFICES ASSUME SignalLate = 0
             PROVE  Spec => []OneActive
  OBVIOUS
<1>1. Init => AttemptInv /\ SingleInv
  BY Initially
<1>2. AttemptInv /\ SingleInv /\ [Next]_vars => (AttemptInv /\ SingleInv)'
  BY AttemptStep, SingleStep DEF AttemptInv
<1>3. SingleInv => OneActive
  <2> SUFFICES ASSUME SingleInv
               PROVE  Cardinality(Active) <= 1
    BY DEF OneActive
  <2>1. CASE Active = {}
    BY <2>1, FS_EmptySet
  <2>2. CASE Active # {}
    <3>1. PICK a \in Active : TRUE
      BY <2>2
    <3>2. Active = {a}
      BY <3>1 DEF SingleInv
    <3> QED
      BY <3>2, FS_Singleton
  <2> QED
    BY <2>1, <2>2
<1> QED
  BY <1>1, <1>2, <1>3, PTL DEF Spec

=============================================================================
