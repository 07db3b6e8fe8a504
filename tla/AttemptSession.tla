---------------------------- MODULE AttemptSession ----------------------------
(***************************************************************************)
(* What one armed capture session makes of the hook events of its DUT and  *)
(* of the call signals found in its packets: the sanitizer's hook machine, *)
(* the attempts it opens and closes, and the session's way from WATCHING   *)
(* to COMPLETED (CaptureV2RuntimeCoordinator).                             *)
(*                                                                         *)
(* Every decision is about differences of source times, so a time is kept  *)
(* as its age, which stops counting once it is past every threshold.  An   *)
(* event may be handled late, hook events in the order they happened.  A   *)
(* handler is a sequence of transactions: the sanitizer, which is memory,  *)
(* moves first, and `todo` holds the transactions that follow.             *)
(***************************************************************************)
EXTENDS Integers, Sequences, FiniteSets, FiniteSetsExt

CONSTANTS
    Glitch, Rebound, Stable, FlashMin, FlashMax,    \* hook thresholds
    PostTarget, DrainTimeout,                       \* session timers
    SignalStates,       \* session states in which call signals are handled
    HookLate, SignalLate,       \* bounds: delay of a hook event, of a signal,
    MaxAttempt, MaxRestart      \*         attempts, restarts of the process

ASSUME SessionAssumption ==
    /\ {Glitch, Rebound, Stable, FlashMin, FlashMax, PostTarget, DrainTimeout,
        HookLate, SignalLate, MaxAttempt, MaxRestart} \subseteq Nat
    /\ FlashMin < FlashMax

VARIABLES
    hook,               \* sanitizer: confirmed hook, and the ages of the last
                        \* confirmed ONHOOK, of a provisional OFFHOOK (and if it
                        \* may be a rebound), of an ONHOOK held during a call
    attempts,           \* capture_attempts rows in the order of attempt_no
    session,            \* state, age of its last transition, target attempt
    durable,            \* evidence_durable_at is set
    cleaned,            \* cleanup_status is VERIFIED
    todo,               \* transactions left in the handler under way
    touched,            \* attempts the handler named so far
    raw,                \* the last hook event: its age, and where the phone was
    restarts            \* restarts so far

memory == <<hook, todo, touched>>
outside == <<durable, cleaned, raw, restarts>>
vars == <<memory, attempts, session, outside>>

None == -1
NoHook == [state |-> "ONHOOK", onhook |-> None, start |-> None,
           rebound |-> FALSE, held |-> None]

ActiveState == {"PROVISIONAL", "CONFIRMED", "DATA_PLANE_VERIFYING"}
DoneState == {"EVALUATED", "CLASSIFIED_GLITCH"}
AttemptState == ActiveState \cup DoneState \cup {"ENDED", "EVIDENCE_FINALIZING"}
Listening == {"WATCHING", "TARGET_CONFIRMED"}
AfterTarget == {"POST_TARGET_OBSERVATION", "EVIDENCE_DRAINING",
                "COVERAGE_FINALIZING", "CLEANUP", "COMPLETED"}

\* Ages past these are past every threshold they are compared with.
Past(threshold) == threshold + HookLate + 1
HookCap == Past(Max({Glitch, Rebound, Stable, FlashMax}))
StartCap == Max({HookLate, SignalLate})
EndCap == SignalLate + 1
TimerCap == Max({PostTarget, DrainTimeout})
Older(age, cap) == IF age = None THEN None ELSE Min({age + 1, cap})

\* _active: the newest attempt that is still going on.
StillActive == ActiveState
Active == {a \in DOMAIN attempts : attempts[a].state \in StillActive}
Current == Max({0} \cup Active)

Item(type, age) == [type |-> type, age |-> age]
Promote == Item("PROMOTE", 0)
Advance(t) == Item("ADVANCE", t)
Timers == Item("TIMERS", 0)

-----------------------------------------------------------------------------
\* arm_to_watching has run.
Init ==
    /\ hook = NoHook
    /\ attempts = <<>>
    /\ session = [state |-> "WATCHING", age |-> 0, target |-> 0]
    /\ durable = FALSE /\ cleaned = FALSE
    /\ todo = <<>> /\ touched = {}
    /\ raw = [phone |-> "ONHOOK", age |-> HookLate]
    /\ restarts = 0

Idle == todo = <<>>

\* CaptureSessionFlow.transition; t is the age of the time it is given.
MoveTo(state, t) == session' = [session EXCEPT !.state = state, !.age = t]

(***************************************************************************)
(* The sanitizer (on_raw).  l is how late the event is.                    *)
(***************************************************************************)
\* ingest_fxs hands an event on only if someone listens.
Accepts(kind) ==
    \/ Current # 0
    \/ session.state = "WATCHING"
    \/ session.state \in Listening /\ kind # "OFFHOOK"

Event(kind, l) ==
    /\ Idle
    /\ Accepts(kind)
    /\ l <= raw.age
    /\ raw' = [phone |-> IF kind = "DTMF" THEN raw.phone ELSE kind, age |-> l]
    /\ UNCHANGED <<attempts, session, durable, cleaned, restarts, touched>>

Act(items) == todo' = items \o <<Promote, Advance(raw'.age)>>
Room == Len(attempts) < MaxAttempt

\* A candidate may be the rebound of the hang-up at age o.
MayRebound(o, l) == o # None /\ o - l <= Rebound

\* A pulse during a call: bounce, flash, or a hang-up that was over.
OffhookBounce(l) ==
    /\ Event("OFFHOOK", l)
    /\ hook.held # None /\ hook.held - l < FlashMin
    /\ hook' = [hook EXCEPT !.held = None, !.state = "OFFHOOK"]
    /\ Act(<<Item("GLITCH", l)>>)

OffhookFlash(l) ==
    /\ Event("OFFHOOK", l)
    /\ hook.held # None /\ hook.held - l \in FlashMin .. FlashMax
    /\ hook' = [hook EXCEPT !.held = None, !.state = "OFFHOOK"]
    /\ Act(<<Item("OTHER", l)>>)

NextCallStillHeld(l) ==
    [state |-> "ONHOOK", onhook |-> hook.held, start |-> l,
     rebound |-> MayRebound(hook.held, l), held |-> hook.held]
NextCall(l) ==
    [state |-> "ONHOOK", onhook |-> hook.held, start |-> l,
     rebound |-> MayRebound(hook.held, l), held |-> None]

OffhookNewCall(l) ==
    /\ Event("OFFHOOK", l) /\ Room
    /\ hook.held # None /\ hook.held - l > FlashMax
    /\ hook' = NextCall(l)
    /\ Act(<<Item("ENDED", hook.held), Item("PROVISIONAL", l)>>)

OffhookDuplicate(l) ==
    /\ Event("OFFHOOK", l)
    /\ hook.held = None
    /\ hook.start # None \/ hook.state = "OFFHOOK"
    /\ Act(<<Item("OTHER", l)>>)
    /\ UNCHANGED hook

OffhookCandidate(l) ==
    /\ Event("OFFHOOK", l) /\ (Room \/ Current # 0)
    /\ hook.held = None /\ hook.start = None /\ hook.state = "ONHOOK"
    /\ hook' = [hook EXCEPT !.start = l, !.rebound = MayRebound(hook.onhook, l)]
    /\ Act(<<Item("PROVISIONAL", l)>>)

\* _confirm
Confirmed == [hook EXCEPT !.start = None, !.state = "OFFHOOK"]
Confirmation == IF hook.start = None THEN <<>>
                                     ELSE <<Item("CONFIRMED", hook.start)>>
Confirm == hook' = IF hook.start = None THEN hook ELSE Confirmed

Dtmf(l) ==
    /\ Event("DTMF", l)
    /\ Confirm
    /\ Act(Confirmation \o <<Item("OTHER", l)>>)

OnhookDuplicate(l) ==
    /\ Event("ONHOOK", l)
    /\ hook.held # None \/ (hook.start = None /\ hook.state = "ONHOOK")
    /\ hook' = IF hook.held # None THEN hook ELSE [hook EXCEPT !.onhook = l]
    /\ Act(<<Item("OTHER", l)>>)

OnhookRebound(l) ==
    /\ Event("ONHOOK", l)
    /\ hook.start # None /\ hook.rebound /\ hook.start - l <= Glitch
    /\ hook' = [hook EXCEPT !.start = None, !.state = "ONHOOK"]
    /\ Act(<<Item("GLITCH", l)>>)

OnhookShortCall(l) ==
    /\ Event("ONHOOK", l)
    /\ hook.start # None /\ ~(hook.rebound /\ hook.start - l <= Glitch)
    /\ hook' = [hook EXCEPT !.start = None, !.state = "ONHOOK", !.onhook = l]
    /\ Act(<<Item("CONFIRMED", hook.start), Item("ENDED", l)>>)

\* call_active: the end is not decided yet.
OnhookHeld(l) ==
    /\ Event("ONHOOK", l)
    /\ hook.held = None /\ hook.start = None /\ hook.state = "OFFHOOK"
    /\ hook' = [hook EXCEPT !.held = l]
    /\ Act(<<>>)

OnhookEnd(l) ==
    /\ Event("ONHOOK", l)
    /\ hook.held = None /\ hook.start = None /\ hook.state = "OFFHOOK"
    /\ hook' = [hook EXCEPT !.state = "ONHOOK", !.onhook = l]
    /\ Act(<<Item("ENDED", l)>>)

\* tick(): confirm_if_stable, flush_pending_onhook, then the session's timers.
\* The sanitizer never has a candidate and a held hang-up at once.
FlushNever == FALSE
FlushDue == hook.held # None /\ hook.held > FlashMax

Tick ==
    /\ Idle
    /\ LET stable == hook.start # None /\ hook.start >= Stable
       IN /\ hook' = CASE stable -> Confirmed
                       [] ~stable /\ FlushDue ->
                            [hook EXCEPT !.held = None, !.state = "ONHOOK",
                                         !.onhook = hook.held]
                       [] ~stable /\ ~FlushDue -> hook
          /\ todo' = (IF stable THEN Confirmation ELSE <<>>)
                       \o (IF FlushDue THEN <<Item("ENDED", hook.held)>> ELSE <<>>)
                       \o <<Promote, Advance(0), Timers>>
    /\ UNCHANGED <<attempts, session, outside, touched>>

(***************************************************************************)
(* The transactions of a handler.                                          *)
(***************************************************************************)
First(type) == todo # <<>> /\ Head(todo).type = type

\* An exception: the rest of the handler is skipped.
Raise == todo' = <<>> /\ touched' = {}
Done(ids) == todo' = Tail(todo) /\ touched' = touched \cup ids

NewAttempt(state, fallback, age) ==
    attempts' = Append(attempts, [state |-> state, fallback |-> fallback,
                                  start |-> Min({age, StartCap}), end |-> None])

SetState(a, state) == attempts' = [attempts EXCEPT ![a].state = state]
End(a, state, age) ==
    attempts' = [attempts EXCEPT ![a].state = state, ![a].end = Min({age, EndCap})]

\* A late OFFHOOK refines the anchor of an attempt a signal opened.
ReuseNever == FALSE
Reuse == Current # 0
ApplyProvisional ==
    /\ First("PROVISIONAL")
    /\ IF Reuse
       THEN /\ attempts' = IF /\ attempts[Current].fallback
                              /\ Head(todo).age > attempts[Current].start
                           THEN [attempts EXCEPT ![Current].start = Head(todo).age]
                           ELSE attempts
            /\ Done({Current})
       ELSE /\ NewAttempt("PROVISIONAL", FALSE, Head(todo).age)
            /\ Done({Len(attempts) + 1})
    /\ UNCHANGED <<hook, session, outside>>

\* PROVISIONAL_ATTEMPT_NOT_FOUND without one.
ApplyConfirmed ==
    /\ First("CONFIRMED")
    /\ IF Current = 0
       THEN Raise /\ UNCHANGED attempts
       ELSE /\ IF attempts[Current].state = "PROVISIONAL"
               THEN SetState(Current, "CONFIRMED") ELSE UNCHANGED attempts
            /\ Done({Current})
    /\ UNCHANGED <<hook, session, outside>>

ApplyEnd ==
    /\ First("ENDED") \/ First("GLITCH")
    /\ IF Current = 0 THEN UNCHANGED attempts
       ELSE End(Current, IF First("ENDED") THEN "ENDED" ELSE "CLASSIFIED_GLITCH",
                Head(todo).age)
    /\ Done({Current} \ {0})
    /\ UNCHANGED <<hook, session, outside>>

\* FXS_HOOK_FLASH, DTMF and DUPLICATE only name the attempt.
ApplyOther ==
    /\ First("OTHER")
    /\ Done({Current} \ {0})
    /\ UNCHANGED <<hook, attempts, session, outside>>

\* _promote_confirmed_attempt of every attempt the actions named.
PromoteConfirmed ==
    /\ First("PROMOTE")
    /\ attempts' = [a \in DOMAIN attempts |->
                        IF a \in touched /\ attempts[a].state = "CONFIRMED"
                        THEN [attempts[a] EXCEPT !.state = "DATA_PLANE_VERIFYING"]
                        ELSE attempts[a]]
    /\ todo' = Tail(todo) /\ touched' = {}
    /\ UNCHANGED <<hook, session, outside>>

\* _advance_post_target_if_ended
OverUnlessActive(a) == attempts[a].state \notin ActiveState
Over(a) == attempts[a].state = "ENDED"
AdvancePostTarget ==
    /\ First("ADVANCE")
    /\ IF session.state = "TARGET_CONFIRMED" /\ Over(session.target)
       THEN MoveTo("POST_TARGET_OBSERVATION", Head(todo).age)
       ELSE UNCHANGED session
    /\ todo' = Tail(todo)
    /\ UNCHANGED <<hook, attempts, touched, outside>>

\* _advance_session_timers: the end of a tick, two transactions when both are due.
GiveUpNever == FALSE
GiveUpDue == session.age >= DrainTimeout
TailOver ==
    session.state = "POST_TARGET_OBSERVATION" /\ session.age >= PostTarget
DrainOver == session.state = "EVIDENCE_DRAINING" /\ (durable \/ GiveUpDue)

AdvanceTimers ==
    /\ First("TIMERS")
    /\ \/ TailOver /\ MoveTo("EVIDENCE_DRAINING", 0) /\ UNCHANGED todo
       \/ DrainOver /\ MoveTo("COVERAGE_FINALIZING", 0) /\ todo' = Tail(todo)
       \/ ~TailOver /\ ~DrainOver /\ UNCHANGED session /\ todo' = Tail(todo)
    /\ UNCHANGED <<hook, attempts, touched, outside>>

(***************************************************************************)
(* bind_signal.  l is how late the signal is handled.                      *)
(***************************************************************************)
\* _candidate: the newest attempt going on at that time.
Covers(a, l) ==
    /\ attempts[a].state # "CLASSIFIED_GLITCH"
    /\ attempts[a].start >= l
    /\ attempts[a].end = None \/ attempts[a].end <= l
Candidate(l) == Max({0} \cup {a \in DOMAIN attempts : Covers(a, l)})

Signal(l) ==
    /\ Idle
    /\ session.state \in SignalStates
    /\ Confirm
    /\ todo' = (IF hook.start = None THEN <<>> ELSE Confirmation \o <<Promote>>)
                 \o <<Item("BIND", l), Promote>>
    /\ UNCHANGED <<attempts, session, outside, touched>>

\* An attempt is opened for a signal no attempt covers.  bind() refuses a signal of
\* another call, and one no attempt may be opened for; it always raises on a
\* PROVISIONAL attempt, whose confirmation names a variable it does not have.
Bind ==
    /\ First("BIND")
    /\ LET a == Candidate(Head(todo).age)
       IN \/ /\ a = 0 /\ Room
             /\ NewAttempt("CONFIRMED", TRUE, Head(todo).age)
             /\ Done({Len(attempts) + 1})
          \/ /\ a # 0 /\ attempts[a].state # "PROVISIONAL"
             /\ Done({a}) /\ UNCHANGED attempts
          \/ Raise /\ UNCHANGED attempts
    /\ UNCHANGED <<hook, session, outside>>

(***************************************************************************)
(* The calls that take the session through its end.                        *)
(***************************************************************************)
MarkTargetConfirmed(a) ==
    /\ Idle
    /\ attempts[a].state # "CLASSIFIED_GLITCH"
    /\ session.state = "WATCHING"
    /\ session' = [state |-> "TARGET_CONFIRMED", age |-> 0, target |-> a]
    /\ UNCHANGED <<memory, attempts, outside>>

BeginEvidenceDrain ==
    /\ Idle
    /\ session.state \in {"POST_TARGET_OBSERVATION", "WATCHING"}
    /\ MoveTo("EVIDENCE_DRAINING", 0)
    /\ UNCHANGED <<memory, attempts, outside>>

\* Durable, or the caller says explicitly that it is partial.
BeginCoverageFinalizing ==
    /\ Idle
    /\ session.state = "EVIDENCE_DRAINING"
    /\ MoveTo("COVERAGE_FINALIZING", 0)
    /\ UNCHANGED <<memory, attempts, outside>>

\* finalize_attempt: coverage and quality lie between its two transactions.
FinalizeAttempt(a) ==
    /\ Idle
    /\ session.state = "COVERAGE_FINALIZING"
    /\ attempts[a].state \in {"ENDED", "EVIDENCE_FINALIZING"}
    /\ SetState(a, "EVIDENCE_FINALIZING")
    /\ todo' = <<Item("EVALUATED", 0)>> /\ touched' = {a}
    /\ UNCHANGED <<hook, session, outside>>

MarkEvaluated ==
    /\ First("EVALUATED")
    /\ \E a \in touched : SetState(a, "EVALUATED")
    /\ todo' = <<>> /\ touched' = {}
    /\ UNCHANGED <<hook, session, outside>>

\* CLEANUP_BLOCKED_ATTEMPTS_NOT_FINALIZED otherwise.
FinishedOrEnded == DoneState \cup {"ENDED"}
Finished == DoneState
BeginCleanup ==
    /\ Idle
    /\ session.state = "COVERAGE_FINALIZING"
    /\ \A a \in DOMAIN attempts : attempts[a].state \in Finished
    /\ MoveTo("CLEANUP", 0)
    /\ UNCHANGED <<memory, attempts, outside>>

CompleteFromCleanup ==
    /\ Idle
    /\ session.state = "CLEANUP" /\ cleaned
    /\ MoveTo("COMPLETED", 0)
    /\ UNCHANGED <<memory, attempts, outside>>

(***************************************************************************)
(* The world around it.                                                    *)
(***************************************************************************)
\* The finalizer sets it once; it is read only while draining, so it is set there.
EvidenceDurable ==
    /\ session.state = "EVIDENCE_DRAINING" /\ ~durable
    /\ durable' = TRUE
    /\ UNCHANGED <<memory, attempts, session, cleaned, raw, restarts>>

\* Every run of the cleanup ends VERIFIED or FAILED.
CleanupRun ==
    /\ session.state = "CLEANUP"
    /\ cleaned' \in BOOLEAN
    /\ UNCHANGED <<memory, attempts, session, durable, raw, restarts>>

\* Time passes between handlers; only these two states are timed.
Pass ==
    /\ Idle
    /\ hook' = [hook EXCEPT !.onhook = Older(@, Past(Rebound)),
                            !.start = Older(@, Past(Max({Glitch, Stable}))),
                            !.held = Older(@, Past(FlashMax))]
    /\ attempts' = [a \in DOMAIN attempts |->
                        [attempts[a] EXCEPT !.start = Older(@, StartCap),
                                            !.end = Older(@, EndCap)]]
    /\ session' = IF session.state \in {"POST_TARGET_OBSERVATION", "EVIDENCE_DRAINING"}
                  THEN [session EXCEPT !.age = Older(@, TimerCap)] ELSE session
    /\ raw' = [raw EXCEPT !.age = Older(@, HookLate)]
    /\ UNCHANGED <<todo, touched, durable, cleaned, restarts>>

\* A new coordinator over the same rows, its sanitizer as new.
Restart ==
    /\ restarts < MaxRestart
    /\ restarts' = restarts + 1
    /\ hook' = NoHook
    /\ todo' = <<>> /\ touched' = {}
    /\ UNCHANGED <<attempts, session, durable, cleaned, raw>>

HookEvent ==
    \E l \in 0 .. HookLate :
        \/ OffhookBounce(l) \/ OffhookFlash(l) \/ OffhookNewCall(l)
        \/ OffhookDuplicate(l) \/ OffhookCandidate(l) \/ Dtmf(l)
        \/ OnhookDuplicate(l) \/ OnhookRebound(l) \/ OnhookShortCall(l)
        \/ OnhookHeld(l) \/ OnhookEnd(l)

Work ==
    \/ ApplyProvisional \/ ApplyConfirmed \/ ApplyEnd \/ ApplyOther
    \/ PromoteConfirmed \/ AdvancePostTarget \/ AdvanceTimers \/ Bind
    \/ MarkEvaluated

Caller ==
    \/ \E l \in 0 .. SignalLate : Signal(l)
    \/ \E a \in DOMAIN attempts : MarkTargetConfirmed(a) \/ FinalizeAttempt(a)
    \/ BeginEvidenceDrain \/ BeginCoverageFinalizing \/ BeginCleanup
    \/ CompleteFromCleanup

Next ==
    \/ HookEvent \/ Tick \/ Work \/ Caller
    \/ EvidenceDurable \/ CleanupRun \/ Pass \/ Restart

\* The loop that owns the session ticks, and time passes; nobody has to call.
Spec == Init /\ [][Next]_vars /\ WF_vars(Work) /\ SF_vars(Tick) /\ SF_vars(Pass)

-----------------------------------------------------------------------------
(***************************************************************************)
(* Properties.                                                             *)
(***************************************************************************)
\* The variables hold values of their types.
TypeOK ==
    /\ hook \in [state : {"ONHOOK", "OFFHOOK"}, onhook : None .. HookCap,
                 start : None .. HookCap, rebound : BOOLEAN,
                 held : None .. HookCap]
    /\ hook.start = None \/ hook.held = None
    /\ \A a \in DOMAIN attempts :
        attempts[a] \in [state : AttemptState, fallback : BOOLEAN,
                         start : 0 .. StartCap, end : None .. EndCap]
    /\ session \in [state : Listening \cup AfterTarget, age : 0 .. TimerCap + HookLate,
                    target : 0 .. MaxAttempt]
    /\ touched \subseteq DOMAIN attempts
    /\ Len(attempts) <= MaxAttempt

\* A session has one attempt going on at a time, whatever restarts cut short and
\* whichever of hook event and signal is handled first.
OneActive == Cardinality(Active) <= 1

\* How far an attempt has come.
Rank(state) ==
    CASE state = "PROVISIONAL" -> 0
      [] state = "CONFIRMED" -> 1
      [] state = "DATA_PLANE_VERIFYING" -> 2
      [] state = "ENDED" -> 3
      [] state = "EVIDENCE_FINALIZING" -> 4
      [] state \in DoneState -> 5

\* The target is observed to its natural end: a session is past TARGET_CONFIRMED
\* only when its target attempt ended, and never on a pulse that was discarded.
TargetRanToItsEnd ==
    (session.target # 0 /\ session.state \in AfterTarget)
        => Rank(attempts[session.target].state) >= 3
           /\ attempts[session.target].state # "CLASSIFIED_GLITCH"

\* The DUT is cleaned up only after the last attempt was evaluated, and no
\* attempt appears from then on.
CleanupAfterLastAttempt ==
    session.state \in {"CLEANUP", "COMPLETED"}
        => \A a \in DOMAIN attempts : attempts[a].state \in DoneState

\* The tail of a session ends: with durable evidence or, after a timeout,
\* explicitly partial.
TailEnds ==
    session.state = "POST_TARGET_OBSERVATION"
        ~> session.state \in {"COVERAGE_FINALIZING", "CLEANUP", "COMPLETED"}

\* A hang-up ends the attempt of the call, at the latest when no flash can
\* follow, as long as the process that saw the call begin is alive.
HangupEndsAttempt ==
    \A a \in 1 .. MaxAttempt :
        (/\ raw.phone = "ONHOOK" /\ restarts = 0
         /\ a \in Active /\ ~attempts[a].fallback)
            ~> (raw.phone = "OFFHOOK" \/ restarts > 0 \/ a \notin Active)
=============================================================================
