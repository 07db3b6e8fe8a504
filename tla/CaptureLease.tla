----------------------------- MODULE CaptureLease -----------------------------
(***************************************************************************)
(* The database lease that gives one controller at a time authority over   *)
(* one DUT (capture_v2/lease/manager.py).  Each device has its own row and *)
(* rows never interact, so one row is modelled.                            *)
(*                                                                         *)
(* A call reads the worker's clock first and locks the row afterwards, so  *)
(* the two are separate steps here: by the time a transaction runs, the    *)
(* `now` it decides with may be old, or off by the skew between hosts.     *)
(***************************************************************************)
EXTENDS Integers

CONSTANTS
    Controller,         \* tasks that call the lease manager
    Owner,              \* (capture_session_id, owner_worker_id) pairs
    OwnerOf,            \* the pair each task presents; tasks may share one
    TTL,                \* ttl_seconds, in ticks
    MaxSkew,            \* largest distance of a worker's clock from the clock
    MaxTime, MaxEpoch   \* bounds of the model: last tick, last lease epoch

ASSUME LeaseAssumption ==
    /\ OwnerOf \in [Controller -> Owner]
    /\ TTL \in Nat \ {0}
    /\ MaxSkew \in Nat
    /\ MaxTime \in Nat
    /\ MaxEpoch \in Nat

VARIABLES
    clock,              \* true time
    row,                \* the capture_leases row; state "NONE" is no row
    call,               \* per task: the call in progress and its `now`
    token,              \* per task: the LeaseToken it holds
    granted             \* history: the (epoch, owner) pairs ever granted

vars == <<clock, row, call, token, granted>>

Op == {"acquire", "insert", "renew", "release"}
Idle == [op |-> "idle", now |-> 0]
NoToken == [epoch |-> 0, expires |-> 0]

Rows == [epoch : Nat, owner : Owner, state : {"NONE", "ACTIVE", "RELEASED"},
         expires : Nat]

(***************************************************************************)
(* Guards and row updates shared by the operations.                        *)
(***************************************************************************)
\* active_unexpired
Live(now) == row.state = "ACTIVE" /\ row.expires > now

SameOwner(c) == row.owner = OwnerOf[c]

\* The match every fenced operation makes between its token and the row.
Matches(c) ==
    /\ row.state = "ACTIVE"
    /\ row.epoch = token[c].epoch
    /\ SameOwner(c)

\* renew() and validate() also require an unexpired row.  validate() writes
\* nothing, so it is this predicate and has no action.
Holds(c) == Matches(c) /\ row.expires > call[c].now

\* The epoch a takeover writes.
NextEpochReusesReleased ==
    IF row.state = "RELEASED" THEN row.epoch ELSE row.epoch + 1
NextEpoch == row.epoch + 1

\* The row written by a grant or a refresh, and the token returned with it.
Write(c, e) ==
    LET until == call[c].now + TTL IN
    /\ row' = [epoch |-> e, owner |-> OwnerOf[c], state |-> "ACTIVE",
               expires |-> until]
    /\ token' = [token EXCEPT ![c] = [epoch |-> e, expires |-> until]]
    /\ granted' = granted \cup {[epoch |-> e, owner |-> OwnerOf[c]]}

Return(c) == call' = [call EXCEPT ![c] = Idle]

\* LEASE_BUSY and LEASE_FENCED leave the row and the caller's token alone.
Refuse(c) == Return(c) /\ UNCHANGED <<clock, row, token, granted>>

-----------------------------------------------------------------------------
Init ==
    /\ clock = 0
    /\ row \in {[epoch |-> 0, owner |-> o, state |-> "NONE", expires |-> 0] :
                    o \in Owner}
    /\ call = [c \in Controller |-> Idle]
    /\ token = [c \in Controller |-> NoToken]
    /\ granted = {}

Tick ==
    /\ clock < MaxTime
    /\ clock' = clock + 1
    /\ UNCHANGED <<row, call, token, granted>>

\* Entry of a manager method: `now = now or utcnow()` on the worker's clock.
Call(c, op) ==
    /\ call[c] = Idle
    /\ op \in {"renew", "release"} => token[c] # NoToken
    /\ \E now \in 0 .. clock + MaxSkew :
        /\ now + MaxSkew >= clock
        /\ call' = [call EXCEPT ![c] = [op |-> op, now |-> now]]
    /\ UNCHANGED <<clock, row, token, granted>>

\* SELECT ... FOR UPDATE finds no row: there is nothing to lock, so the insert
\* is a step of its own.
AcquireFindsNoRow(c) ==
    /\ call[c].op = "acquire"
    /\ row.state = "NONE"
    /\ call' = [call EXCEPT ![c].op = "insert"]
    /\ UNCHANGED <<clock, row, token, granted>>

AcquireInsert(c) ==
    /\ call[c].op = "insert"
    /\ row.state = "NONE"
    /\ Write(c, 1)
    /\ Return(c)
    /\ UNCHANGED clock

\* The primary key collides: acquire() runs _acquire_once again, same `now`.
AcquireCollides(c) ==
    /\ call[c].op = "insert"
    /\ row.state # "NONE"
    /\ call' = [call EXCEPT ![c].op = "acquire"]
    /\ UNCHANGED <<clock, row, token, granted>>

AcquireBusy(c) ==
    /\ call[c].op = "acquire"
    /\ Live(call[c].now) /\ ~SameOwner(c)
    /\ Refuse(c)

\* Repeated acquire of the live owner: same epoch, fresh term.
AcquireRefresh(c) ==
    /\ call[c].op = "acquire"
    /\ Live(call[c].now) /\ SameOwner(c)
    /\ Write(c, row.epoch)
    /\ Return(c)
    /\ UNCHANGED clock

\* A released or expired row changes hands under the next epoch.
MayTakeOverRegardless(c) == row.state # "NONE" /\ ~SameOwner(c)
MayTakeOver(c) == row.state # "NONE" /\ ~Live(call[c].now)

AcquireTakeover(c) ==
    /\ call[c].op = "acquire"
    /\ MayTakeOver(c)
    /\ row.epoch < MaxEpoch
    /\ Write(c, NextEpoch)
    /\ Return(c)
    /\ UNCHANGED clock

\* renew() moves expires_at only.
Renew(c) ==
    /\ call[c].op = "renew"
    /\ Holds(c)
    /\ row' = [row EXCEPT !.expires = call[c].now + TTL]
    /\ token' = [token EXCEPT ![c].expires = call[c].now + TTL]
    /\ Return(c)
    /\ UNCHANGED <<clock, granted>>

RenewFenced(c) == call[c].op = "renew" /\ ~Holds(c) /\ Refuse(c)

\* CaptureLeaseState.RELEASED
ReleasedMisnamed == "EXPIRED"
Released == "RELEASED"

\* release() does not look at the term.  Its callers end with it and use the
\* token no more.
Release(c) ==
    /\ call[c].op = "release"
    /\ Matches(c)
    /\ row' = [row EXCEPT !.state = Released, !.expires = call[c].now]
    /\ token' = [token EXCEPT ![c] = NoToken]
    /\ Return(c)
    /\ UNCHANGED <<clock, granted>>

ReleaseFenced(c) == call[c].op = "release" /\ ~Matches(c) /\ Refuse(c)

\* A worker dies: its token, and the answer to any call, are lost.
Crash(c) ==
    /\ call[c] # Idle \/ token[c] # NoToken
    /\ token' = [token EXCEPT ![c] = NoToken]
    /\ Return(c)
    /\ UNCHANGED <<clock, row, granted>>

Acquire(c) ==
    \/ AcquireFindsNoRow(c) \/ AcquireInsert(c) \/ AcquireCollides(c)
    \/ AcquireBusy(c) \/ AcquireRefresh(c) \/ AcquireTakeover(c)

Next ==
    \/ Tick
    \/ \E c \in Controller :
        \/ \E op \in Op \ {"insert"} : Call(c, op)
        \/ Acquire(c)
        \/ Renew(c) \/ RenewFenced(c)
        \/ Release(c) \/ ReleaseFenced(c)
        \/ Crash(c)

Spec == Init /\ [][Next]_vars

-----------------------------------------------------------------------------
(***************************************************************************)
(* Properties.                                                             *)
(***************************************************************************)
\* The variables hold values of their types, and a call decides with a clock
\* reading that is never further ahead than the skew allows.
TypeOK ==
    /\ clock \in Nat
    /\ row \in Rows
    /\ call \in [Controller -> [op : Op \cup {"idle"}, now : Nat]]
    /\ token \in [Controller -> [epoch : Nat, expires : Nat]]
    /\ granted \subseteq [epoch : Nat, owner : Owner]
    /\ \A c \in Controller : call[c].now <= clock + MaxSkew

\* Fencing is sound: a lease epoch, the number every DUT mutation is fenced
\* with, is never granted to two (session, worker) pairs, whatever mix of
\* first-insert races, releases, expiries and crashes led to it.
EpochNamesOneOwner ==
    \A g, h \in granted : g.epoch = h.epoch => g.owner = h.owner

\* Only one task uses this owner identity.
Sole(c) == \A d \in Controller : OwnerOf[d] = OwnerOf[c] => d = c

\* The local check of a token's term (FencedDeviceMutator._ensure_token_live)
\* is meaningful: while the term a task knows outlasts the clock by more than
\* the skew, the row still carries its epoch and nobody took the DUT over.
\* Tasks that share an owner can shorten each other's term with a slow
\* refresh, so the promise is made to tasks that do not share one.
LiveTokenIsAuthority ==
    \A c \in Controller :
        (Sole(c) /\ token[c] # NoToken /\ clock + MaxSkew < token[c].expires)
            => Matches(c)

\* The lease implements the abstract authority: "held" is a term no clock in
\* the system can see as over.
Phase ==
    CASE row.state # "ACTIVE" -> "free"
      [] row.state = "ACTIVE" /\ row.expires > clock + MaxSkew -> "held"
      [] row.state = "ACTIVE" /\ row.expires <= clock + MaxSkew -> "lapsed"

Authority == INSTANCE FencedAuthority
                WITH epoch <- row.epoch, owner <- row.owner, phase <- Phase

\* Authority moves in epochs and a held epoch is never taken away.
ImplementsAuthority == Authority!Spec
=============================================================================
