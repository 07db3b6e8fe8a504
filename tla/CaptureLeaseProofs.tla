-------------------------- MODULE CaptureLeaseProofs --------------------------
(***************************************************************************)
(* Proofs about CaptureLease, for any set of tasks and owners, any term,   *)
(* any skew and any bounds.                                                *)
(***************************************************************************)
EXTENDS CaptureLease, TLAPS

\* Next, one disjunct per action, for a case analysis.
LEMMA NextCases ==
    ASSUME Next
    PROVE  \/ Tick
           \/ \E c \in Controller, op \in Op \ {"insert"} : Call(c, op)
           \/ \E c \in Controller :
                \/ AcquireFindsNoRow(c) \/ AcquireInsert(c) \/ AcquireCollides(c)
                \/ AcquireBusy(c) \/ AcquireRefresh(c) \/ AcquireTakeover(c)
                \/ Renew(c) \/ RenewFenced(c)
                \/ Release(c) \/ ReleaseFenced(c) \/ Crash(c)
BY DEF Next, Acquire

-----------------------------------------------------------------------------
(***************************************************************************)
(* Types.                                                                  *)
(***************************************************************************)
\* A grant or refresh of a legal epoch keeps the types.
LEMMA WriteTypes ==
    ASSUME TypeOK, NEW c \in Controller, NEW e \in Nat, Write(c, e), Return(c),
           UNCHANGED clock
    PROVE  TypeOK'
<1>1. call[c].now \in Nat /\ TTL \in Nat /\ OwnerOf[c] \in Owner
  BY LeaseAssumption DEF TypeOK
<1>2. row' \in Rows
  BY <1>1 DEF Write, Rows
<1>3. token' \in [Controller -> [epoch : Nat, expires : Nat]]
  BY <1>1 DEF Write, TypeOK
<1>4. granted' \subseteq [epoch : Nat, owner : Owner]
  BY <1>1 DEF Write, TypeOK
<1>5. /\ call' \in [Controller -> [op : Op \cup {"idle"}, now : Nat]]
      /\ \A d \in Controller : call'[d].now <= clock' + MaxSkew
  BY LeaseAssumption DEF Return, Idle, TypeOK
<1> QED
  BY <1>2, <1>3, <1>4, <1>5 DEF TypeOK

\* A step that answers a call and changes neither the row nor the history keeps
\* the types.
LEMMA ReturnTypes ==
    ASSUME TypeOK, NEW c \in Controller, Return(c), UNCHANGED <<clock, row, granted>>,
           token' \in [Controller -> [epoch : Nat, expires : Nat]]
    PROVE  TypeOK'
<1>1. call' \in [Controller -> [op : Op \cup {"idle"}, now : Nat]]
  BY DEF Return, Idle, TypeOK
<1>2. \A d \in Controller : call'[d].now <= clock' + MaxSkew
  BY LeaseAssumption DEF Return, Idle, TypeOK
<1>3. clock' \in Nat /\ row' \in Rows /\ granted' \subseteq [epoch : Nat, owner : Owner]
  BY DEF TypeOK
<1> QED
  BY <1>1, <1>2, <1>3 DEF TypeOK

\* Every step preserves the types.
LEMMA TypeStep ==
    ASSUME TypeOK, [Next]_vars
    PROVE  TypeOK'
<1> USE LeaseAssumption
<1>1. CASE UNCHANGED vars
  BY <1>1 DEF TypeOK, vars
<1>2. CASE Tick
  BY <1>2 DEF TypeOK, Tick
<1>3. ASSUME NEW c \in Controller, NEW op \in Op \ {"insert"}, Call(c, op)
      PROVE  TypeOK'
  <2>1. PICK now \in 0 .. clock + MaxSkew :
            call' = [call EXCEPT ![c] = [op |-> op, now |-> now]]
    BY <1>3 DEF Call
  <2>2. [op |-> op, now |-> now] \in [op : Op \cup {"idle"}, now : Nat]
    BY <2>1 DEF TypeOK
  <2> QED
    BY <1>3, <2>1, <2>2 DEF TypeOK, Call
<1>4. ASSUME NEW c \in Controller, AcquireFindsNoRow(c)
      PROVE  TypeOK'
  BY <1>4 DEF TypeOK, AcquireFindsNoRow, Op
<1>5. ASSUME NEW c \in Controller, AcquireCollides(c)
      PROVE  TypeOK'
  BY <1>5 DEF TypeOK, AcquireCollides, Op
<1>6. ASSUME NEW c \in Controller, AcquireInsert(c)
      PROVE  TypeOK'
  BY <1>6, WriteTypes DEF AcquireInsert
<1>7. ASSUME NEW c \in Controller, AcquireRefresh(c)
      PROVE  TypeOK'
  BY <1>7, WriteTypes DEF AcquireRefresh, TypeOK, Rows
<1>8. ASSUME NEW c \in Controller, AcquireTakeover(c)
      PROVE  TypeOK'
  <2>1. NextEpoch \in Nat
    BY DEF NextEpoch, TypeOK, Rows
  <2> QED
    BY <1>8, <2>1, WriteTypes DEF AcquireTakeover
<1>9. ASSUME NEW c \in Controller,
             AcquireBusy(c) \/ RenewFenced(c) \/ ReleaseFenced(c)
      PROVE  TypeOK'
  BY <1>9, ReturnTypes DEF AcquireBusy, RenewFenced, ReleaseFenced, Refuse, TypeOK
<1>10. ASSUME NEW c \in Controller, Renew(c)
       PROVE  TypeOK'
  <2>1. call[c].now + TTL \in Nat
    BY DEF TypeOK
  <2>2. row' \in Rows
    BY <1>10, <2>1 DEF Renew, TypeOK, Rows
  <2>3. token' \in [Controller -> [epoch : Nat, expires : Nat]]
    BY <1>10, <2>1 DEF Renew, TypeOK
  <2> QED
    BY <1>10, <2>2, <2>3 DEF Renew, Return, Idle, TypeOK
<1>11. ASSUME NEW c \in Controller, Release(c)
       PROVE  TypeOK'
  <2>1. row' \in Rows
    BY <1>11 DEF Release, Released, TypeOK, Rows
  <2>2. token' \in [Controller -> [epoch : Nat, expires : Nat]]
    BY <1>11 DEF Release, NoToken, TypeOK
  <2> QED
    BY <1>11, <2>1, <2>2 DEF Release, Return, Idle, TypeOK
<1>12. ASSUME NEW c \in Controller, Crash(c)
       PROVE  TypeOK'
  <2>1. token' \in [Controller -> [epoch : Nat, expires : Nat]]
    BY <1>12 DEF Crash, NoToken, TypeOK
  <2> QED
    BY <1>12, <2>1, ReturnTypes DEF Crash
<1> QED
  BY <1>1, <1>2, <1>3, <1>4, <1>5, <1>6, <1>7, <1>8, <1>9, <1>10, <1>11, <1>12,
     NextCases

\* Every variable keeps its type, and no call decides with a clock reading that
\* is ahead of the clock by more than the skew.
THEOREM Typing == Spec => []TypeOK
<1>1. Init => TypeOK
  BY LeaseAssumption DEF Init, TypeOK, Rows, Idle, NoToken, Op
<1>2. TypeOK /\ [Next]_vars => TypeOK'
  BY TypeStep
<1> QED
  BY <1>1, <1>2, PTL DEF Spec

-----------------------------------------------------------------------------
(***************************************************************************)
(* Fencing: an epoch names one owner.  The row's epoch is the newest ever  *)
(* granted, so the epoch a takeover writes has no earlier owner.           *)
(***************************************************************************)
RowIsNewestGrant ==
    /\ row.state = "NONE" => row.epoch = 0 /\ granted = {}
    /\ row.state # "NONE" => [epoch |-> row.epoch, owner |-> row.owner] \in granted
    /\ \A g \in granted : g.epoch <= row.epoch

FencingInv == TypeOK /\ RowIsNewestGrant /\ EpochNamesOneOwner

\* A grant under an epoch above every granted one keeps the invariant.
LEMMA NewGrantFences ==
    ASSUME FencingInv, NEW c \in Controller, NEW e \in Nat, Write(c, e),
           row.epoch < e
    PROVE  RowIsNewestGrant' /\ EpochNamesOneOwner'
<1> DEFINE new == [epoch |-> e, owner |-> OwnerOf[c]]
<1>1. granted' = granted \cup {new} /\ new.epoch = e /\ new.owner = OwnerOf[c]
  BY DEF Write
<1>2. row'.epoch = e /\ row'.owner = OwnerOf[c] /\ row'.state = "ACTIVE"
  BY DEF Write
<1>3. \A g \in granted : g.epoch \in Nat /\ g.epoch < e
  BY DEF FencingInv, TypeOK, Rows, RowIsNewestGrant
<1>4. RowIsNewestGrant'
  BY <1>1, <1>2, <1>3 DEF RowIsNewestGrant
<1>5. EpochNamesOneOwner'
  BY <1>1, <1>3 DEF FencingInv, EpochNamesOneOwner
<1> QED
  BY <1>4, <1>5

\* A grant to the owner the row already names adds nothing to the history.
LEMMA SameGrantFences ==
    ASSUME FencingInv, NEW c \in Controller, Write(c, row.epoch),
           row.state # "NONE", SameOwner(c)
    PROVE  RowIsNewestGrant' /\ EpochNamesOneOwner'
<1>1. granted' = granted
  BY DEF FencingInv, RowIsNewestGrant, Write, SameOwner
<1>2. row'.epoch = row.epoch /\ row'.owner = row.owner /\ row'.state = "ACTIVE"
  BY DEF Write, SameOwner
<1> QED
  BY <1>1, <1>2 DEF FencingInv, RowIsNewestGrant, EpochNamesOneOwner

\* So does a step that keeps the row's epoch and owner and grants nothing.
LEMMA SameRowFences ==
    ASSUME FencingInv, granted' = granted, row'.epoch = row.epoch,
           row'.owner = row.owner, row'.state = "NONE" <=> row.state = "NONE"
    PROVE  RowIsNewestGrant' /\ EpochNamesOneOwner'
BY DEF FencingInv, RowIsNewestGrant, EpochNamesOneOwner

\* Every step preserves the fencing.
LEMMA FencingStep ==
    ASSUME FencingInv, [Next]_vars
    PROVE  FencingInv'
<1>1. TypeOK'
  BY TypeStep DEF FencingInv
<1>2. row \in Rows
  BY DEF FencingInv, TypeOK
<1>3. CASE UNCHANGED <<row, granted>>
  BY <1>1, <1>3, SameRowFences DEF FencingInv
<1>4. ASSUME NEW c \in Controller, AcquireInsert(c)
      PROVE  FencingInv'
  <2>1. row.epoch = 0
    BY <1>4 DEF AcquireInsert, FencingInv, RowIsNewestGrant
  <2> QED
    BY <1>1, <1>4, <2>1, NewGrantFences DEF AcquireInsert, FencingInv
<1>5. ASSUME NEW c \in Controller, AcquireRefresh(c)
      PROVE  FencingInv'
  BY <1>1, <1>5, SameGrantFences DEF AcquireRefresh, Live, FencingInv
<1>6. ASSUME NEW c \in Controller, AcquireTakeover(c)
      PROVE  FencingInv'
  <2>1. NextEpoch \in Nat /\ row.epoch < NextEpoch
    BY <1>2 DEF NextEpoch, Rows
  <2> QED
    BY <1>1, <1>6, <2>1, NewGrantFences DEF AcquireTakeover, FencingInv
<1>7. ASSUME NEW c \in Controller, Renew(c) \/ Release(c)
      PROVE  FencingInv'
  <2>1. row.state = "ACTIVE"
    BY <1>7 DEF Renew, Holds, Release, Matches
  <2>2. /\ granted' = granted /\ row'.epoch = row.epoch /\ row'.owner = row.owner
        /\ row'.state # "NONE"
    BY <1>2, <1>7, <2>1 DEF Renew, Release, Released, Rows
  <2> QED
    BY <1>1, <2>1, <2>2, SameRowFences DEF FencingInv
<1>8. ASSUME NEW c \in Controller,
             \/ AcquireFindsNoRow(c) \/ AcquireCollides(c) \/ AcquireBusy(c)
             \/ RenewFenced(c) \/ ReleaseFenced(c) \/ Crash(c)
      PROVE  UNCHANGED <<row, granted>>
  BY <1>8 DEF AcquireFindsNoRow, AcquireCollides, AcquireBusy, RenewFenced,
     ReleaseFenced, Crash, Refuse
<1>9. ASSUME Tick \/ \E c \in Controller, op \in Op \ {"insert"} : Call(c, op)
      PROVE  UNCHANGED <<row, granted>>
  BY <1>9 DEF Tick, Call
<1>10. CASE UNCHANGED vars
  BY <1>3, <1>10 DEF vars
<1> QED
  BY <1>3, <1>4, <1>5, <1>6, <1>7, <1>8, <1>9, <1>10, NextCases

\* No lease epoch is ever granted to two (session, worker) pairs.
THEOREM Fencing == Spec => []EpochNamesOneOwner
<1>1. Init => FencingInv
  <2>1. Init => TypeOK
    BY LeaseAssumption DEF Init, TypeOK, Rows, Idle, NoToken, Op
  <2> QED
    BY <2>1 DEF Init, FencingInv, RowIsNewestGrant, EpochNamesOneOwner
<1>2. FencingInv /\ [Next]_vars => FencingInv'
  BY FencingStep
<1>3. FencingInv => EpochNamesOneOwner
  BY DEF FencingInv
<1> QED
  BY <1>1, <1>2, <1>3, PTL DEF Spec

-----------------------------------------------------------------------------
(***************************************************************************)
(* A term that outlasts the skew is authority.  LiveTokenIsAuthority alone *)
(* is not inductive: a takeover could end a row whose term is shorter than *)
(* the token says.  Such a token's term is the row's, exactly.             *)
(***************************************************************************)
SureOf(c) == Sole(c) /\ token[c] # NoToken /\ clock + MaxSkew < token[c].expires

LiveInv ==
    /\ TypeOK
    /\ \A c \in Controller :
        SureOf(c) => Matches(c) /\ row.expires = token[c].expires

\* A step of another task that leaves the row alone leaves a sure task sure.
LEMMA RowUntouchedLive ==
    ASSUME LiveInv, TypeOK', row' = row, clock' \in {clock, clock + 1},
           NEW c \in Controller, token'[c] \in {token[c], NoToken}, SureOf(c)'
    PROVE  (Matches(c) /\ row.expires = token[c].expires)'
<1>1. token'[c] = token[c]
  BY DEF SureOf
<1>2. SureOf(c)
  BY <1>1, LeaseAssumption DEF SureOf, Sole, LiveInv, TypeOK
<1> QED
  BY <1>1, <1>2 DEF LiveInv, Matches, SameOwner

\* A task that writes the row and takes the term it wrote as its own is covered
\* by it; a step that may touch the row only when no other task is sure keeps
\* the invariant.
LEMMA WriterLive ==
    ASSUME LiveInv, TypeOK', UNCHANGED clock, NEW c \in Controller,
           \A d \in Controller \ {c} : token'[d] = token[d] /\ ~SureOf(d),
           SureOf(c)' => (Matches(c) /\ row.expires = token[c].expires)'
    PROVE  LiveInv'
<1>1. \A d \in Controller \ {c} : ~SureOf(d)'
  BY DEF SureOf, Sole
<1> QED
  BY <1>1 DEF LiveInv

\* Nobody but the row's owner is sure; and nobody at all is once some worker's
\* clock shows the row's term as over.
LEMMA OthersUnsure ==
    ASSUME LiveInv, NEW c \in Controller, NEW d \in Controller \ {c},
           \/ row.state # "ACTIVE"
           \/ SameOwner(c)
           \/ row.expires <= call[c].now
    PROVE  ~SureOf(d)
<1> SUFFICES ASSUME SureOf(d) PROVE FALSE
  OBVIOUS
<1>1. Matches(d) /\ row.expires = token[d].expires
  BY DEF LiveInv
<1>2. CASE row.state # "ACTIVE"
  BY <1>1, <1>2 DEF Matches
<1>3. CASE SameOwner(c)
  BY <1>1, <1>3 DEF Matches, SameOwner, SureOf, Sole
<1>4. CASE row.expires <= call[c].now
  <2>1. call[c].now <= clock + MaxSkew /\ call[c].now \in Nat
    BY DEF LiveInv, TypeOK
  <2> QED
    BY <1>1, <1>4, <2>1, LeaseAssumption DEF SureOf, LiveInv, TypeOK, Rows
<1> QED
  BY <1>2, <1>3, <1>4

\* A grant or a refresh covers the task it answers.
LEMMA WriteLive ==
    ASSUME LiveInv, NEW c \in Controller, NEW e \in Nat, Write(c, e)
    PROVE  /\ (Matches(c) /\ row.expires = token[c].expires)'
           /\ \A d \in Controller \ {c} : token'[d] = token[d]
BY DEF Write, Matches, SameOwner, LiveInv, TypeOK

\* Every step preserves what a live term says of the fence.
LEMMA LiveStep ==
    ASSUME LiveInv, [Next]_vars
    PROVE  LiveInv'
<1>1. TypeOK /\ TypeOK' /\ row \in Rows
  BY TypeStep DEF LiveInv, TypeOK
<1>2. ASSUME row' = row, clock' \in {clock, clock + 1},
             \A c \in Controller : token'[c] \in {token[c], NoToken}
      PROVE  LiveInv'
  BY <1>1, <1>2, RowUntouchedLive DEF LiveInv
<1>3. CASE UNCHANGED vars
  BY <1>2, <1>3 DEF vars
<1>4. ASSUME Tick \/ \E c \in Controller, op \in Op \ {"insert"} : Call(c, op)
      PROVE  LiveInv'
  BY <1>2, <1>4 DEF Tick, Call
<1>5. ASSUME NEW c \in Controller,
             \/ AcquireFindsNoRow(c) \/ AcquireCollides(c) \/ AcquireBusy(c)
             \/ RenewFenced(c) \/ ReleaseFenced(c) \/ Crash(c)
      PROVE  LiveInv'
  <2>1. row' = row /\ clock' = clock
    BY <1>5 DEF AcquireFindsNoRow, AcquireCollides, AcquireBusy, RenewFenced,
       ReleaseFenced, Crash, Refuse
  <2>2. token' = token \/ token' = [token EXCEPT ![c] = NoToken]
    BY <1>5 DEF AcquireFindsNoRow, AcquireCollides, AcquireBusy, RenewFenced,
       ReleaseFenced, Crash, Refuse
  <2>3. \A d \in Controller : token'[d] \in {token[d], NoToken}
    BY <1>1, <2>2 DEF TypeOK
  <2> QED
    BY <1>2, <2>1, <2>3
<1>6. ASSUME NEW c \in Controller, AcquireInsert(c)
      PROVE  LiveInv'
  <2>1. \A d \in Controller \ {c} : ~SureOf(d)
    BY <1>6, OthersUnsure DEF AcquireInsert
  <2> QED
    BY <1>1, <1>6, <2>1, WriteLive, WriterLive DEF AcquireInsert
<1>7. ASSUME NEW c \in Controller, AcquireRefresh(c)
      PROVE  LiveInv'
  <2>1. \A d \in Controller \ {c} : ~SureOf(d)
    BY <1>7, OthersUnsure DEF AcquireRefresh
  <2>2. row.epoch \in Nat
    BY <1>1 DEF Rows
  <2> QED
    BY <1>1, <1>7, <2>1, <2>2, WriteLive, WriterLive DEF AcquireRefresh
<1>8. ASSUME NEW c \in Controller, AcquireTakeover(c)
      PROVE  LiveInv'
  <2>1. row.state # "ACTIVE" \/ row.expires <= call[c].now
    BY <1>1, <1>8 DEF AcquireTakeover, MayTakeOver, Live, Rows, TypeOK
  <2>2. \A d \in Controller \ {c} : ~SureOf(d)
    BY <2>1, OthersUnsure
  <2>3. NextEpoch \in Nat
    BY <1>1 DEF NextEpoch, Rows
  <2> QED
    BY <1>1, <1>8, <2>2, <2>3, WriteLive, WriterLive DEF AcquireTakeover
<1>9. ASSUME NEW c \in Controller, Renew(c)
      PROVE  LiveInv'
  <2>1. Matches(c)
    BY <1>9 DEF Renew, Holds
  <2>2. \A d \in Controller \ {c} : ~SureOf(d)
    BY <2>1, OthersUnsure DEF Matches
  <2>3. \A d \in Controller \ {c} : token'[d] = token[d]
    BY <1>1, <1>9 DEF Renew, TypeOK
  <2>4. (Matches(c) /\ row.expires = token[c].expires)'
    BY <1>1, <1>9, <2>1 DEF Renew, Matches, SameOwner, TypeOK, Rows
  <2> QED
    BY <1>1, <1>9, <2>2, <2>3, <2>4, WriterLive DEF Renew
<1>10. ASSUME NEW c \in Controller, Release(c)
       PROVE  LiveInv'
  <2>1. \A d \in Controller \ {c} : ~SureOf(d)
    BY <1>10, OthersUnsure DEF Release, Matches
  <2>2. \A d \in Controller \ {c} : token'[d] = token[d]
    BY <1>1, <1>10 DEF Release, TypeOK
  <2>3. ~SureOf(c)'
    BY <1>1, <1>10 DEF Release, SureOf, TypeOK
  <2> QED
    BY <1>1, <1>10, <2>1, <2>2, <2>3, WriterLive DEF Release
<1> QED
  BY <1>3, <1>4, <1>5, <1>6, <1>7, <1>8, <1>9, <1>10, NextCases

\* While a task knows a term that outlasts the clock by more than the skew, and
\* shares its identity with nobody, the row is still its own: the term check a
\* mutator makes without asking the database is safe.
THEOREM LiveAuthority == Spec => []LiveTokenIsAuthority
<1>1. Init => LiveInv
  <2>1. Init => TypeOK
    BY LeaseAssumption DEF Init, TypeOK, Rows, Idle, NoToken, Op
  <2> QED
    BY <2>1 DEF Init, LiveInv, SureOf
<1>2. LiveInv /\ [Next]_vars => LiveInv'
  BY LiveStep
<1>3. LiveInv => LiveTokenIsAuthority
  BY DEF LiveInv, LiveTokenIsAuthority, SureOf
<1> QED
  BY <1>1, <1>2, <1>3, PTL DEF Spec

-----------------------------------------------------------------------------
(***************************************************************************)
(* Refinement: every step of the lease is a step of FencedAuthority or a   *)
(* stutter.  The fencing invariant supplies what the mapping needs, that a *)
(* missing row is epoch 0.                                                 *)
(***************************************************************************)
\* What the phase of the abstract authority is, by cases.
LEMMA PhaseCases ==
    ASSUME TypeOK
    PROVE  /\ row.state # "ACTIVE" <=> Phase = "free"
           /\ row.state = "ACTIVE" <=> Phase \in {"held", "lapsed"}
           /\ row.state = "ACTIVE" /\ row.expires <= clock + MaxSkew
                <=> Phase = "lapsed"
<1>1. row.expires \in Nat /\ clock + MaxSkew \in Nat
  BY LeaseAssumption DEF TypeOK, Rows
<1> QED
  BY <1>1 DEF Phase

\* The phase of the authority after a step.
LEMMA PhaseCasesNext ==
    ASSUME TypeOK'
    PROVE  /\ row'.state # "ACTIVE" <=> Phase' = "free"
           /\ row'.state = "ACTIVE" <=> Phase' \in {"held", "lapsed"}
<1>1. row' \in Rows
  BY DEF TypeOK, Rows
<1>2. row'.expires \in Nat
  BY <1>1 DEF Rows
<1>3. clock' \in Nat
  BY DEF TypeOK
<1>4. MaxSkew \in Nat
  BY LeaseAssumption
<1> QED
  BY <1>2, <1>3, <1>4 DEF Phase

\* Every step is a step of the authority, or none.
LEMMA RefinementStep ==
    ASSUME FencingInv, [Next]_vars
    PROVE  [Authority!Next]_(Authority!vars)
<1>1. TypeOK /\ TypeOK' /\ row \in Rows
  BY TypeStep DEF FencingInv, TypeOK
<1>2. ASSUME row'.epoch = row.epoch, row'.owner = row.owner,
             row'.state = "ACTIVE" <=> row.state = "ACTIVE"
      PROVE  [Authority!Next]_(Authority!vars)
  <2>1. CASE row.state = "ACTIVE"
    BY <1>1, <1>2, <2>1, PhaseCases, PhaseCasesNext
    DEF Authority!Next, Authority!TermMoves, Authority!Granted
  <2>2. CASE row.state # "ACTIVE"
    BY <1>1, <1>2, <2>2, PhaseCases, PhaseCasesNext DEF Authority!vars
  <2> QED
    BY <2>1, <2>2
<1>3. ASSUME NEW c \in Controller, NEW e \in Nat, Write(c, e), e = row.epoch + 1,
             row.state # "ACTIVE" \/ row.expires <= clock + MaxSkew
      PROVE  [Authority!Next]_(Authority!vars)
  <2>1. row'.epoch = row.epoch + 1 /\ row'.owner \in Owner /\ row'.state = "ACTIVE"
    BY <1>3, LeaseAssumption DEF Write
  <2>2. Phase \in {"free", "lapsed"}
    BY <1>1, <1>3, PhaseCases
  <2>3. Phase' \in {"held", "lapsed"}
    BY <1>1, <2>1, PhaseCasesNext
  <2> QED
    BY <2>1, <2>2, <2>3 DEF Authority!Next, Authority!Grant, Authority!Granted
<1>4. CASE UNCHANGED vars
  BY <1>2, <1>4 DEF vars
<1>5. ASSUME Tick \/ \E c \in Controller, op \in Op \ {"insert"} : Call(c, op)
      PROVE  [Authority!Next]_(Authority!vars)
  BY <1>2, <1>5 DEF Tick, Call
<1>6. ASSUME NEW c \in Controller,
             \/ AcquireFindsNoRow(c) \/ AcquireCollides(c) \/ AcquireBusy(c)
             \/ RenewFenced(c) \/ ReleaseFenced(c) \/ Crash(c)
      PROVE  [Authority!Next]_(Authority!vars)
  BY <1>2, <1>6 DEF AcquireFindsNoRow, AcquireCollides, AcquireBusy, RenewFenced,
     ReleaseFenced, Crash, Refuse
<1>7. ASSUME NEW c \in Controller, AcquireInsert(c)
      PROVE  [Authority!Next]_(Authority!vars)
  <2>1. row.state = "NONE" /\ row.epoch = 0
    BY <1>7 DEF AcquireInsert, FencingInv, RowIsNewestGrant
  <2> QED
    BY <1>3, <1>7, <2>1 DEF AcquireInsert
<1>8. ASSUME NEW c \in Controller, AcquireTakeover(c)
      PROVE  [Authority!Next]_(Authority!vars)
  <2>1. row.epoch + 1 \in Nat /\ Write(c, row.epoch + 1)
    BY <1>1, <1>8 DEF AcquireTakeover, NextEpoch, Rows
  <2>2. /\ call[c].now \in Nat /\ call[c].now <= clock + MaxSkew
        /\ row.expires \in Nat /\ clock + MaxSkew \in Nat
    BY <1>1, LeaseAssumption DEF TypeOK, Rows
  <2>3. row.state # "ACTIVE" \/ row.expires <= clock + MaxSkew
    BY <1>8, <2>2 DEF AcquireTakeover, MayTakeOver, Live
  <2> QED
    BY <1>3, <2>1, <2>3
<1>9. ASSUME NEW c \in Controller, AcquireRefresh(c)
      PROVE  [Authority!Next]_(Authority!vars)
  <2>1. row.state = "ACTIVE" /\ row.owner = OwnerOf[c]
    BY <1>9 DEF AcquireRefresh, Live, SameOwner
  <2> QED
    BY <1>2, <1>9, <2>1 DEF AcquireRefresh, Write
<1>10. ASSUME NEW c \in Controller, Renew(c)
       PROVE  [Authority!Next]_(Authority!vars)
  <2>1. row'.epoch = row.epoch /\ row'.owner = row.owner /\ row'.state = row.state
    BY <1>1, <1>10 DEF Renew, Rows
  <2> QED
    BY <1>2, <2>1
<1>11. ASSUME NEW c \in Controller, Release(c)
       PROVE  [Authority!Next]_(Authority!vars)
  <2>1. row.state = "ACTIVE"
    BY <1>11 DEF Release, Matches
  <2>2. row'.epoch = row.epoch /\ row'.owner = row.owner /\ row'.state # "ACTIVE"
    BY <1>1, <1>11 DEF Release, Released, Rows
  <2> QED
    BY <1>1, <2>1, <2>2, PhaseCases, PhaseCasesNext
    DEF Authority!Next, Authority!GiveUp, Authority!Granted
<1> QED
  BY <1>4, <1>5, <1>6, <1>7, <1>8, <1>9, <1>10, <1>11, NextCases

\* The lease implements the abstract authority: epochs are numbered without
\* gaps, each names one owner, and a term no clock can see as over is never
\* taken away.
THEOREM Refinement == Spec => ImplementsAuthority
<1>1. Init => TypeOK /\ FencingInv
  <2>1. Init => TypeOK
    BY LeaseAssumption DEF Init, TypeOK, Rows, Idle, NoToken, Op
  <2> QED
    BY <2>1 DEF Init, FencingInv, RowIsNewestGrant, EpochNamesOneOwner
<1>2. FencingInv /\ [Next]_vars => FencingInv'
  BY FencingStep
<1>3. Init => Authority!Init
  BY <1>1, PhaseCases DEF Init, Authority!Init
<1>4. FencingInv /\ [Next]_vars => [Authority!Next]_(Authority!vars)
  BY RefinementStep
<1> QED
  BY <1>1, <1>2, <1>3, <1>4, PTL DEF Spec, ImplementsAuthority, Authority!Spec
=============================================================================
