-------------------------- MODULE SegmentPumpProofs --------------------------
(***************************************************************************)
(* Proofs about SegmentPump: for any set of workers, and any number of     *)
(* files, epochs, faults and losses, the evidence of a file is always      *)
(* somewhere; for one worker, an acknowledgement is never taken back, and  *)
(* an epoch declared durable is complete.                                  *)
(***************************************************************************)
EXTENDS SegmentPump, WellFoundedInduction, TLAPS

Rows == [state : State, counted : BOOLEAN, key : BOOLEAN, missing : BOOLEAN]
Files == [at : Place, epoch : 0 .. MaxEpoch]
Memory == [ctx : 0 .. MaxEpoch, final : BOOLEAN, found : SUBSET File,
           todo : SUBSET File, seg : Nat, seen : Rows, copy : BOOLEAN,
           clean : BOOLEAN]

-----------------------------------------------------------------------------
(***************************************************************************)
(* The inductive invariant.                                                *)
(***************************************************************************)
\* The files the producer has written, and a worker's steps on a segment.
Written == {f \in File : file[f].at # "none"}
OnSegment == Steps \ {"idle", "seal", "discover", "stop", "end", "sealall",
                      "discoverall", "next", "account"}

\* What a worker remembers is of an epoch and of files that are there.
MemoryInv(w) ==
    /\ local[w].ctx <= epoch
    /\ ~At(w, "idle") => local[w].ctx # 0
    /\ local[w].found \cup local[w].todo \subseteq Written
    /\ pc[w] \in OnSegment => Seg(w) \in Written

\* Epochs are numbered as they come, and a file belongs to one of them.
EpochInv ==
    /\ producer <= epoch
    /\ \A f \in Written : file[f].epoch \in 1 .. epoch

\* From the commit of its copy on, a segment has a key, and its bytes are in
\* the store unless the store lost them.
Committed == {"PERSISTED", "ACK_PENDING"} \cup Acked
Stored == store \cup lost
CommitInv ==
    /\ \A f \in File : row[f].state \in Committed => row[f].key /\ f \in Stored
    /\ \A w \in Worker : At(w, "persisted") => Seg(w) \in Stored

\* Until the deletion it allowed is over, a checked copy stays valid.
DeleteInv == \A w \in Worker : At(w, "delete") => CopyValid(Seg(w))

PumpInv ==
    /\ TypeOK
    /\ local \in [Worker -> Memory]
    /\ \A w \in Worker : MemoryInv(w)
    /\ EpochInv /\ CommitInv
    /\ DeleteInv /\ EvidenceSomewhere

\* With one worker, the row it decides by is the row it read, ...
SeenInv == \A w \in Worker : At(w, "examine") => local[w].seen = row[Seg(w)]

\* ... and a finalization accounts for an epoch that produces no more.
Unfinal == {"idle", "seal", "discover"}
Stopped == Steps \ (Unfinal \cup {"stop", "end", "sealall"})
FinalOf(w) ==
    /\ pc[w] \in Unfinal => ~local[w].final
    /\ At(w, "account") => local[w].final
    /\ (pc[w] \in Stopped /\ local[w].final) => producer # local[w].ctx
FinalInv == \A w \in Worker : FinalOf(w)
DurableInv ==
    /\ durable <= epoch
    /\ durable # 0 => producer # durable
    /\ DurableEpochIsComplete

-----------------------------------------------------------------------------
(***************************************************************************)
(* A set of files that is not empty has a first one.                       *)
(***************************************************************************)
LEMMA MinOfSome ==
    ASSUME NEW S \in SUBSET File, S # {}
    PROVE  Min(S) \in S
<1> DEFINE R == OpToRel(<, Nat)
<1>1. IsWellFoundedOn(R, Nat)
  BY NatLessThanWellFounded
<1>2. S \subseteq Nat
  BY PumpAssumption, SMT DEF File
<1>3. \A d, e \in Nat : e < d => <<e, d>> \in R
  BY DEF OpToRel
<1> HIDE DEF R
<1>4. PICK d \in S : \A e \in S : <<e, d>> \notin R
  BY <1>1, <1>2, WFMin
<1>5. \A e \in S : ~(e < d)
  BY <1>2, <1>3, <1>4
<1>6. \A e \in S : d <= e
  BY <1>2, <1>5, SMT
<1> QED
  BY <1>6 DEF Min

-----------------------------------------------------------------------------
(***************************************************************************)
(* What a step of worker w may do to the rows: they keep their keys, a row *)
(* is committed by a commit of its copy only, and an acknowledged one      *)
(* stays so unless the worker decides by a row it read too early.          *)
(***************************************************************************)
Commits(w, f) == At(w, "persisted") /\ f = Seg(w) /\ row'[f].key
ReadEarlier(w, f) == At(w, "examine") /\ f = Seg(w) /\ local[w].seen # row[f]
RowKept(w) ==
    /\ row' \in [File -> Rows]
    /\ \A f \in File :
        /\ row[f].key => row'[f].key
        /\ row'[f].state \in Committed => row[f].state \in Committed \/ Commits(w, f)
        /\ row[f].state \in Acked => row'[f].state \in Acked \/ ReadEarlier(w, f)

\* Rows that are not written are kept.
LEMMA RowUntouched ==
    ASSUME row \in [File -> Rows], row' = row, NEW w \in Worker
    PROVE  RowKept(w)
BY DEF RowKept

\* One row written, from its old and new contents.
LEMMA RowWritten ==
    ASSUME row \in [File -> Rows], NEW w \in Worker, NEW f \in File,
           NEW m \in Rows, row' = [row EXCEPT ![f] = m],
           row[f].key => m.key,
           m.state \in Committed =>
               \/ row[f].state \in Committed
               \/ At(w, "persisted") /\ f = Seg(w) /\ m.key,
           row[f].state \in Acked => m.state \in Acked \/ ReadEarlier(w, f)
    PROVE  RowKept(w)
<1>1. row' \in [File -> Rows]
  OBVIOUS
<1>2. ASSUME NEW g \in File, g # f
      PROVE  row'[g] = row[g]
  BY <1>2
<1>3. row'[f] = m
  OBVIOUS
<1> QED
  BY <1>1, <1>2, <1>3, Zenon DEF RowKept, Commits

\* The state alone written.
LEMMA StateWritten ==
    ASSUME row \in [File -> Rows], NEW w \in Worker, NEW f \in File,
           NEW s \in State, row' = [row EXCEPT ![f].state = s],
           s \in Committed => row[f].state \in Committed,
           row[f].state \in Acked => s \in Acked \/ ReadEarlier(w, f)
    PROVE  RowKept(w)
<1> DEFINE m == [row[f] EXCEPT !.state = s]
<1>1. m \in Rows
  BY SMT DEF Rows
<1>2. m.key = row[f].key /\ m.state = s
  BY SMT DEF Rows
<1>3. row' = [row EXCEPT ![f] = m]
  OBVIOUS
<1> HIDE DEF m
<1> QED
  BY <1>1, <1>2, <1>3, RowWritten

\* The error code alone written.
LEMMA CodeWritten ==
    ASSUME row \in [File -> Rows], NEW w \in Worker, NEW f \in File,
           NEW b \in BOOLEAN, row' = [row EXCEPT ![f].missing = b]
    PROVE  RowKept(w)
<1> DEFINE m == [row[f] EXCEPT !.missing = b]
<1>1. m \in Rows
  BY SMT DEF Rows
<1>2. m.key = row[f].key /\ m.state = row[f].state
  BY SMT DEF Rows
<1>3. row' = [row EXCEPT ![f] = m]
  OBVIOUS
<1> HIDE DEF m
<1> QED
  BY <1>1, <1>2, <1>3, RowWritten

\* The segment a worker is at is a file that was written.
LEMMA AtSegment ==
    ASSUME PumpInv, NEW w \in Worker, pc[w] \in OnSegment
    PROVE  Seg(w) \in File /\ Seg(w) \in Written /\ row[Seg(w)] \in Rows
<1>1. MemoryInv(w) /\ row \in [File -> Rows]
  BY DEF PumpInv, TypeOK, Rows
<1> QED
  BY <1>1 DEF MemoryInv, Written

LEMMA DiscoverRow ==
    ASSUME PumpInv, NEW w \in Worker, Discover(w)
    PROVE  RowKept(w)
<1>1. row \in [File -> Rows] /\ local \in [Worker -> Memory]
  BY DEF PumpInv, TypeOK, Rows
<1>2. local[w].found \in SUBSET File /\ local[w].found # {}
  BY <1>1, Zenon DEF Memory, Discover
<1> DEFINE f == Min(local[w].found)
<1>3. f \in File
  BY <1>2, MinOfSome
<1>4. row' = [row EXCEPT ![f] = IF @.state = "NONE"
                                THEN [@ EXCEPT !.state = "DISCOVERED"] ELSE @]
  BY DEF Discover
<1> HIDE DEF f
<1>5. CASE row[f].state = "NONE"
  <2>1. row' = [row EXCEPT ![f].state = "DISCOVERED"]
    BY <1>4, <1>5
  <2> QED
    BY <1>1, <1>3, <1>5, <2>1, StateWritten DEF State, Committed, Acked
<1>6. CASE row[f].state # "NONE"
  <2>1. row' = row
    BY <1>1, <1>3, <1>4, <1>6
  <2> QED
    BY <1>1, <2>1, RowUntouched
<1> QED
  BY <1>5, <1>6

LEMMA ExamineRow ==
    ASSUME PumpInv, NEW w \in Worker, Examine(w)
    PROVE  RowKept(w)
<1> DEFINE f == Seg(w)
           seen == local[w].seen
           copy == local[w].copy
           vanished == ~copy /\ seen.key /\ seen.state \in Demoted
           retried == ~vanished /\ seen.state = "ERROR" /\ ~seen.missing
<1>1. row \in [File -> Rows] /\ f \in File /\ row[f] \in Rows /\ At(w, "examine")
  BY AtSegment DEF Examine, OnSegment, Steps, At, PumpInv, TypeOK, Rows
<1>2. copy \in BOOLEAN /\ vanished \in BOOLEAN /\ retried \in BOOLEAN
  BY Zenon DEF PumpInv, Memory
<1>3. CASE seen.state = "REMOTE_DELETED"
  <2>1. row' = row
    BY <1>3 DEF Examine, Acked
  <2> QED
    BY <1>1, <2>1, RowUntouched
<1>4. CASE seen.state = "ACKED"
  <2>1. row' = [row EXCEPT ![f].missing = @ \/ ~copy]
    BY <1>4 DEF Examine, Acked
  <2>2. (row[f].missing \/ ~copy) \in BOOLEAN
    OBVIOUS
  <2>3. row' = [row EXCEPT ![f].missing = (row[f].missing \/ ~copy)]
    BY <2>1
  <2> QED
    BY <1>1, <2>2, <2>3, CodeWritten
<1>5. CASE seen.state \notin Acked
  <2> DEFINE m == [row[f] EXCEPT
                     !.state = IF vanished \/ retried THEN "DISCOVERED" ELSE @,
                     !.missing = @ \/ vanished]
  <2>1. row' = [row EXCEPT ![f].state = IF vanished \/ retried
                                         THEN "DISCOVERED" ELSE @,
                           ![f].missing = @ \/ vanished]
    BY <1>5 DEF Examine, Acked
  <2>2. row' = [row EXCEPT ![f] = m]
    BY <1>1, <2>1, Zenon
  <2>3. /\ m.key = row[f].key
        /\ m.counted = row[f].counted
        /\ m.state \in {"DISCOVERED", row[f].state}
    BY <1>1, SMT DEF Rows
  <2>4. m \in Rows
    <3>1. (IF vanished \/ retried THEN "DISCOVERED" ELSE row[f].state) \in State
      BY <1>1, SMT DEF Rows, State
    <3>2. (row[f].missing \/ vanished) \in BOOLEAN
      OBVIOUS
    <3> QED
      BY <1>1, <3>1, <3>2, Zenon DEF Rows
  <2>5. row[f].state \in Acked => seen # row[f]
    BY <1>5
  <2>6. row[f].state \in Acked => ReadEarlier(w, f)
    BY <1>1, <2>5 DEF ReadEarlier
  <2> HIDE DEF m
  <2>7. m.state \in Committed => row[f].state \in Committed
    BY <2>3 DEF Committed, Acked
  <2> QED
    BY <1>1, <2>2, <2>3, <2>4, <2>6, <2>7, RowWritten
<1> QED
  BY <1>3, <1>4, <1>5 DEF Acked

LEMMA BeginRow ==
    ASSUME PumpInv, NEW w \in Worker, Begin(w)
    PROVE  RowKept(w)
<1>1. row \in [File -> Rows] /\ Seg(w) \in File
  BY AtSegment DEF Begin, OnSegment, Steps, At, PumpInv, TypeOK, Rows
<1>2. \/ row' = row
      \/ row' = [row EXCEPT ![Seg(w)].state = "TRANSFERRING"] /\ row[Seg(w)].state = "DISCOVERED"
  BY DEF Begin, SetState
<1> QED
  BY <1>1, <1>2, RowUntouched, StateWritten DEF State, Committed, Acked

LEMMA MarkDownloadedRow ==
    ASSUME PumpInv, NEW w \in Worker, MarkDownloaded(w)
    PROVE  RowKept(w)
<1>1. row \in [File -> Rows] /\ Seg(w) \in File
  BY AtSegment DEF MarkDownloaded, OnSegment, Steps, At, PumpInv, TypeOK, Rows
<1>2. \/ row' = row
      \/ row' = [row EXCEPT ![Seg(w)].state = "DOWNLOADED"] /\ row[Seg(w)].state = "TRANSFERRING"
  BY DEF MarkDownloaded, SetState
<1> QED
  BY <1>1, <1>2, RowUntouched, StateWritten DEF State, Committed, Acked

LEMMA VerifyRow ==
    ASSUME PumpInv, NEW w \in Worker, Verify(w)
    PROVE  RowKept(w)
<1> DEFINE f == Seg(w)
           m == [row[f] EXCEPT !.state = "PERSISTING", !.counted = TRUE]
<1>1. row \in [File -> Rows] /\ f \in File /\ row[f] \in Rows
  BY AtSegment DEF Verify, OnSegment, Steps, At, PumpInv, TypeOK, Rows
<1>2. CASE row[f].state = "DOWNLOADED"
  <2>1. row' = [row EXCEPT ![f] = m]
    BY <1>1, <1>2 DEF Verify
  <2>2. m.key = row[f].key /\ m.state = "PERSISTING"
    BY <1>1, SMT DEF Rows
  <2>3. m \in Rows
    <3>1. "PERSISTING" \in State
      BY DEF State
    <3> QED
      BY <1>1, <3>1, Zenon DEF Rows
  <2> HIDE DEF m
  <2> QED
    BY <1>1, <1>2, <2>1, <2>2, <2>3, RowWritten DEF Committed, Acked
<1>3. CASE row[f].state = "VERIFIED"
  <2>1. row' = [row EXCEPT ![f].state = "PERSISTING"]
    BY <1>1, <1>3 DEF Verify
  <2> QED
    BY <1>1, <1>3, <2>1, StateWritten DEF State, Committed, Acked
<1>4. CASE row[f].state \notin {"DOWNLOADED", "VERIFIED"}
  <2>1. row' = row
    BY <1>1, <1>4 DEF Verify
  <2> QED
    BY <1>1, <2>1, RowUntouched
<1> QED
  BY <1>2, <1>3, <1>4

LEMMA CommitPersistedRow ==
    ASSUME PumpInv, NEW w \in Worker, CommitPersisted(w)
    PROVE  RowKept(w)
<1> DEFINE f == Seg(w)
           m == [row[f] EXCEPT !.state = "PERSISTED", !.key = TRUE]
<1>1. row \in [File -> Rows] /\ f \in File /\ row[f] \in Rows /\ At(w, "persisted")
  BY AtSegment DEF CommitPersisted, OnSegment, Steps, At, PumpInv, TypeOK, Rows
<1>2. CASE row[f].state = "PERSISTING"
  <2>1. row' = [row EXCEPT ![f] = m]
    BY <1>1, <1>2 DEF CommitPersisted
  <2>2. m.key /\ m.state = "PERSISTED"
    BY <1>1, SMT DEF Rows
  <2>3. m \in Rows
    <3>1. "PERSISTED" \in State
      BY DEF State
    <3> QED
      BY <1>1, <3>1, Zenon DEF Rows
  <2> HIDE DEF m
  <2> QED
    BY <1>1, <1>2, <2>1, <2>2, <2>3, RowWritten DEF Committed, Acked
<1>3. CASE row[f].state # "PERSISTING"
  BY <1>1, <1>3, RowUntouched DEF CommitPersisted
<1> QED
  BY <1>2, <1>3

LEMMA CommitRepairRow ==
    ASSUME PumpInv, NEW w \in Worker, CommitRepair(w)
    PROVE  RowKept(w)
<1>1. row \in [File -> Rows] /\ Seg(w) \in File
  BY AtSegment DEF CommitRepair, OnSegment, Steps, At, PumpInv, TypeOK, Rows
<1>2. row' = row \/ row' = [row EXCEPT ![Seg(w)].missing = FALSE]
  BY DEF CommitRepair
<1> QED
  BY <1>1, <1>2, RowUntouched, CodeWritten

LEMMA AckPendingRow ==
    ASSUME PumpInv, NEW w \in Worker, AckPending(w)
    PROVE  RowKept(w)
<1>1. row \in [File -> Rows] /\ Seg(w) \in File
  BY AtSegment DEF AckPending, OnSegment, Steps, At, PumpInv, TypeOK, Rows
<1>2. \/ row' = row
      \/ row' = [row EXCEPT ![Seg(w)].state = "ACK_PENDING"] /\ row[Seg(w)].state = "PERSISTED"
  BY DEF AckPending, SetState, Ackable
<1> QED
  BY <1>1, <1>2, RowUntouched, StateWritten DEF State, Committed, Acked

LEMMA AckRow ==
    ASSUME PumpInv, NEW w \in Worker, Ack(w)
    PROVE  RowKept(w)
<1>1. row \in [File -> Rows] /\ Seg(w) \in File
  BY AtSegment DEF Ack, OnSegment, Steps, At, PumpInv, TypeOK, Rows
<1>2. \/ row' = row
      \/ row' = [row EXCEPT ![Seg(w)].state = "ACKED"] /\ row[Seg(w)].state = "ACK_PENDING"
  BY DEF Ack, SetState
<1> QED
  BY <1>1, <1>2, RowUntouched, StateWritten DEF State, Committed, Acked

LEMMA DeleteUnknownRow ==
    ASSUME PumpInv, NEW w \in Worker, DeleteUnknown(w)
    PROVE  RowKept(w)
<1>1. row \in [File -> Rows] /\ Seg(w) \in File
  BY AtSegment DEF DeleteUnknown, OnSegment, Steps, At, PumpInv, TypeOK, Rows
<1> QED
  BY <1>1, CodeWritten DEF DeleteUnknown

LEMMA MarkDeletedRow ==
    ASSUME PumpInv, NEW w \in Worker, MarkDeleted(w)
    PROVE  RowKept(w)
<1>1. row \in [File -> Rows] /\ Seg(w) \in File
  BY AtSegment DEF MarkDeleted, OnSegment, Steps, At, PumpInv, TypeOK, Rows
<1>2. \/ row' = row
      \/ row' = [row EXCEPT ![Seg(w)].state = "REMOTE_DELETED"] /\ row[Seg(w)].state = "ACKED"
  BY DEF MarkDeleted, SetState, DeletedState
<1> QED
  BY <1>1, <1>2, RowUntouched, StateWritten DEF State, Committed, Acked

LEMMA SetErrorRow ==
    ASSUME PumpInv, NEW w \in Worker, SetError(w)
    PROVE  RowKept(w)
<1> DEFINE f == Seg(w)
           s == IF row[f].state \in Acked THEN row[f].state ELSE "ERROR"
           b == At(w, "missing")
           m == [row[f] EXCEPT !.state = s, !.missing = b]
<1>1. row \in [File -> Rows] /\ f \in File /\ row[f] \in Rows
  BY AtSegment DEF SetError, OnSegment, Steps, PumpInv, TypeOK, Rows
<1>2. row' = [row EXCEPT ![f] = m]
  BY <1>1, Zenon DEF SetError, KeptOnError
<1>3. s \in State /\ b \in BOOLEAN
  BY <1>1, SMT DEF Rows, State, At
<1>4. m \in Rows
  BY <1>1, <1>3, Zenon DEF Rows
<1>5. m.key = row[f].key /\ m.state = s
  BY <1>1, SMT DEF Rows
<1> HIDE DEF m
<1> QED
  BY <1>1, <1>2, <1>4, <1>5, RowWritten DEF Committed, Acked

-----------------------------------------------------------------------------
(***************************************************************************)
(* What a step may do to the files: none appears but by Rotate, none       *)
(* changes its epoch, and none leaves the DUT but by a deletion.           *)
(***************************************************************************)
FileKept ==
    /\ file' \in [File -> Files]
    /\ \A f \in File :
        /\ file'[f].at = "none" <=> file[f].at = "none"
        /\ file'[f].epoch = file[f].epoch
        /\ file'[f].at = "deleted" =>
               \/ file[f].at = "deleted"
               \/ \E w \in Worker : At(w, "delete") /\ f = Seg(w)

\* Files that are not touched are kept.
LEMMA FileUntouched ==
    ASSUME TypeOK, file' = file
    PROVE  FileKept
BY DEF TypeOK, FileKept, Files

\* Sealing renames closed files of an epoch.
LEMMA SealFiles ==
    ASSUME TypeOK, NEW w \in Worker, SealScript(w)
    PROVE  FileKept
<1>1. file \in [File -> Files]
  BY DEF TypeOK, Files
<1>2. \A f \in File : f \in Closed(local[w].ctx) => file[f].at = "closed"
  BY DEF Closed
<1>3. ASSUME NEW f \in File
      PROVE  \/ file'[f] = file[f]
             \/ file'[f] = [file[f] EXCEPT !.at = "spool"] /\ file[f].at = "closed"
  BY <1>2 DEF SealScript
<1>4. \A f \in File : [file[f] EXCEPT !.at = "spool"] \in Files
  BY <1>1, SMT DEF Files, Place
<1>5. \A f \in File : /\ [file[f] EXCEPT !.at = "spool"].at = "spool"
                      /\ [file[f] EXCEPT !.at = "spool"].epoch = file[f].epoch
  BY <1>1, SMT DEF Files
<1>6. file' \in [File -> Files]
  BY <1>1, <1>4 DEF SealScript
<1> QED
  BY <1>3, <1>5, <1>6 DEF FileKept

\* The file a producer leaves behind is closed.
LEMMA GoneFiles ==
    ASSUME TypeOK, ProducerGone
    PROVE  FileKept
<1>1. file \in [File -> Files]
  BY DEF TypeOK, Files
<1>2. ASSUME NEW f \in File
      PROVE  \/ file'[f] = file[f]
             \/ file'[f] = [file[f] EXCEPT !.at = "closed"] /\ file[f].at = "open"
  BY DEF ProducerGone
<1>3. \A f \in File : [file[f] EXCEPT !.at = "closed"] \in Files
  BY <1>1, SMT DEF Files, Place
<1>4. \A f \in File : /\ [file[f] EXCEPT !.at = "closed"].at = "closed"
                      /\ [file[f] EXCEPT !.at = "closed"].epoch = file[f].epoch
  BY <1>1, SMT DEF Files
<1>5. file' \in [File -> Files]
  BY <1>1, <1>3 DEF ProducerGone
<1> QED
  BY <1>2, <1>4, <1>5 DEF FileKept

\* A deletion takes the segment its worker is at.
LEMMA DeletedFile ==
    ASSUME PumpInv, NEW w \in Worker, At(w, "delete"), DeleteScript(w)
    PROVE  FileKept
<1> DEFINE f == Seg(w)
           m == [file[f] EXCEPT !.at = "deleted"]
<1>1. file \in [File -> Files] /\ f \in File /\ file[f].at # "none"
  BY AtSegment DEF OnSegment, Steps, At, PumpInv, TypeOK, Files, Written
<1>2. m \in Files
  BY <1>1, SMT DEF Files, Place
<1>3. m.at = "deleted" /\ m.epoch = file[f].epoch
  BY <1>1, SMT DEF Files
<1>4. file' = [file EXCEPT ![f] = m]
  BY DEF DeleteScript
<1> HIDE DEF m
<1>5. file' \in [File -> Files] /\ file'[f] = m
  BY <1>1, <1>2, <1>4
<1>6. \A g \in File : g # f => file'[g] = file[g]
  BY <1>1, <1>4
<1>7. \A g \in File : g # f =>
          /\ file'[g].at = file[g].at
          /\ file'[g].epoch = file[g].epoch
  BY <1>6
<1>8. \E v \in Worker : At(v, "delete") /\ f = Seg(v)
  OBVIOUS
<1>9. ASSUME NEW g \in File
      PROVE  /\ file'[g].at = "none" <=> file[g].at = "none"
             /\ file'[g].epoch = file[g].epoch
             /\ file'[g].at = "deleted" =>
                    \/ file[g].at = "deleted"
                    \/ \E v \in Worker : At(v, "delete") /\ g = Seg(v)
  <2>1. CASE g = f
    <3> HIDE DEF f
    <3> QED
      BY <2>1, <1>1, <1>3, <1>5, <1>8
  <2>2. CASE g # f
    BY <2>2, <1>7
  <2> QED
    BY <2>1, <2>2
<1> QED
  BY <1>5, <1>9 DEF FileKept

\* Every step of a worker, and the end of a producer, keep the files.
LEMMA WorkFiles ==
    ASSUME PumpInv, NEW w \in Worker, Pump(w) \/ StartFinalize(w) \/ Faulty(w)
    PROVE  FileKept
<1>1. TypeOK
  BY DEF PumpInv
<1>2. CASE SealClosed(w)
  BY <1>1, <1>2, SealFiles DEF SealClosed
<1>3. CASE SealUnknown(w)
  BY <1>1, <1>3, SealFiles, FileUntouched DEF SealUnknown
<1>4. CASE StopProducer(w)
  BY <1>1, <1>4, GoneFiles, FileUntouched DEF StopProducer
<1>5. CASE StopUnknown(w)
  BY <1>1, <1>5, GoneFiles, FileUntouched DEF StopUnknown
<1>6. CASE Delete(w)
  BY <1>1, <1>6, DeletedFile, FileUntouched DEF Delete
<1>7. CASE DeleteUnknown(w)
  BY <1>1, <1>7, DeletedFile, FileUntouched DEF DeleteUnknown
<1>8. CASE ~ \/ SealClosed(w) \/ SealUnknown(w) \/ StopProducer(w)
             \/ StopUnknown(w) \/ Delete(w) \/ DeleteUnknown(w)
  <2>1. file' = file
    BY <1>8 DEF Pump, Faulty, StartFinalize, Establish, StartDrain, SealRefused,
       Discover, ListKnown, RunDone, ReadSegment, Examine, Begin, Download,
       MarkDownloaded, Verify, Store, CommitPersisted, Repair, CommitRepair,
       AckPending, Ack, CheckBeforeDelete, MarkDeleted, SetError, MarkEnded,
       Account, DownloadFails, Crash, Disconnect, OnRow, PutCopy, segment, Acked
  <2> QED
    BY <1>1, <2>1, FileUntouched
<1> QED
  BY <1>2, <1>3, <1>4, <1>5, <1>6, <1>7, <1>8

\* Every step of a worker keeps the rows.
LEMMA WorkRows ==
    ASSUME PumpInv, NEW w \in Worker, Pump(w) \/ StartFinalize(w) \/ Faulty(w)
    PROVE  RowKept(w)
<1> DEFINE Writes == \/ Discover(w) \/ Examine(w) \/ Begin(w) \/ MarkDownloaded(w)
                     \/ Verify(w) \/ CommitPersisted(w) \/ CommitRepair(w)
                     \/ AckPending(w) \/ Ack(w) \/ DeleteUnknown(w)
                     \/ MarkDeleted(w) \/ SetError(w)
<1>1. CASE Writes
  BY <1>1, DiscoverRow, ExamineRow, BeginRow, MarkDownloadedRow, VerifyRow,
     CommitPersistedRow, CommitRepairRow, AckPendingRow, AckRow,
     DeleteUnknownRow, MarkDeletedRow, SetErrorRow
<1>2. CASE ~Writes
  <2>1. row' = row
    BY <1>2 DEF Pump, Faulty, StartFinalize, Establish, StartDrain, SealRefused,
       SealClosed, SealUnknown, StopProducer, StopUnknown, Delete,
       ListKnown, RunDone, ReadSegment, Download,
       Store, Repair, CheckBeforeDelete, MarkEnded,
       Account, DownloadFails, Crash, Disconnect, OnRow, PutCopy, segment, Acked
  <2> QED
    BY <2>1, RowUntouched DEF PumpInv, TypeOK, Rows
<1> QED
  BY <1>1, <1>2

\* Only these write the session's state, the store or the history.
Decisive(w) ==
    \/ Establish(w) \/ Account(w) \/ StopProducer(w) \/ StopUnknown(w)
    \/ MarkEnded(w) \/ Store(w) \/ Repair(w)
\* Most steps write neither the session nor the store.
LEMMA QuietSession ==
    ASSUME NEW w \in Worker, Pump(w) \/ StartFinalize(w) \/ Faulty(w), ~Decisive(w)
    PROVE  UNCHANGED <<session, store, lost>>
BY DEF Decisive, Pump, Faulty, StartFinalize, StartDrain, SealRefused, SealClosed,
   SealUnknown, Delete, DeleteUnknown, Discover, ListKnown, RunDone, ReadSegment,
   Examine, Begin, Download, MarkDownloaded, Verify, CommitPersisted, CommitRepair,
   AckPending, Ack, CheckBeforeDelete, MarkDeleted, SetError, DownloadFails, Crash,
   Disconnect, OnRow, NoFault, Fault, Acked, session, segment, count

\* Who writes the rest.
LEMMA SessionWriters ==
    ASSUME NEW w \in Worker, Pump(w) \/ StartFinalize(w) \/ Faulty(w)
    PROVE  /\ epoch' # epoch => Establish(w)
           /\ lost' = lost
           /\ durable' # durable => Account(w)
           /\ ended' # ended => MarkEnded(w)
           /\ gaps' # gaps => Account(w) \/ Establish(w)
           /\ fence' # fence => Account(w) \/ Establish(w)
           /\ producer' # producer => Establish(w) \/ producer' = 0
           /\ store' # store =>
                  store' = store \cup {Seg(w)} /\ (Store(w) \/ Repair(w))
<1>1. CASE Establish(w)
  BY <1>1 DEF Establish, NoFault, count, segment
<1>2. CASE Account(w)
  BY <1>2 DEF Account, NoFault, count, segment
<1>3. CASE StopProducer(w)
  BY <1>3 DEF StopProducer, NoFault, count, ProducerGone
<1>4. CASE StopUnknown(w)
  BY <1>4 DEF StopUnknown, Fault, ProducerGone
<1>5. CASE MarkEnded(w)
  BY <1>5 DEF MarkEnded, NoFault, count, segment
<1>6. CASE Store(w)
  BY <1>6 DEF Store, PutCopy, NoFault, count, session
<1>7. CASE Repair(w)
  BY <1>7 DEF Repair, PutCopy, OnRow, NoFault, count, session
<1>8. CASE ~Decisive(w)
  BY <1>8, QuietSession DEF session
<1> QED
  BY <1>1, <1>2, <1>3, <1>4, <1>5, <1>6, <1>7, <1>8 DEF Decisive

-----------------------------------------------------------------------------
(***************************************************************************)
(* What a step of worker w does to its own place and memory: it goes back  *)
(* to rest, works on its segment, takes the next one, or goes on with the  *)
(* drain or the finalization.                                              *)
(***************************************************************************)
Only(w) ==
    /\ pc' \in [Worker -> Steps]
    /\ local' \in [Worker -> Memory]
    /\ \A v \in Worker \ {w} : pc'[v] = pc[v] /\ local'[v] = local[v]
Keeps(w) ==
    /\ local'[w].ctx = local[w].ctx
    /\ local'[w].final = local[w].final

Rests(w) == pc'[w] = "idle" /\ \E e \in 0 .. epoch' : local'[w] = Fresh(e)
Works(w) ==
    /\ pc[w] \in OnSegment /\ pc'[w] \in (OnSegment \ {"examine"}) \cup {"next"}
    /\ Keeps(w)
    /\ local'[w].found = local[w].found /\ local'[w].todo = local[w].todo
    /\ local'[w].seg = local[w].seg
    /\ pc'[w] = "persisted" => Seg(w) \in store'
    /\ pc'[w] = "delete" => CopyValid(Seg(w)) /\ UNCHANGED <<row, store>>
Takes(w) ==
    /\ At(w, "next") /\ pc'[w] = "examine"
    /\ Keeps(w)
    /\ local'[w].found = local[w].found /\ local'[w].todo \subseteq local[w].todo
    /\ local'[w].seg \in local[w].todo
    /\ local'[w].seen = row'[local'[w].seg]
GoesOn(w) ==
    /\ pc[w] \notin OnSegment /\ pc'[w] \notin OnSegment \cup {"idle"}
    /\ local'[w].ctx = local[w].ctx /\ local[w].ctx # 0
    /\ local'[w].found \cup local'[w].todo \subseteq Written
    /\ FinalOf(w) => FinalOf(w)'
Acts(w) == Only(w) /\ (Rests(w) \/ Works(w) \/ Takes(w) \/ GoesOn(w))

\* A worker's place and memory written.
LEMMA Wrote ==
    ASSUME PumpInv, NEW w \in Worker, NEW s \in Steps, NEW m \in Memory,
           pc' = [pc EXCEPT ![w] = s], local' = [local EXCEPT ![w] = m]
    PROVE  Only(w) /\ pc'[w] = s /\ local'[w] = m
<1>1. pc \in [Worker -> Steps] /\ local \in [Worker -> Memory]
  BY DEF PumpInv, TypeOK
<1>2. pc' \in [Worker -> Steps] /\ pc'[w] = s
  BY <1>1
<1>3. local' \in [Worker -> Memory] /\ local'[w] = m
  BY <1>1
<1>4. \A v \in Worker \ {w} : pc'[v] = pc[v] /\ local'[v] = local[v]
  BY <1>1
<1> QED
  BY <1>2, <1>3, <1>4 DEF Only

\* Its place alone written, or its memory alone.
LEMMA Moved ==
    ASSUME PumpInv, NEW w \in Worker, NEW s \in Steps,
           pc' = [pc EXCEPT ![w] = s], local' = local
    PROVE  Only(w) /\ pc'[w] = s /\ local'[w] = local[w]
<1>1. local \in [Worker -> Memory]
  BY DEF PumpInv
<1>2. local' = [local EXCEPT ![w] = local[w]] /\ local[w] \in Memory
  BY <1>1
<1> QED
  BY <1>2, Wrote

\* A worker that only remembers something.
LEMMA Noted ==
    ASSUME PumpInv, NEW w \in Worker, NEW m \in Memory,
           pc' = pc, local' = [local EXCEPT ![w] = m]
    PROVE  Only(w) /\ pc'[w] = pc[w] /\ local'[w] = m
<1>1. pc \in [Worker -> Steps]
  BY DEF PumpInv, TypeOK
<1>2. pc' = [pc EXCEPT ![w] = pc[w]] /\ pc[w] \in Steps
  BY <1>1
<1> QED
  BY <1>2, Wrote

\* A blank memory is a memory.
LEMMA FreshMemory ==
    ASSUME NEW e \in 0 .. MaxEpoch
    PROVE  /\ Fresh(e) \in Memory
           /\ Fresh(e).ctx = e /\ Fresh(e).final = FALSE
           /\ Fresh(e).found = {} /\ Fresh(e).todo = {}
<1>1. NoRow \in Rows
  BY SMT DEF NoRow, Rows, State
<1>2. {} \in SUBSET File
  OBVIOUS
<1>3. 0 \in Nat
  OBVIOUS
<1>4. 0 \in 0 .. MaxEpoch
  BY PumpAssumption, SMT
<1>5. Blank \in Memory
  <2> HIDE DEF NoRow
  <2> QED
    BY <1>1, <1>2, <1>4, SMT DEF Memory, Blank
<1>6. Fresh(e) \in Memory
  BY <1>5, ZenonT(30) DEF Memory, Fresh
<1>7. /\ Blank.final = FALSE
      /\ Blank.found = {} /\ Blank.todo = {}
  BY DEF Blank
<1>8. /\ Fresh(e).ctx = e /\ Fresh(e).final = Blank.final
      /\ Fresh(e).found = Blank.found /\ Fresh(e).todo = Blank.todo
  BY <1>5, SMT DEF Fresh, Memory
<1> QED
  BY <1>6, <1>7, <1>8

\* Blank is what a worker of no epoch remembers.
LEMMA BlankIsFresh == Blank = Fresh(0)
BY SMT DEF Blank, Fresh, NoRow

\* Back to rest.
LEMMA Rested ==
    ASSUME PumpInv, NEW w \in Worker, NEW e \in 0 .. epoch', e \in 0 .. MaxEpoch,
           pc' = [pc EXCEPT ![w] = "idle"], local' = [local EXCEPT ![w] = Fresh(e)]
    PROVE  Acts(w)
<1>1. Fresh(e) \in Memory
  BY FreshMemory
<1>2. "idle" \in Steps
  BY DEF Steps
<1>3. Only(w) /\ pc'[w] = "idle" /\ local'[w] = Fresh(e)
  BY <1>1, <1>2, Wrote
<1>4. Rests(w)
  BY <1>3, Zenon DEF Rests
<1> QED
  BY <1>3, <1>4 DEF Acts

\* An exception goes back to rest with the epoch it knew.
LEMMA Raised ==
    ASSUME PumpInv, NEW w \in Worker, Raise(w), epoch' = epoch
    PROVE  Acts(w)
<1> DEFINE e == local[w].ctx
<1>1. e \in 0 .. epoch' /\ e \in 0 .. MaxEpoch
  <2>1. local[w] \in Memory /\ local[w].ctx <= epoch /\ epoch \in 0 .. MaxEpoch
    BY DEF PumpInv, TypeOK, MemoryInv
  <2>2. local[w].ctx \in 0 .. MaxEpoch
    BY <2>1 DEF Memory
  <2> QED
    BY <2>1, <2>2, PumpAssumption, SMT
<1>2. pc' = [pc EXCEPT ![w] = "idle"] /\ local' = [local EXCEPT ![w] = Fresh(e)]
  BY DEF Raise, Goto, PumpInv
<1> QED
  BY <1>1, <1>2, Rested

\* A crash and a disconnection go back to rest with nothing.
LEMMA Blanked ==
    ASSUME PumpInv, NEW w \in Worker, pc' = [pc EXCEPT ![w] = "idle"],
           local' = [local EXCEPT ![w] = Blank], epoch' = epoch
    PROVE  Acts(w)
<1>1. epoch \in 0 .. MaxEpoch
  BY DEF PumpInv, TypeOK
<1>2. 0 \in 0 .. epoch' /\ 0 \in 0 .. MaxEpoch
  BY <1>1, PumpAssumption, SMT
<1> QED
  BY <1>2, BlankIsFresh, Rested

LEMMA EstablishActs ==
    ASSUME PumpInv, NEW w \in Worker, Establish(w)
    PROVE  Acts(w)
<1>1. /\ pc \in [Worker -> Steps] /\ local \in [Worker -> Memory]
      /\ epoch \in 0 .. MaxEpoch /\ producer \in 0 .. MaxEpoch /\ producer <= epoch
  BY DEF PumpInv, TypeOK, EpochInv
<1>2. pc' = [pc EXCEPT ![w] = "idle"]
  BY <1>1 DEF Establish, At
<1>3. \E e \in 0 .. epoch' : e \in 0 .. MaxEpoch /\ local' = [local EXCEPT ![w] = Fresh(e)]
  <2>1. CASE producer # 0
    <3>1. producer \in 0 .. epoch' /\ producer \in 0 .. MaxEpoch
      BY <1>1, <2>1, PumpAssumption, SMT DEF Establish
    <3> QED
      BY <2>1, <3>1 DEF Establish
  <2>2. CASE producer = 0
    <3>1. epoch + 1 \in 0 .. epoch' /\ epoch + 1 \in 0 .. MaxEpoch
      BY <1>1, <2>2, PumpAssumption, SMT DEF Establish
    <3> QED
      BY <2>2, <3>1 DEF Establish
  <2> QED
    BY <2>1, <2>2
<1> QED
  BY <1>2, <1>3, Rested

\* The files of an epoch, and the segments of one, were written.
LEMMA OfEpoch ==
    ASSUME NEW e
    PROVE  /\ Closed(e) \in SUBSET File /\ Closed(e) \subseteq Written
           /\ RowsOf(e) \in SUBSET File /\ RowsOf(e) \subseteq Written
BY DEF Closed, RowsOf, FilesOf, Written

\* The steps that only take a worker further, its memory as it was.
LEMMA WentOn ==
    ASSUME PumpInv, NEW w \in Worker, pc[w] \notin OnSegment, ~At(w, "idle"),
           NEW s \in Steps, s \notin OnSegment, s # "idle",
           pc' = [pc EXCEPT ![w] = s], local' = local,
           FinalOf(w) => FinalOf(w)'
    PROVE  Acts(w)
<1>1. Only(w) /\ pc'[w] = s /\ local'[w] = local[w]
  BY Moved
<1>2. MemoryInv(w)
  BY DEF PumpInv
<1> QED
  BY <1>1, <1>2 DEF Acts, GoesOn, MemoryInv, Keeps

LEMMA StartDrainActs ==
    ASSUME PumpInv, NEW w \in Worker, StartDrain(w)
    PROVE  Acts(w)
<1>1. pc' = [pc EXCEPT ![w] = "seal"] /\ local' = local /\ "seal" \in Steps
  BY DEF StartDrain, Goto, Steps
<1>2. Only(w) /\ pc'[w] = "seal" /\ local'[w] = local[w]
  BY <1>1, Moved
<1>3. pc[w] = "idle" /\ MemoryInv(w) /\ local[w].ctx # 0
  BY DEF StartDrain, At, PumpInv
<1>4. FinalOf(w) => FinalOf(w)'
  BY <1>2, <1>3 DEF FinalOf, At, Unfinal, Stopped
<1> QED
  BY <1>2, <1>3, <1>4 DEF Acts, GoesOn, MemoryInv, OnSegment

LEMMA SealClosedActs ==
    ASSUME PumpInv, NEW w \in Worker, SealClosed(w)
    PROVE  Acts(w)
<1> DEFINE m == [local[w] EXCEPT !.found = Closed(local[w].ctx)]
<1>1. local \in [Worker -> Memory] /\ local[w] \in Memory /\ MemoryInv(w)
  BY DEF PumpInv
<1>2. m \in Memory
  BY <1>1, OfEpoch, ZenonT(30) DEF Memory
<1>3. /\ m.ctx = local[w].ctx /\ m.final = local[w].final
      /\ m.found = Closed(local[w].ctx) /\ m.todo = local[w].todo
  BY <1>1, SMT DEF Memory
<1>4. local' = [local EXCEPT ![w] = m]
  BY <1>1 DEF SealClosed
<1> HIDE DEF m
<1>5. PICK s \in {"discover", "discoverall"} :
          /\ pc' = [pc EXCEPT ![w] = s]
          /\ s = "discover" => pc[w] = "seal"
          /\ s = "discoverall" => pc[w] = "sealall" /\ producer # local[w].ctx
  BY DEF SealClosed, Seal, Goto, At
<1>6. s \in Steps
  BY DEF Steps
<1>7. Only(w) /\ pc'[w] = s /\ local'[w] = m
  BY <1>2, <1>4, <1>5, <1>6, Wrote
<1>8. producer' = producer
  BY DEF SealClosed, session
<1>9. FinalOf(w) => FinalOf(w)'
  BY <1>3, <1>5, <1>7, <1>8 DEF FinalOf, At, Unfinal, Stopped
<1>10. m.found \cup m.todo \subseteq Written
  BY <1>1, <1>3, OfEpoch DEF MemoryInv
<1> QED
  BY <1>1, <1>3, <1>5, <1>7, <1>9, <1>10 DEF Acts, GoesOn, MemoryInv, OnSegment, At

LEMMA DiscoverActs ==
    ASSUME PumpInv, NEW w \in Worker, Discover(w)
    PROVE  Acts(w)
<1> DEFINE F == local[w].found \ {Min(local[w].found)}
           m == [local[w] EXCEPT !.found = F]
<1>1. local \in [Worker -> Memory] /\ local[w] \in Memory /\ MemoryInv(w)
  BY DEF PumpInv
<1>2. F \in SUBSET File /\ F \subseteq local[w].found
  BY <1>1, Zenon DEF Memory
<1>3. local' = [local EXCEPT ![w] = m]
  BY <1>1 DEF Discover
<1> HIDE DEF F
<1>4. m \in Memory
  BY <1>1, <1>2, ZenonT(30) DEF Memory
<1>5. /\ m.ctx = local[w].ctx /\ m.final = local[w].final
      /\ m.found = F /\ m.todo = local[w].todo
  BY <1>1, SMT DEF Memory
<1> HIDE DEF m
<1>6. pc' = pc
  BY DEF Discover
<1>7. Only(w) /\ pc'[w] = pc[w] /\ local'[w] = m
  BY <1>3, <1>4, <1>6, Noted
<1>8. producer' = producer /\ pc[w] \in {"discover", "discoverall"}
  BY DEF Discover, session
<1>9. FinalOf(w) => FinalOf(w)'
  BY <1>5, <1>7, <1>8 DEF FinalOf, At
<1>10. m.found \cup m.todo \subseteq Written
  BY <1>1, <1>2, <1>5 DEF MemoryInv
<1> QED
  BY <1>1, <1>5, <1>7, <1>8, <1>9, <1>10 DEF Acts, GoesOn, MemoryInv, OnSegment, At

LEMMA ListKnownActs ==
    ASSUME PumpInv, NEW w \in Worker, ListKnown(w)
    PROVE  Acts(w)
<1> DEFINE T == {f \in RowsOf(local[w].ctx) : row[f].state # "REMOTE_DELETED"}
           m == [local[w] EXCEPT !.todo = T]
<1>1. local \in [Worker -> Memory] /\ local[w] \in Memory /\ MemoryInv(w)
  BY DEF PumpInv
<1>2. T \in SUBSET File /\ T \subseteq Written
  BY OfEpoch, Zenon
<1>3. local' = [local EXCEPT ![w] = m] /\ local[w].found = {}
  BY <1>1 DEF ListKnown
<1> HIDE DEF T
<1>4. m \in Memory
  BY <1>1, <1>2, ZenonT(30) DEF Memory
<1>5. /\ m.ctx = local[w].ctx /\ m.final = local[w].final
      /\ m.found = local[w].found /\ m.todo = T
  BY <1>1, SMT DEF Memory
<1> HIDE DEF m
<1>6. pc' = [pc EXCEPT ![w] = "next"] /\ "next" \in Steps
  BY DEF ListKnown, Goto, Steps
<1>7. Only(w) /\ pc'[w] = "next" /\ local'[w] = m
  BY <1>3, <1>4, <1>6, Wrote
<1>8. producer' = producer /\ pc[w] \in {"discover", "discoverall"}
  BY DEF ListKnown, session
<1>9. FinalOf(w) => FinalOf(w)'
  BY <1>5, <1>7, <1>8 DEF FinalOf, At, Unfinal, Stopped, Steps
<1>10. m.found \cup m.todo \subseteq Written
  BY <1>2, <1>3, <1>5
<1> QED
  BY <1>1, <1>5, <1>7, <1>8, <1>9, <1>10 DEF Acts, GoesOn, MemoryInv, OnSegment, At

LEMMA RunDoneActs ==
    ASSUME PumpInv, NEW w \in Worker, RunDone(w)
    PROVE  Acts(w)
<1>1. pc[w] = "next"
  BY DEF RunDone, At
<1>2. CASE local[w].final
  <2>1. pc' = [pc EXCEPT ![w] = "account"] /\ local' = local /\ "account" \in Steps
    BY <1>2 DEF RunDone, Goto, Steps
  <2>2. Only(w) /\ pc'[w] = "account" /\ local'[w] = local[w]
    BY <2>1, Moved
  <2>3. producer' = producer /\ MemoryInv(w)
    BY DEF RunDone, session, PumpInv
  <2>4. FinalOf(w) => FinalOf(w)'
    BY <1>1, <1>2, <2>2, <2>3 DEF FinalOf, At, Unfinal, Stopped, Steps
  <2> QED
    BY <1>1, <2>2, <2>3, <2>4 DEF Acts, GoesOn, MemoryInv, OnSegment, At
<1>3. CASE ~local[w].final
  BY <1>3, Raised DEF RunDone, session
<1> QED
  BY <1>2, <1>3

LEMMA ReadSegmentActs ==
    ASSUME PumpInv, NEW w \in Worker, ReadSegment(w)
    PROVE  Acts(w)
<1> DEFINE f == Min(local[w].todo)
           T == local[w].todo \ {f}
           c == CopyValid(f)
           m == [local[w] EXCEPT !.seg = f, !.todo = T, !.seen = row[f], !.copy = c]
<1>1. /\ local \in [Worker -> Memory] /\ local[w] \in Memory
      /\ row \in [File -> Rows]
  BY DEF PumpInv, TypeOK, Rows
<1>2. local[w].todo \in SUBSET File /\ local[w].todo # {}
  BY <1>1, Zenon DEF Memory, ReadSegment
<1>3. f \in File /\ f \in local[w].todo /\ row[f] \in Rows
  BY <1>1, <1>2, MinOfSome
<1>4. f \in Nat
  BY <1>3, PumpAssumption, SMT DEF File
<1>5. T \in SUBSET File /\ T \subseteq local[w].todo
  BY <1>2, Zenon
<1>6. c \in BOOLEAN
  <2>1. row[f].key \in BOOLEAN
    BY <1>3, SMT DEF Rows
  <2> QED
    BY <2>1, Zenon DEF CopyValid
<1>7. local' = [local EXCEPT ![w] = m] /\ row' = row
  BY <1>1, Zenon DEF ReadSegment, segment
<1> HIDE DEF f, T, c
<1>8. m \in Memory
  BY <1>1, <1>3, <1>4, <1>5, <1>6, ZenonT(60) DEF Memory
<1>9. /\ m.ctx = local[w].ctx /\ m.final = local[w].final
      /\ m.found = local[w].found /\ m.todo = T /\ m.seg = f /\ m.seen = row[f]
  BY <1>1, SMT DEF Memory
<1> HIDE DEF m
<1>10. pc' = [pc EXCEPT ![w] = "examine"] /\ "examine" \in Steps /\ pc[w] = "next"
  BY DEF ReadSegment, Goto, Steps, At
<1>11. Only(w) /\ pc'[w] = "examine" /\ local'[w] = m
  BY <1>7, <1>8, <1>10, Wrote
<1> QED
  BY <1>3, <1>5, <1>7, <1>9, <1>10, <1>11 DEF Acts, Takes, Keeps, At

LEMMA StartFinalizeActs ==
    ASSUME PumpInv, NEW w \in Worker, StartFinalize(w)
    PROVE  Acts(w)
<1> DEFINE m == [local[w] EXCEPT !.final = TRUE]
<1>1. local \in [Worker -> Memory] /\ local[w] \in Memory /\ MemoryInv(w)
  BY DEF PumpInv
<1>2. m \in Memory
  BY <1>1, ZenonT(30) DEF Memory
<1>3. /\ m.ctx = local[w].ctx /\ m.final
      /\ m.found = local[w].found /\ m.todo = local[w].todo
  BY <1>1, SMT DEF Memory
<1>4. local' = [local EXCEPT ![w] = m]
  BY <1>1 DEF StartFinalize
<1> HIDE DEF m
<1>5. pc' = [pc EXCEPT ![w] = "stop"] /\ "stop" \in Steps
  BY DEF StartFinalize, Goto, Steps
<1>6. Only(w) /\ pc'[w] = "stop" /\ local'[w] = m
  BY <1>2, <1>4, <1>5, Wrote
<1>7. pc[w] = "idle" /\ local[w].ctx # 0
  BY DEF StartFinalize, At
<1>8. FinalOf(w) => FinalOf(w)'
  BY <1>6 DEF FinalOf, At, Unfinal, Stopped
<1> QED
  BY <1>1, <1>3, <1>6, <1>7, <1>8 DEF Acts, GoesOn, MemoryInv, OnSegment, At

LEMMA StopProducerActs ==
    ASSUME PumpInv, NEW w \in Worker, StopProducer(w)
    PROVE  Acts(w)
<1>1. CASE FenceAllows(w)
  <2>1. pc' = [pc EXCEPT ![w] = "end"] /\ local' = local /\ "end" \in Steps
    BY <1>1 DEF StopProducer, Goto, Steps
  <2>2. pc[w] = "stop"
    BY DEF StopProducer, At
  <2>3. Only(w) /\ pc'[w] = "end" /\ local'[w] = local[w]
    BY <2>1, Moved
  <2>4. FinalOf(w) => FinalOf(w)'
    BY <2>3 DEF FinalOf, At, Unfinal, Stopped
  <2> QED
    BY <2>1, <2>2, <2>4, WentOn DEF OnSegment, At
<1>2. CASE ~FenceAllows(w)
  BY <1>2, Raised DEF StopProducer
<1> QED
  BY <1>1, <1>2

LEMMA MarkEndedActs ==
    ASSUME PumpInv, NEW w \in Worker, MarkEnded(w)
    PROVE  Acts(w)
<1>1. pc' = [pc EXCEPT ![w] = "sealall"] /\ local' = local /\ "sealall" \in Steps
  BY DEF MarkEnded, Goto, Steps
<1>2. pc[w] = "end"
  BY DEF MarkEnded, At
<1>3. Only(w) /\ pc'[w] = "sealall" /\ local'[w] = local[w]
  BY <1>1, Moved
<1>4. FinalOf(w) => FinalOf(w)'
  BY <1>3 DEF FinalOf, At, Unfinal, Stopped
<1> QED
  BY <1>1, <1>2, <1>4, WentOn DEF OnSegment, At

\* The steps on a segment, its worker's memory as it was.
LEMMA Worked ==
    ASSUME PumpInv, NEW w \in Worker, pc[w] \in OnSegment,
           NEW s \in (OnSegment \ {"examine"}) \cup {"next"},
           pc' = [pc EXCEPT ![w] = s], local' = local,
           s = "persisted" => Seg(w) \in store',
           s = "delete" => CopyValid(Seg(w)) /\ UNCHANGED <<row, store>>
    PROVE  Acts(w)
<1>1. s \in Steps
  BY DEF OnSegment, Steps
<1>2. Only(w) /\ pc'[w] = s /\ local'[w] = local[w]
  BY <1>1, Moved
<1> QED
  BY <1>2 DEF Acts, Works, Keeps

\* Those that end neither in "persisted" nor in "delete".
Plain == (OnSegment \ {"examine", "persisted", "delete"}) \cup {"next"}
\* A worker that goes on with its segment.
LEMMA PlainStep ==
    ASSUME PumpInv, NEW w \in Worker, pc[w] \in OnSegment, NEW s \in Plain,
           pc' = [pc EXCEPT ![w] = s], local' = local
    PROVE  Acts(w)
BY Worked DEF Plain

\* The names of the steps on a segment.
LEMMA PlainNames ==
    /\ {"next", "begin", "download", "repair", "repaired", "downloaded", "verify",
        "store", "ackpending", "ack", "check", "deleted", "error", "missing"} \subseteq Plain
    /\ {"examine", "begin", "download", "repair", "repaired", "downloaded", "verify",
        "store", "persisted", "ackpending", "ack", "check", "delete", "deleted",
        "error", "missing"} \subseteq OnSegment
BY DEF Plain, OnSegment, Steps

LEMMA ExamineActs ==
    ASSUME PumpInv, NEW w \in Worker, Examine(w)
    PROVE  Acts(w)
<1>1. pc[w] \in OnSegment
  BY PlainNames DEF Examine, At
<1>2. \E s \in {"next", "ackpending", "begin"} : OnRow(w, s)
  BY DEF Examine, Acked
<1> QED
  BY <1>1, <1>2, PlainNames, PlainStep DEF OnRow, Goto

LEMMA BeginActs ==
    ASSUME PumpInv, NEW w \in Worker, Begin(w)
    PROVE  Acts(w)
<1>1. pc[w] \in OnSegment
  BY PlainNames DEF Begin, At
<1>2. \E s \in {"ackpending", "error", "download"} : OnRow(w, s)
  BY DEF Begin
<1> QED
  BY <1>1, <1>2, PlainNames, PlainStep DEF OnRow, Goto

LEMMA DownloadActs ==
    ASSUME PumpInv, NEW w \in Worker, Download(w) \/ DownloadFails(w)
    PROVE  Acts(w)
<1>1. pc[w] \in OnSegment
  BY PlainNames DEF Download, DownloadFails, At
<1>2. CASE Download(w)
  <2>1. \E s \in {"error", "repair", "downloaded"} : OnRow(w, s)
    BY <1>2 DEF Download
  <2> QED
    BY <1>1, <2>1, PlainNames, PlainStep DEF OnRow, Goto
<1>3. CASE DownloadFails(w)
  BY <1>1, <1>3, PlainNames, PlainStep DEF DownloadFails, Goto
<1> QED
  BY <1>2, <1>3

LEMMA PersistActs ==
    ASSUME PumpInv, NEW w \in Worker, MarkDownloaded(w) \/ Verify(w) \/ CommitPersisted(w)
    PROVE  Acts(w)
<1>1. pc[w] \in OnSegment
  BY PlainNames DEF MarkDownloaded, Verify, CommitPersisted, At
<1>2. \E s \in {"verify", "store", "ackpending", "error"} : OnRow(w, s)
  BY DEF MarkDownloaded, Verify, CommitPersisted
<1> QED
  BY <1>1, <1>2, PlainNames, PlainStep DEF OnRow, Goto

LEMMA StoreActs ==
    ASSUME PumpInv, NEW w \in Worker, Store(w)
    PROVE  Acts(w)
<1>1. pc[w] \in OnSegment
  BY PlainNames DEF Store, At
<1>2. "persisted" \in (OnSegment \ {"examine"}) \cup {"next"}
  BY PlainNames
<1>3. /\ pc' = [pc EXCEPT ![w] = "persisted"] /\ local' = local
      /\ Seg(w) \in store'
  BY DEF Store, PutCopy, Goto
<1> QED
  BY <1>1, <1>2, <1>3, Worked

LEMMA RepairActs ==
    ASSUME PumpInv, NEW w \in Worker, Repair(w) \/ CommitRepair(w)
    PROVE  Acts(w)
<1>1. pc[w] \in OnSegment
  BY PlainNames DEF Repair, CommitRepair, At
<1>2. \E s \in {"repaired", "ackpending", "error"} : Goto(w, s) /\ local' = local
  BY DEF Repair, CommitRepair, PutCopy, OnRow
<1> QED
  BY <1>1, <1>2, PlainNames, PlainStep DEF Goto

LEMMA AckActs ==
    ASSUME PumpInv, NEW w \in Worker, AckPending(w) \/ Ack(w)
    PROVE  Acts(w)
<1>1. pc[w] \in OnSegment
  BY PlainNames DEF AckPending, Ack, At
<1>2. \E s \in {"ack", "check", "error"} : OnRow(w, s)
  BY DEF AckPending, Ack
<1> QED
  BY <1>1, <1>2, PlainNames, PlainStep DEF OnRow, Goto

LEMMA CheckActs ==
    ASSUME PumpInv, NEW w \in Worker, CheckBeforeDelete(w)
    PROVE  Acts(w)
<1>1. pc[w] \in OnSegment
  BY PlainNames DEF CheckBeforeDelete, At
<1>2. CASE row[Seg(w)].state = "ACKED" /\ SafeToDelete(Seg(w))
  <2>1. OnRow(w, "delete") /\ row' = row /\ CopyValid(Seg(w))
    BY <1>2 DEF CheckBeforeDelete, SafeToDelete
  <2>2. "delete" \in (OnSegment \ {"examine"}) \cup {"next"}
    BY PlainNames
  <2> QED
    BY <1>1, <2>1, <2>2, Worked DEF OnRow, Goto
<1>3. CASE ~(row[Seg(w)].state = "ACKED" /\ SafeToDelete(Seg(w)))
  <2>1. \E s \in {"next", "missing"} : OnRow(w, s)
    BY <1>3 DEF CheckBeforeDelete
  <2> QED
    BY <1>1, <2>1, PlainNames, PlainStep DEF OnRow, Goto
<1> QED
  BY <1>2, <1>3

LEMMA DeleteActs ==
    ASSUME PumpInv, NEW w \in Worker, Delete(w) \/ DeleteUnknown(w) \/ MarkDeleted(w)
    PROVE  Acts(w)
<1>1. pc[w] \in OnSegment
  BY PlainNames DEF Delete, DeleteUnknown, MarkDeleted, At
<1>2. \E s \in {"deleted", "error", "next"} : Goto(w, s) /\ local' = local
  BY DEF Delete, DeleteUnknown, MarkDeleted, OnRow
<1> QED
  BY <1>1, <1>2, PlainNames, PlainStep DEF Goto

LEMMA SetErrorActs ==
    ASSUME PumpInv, NEW w \in Worker, SetError(w)
    PROVE  Acts(w)
<1> DEFINE m == [local[w] EXCEPT !.clean = FALSE]
<1>1. local \in [Worker -> Memory] /\ local[w] \in Memory
  BY DEF PumpInv
<1>2. m \in Memory
  BY <1>1, ZenonT(30) DEF Memory
<1>3. /\ m.ctx = local[w].ctx /\ m.final = local[w].final /\ m.seg = local[w].seg
      /\ m.found = local[w].found /\ m.todo = local[w].todo
  BY <1>1, SMT DEF Memory
<1>4. local' = [local EXCEPT ![w] = m]
  BY <1>1 DEF SetError
<1> HIDE DEF m
<1>5. /\ pc' = [pc EXCEPT ![w] = "next"] /\ "next" \in Steps
      /\ pc[w] \in {"error", "missing"}
  BY DEF SetError, Goto, Steps
<1>6. Only(w) /\ pc'[w] = "next" /\ local'[w] = m
  BY <1>2, <1>4, <1>5, Wrote
<1>7. pc[w] \in OnSegment
  BY <1>5, PlainNames
<1> QED
  BY <1>3, <1>6, <1>7 DEF Acts, Works, Keeps

\* The steps that end a drain or a finalization, or the worker.
LEMMA EndActs ==
    ASSUME PumpInv, NEW w \in Worker,
           \/ SealRefused(w) \/ SealUnknown(w) \/ StopUnknown(w)
           \/ Crash(w) \/ Disconnect(w) \/ Account(w)
    PROVE  Acts(w)
<1>1. CASE SealRefused(w) \/ SealUnknown(w) \/ StopUnknown(w)
  BY <1>1, Raised DEF SealRefused, SealUnknown, StopUnknown, session
<1>2. CASE Crash(w) \/ Account(w)
  BY <1>2, Blanked DEF Crash, Account, Goto, session
<1>3. CASE Disconnect(w)
  <2>1. pc \in [Worker -> Steps]
    BY DEF PumpInv, TypeOK
  <2>2. pc' = [pc EXCEPT ![w] = "idle"]
    BY <1>3, <2>1 DEF Disconnect, At
  <2> QED
    BY <1>3, <2>2, Blanked DEF Disconnect, session
<1> QED
  BY <1>1, <1>2, <1>3

\* All of them.
LEMMA WorkActs ==
    ASSUME PumpInv, NEW w \in Worker, Pump(w) \/ StartFinalize(w) \/ Faulty(w)
    PROVE  Acts(w)
BY EstablishActs, StartDrainActs, SealClosedActs, DiscoverActs, ListKnownActs,
   RunDoneActs, ReadSegmentActs, StartFinalizeActs, StopProducerActs,
   MarkEndedActs, ExamineActs, BeginActs, DownloadActs, PersistActs, StoreActs,
   RepairActs, AckActs, CheckActs, DeleteActs, SetErrorActs, EndActs
   DEF Pump, Faulty

-----------------------------------------------------------------------------
(***************************************************************************)
(* The steps of the workers keep the invariant, conjunct by conjunct.      *)
(***************************************************************************)
WorkStep(w) == Pump(w) \/ StartFinalize(w) \/ Faulty(w)

\* Where a worker that is busy with an epoch got it from.
LEMMA KnownEpoch ==
    ASSUME PumpInv, NEW w \in Worker, ~At(w, "idle")
    PROVE  local[w].ctx \in 1 .. epoch
<1>1. local[w] \in Memory /\ local[w].ctx <= epoch /\ local[w].ctx # 0
  BY DEF PumpInv, MemoryInv
<1>2. local[w].ctx \in 0 .. MaxEpoch
  BY <1>1 DEF Memory
<1>3. epoch \in 0 .. MaxEpoch
  BY DEF PumpInv, TypeOK
<1> QED
  BY <1>1, <1>2, <1>3, PumpAssumption, SMT

\* The session's variables keep their types.
LEMMA WorkSession ==
    ASSUME PumpInv, NEW w \in Worker, WorkStep(w)
    PROVE  /\ {epoch', producer', durable'} \subseteq 0 .. MaxEpoch
           /\ ended' \subseteq 1 .. epoch' /\ gaps' \subseteq 1 .. epoch'
           /\ fence' \in {{}} \cup {{v} : v \in Worker}
           /\ epoch <= epoch' /\ producer' <= epoch'
<1>1. /\ epoch \in 0 .. MaxEpoch /\ producer \in 0 .. MaxEpoch /\ durable \in 0 .. MaxEpoch
      /\ ended \subseteq 1 .. epoch /\ gaps \subseteq 1 .. epoch
      /\ fence \in {{}} \cup {{v} : v \in Worker}
      /\ producer <= epoch /\ MaxEpoch \in Nat
  BY PumpAssumption DEF PumpInv, TypeOK, EpochInv
<1>2. CASE Establish(w)
  <2>1. ended' = ended /\ durable' = durable /\ fence' = {w}
    BY <1>2 DEF Establish
  <2>2. CASE producer # 0
    BY <1>1, <1>2, <2>1, <2>2, SMT DEF Establish
  <2>3. CASE producer = 0
    <3>1. /\ epoch < MaxEpoch /\ epoch' = epoch + 1 /\ producer' = epoch + 1
          /\ gaps' = gaps \cup ((1 .. epoch) \cap ({epoch} \ ended))
      BY <1>2, <2>3 DEF Establish
    <3>2. /\ epoch' \in 0 .. MaxEpoch /\ producer' \in 0 .. MaxEpoch
          /\ epoch <= epoch' /\ producer' <= epoch'
      BY <1>1, <3>1, SMT
    <3>3. 1 .. epoch \subseteq 1 .. epoch'
      BY <1>1, <3>1, SMT
    <3>4. ended' \subseteq 1 .. epoch' /\ gaps' \subseteq 1 .. epoch'
      BY <1>1, <2>1, <3>1, <3>3, Zenon
    <3> QED
      BY <1>1, <2>1, <3>2, <3>4
  <2> QED
    BY <2>2, <2>3
<1>3. CASE Account(w)
  <2>1. local[w].ctx \in 1 .. epoch
    BY <1>3, KnownEpoch DEF Account, At
  <2>2. /\ epoch' = epoch /\ producer' = producer /\ ended' = ended
        /\ fence' = fence \ {w}
        /\ gaps' = gaps \/ gaps' = gaps \cup {local[w].ctx}
        /\ durable' = durable \/ durable' = local[w].ctx
    BY <1>3 DEF Account
  <2>3. fence' \in {{}} \cup {{v} : v \in Worker}
    BY <1>1, <2>2
  <2>4. durable' \in 0 .. MaxEpoch
    BY <1>1, <2>1, <2>2, SMT
  <2>5. gaps' \subseteq 1 .. epoch'
    BY <1>1, <2>1, <2>2, Zenon
  <2> QED
    BY <1>1, <2>2, <2>3, <2>4, <2>5, SMT
<1>4. CASE MarkEnded(w)
  <2>1. local[w].ctx \in 1 .. epoch
    BY <1>4, KnownEpoch DEF MarkEnded, At
  <2>2. /\ UNCHANGED <<epoch, producer, gaps, durable, fence>>
        /\ ended' = ended \cup {local[w].ctx}
    BY <1>4 DEF MarkEnded
  <2>3. ended' \subseteq 1 .. epoch'
    BY <1>1, <2>1, <2>2, Zenon
  <2> QED
    BY <1>1, <2>2, <2>3, SMT
<1>5. CASE ~(Establish(w) \/ Account(w) \/ MarkEnded(w))
  <2>1. /\ UNCHANGED <<epoch, gaps, durable, fence, ended>>
        /\ producer' = producer \/ producer' = 0
    BY <1>5, SessionWriters DEF WorkStep
  <2> QED
    BY <1>1, <2>1, SMT
<1> QED
  BY <1>2, <1>3, <1>4, <1>5

\* The store keeps every copy it has.
LEMMA WorkStore ==
    ASSUME PumpInv, NEW w \in Worker, WorkStep(w)
    PROVE  /\ store \subseteq store' /\ store' \subseteq File /\ lost' = lost
           /\ Stored \subseteq Stored'
<1>1. store \subseteq File
  BY DEF PumpInv, TypeOK
<1>2. store' = store \/ (store' = store \cup {Seg(w)} /\ (Store(w) \/ Repair(w)))
  BY SessionWriters DEF WorkStep
<1>3. lost' = lost
  BY SessionWriters DEF WorkStep
<1>4. Store(w) \/ Repair(w) => Seg(w) \in File
  BY AtSegment, PlainNames DEF Store, Repair, At
<1> QED
  BY <1>1, <1>2, <1>3, <1>4, Zenon DEF Stored

\* The types.
LEMMA WorkTypes ==
    ASSUME PumpInv, NEW w \in Worker, WorkStep(w)
    PROVE  TypeOK' /\ local' \in [Worker -> Memory]
<1>1. Acts(w) /\ RowKept(w) /\ FileKept
  BY WorkActs, WorkRows, WorkFiles DEF WorkStep
<1>2. /\ pc' \in [Worker -> Steps] /\ local' \in [Worker -> Memory]
      /\ row' \in [File -> Rows] /\ file' \in [File -> Files]
  BY <1>1 DEF Acts, Only, RowKept, FileKept
<1> QED
  BY <1>2, WorkSession, WorkStore DEF TypeOK, Rows, Files

\* The files written stay, and so do their epochs.
LEMMA WorkWritten ==
    ASSUME PumpInv, NEW w \in Worker, WorkStep(w)
    PROVE  Written' = Written /\ \A f \in File : file'[f].epoch = file[f].epoch
BY WorkFiles DEF WorkStep, FileKept, Written

\* What the workers remember.
LEMMA WorkMemory ==
    ASSUME PumpInv, NEW w \in Worker, WorkStep(w), NEW v \in Worker
    PROVE  MemoryInv(v)'
<1>1. /\ Acts(w) /\ Written' = Written /\ epoch <= epoch' /\ MemoryInv(v)
      /\ epoch \in 0 .. MaxEpoch /\ epoch' \in 0 .. MaxEpoch /\ MaxEpoch \in Nat
      /\ local[v] \in Memory
  BY WorkActs, WorkWritten, WorkSession, PumpAssumption DEF WorkStep, PumpInv, TypeOK
<1>2. local[v].ctx <= epoch'
  <2>1. local[v].ctx \in 0 .. MaxEpoch /\ local[v].ctx <= epoch
    BY <1>1 DEF Memory, MemoryInv
  <2> QED
    BY <1>1, <2>1, SMT
<1>3. CASE v # w
  <2>1. pc'[v] = pc[v] /\ local'[v] = local[v]
    BY <1>1, <1>3 DEF Acts, Only
  <2> QED
    BY <1>1, <1>2, <2>1 DEF MemoryInv, At, Seg
<1>4. CASE v = w
  <2>1. CASE Rests(w)
    <3>1. PICK e \in 0 .. epoch' : local'[w] = Fresh(e)
      BY <2>1 DEF Rests
    <3>2. e \in 0 .. MaxEpoch /\ e <= epoch'
      BY <1>1, SMT
    <3>3. local'[w].ctx = e /\ local'[w].found = {} /\ local'[w].todo = {}
      BY <3>1, <3>2, FreshMemory
    <3>4. pc'[w] = "idle" /\ "idle" \notin OnSegment
      BY <2>1 DEF Rests, OnSegment
    <3> QED
      BY <1>4, <3>2, <3>3, <3>4 DEF MemoryInv, At
  <2>2. CASE Works(w)
    <3>1. pc[w] # "idle" /\ pc[w] \in OnSegment
      BY <2>2 DEF Works, OnSegment
    <3> QED
      BY <1>1, <1>2, <1>4, <2>2, <3>1 DEF MemoryInv, Works, Keeps, At, Seg
  <2>3. CASE Takes(w)
    BY <1>1, <1>2, <1>4, <2>3 DEF MemoryInv, Takes, Keeps, At, Seg
  <2>4. CASE GoesOn(w)
    BY <1>1, <1>2, <1>4, <2>4 DEF MemoryInv, GoesOn, At, Seg
  <2> QED
    BY <1>1, <2>1, <2>2, <2>3, <2>4 DEF Acts
<1> QED
  BY <1>3, <1>4

\* The files' epochs.
LEMMA WorkEpoch ==
    ASSUME PumpInv, NEW w \in Worker, WorkStep(w)
    PROVE  EpochInv'
<1>1. /\ Written' = Written /\ \A f \in File : file'[f].epoch = file[f].epoch
      /\ epoch <= epoch' /\ producer' <= epoch'
      /\ epoch \in 0 .. MaxEpoch /\ epoch' \in 0 .. MaxEpoch /\ MaxEpoch \in Nat
  BY WorkWritten, WorkSession, PumpAssumption DEF PumpInv, TypeOK
<1>2. 1 .. epoch \subseteq 1 .. epoch'
  BY <1>1, SMT
<1>3. \A f \in Written : f \in File /\ file[f].epoch \in 1 .. epoch
  BY DEF PumpInv, EpochInv, Written
<1> QED
  BY <1>1, <1>2, <1>3 DEF EpochInv

\* What is committed.
LEMMA WorkCommit ==
    ASSUME PumpInv, NEW w \in Worker, WorkStep(w)
    PROVE  CommitInv'
<1>1. Acts(w) /\ RowKept(w) /\ Stored \subseteq Stored' /\ CommitInv
  BY WorkActs, WorkRows, WorkStore DEF WorkStep, PumpInv
<1>2. ASSUME NEW f \in File, row'[f].state \in Committed
      PROVE  row'[f].key /\ f \in Stored'
  <2>1. CASE row[f].state \in Committed
    BY <1>1, <2>1 DEF RowKept, CommitInv
  <2>2. CASE Commits(w, f)
    BY <1>1, <2>2 DEF Commits, CommitInv
  <2> QED
    BY <1>1, <1>2, <2>1, <2>2 DEF RowKept
<1>3. ASSUME NEW v \in Worker, pc'[v] = "persisted"
      PROVE  local'[v].seg \in Stored'
  <2>1. CASE v # w
    <3>1. pc'[v] = pc[v] /\ local'[v] = local[v]
      BY <1>1, <2>1 DEF Acts, Only
    <3> QED
      BY <1>1, <1>3, <3>1 DEF CommitInv, At, Seg
  <2>2. CASE v = w
    <3>1. Works(w)
      BY <1>1, <1>3, <2>2, PlainNames DEF Acts, Rests, Takes, GoesOn
    <3>2. local'[w].seg \in store'
      BY <1>3, <2>2, <3>1 DEF Works, Seg
    <3> QED
      BY <2>2, <3>2 DEF Stored
  <2> QED
    BY <2>1, <2>2
<1> QED
  BY <1>2, <1>3 DEF CommitInv, At, Seg, Stored

\* A valid copy stays valid.
LEMMA WorkCopies ==
    ASSUME PumpInv, NEW w \in Worker, WorkStep(w), NEW f \in File, CopyValid(f)
    PROVE  CopyValid(f)'
BY WorkRows, WorkStore DEF WorkStep, RowKept, CopyValid

\* What may be deleted, and what was.
LEMMA WorkDelete ==
    ASSUME PumpInv, NEW w \in Worker, WorkStep(w)
    PROVE  DeleteInv' /\ EvidenceSomewhere'
<1>1. Acts(w) /\ FileKept /\ DeleteInv /\ EvidenceSomewhere
  BY WorkActs, WorkFiles DEF WorkStep, PumpInv
<1>2. \A v \in Worker : At(v, "delete") => Seg(v) \in File
  BY AtSegment, PlainNames DEF At
<1>3. ASSUME NEW v \in Worker, pc'[v] = "delete"
      PROVE  CopyValid(Seg(v))'
  <2>1. CASE v # w
    <3>1. pc'[v] = pc[v] /\ local'[v] = local[v]
      BY <1>1, <2>1 DEF Acts, Only
    <3>2. CopyValid(Seg(v)) /\ Seg(v) \in File
      BY <1>1, <1>2, <1>3, <3>1 DEF DeleteInv, At
    <3>3. row'[Seg(v)].key /\ Seg(v) \in store'
      BY <3>2, WorkCopies DEF CopyValid
    <3> QED
      BY <3>1, <3>3 DEF CopyValid, Seg
  <2>2. CASE v = w
    <3>1. Works(w)
      BY <1>1, <1>3, <2>2, PlainNames DEF Acts, Rests, Takes, GoesOn
    <3>2. CopyValid(Seg(w)) /\ UNCHANGED <<row, store>> /\ local'[w].seg = local[w].seg
      BY <1>3, <2>2, <3>1 DEF Works
    <3> QED
      BY <2>2, <3>2 DEF CopyValid, Seg
  <2> QED
    BY <2>1, <2>2
<1>4. ASSUME NEW f \in File, file'[f].at = "deleted"
      PROVE  row'[f].key /\ f \in store'
  <2>1. \/ file[f].at = "deleted"
        \/ \E v \in Worker : At(v, "delete") /\ f = Seg(v)
    BY <1>1, <1>4 DEF FileKept
  <2>2. CopyValid(f)
    BY <1>1, <2>1 DEF DeleteInv, EvidenceSomewhere
  <2> QED
    BY <2>2, WorkCopies DEF CopyValid
<1> QED
  BY <1>3, <1>4 DEF DeleteInv, EvidenceSomewhere, At, CopyValid

-----------------------------------------------------------------------------
(***************************************************************************)
(* So do the steps of the DUT and of the store.                            *)
(***************************************************************************)
\* A new file belongs to the live producer's epoch; the others keep theirs.
LEMMA RotateKeeps ==
    ASSUME PumpInv, NEW f \in File, Rotate(f)
    PROVE  /\ PumpInv'
           /\ Written' = Written \cup {f} /\ f \notin Written
           /\ file'[f].epoch = producer
           /\ \A g \in Written : file'[g].epoch = file[g].epoch
<1>1. /\ file \in [File -> Files] /\ producer # 0 /\ file[f].at = "none"
      /\ producer \in 0 .. MaxEpoch /\ epoch \in 0 .. MaxEpoch
      /\ producer <= epoch /\ MaxEpoch \in Nat
      /\ UNCHANGED <<session, row, store, pc, local, count>>
  BY PumpAssumption DEF PumpInv, TypeOK, Files, EpochInv, Rotate, NoFault
<1> DEFINE new == [at |-> "open", epoch |-> producer]
           closed(g) == [file[g] EXCEPT !.at = "closed"]
<1>2. new \in Files /\ new.at = "open" /\ new.epoch = producer
  BY <1>1, SMT DEF Files, Place
<1>3. ASSUME NEW g \in File
      PROVE  closed(g) \in Files /\ closed(g).at = "closed" /\ closed(g).epoch = file[g].epoch
  BY <1>1, SMT DEF Files, Place
<1>4. file' = [g \in File |-> CASE g = f -> new
                                [] g # f /\ file[g].at = "open" -> closed(g)
                                [] g # f /\ file[g].at # "open" -> file[g]]
  BY DEF Rotate
<1> HIDE DEF new, closed
<1>5. ASSUME NEW g \in File
      PROVE  /\ g = f => file'[g] = new
             /\ g # f /\ file[g].at = "open" => file'[g] = closed(g)
             /\ g # f /\ file[g].at # "open" => file'[g] = file[g]
  BY <1>4
<1>6. \A g \in File : file'[g] \in Files
  BY <1>1, <1>2, <1>3, <1>5
<1>7. file' \in [File -> Files]
  BY <1>4, <1>6
<1>8. file'[f].at = "open" /\ file'[f].epoch = producer
  BY <1>2, <1>5
<1>9. ASSUME NEW g \in File, g # f
      PROVE  /\ file'[g].at = "none" <=> file[g].at = "none"
             /\ file'[g].epoch = file[g].epoch
             /\ file'[g].at = "deleted" <=> file[g].at = "deleted"
  BY <1>3, <1>5, <1>9
<1>10. Written' = Written \cup {f} /\ f \notin Written
  BY <1>1, <1>8, <1>9 DEF Written
<1>11. \A g \in Written : g \in File /\ g # f /\ file'[g].epoch = file[g].epoch
  BY <1>9, <1>10 DEF Written
<1>12. TypeOK'
  BY <1>1, <1>7 DEF PumpInv, TypeOK, Files, session
<1>13. \A w \in Worker : MemoryInv(w)'
  BY <1>1, <1>10 DEF PumpInv, MemoryInv, At, Seg, session
<1>14. EpochInv'
  <2>1. producer \in 1 .. epoch
    BY <1>1, SMT
  <2> QED
    BY <1>1, <1>8, <1>10, <1>11, <2>1 DEF PumpInv, EpochInv, session
<1>15. CommitInv' /\ DeleteInv'
  BY <1>1 DEF PumpInv, CommitInv, DeleteInv, Stored, CopyValid, At, Seg, count
<1>16. EvidenceSomewhere'
  BY <1>1, <1>8, <1>9 DEF PumpInv, EvidenceSomewhere, CopyValid
<1>17. local' \in [Worker -> Memory]
  BY <1>1 DEF PumpInv
<1> QED
  BY <1>8, <1>10, <1>11, <1>12, <1>13, <1>14, <1>15, <1>16, <1>17 DEF PumpInv

\* A copy that the store loses.
LEMMA StoreLosesKeeps ==
    ASSUME PumpInv, NEW f \in File, StoreLoses(f)
    PROVE  PumpInv'
<1>1. /\ UNCHANGED <<session, file, row, pc, local>>
      /\ store' = store \ {f} /\ lost' = lost \cup {f}
      /\ file[f].at = "spool" /\ f \in store
      /\ \A w \in Worker : ~(At(w, "delete") /\ Seg(w) = f)
  BY DEF StoreLoses
<1>2. Written' = Written /\ Stored' = Stored
  BY <1>1 DEF Written, Stored
<1>3. TypeOK' /\ local' \in [Worker -> Memory]
  BY <1>1 DEF PumpInv, TypeOK, session
<1>4. (\A w \in Worker : MemoryInv(w)') /\ EpochInv'
  BY <1>1, <1>2 DEF PumpInv, MemoryInv, EpochInv, At, Seg, session
<1>5. CommitInv'
  BY <1>1, <1>2 DEF PumpInv, CommitInv, At, Seg
<1>6. DeleteInv' /\ EvidenceSomewhere'
  BY <1>1 DEF PumpInv, DeleteInv, EvidenceSomewhere, CopyValid, At, Seg
<1> QED
  BY <1>3, <1>4, <1>5, <1>6 DEF PumpInv

\* A producer that dies.
LEMMA ProducerDiesKeeps ==
    ASSUME PumpInv, ProducerDies
    PROVE  PumpInv'
<1>1. /\ FileKept /\ producer' = 0
      /\ UNCHANGED <<epoch, ended, gaps, durable, fence, row, store, pc, local, lost>>
  BY GoneFiles DEF PumpInv, ProducerDies, ProducerGone, Fault
<1>2. Written' = Written
  BY <1>1 DEF Written, FileKept
<1>3. epoch \in 0 .. MaxEpoch /\ MaxEpoch \in Nat
  BY PumpAssumption DEF PumpInv, TypeOK
<1>4. 0 \in 0 .. MaxEpoch /\ 0 <= epoch
  BY <1>3, SMT
<1>5. TypeOK' /\ local' \in [Worker -> Memory]
  BY <1>1, <1>4 DEF PumpInv, TypeOK, FileKept, Files
<1>6. \A w \in Worker : MemoryInv(w)'
  BY <1>1, <1>2 DEF PumpInv, MemoryInv, At, Seg
<1>7. EpochInv'
  BY <1>1, <1>2, <1>4 DEF PumpInv, EpochInv, FileKept, Written
<1>8. CommitInv' /\ DeleteInv'
  BY <1>1 DEF PumpInv, CommitInv, DeleteInv, Stored, CopyValid, At, Seg
<1>9. EvidenceSomewhere'
  <2>1. ASSUME NEW f \in File, file'[f].at = "deleted"
        PROVE  CopyValid(f)
    BY <1>1, <2>1 DEF FileKept, PumpInv, DeleteInv, EvidenceSomewhere
  <2> QED
    BY <1>1, <2>1 DEF EvidenceSomewhere, CopyValid
<1> QED
  BY <1>5, <1>6, <1>7, <1>8, <1>9 DEF PumpInv

\* A step that changes nothing.
LEMMA Stutter ==
    ASSUME PumpInv, UNCHANGED vars
    PROVE  PumpInv'
<1>1. UNCHANGED <<epoch, producer, ended, gaps, durable, fence, file, row, store,
                  pc, local, lost>>
  BY DEF vars, session, segment, count
<1> QED
  BY <1>1 DEF PumpInv, TypeOK, MemoryInv, EpochInv, CommitInv, DeleteInv,
     EvidenceSomewhere, Written, Stored, CopyValid, At, Seg

-----------------------------------------------------------------------------
(***************************************************************************)
(* The invariant holds.                                                    *)
(***************************************************************************)
LEMMA Initially == Init => PumpInv
<1> SUFFICES ASSUME Init PROVE PumpInv
  OBVIOUS
<1>1. 0 \in 0 .. MaxEpoch
  BY PumpAssumption, SMT
<1>2. file \in [File -> Files] /\ \A f \in File : file[f].at = "none"
  <2>1. [at |-> "none", epoch |-> 0] \in Files
    BY <1>1, SMT DEF Files, Place
  <2> QED
    BY <2>1 DEF Init
<1>3. row \in [File -> Rows] /\ \A f \in File : row[f].state = "NONE"
  <2>1. NoRow \in Rows /\ NoRow.state = "NONE"
    BY SMT DEF NoRow, Rows, State
  <2> QED
    BY <2>1 DEF Init
<1>4. pc \in [Worker -> Steps] /\ \A w \in Worker : pc[w] = "idle"
  BY DEF Init, Steps
<1>5. Blank \in Memory /\ Blank.ctx = 0 /\ Blank.found = {} /\ Blank.todo = {}
  BY <1>1, BlankIsFresh, FreshMemory
<1>6. local \in [Worker -> Memory] /\ \A w \in Worker : local[w] = Blank
  BY <1>5 DEF Init
<1>7. TypeOK
  BY <1>1, <1>2, <1>3, <1>4 DEF Init, TypeOK, Files, Rows
<1>8. \A w \in Worker : MemoryInv(w)
  BY <1>4, <1>5, <1>6 DEF Init, MemoryInv, At, OnSegment
<1>9. EpochInv /\ EvidenceSomewhere
  BY <1>2 DEF Init, EpochInv, EvidenceSomewhere, Written
<1>10. CommitInv /\ DeleteInv
  BY <1>3, <1>4 DEF CommitInv, DeleteInv, Committed, Acked, At
<1> QED
  BY <1>6, <1>7, <1>8, <1>9, <1>10 DEF PumpInv

\* Every step preserves the invariant.
LEMMA Inductive == PumpInv /\ [Next]_vars => PumpInv'
<1> SUFFICES ASSUME PumpInv, [Next]_vars PROVE PumpInv'
  OBVIOUS
<1>1. ASSUME NEW w \in Worker, WorkStep(w)
      PROVE  PumpInv'
  BY <1>1, WorkTypes, WorkMemory, WorkEpoch, WorkCommit, WorkDelete DEF PumpInv
<1>2. CASE UNCHANGED vars
  BY <1>2, Stutter
<1> QED
  BY <1>1, <1>2, RotateKeeps, StoreLosesKeeps, ProducerDiesKeeps DEF Next, WorkStep

\* Every state of the pump satisfies the inductive invariant.
THEOREM Invariance == Spec => []PumpInv
BY Initially, Inductive, PTL DEF Spec

\* The variables hold values of their types.
THEOREM Typing == Spec => []TypeOK
<1>1. PumpInv => TypeOK
  BY DEF PumpInv
<1> QED
  BY <1>1, Invariance, PTL

\* Evidence is always somewhere: for any number of overlapping pumps, a file
\* leaves the DUT only while its committed server copy is intact, whatever
\* crashes, lost answers, retries and lost copies came before.
THEOREM Somewhere == Spec => []EvidenceSomewhere
<1>1. PumpInv => EvidenceSomewhere
  BY DEF PumpInv
<1> QED
  BY <1>1, Invariance, PTL

\* An acknowledged segment was committed with its copy in the store.
THEOREM Persisted == Spec => []AckedIsPersisted
<1>1. PumpInv => AckedIsPersisted
  BY DEF PumpInv, CommitInv, AckedIsPersisted, Committed, Stored
<1> QED
  BY <1>1, Invariance, PTL

-----------------------------------------------------------------------------
(***************************************************************************)
(* One worker: the watch task of the session's only holder.                *)
(***************************************************************************)
OneWorker == \A v, w \in Worker : v = w

OneInv ==
    /\ PumpInv
    /\ SeenInv
AccountInv ==
    /\ OneInv
    /\ FinalInv /\ DurableInv

\* The row it decides by is the row it read: nobody else writes rows.
LEMMA SeenStep ==
    ASSUME OneWorker, OneInv, [Next]_vars
    PROVE  SeenInv'
<1>1. ASSUME NEW w \in Worker, WorkStep(w)
      PROVE  SeenInv'
  <2>1. Acts(w) /\ \A v \in Worker : v = w
    BY <1>1, WorkActs DEF OneWorker, OneInv, WorkStep
  <2>2. pc'[w] = "examine" => Takes(w)
    BY <2>1, PlainNames DEF Acts, Rests, Works, GoesOn
  <2> QED
    BY <2>1, <2>2 DEF SeenInv, Takes, At, Seg
<1>2. ASSUME UNCHANGED <<pc, local, row>>
      PROVE  SeenInv'
  BY <1>2 DEF OneInv, SeenInv, At, Seg
<1>3. CASE UNCHANGED vars
  BY <1>2, <1>3 DEF vars, segment
<1> QED
  BY <1>1, <1>2, <1>3 DEF Next, WorkStep, Rotate, StoreLoses, ProducerDies

\* So no step takes an acknowledgement back.
LEMMA AckStep ==
    ASSUME OneInv, [Next]_vars
    PROVE  AckedStays
<1>1. ASSUME NEW w \in Worker, WorkStep(w)
      PROVE  AckedStays
  <2>1. RowKept(w)
    BY <1>1, WorkRows DEF OneInv, WorkStep
  <2>2. ASSUME NEW f \in File
        PROVE  ~ReadEarlier(w, f)
    BY DEF OneInv, SeenInv, ReadEarlier
  <2> QED
    BY <2>1, <2>2 DEF RowKept, AckedStays
<1>2. row' = row => AckedStays
  BY DEF AckedStays
<1>3. CASE UNCHANGED vars
  BY <1>2, <1>3 DEF vars, segment
<1> QED
  BY <1>1, <1>2, <1>3 DEF Next, WorkStep, Rotate, StoreLoses, ProducerDies

\* A producer that is gone does not come back under its epoch.
LEMMA ProducerGoes ==
    ASSUME PumpInv, [Next]_vars, NEW e \in 1 .. epoch, producer # e
    PROVE  producer' # e
<1>1. epoch \in 0 .. MaxEpoch /\ MaxEpoch \in Nat
  BY PumpAssumption DEF PumpInv, TypeOK
<1>2. e # 0 /\ e # epoch + 1
  BY <1>1, SMT
<1>3. ASSUME NEW w \in Worker, WorkStep(w)
      PROVE  producer' # e
  <2>1. CASE Establish(w)
    BY <1>2, <2>1 DEF Establish
  <2>2. CASE ~Establish(w)
    BY <1>2, <1>3, <2>2, SessionWriters DEF WorkStep
  <2> QED
    BY <2>1, <2>2
<1>4. producer' = producer => producer' # e
  OBVIOUS
<1>5. CASE UNCHANGED vars
  BY <1>4, <1>5 DEF vars, session
<1>6. CASE ProducerDies
  BY <1>2, <1>6 DEF ProducerDies, ProducerGone
<1>7. CASE \E f \in File : Rotate(f) \/ StoreLoses(f)
  BY <1>4, <1>7 DEF Rotate, StoreLoses, session
<1> QED
  BY <1>3, <1>5, <1>6, <1>7 DEF Next, WorkStep

\* A finalization accounts for an epoch that produces no more.
LEMMA FinalStep ==
    ASSUME PumpInv, FinalInv, [Next]_vars
    PROVE  FinalInv'
<1>1. ASSUME NEW v \in Worker, pc'[v] = pc[v], local'[v] = local[v]
      PROVE  FinalOf(v)'
  <2>1. FinalOf(v)
    BY DEF FinalInv
  <2>2. pc[v] \in Stopped => local[v].ctx \in 1 .. epoch
    BY KnownEpoch DEF At, Stopped, Unfinal
  <2> QED
    BY <1>1, <2>1, <2>2, ProducerGoes DEF FinalOf, At
<1>2. ASSUME NEW w \in Worker, WorkStep(w), NEW v \in Worker
      PROVE  FinalOf(v)'
  <2>1. Acts(w) /\ FinalOf(w)
    BY <1>2, WorkActs DEF WorkStep, FinalInv
  <2>2. CASE v # w
    BY <1>1, <2>1, <2>2 DEF Acts, Only
  <2>3. CASE v = w /\ Rests(w)
    <3>1. PICK e \in 0 .. epoch' : local'[w] = Fresh(e)
      BY <2>3 DEF Rests
    <3>2. Fresh(e).final = FALSE
      <4>1. epoch' \in 0 .. MaxEpoch /\ MaxEpoch \in Nat
        BY <1>2, WorkSession, PumpAssumption
      <4>2. e \in 0 .. MaxEpoch
        BY <4>1, SMT
      <4> QED
        BY <4>2, FreshMemory
    <3> QED
      BY <2>3, <3>1, <3>2 DEF Rests, FinalOf, At
  <2>4. CASE v = w /\ Works(w)
    <3>1. pc[w] \in Stopped /\ pc'[w] \notin Unfinal /\ pc'[w] # "account"
      BY <2>4 DEF Works, OnSegment, Stopped, Unfinal, Steps
    <3>2. local[w].ctx \in 1 .. epoch
      BY <3>1, KnownEpoch DEF At, Stopped, Unfinal
    <3>3. local[w].final => producer' # local[w].ctx
      BY <2>1, <3>1, <3>2, ProducerGoes DEF FinalOf
    <3> QED
      BY <2>4, <3>1, <3>3 DEF Works, Keeps, FinalOf, At
  <2>5. CASE v = w /\ Takes(w)
    <3>1. pc[w] \in Stopped /\ pc'[w] \notin Unfinal /\ pc'[w] # "account"
      BY <2>5 DEF Takes, At, Stopped, Unfinal, Steps
    <3>2. local[w].ctx \in 1 .. epoch
      BY <3>1, KnownEpoch DEF At, Stopped, Unfinal
    <3>3. local[w].final => producer' # local[w].ctx
      BY <2>1, <3>1, <3>2, ProducerGoes DEF FinalOf
    <3> QED
      BY <2>5, <3>1, <3>3 DEF Takes, Keeps, FinalOf, At
  <2>6. CASE v = w /\ GoesOn(w)
    BY <2>1, <2>6 DEF GoesOn
  <2> QED
    BY <2>1, <2>2, <2>3, <2>4, <2>5, <2>6 DEF Acts
<1>3. UNCHANGED <<pc, local>> => FinalInv'
  BY <1>1 DEF FinalInv
<1>4. CASE UNCHANGED vars
  BY <1>3, <1>4 DEF vars
<1> QED
  BY <1>2, <1>3, <1>4 DEF Next, WorkStep, FinalInv, Rotate, StoreLoses, ProducerDies

\* The accounting of an epoch whose exit statistics are readable.
LEMMA AccountStep ==
    ASSUME ExitStats \subseteq {TRUE}, AccountInv, NEW w \in Worker, Account(w),
           durable' # durable
    PROVE  DurableInv'
<1> DEFINE e == local[w].ctx
<1>1. /\ durable' = e /\ IsDurable(w, TRUE)
      /\ UNCHANGED <<epoch, producer, file, row>>
  <2>1. PICK known \in ExitStats :
            durable' = IF durable = 0 /\ IsDurable(w, known)
                       THEN local[w].ctx ELSE durable
    BY DEF Account
  <2>2. known = TRUE
    OBVIOUS
  <2> QED
    BY <2>1, <2>2 DEF Account, segment
<1>2. e \in 1 .. epoch /\ producer # e
  BY KnownEpoch DEF Account, AccountInv, OneInv, FinalInv, FinalOf, Stopped,
     Unfinal, Steps, At
<1>3. ASSUME NEW f \in FilesOf(e)
      PROVE  row[f].state \in Acked
  <2>1. RowsOf(e) = FilesOf(e)
    BY <1>1 DEF IsDurable, Mismatch
  <2>2. f \in File /\ row[f].state # "NONE"
    BY <2>1 DEF RowsOf, FilesOf
  <2> QED
    BY <1>1, <2>2 DEF IsDurable
<1>5. FilesOf(durable)' = FilesOf(e)
  BY <1>1 DEF FilesOf
<1>6. DurableEpochIsComplete'
  BY <1>1, <1>3, <1>5 DEF DurableEpochIsComplete
<1>7. epoch \in 0 .. MaxEpoch /\ MaxEpoch \in Nat
  BY PumpAssumption DEF AccountInv, OneInv, PumpInv, TypeOK
<1>8. durable' <= epoch' /\ producer' # durable'
  BY <1>1, <1>2, <1>7, SMT
<1> QED
  BY <1>6, <1>8 DEF DurableInv

\* A durable epoch stays complete: it gets no file, loses no acknowledgement.
LEMMA DurableStep ==
    ASSUME ExitStats \subseteq {TRUE}, AccountInv, PumpInv', [Next]_vars
    PROVE  DurableInv'
<1>1. /\ epoch \in 0 .. MaxEpoch /\ durable \in 0 .. MaxEpoch /\ MaxEpoch \in Nat
      /\ epoch' \in 0 .. MaxEpoch
  BY PumpAssumption DEF AccountInv, OneInv, PumpInv, TypeOK
<1>2. durable <= epoch /\ (durable # 0 => producer # durable) /\ DurableEpochIsComplete
  BY DEF AccountInv, DurableInv
<1>3. durable # 0 => durable \in 1 .. epoch /\ producer' # durable
  BY <1>1, <1>2, ProducerGoes, SMT DEF AccountInv, OneInv
<1>4. AckedStays
  BY AckStep DEF AccountInv
<1>5. ASSUME durable' = durable, epoch <= epoch', gaps \subseteq gaps',
             \A f \in File : f \in Written' /\ file'[f].epoch = durable =>
                 f \in Written /\ file[f].epoch = durable
      PROVE  DurableInv'
  <2>1. ASSUME NEW f \in FilesOf(durable)'
        PROVE  row'[f].state \in Acked \/ durable' \in gaps'
    <3>1. f \in File /\ f \in FilesOf(durable)
      BY <1>5, <2>1 DEF FilesOf, Written
    <3> QED
      BY <1>2, <1>4, <1>5, <3>1 DEF DurableEpochIsComplete, AckedStays
  <2>2. durable' <= epoch'
    BY <1>1, <1>2, <1>5, SMT
  <2> QED
    BY <1>3, <1>5, <2>1, <2>2 DEF DurableInv, DurableEpochIsComplete
<1>6. ASSUME NEW w \in Worker, WorkStep(w)
      PROVE  DurableInv'
  <2>1. CASE durable' # durable
    <3>1. Account(w)
      BY <1>6, <2>1, SessionWriters DEF WorkStep
    <3> QED
      BY <2>1, <3>1, AccountStep
  <2>2. CASE durable' = durable
    <3>1. PumpInv
      BY DEF AccountInv, OneInv
    <3>2. /\ epoch <= epoch' /\ Written' = Written
          /\ \A f \in File : file'[f].epoch = file[f].epoch
      BY <1>6, <3>1, WorkSession, WorkWritten
    <3>3. gaps \subseteq gaps'
      BY <1>6, SessionWriters DEF WorkStep, Account, Establish
    <3> QED
      BY <1>5, <2>2, <3>2, <3>3
  <2> QED
    BY <2>1, <2>2
<1>7. ASSUME NEW f \in File, Rotate(f)
      PROVE  DurableInv'
  <2>1. /\ Written' = Written \cup {f} /\ file'[f].epoch = producer
        /\ \A g \in Written : file'[g].epoch = file[g].epoch
    BY <1>7, RotateKeeps DEF AccountInv, OneInv
  <2>2. UNCHANGED <<epoch, durable, gaps, producer>> /\ producer # 0
    BY <1>7 DEF Rotate, session
  <2>3. producer # durable
    BY <1>2, <2>2
  <2> QED
    BY <1>1, <1>5, <2>1, <2>2, <2>3
<1>8. ASSUME NEW f \in File, StoreLoses(f)
      PROVE  DurableInv'
  BY <1>1, <1>5, <1>8 DEF StoreLoses, session, Written
<1>9. CASE ProducerDies
  <2>1. FileKept
    BY <1>9, GoneFiles DEF AccountInv, OneInv, PumpInv, ProducerDies
  <2> QED
    BY <1>1, <1>5, <1>9, <2>1 DEF ProducerDies, FileKept, Written
<1>10. CASE UNCHANGED vars
  BY <1>1, <1>5, <1>10 DEF vars, session, segment, Written
<1> QED
  BY <1>6, <1>7, <1>8, <1>9, <1>10 DEF Next, WorkStep

\* The invariants of one worker hold at first.
LEMMA OneInitially == Init => OneInv /\ FinalInv /\ DurableInv
<1> SUFFICES ASSUME Init PROVE OneInv /\ FinalInv /\ DurableInv
  OBVIOUS
<1>1. PumpInv
  BY Initially
<1>2. \A w \in Worker : pc[w] = "idle" /\ local[w] = Blank
  BY DEF Init
<1>3. Blank.final = FALSE
  BY DEF Blank
<1>4. SeenInv /\ FinalInv
  BY <1>2, <1>3 DEF SeenInv, FinalInv, FinalOf, Stopped, Unfinal, At
<1>5. FilesOf(durable) = {}
  BY SMT DEF Init, FilesOf
<1>6. DurableInv
  BY <1>5 DEF Init, DurableInv, DurableEpochIsComplete
<1> QED
  BY <1>1, <1>4, <1>6 DEF OneInv

\* "ACKED is a one-way boundary": with one worker, no step takes an
\* acknowledged segment back to an earlier state.
THEOREM OneWay == OneWorker => (Spec => AckedOneWay)
<1> SUFFICES ASSUME OneWorker PROVE Spec => AckedOneWay
  OBVIOUS
<1>1. Init => OneInv
  BY OneInitially
<1>2. OneInv /\ [Next]_vars => OneInv'
  BY Inductive, SeenStep DEF OneInv
<1>3. OneInv /\ [Next]_vars => [AckedStays]_vars
  BY AckStep
<1> QED
  BY <1>1, <1>2, <1>3, PTL DEF Spec, AckedOneWay

\* With one worker whose producer's exit statistics are readable, each file of
\* the epoch declared durable was acknowledged, or a gap of it is on record.
THEOREM Complete ==
    OneWorker /\ ExitStats \subseteq {TRUE} => (Spec => []DurableEpochIsComplete)
<1> SUFFICES ASSUME OneWorker, ExitStats \subseteq {TRUE}
             PROVE  Spec => []DurableEpochIsComplete
  OBVIOUS
<1>1. Init => AccountInv
  BY OneInitially DEF AccountInv
<1>2. AccountInv /\ [Next]_vars => AccountInv'
  <2> SUFFICES ASSUME AccountInv, [Next]_vars PROVE AccountInv'
    OBVIOUS
  <2>1. PumpInv' /\ OneInv'
    BY Inductive, SeenStep DEF AccountInv, OneInv
  <2>2. FinalInv'
    BY FinalStep DEF AccountInv, OneInv
  <2>3. DurableInv'
    BY <2>1, DurableStep
  <2> QED
    BY <2>1, <2>2, <2>3 DEF AccountInv
<1>3. AccountInv => DurableEpochIsComplete
  BY DEF AccountInv, DurableInv
<1> QED
  BY <1>1, <1>2, <1>3, PTL DEF Spec

=============================================================================
