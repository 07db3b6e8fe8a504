------------------------------ MODULE SegmentPump ------------------------------
(***************************************************************************)
(* The life of the packet capture files of one capture session: written by *)
(* the producer on the DUT, sealed, discovered, downloaded, stored on the  *)
(* server, acknowledged and deleted from the DUT, and the finalization     *)
(* that declares the session's evidence durable.                           *)
(*                                                                         *)
(* Several workers may pump at once: one that lost its lease while it was  *)
(* downloading goes on writing the database, and only its DUT scripts are  *)
(* fenced.  A database transaction is one step, except the one that hashes *)
(* a server copy between its read and its write.  Every file holds some    *)
(* packets; sealed bytes never change, so a copy is there or it is not.    *)
(***************************************************************************)
EXTENDS Naturals, FiniteSets, FiniteSetsExt

CONSTANTS
    Worker,             \* workers that pump this session
    ExitStats,          \* may tcpdump's exit statistics be readable, unreadable
    MaxFile, MaxEpoch,  \* bounds: files written, capture epochs,
    MaxFault, MaxLoss   \*         faults of workers and DUT, of the store

ASSUME PumpAssumption ==
    /\ {MaxFile, MaxEpoch, MaxFault, MaxLoss} \subseteq Nat
    /\ ExitStats \subseteq BOOLEAN

VARIABLES
    epoch,              \* newest capture epoch, 0 before the first
    producer,           \* epoch of the live producer, 0 for none
    ended,              \* epochs marked ENDED by a finalization
    gaps,               \* epochs with a CaptureGap on record
    durable,            \* epoch whose finalization set evidence_durable_at, or 0
    fence,              \* {w}: the worker the DUT obeys; {}: nobody
    file,               \* per file: epoch, and where it is on the DUT
    row,                \* per file: its capture_segments row
    store,              \* files with an intact copy in the durable store
    pc, local,          \* per worker: next step, and what it remembers
    faults, losses,     \* faults so far
    lost                \* history: files whose copy the store ever lost

session == <<epoch, producer, ended, gaps, durable, fence>>
segment == <<file, row, store>>
count == <<faults, losses, lost>>
vars == <<session, segment, pc, local, count>>

File == 1 .. MaxFile

Place == {"none", "open", "closed", "spool", "deleted"}
State == {"NONE", "DISCOVERED", "TRANSFERRING", "DOWNLOADED", "VERIFIED",
          "PERSISTING", "PERSISTED", "ACK_PENDING", "ACKED", "ERROR",
          "REMOTE_DELETED"}
Acked == {"ACKED", "REMOTE_DELETED"}

\* counted: packet_count; key: storage_key and server_size; missing:
\* last_error_code is SERVER_COPY_MISSING.
NoRow == [state |-> "NONE", counted |-> FALSE, key |-> FALSE, missing |-> FALSE]

\* ctx is the epoch of the worker's bootstrap, 0 for none; found the sealed
\* files it has yet to discover; todo the segments left in this run; seen and
\* copy what it read of the current one; clean is PumpResult.errors = 0.
Blank == [ctx |-> 0, final |-> FALSE, found |-> {}, todo |-> {}, seg |-> 0,
          seen |-> NoRow, copy |-> FALSE, clean |-> TRUE]
Fresh(e) == [Blank EXCEPT !.ctx = e]

Steps == {"idle", "seal", "discover", "stop", "end", "sealall", "discoverall",
          "next", "examine", "begin", "download", "repair", "repaired",
          "downloaded", "verify", "store", "persisted", "ackpending", "ack",
          "check", "delete", "deleted", "error", "missing", "account"}

FilesOf(e) == {f \in File : file[f].at # "none" /\ file[f].epoch = e}
RowsOf(e) == {f \in FilesOf(e) : row[f].state # "NONE"}

\* A file of this epoch that the producer no longer has open.
Closed(e) == {f \in FilesOf(e) : file[f].at = "closed"}

\* store.verify of the committed key.
CopyValid(f) == row[f].key /\ f \in store

-----------------------------------------------------------------------------
(***************************************************************************)
(* Small steps.                                                            *)
(***************************************************************************)
At(w, step) == pc[w] = step
Seg(w) == local[w].seg
Goto(w, step) == pc' = [pc EXCEPT ![w] = step]
Fault == faults < MaxFault /\ faults' = faults + 1 /\ UNCHANGED <<losses, lost>>
NoFault == UNCHANGED count
FenceAllows(w) == fence = {w}

\* The exception leaves run_once or finalize; the bootstrap is kept.
Raise(w) == Goto(w, "idle") /\ local' = [local EXCEPT ![w] = Fresh(@.ctx)]

SetState(f, state) == row' = [row EXCEPT ![f].state = state]

\* The producer is gone: nobody holds its open file any more.
ProducerGone ==
    /\ producer' = 0
    /\ file' = [f \in File |-> IF file[f].at = "open"
                               THEN [file[f] EXCEPT !.at = "closed"]
                               ELSE file[f]]

\* A step of _transfer_one that touches the row of its segment only.
OnRow(w, step) ==
    /\ Goto(w, step)
    /\ NoFault
    /\ UNCHANGED <<session, file, store, local>>

Init ==
    /\ epoch = 0 /\ producer = 0 /\ durable = 0
    /\ ended = {} /\ gaps = {} /\ fence = {}
    /\ file = [f \in File |-> [at |-> "none", epoch |-> 0]]
    /\ row = [f \in File |-> NoRow]
    /\ store = {}
    /\ pc = [w \in Worker |-> "idle"]
    /\ local = [w \in Worker |-> Blank]
    /\ faults = 0 /\ losses = 0 /\ lost = {}

(***************************************************************************)
(* Establishing ownership (see CaptureOwnership), here in one step: adopt  *)
(* the live producer, or start one under a new epoch.  An epoch found      *)
(* running without its producer gets a gap; an ended one does not.         *)
(***************************************************************************)
Establish(w) ==
    /\ At(w, "idle") /\ local[w].ctx = 0
    /\ fence' = {w}
    /\ IF producer # 0
       THEN /\ local' = [local EXCEPT ![w] = Fresh(producer)]
            /\ UNCHANGED <<epoch, producer, gaps>>
       ELSE /\ epoch < MaxEpoch
            /\ epoch' = epoch + 1
            /\ producer' = epoch + 1
            /\ gaps' = gaps \cup ((1 .. epoch) \cap ({epoch} \ ended))
            /\ local' = [local EXCEPT ![w] = Fresh(epoch + 1)]
    /\ NoFault
    /\ UNCHANGED <<ended, durable, segment, pc>>

\* A controller goes away and leaves the producer running.
Disconnect(w) ==
    /\ At(w, "idle") /\ local[w].ctx # 0
    /\ local' = [local EXCEPT ![w] = Blank]
    /\ Fault
    /\ UNCHANGED <<session, segment, pc>>

Crash(w) ==
    /\ ~At(w, "idle")
    /\ Fault
    /\ Goto(w, "idle")
    /\ local' = [local EXCEPT ![w] = Blank]
    /\ UNCHANGED <<session, segment>>

(***************************************************************************)
(* drain_once and run_once: validate the lease, seal, discover, transfer.  *)
(***************************************************************************)
StartDrain(w) ==
    /\ At(w, "idle") /\ local[w].ctx # 0
    /\ FenceAllows(w)
    /\ Goto(w, "seal")
    /\ NoFault
    /\ UNCHANGED <<session, segment, local>>

\* The seal script renames the closed files and prints what it renamed.
SealScript(w) ==
    file' = [f \in File |-> IF f \in Closed(local[w].ctx)
                            THEN [file[f] EXCEPT !.at = "spool"] ELSE file[f]]

Seal(w) ==
    \/ /\ At(w, "seal") /\ producer = local[w].ctx
       /\ Goto(w, "discover")
    \/ /\ At(w, "sealall") /\ producer # local[w].ctx
       /\ Goto(w, "discoverall")

SealClosed(w) ==
    /\ FenceAllows(w)
    /\ Seal(w)
    /\ SealScript(w)
    /\ local' = [local EXCEPT ![w].found = Closed(local[w].ctx)]
    /\ NoFault
    /\ UNCHANGED <<session, row, store>>

\* LEASE_FENCED, or PRODUCER_IDENTITY_MISMATCH.
SealRefused(w) ==
    /\ \/ At(w, "seal") /\ ~(FenceAllows(w) /\ producer = local[w].ctx)
       \/ At(w, "sealall") /\ ~(FenceAllows(w) /\ producer # local[w].ctx)
    /\ Raise(w)
    /\ NoFault
    /\ UNCHANGED <<session, segment>>

\* MUTATION_RESULT_UNKNOWN: nobody asks the DUT what was renamed.
SealUnknown(w) ==
    /\ pc[w] \in {"seal", "sealall"} /\ FenceAllows(w)
    /\ At(w, "seal") <=> producer = local[w].ctx
    /\ Fault
    /\ SealScript(w) \/ UNCHANGED file
    /\ Raise(w)
    /\ UNCHANGED <<session, row, store>>

\* One transaction per sealed file.
Discover(w) ==
    /\ pc[w] \in {"discover", "discoverall"}
    /\ local[w].found # {}
    /\ LET f == Min(local[w].found) IN
        /\ row' = [row EXCEPT ![f] = IF @.state = "NONE"
                                     THEN [@ EXCEPT !.state = "DISCOVERED"] ELSE @]
        /\ local' = [local EXCEPT ![w].found = @ \ {f}]
    /\ NoFault
    /\ UNCHANGED <<session, file, store, pc>>

\* _known_segment_ids: the segments of this epoch only.
ListKnown(w) ==
    /\ pc[w] \in {"discover", "discoverall"}
    /\ local[w].found = {}
    /\ local' = [local EXCEPT ![w].todo =
                    {f \in RowsOf(local[w].ctx) : row[f].state # "REMOTE_DELETED"}]
    /\ Goto(w, "next")
    /\ NoFault
    /\ UNCHANGED <<session, segment>>

RunDone(w) ==
    /\ At(w, "next") /\ local[w].todo = {}
    /\ IF local[w].final
       THEN Goto(w, "account") /\ UNCHANGED local
       ELSE Raise(w)
    /\ NoFault
    /\ UNCHANGED <<session, segment>>

(***************************************************************************)
(* _transfer_one.                                                          *)
(***************************************************************************)
\* Read the row and verify its copy ...
ReadSegment(w) ==
    /\ At(w, "next") /\ local[w].todo # {}
    /\ LET f == Min(local[w].todo) IN
        local' = [local EXCEPT ![w].seg = f, ![w].todo = @ \ {f},
                               ![w].seen = row[f], ![w].copy = CopyValid(f)]
    /\ Goto(w, "examine")
    /\ NoFault
    /\ UNCHANGED <<session, segment>>

\* ... then decide, and write by what was read.
Demoted == {"PERSISTED", "ACK_PENDING", "ERROR"}
Examine(w) ==
    /\ At(w, "examine")
    /\ LET f == Seg(w)
           seen == local[w].seen
           copy == local[w].copy
           vanished == ~copy /\ seen.key /\ seen.state \in Demoted
           retried == ~vanished /\ seen.state = "ERROR" /\ ~seen.missing
       IN CASE seen.state = "REMOTE_DELETED" -> OnRow(w, "next") /\ UNCHANGED row
            [] seen.state = "ACKED" ->
                /\ row' = [row EXCEPT ![f].missing = @ \/ ~copy]
                /\ OnRow(w, IF copy THEN "ackpending" ELSE "begin")
            [] seen.state \notin Acked ->
                /\ row' = [row EXCEPT
                            ![f].state = IF vanished \/ retried
                                         THEN "DISCOVERED" ELSE @,
                            ![f].missing = @ \/ vanished]
                /\ OnRow(w, IF copy THEN "ackpending" ELSE "begin")

\* Download unless another pump is already past it.
TransferableNotPersisting ==
    {"DISCOVERED", "TRANSFERRING", "DOWNLOADED", "VERIFIED", "ACKED"}
Transferable ==
    {"DISCOVERED", "TRANSFERRING", "DOWNLOADED", "VERIFIED", "PERSISTING",
     "ACKED"}
Begin(w) ==
    /\ At(w, "begin")
    /\ LET f == Seg(w)
           repair == local[w].seen.state = "ACKED"
       IN CASE row[f].state \notin Transferable ->
                    UNCHANGED row /\ OnRow(w, "ackpending")
            [] row[f].state \in Transferable /\ file[f].at # "spool" ->
                    UNCHANGED row /\ OnRow(w, "error")
            [] row[f].state \in Transferable /\ file[f].at = "spool" ->
                    /\ IF ~repair /\ row[f].state = "DISCOVERED"
                       THEN SetState(f, "TRANSFERRING") ELSE UNCHANGED row
                    /\ OnRow(w, "download")

\* SFTP GET, then the second stat.
Download(w) ==
    /\ At(w, "download")
    /\ UNCHANGED row
    /\ OnRow(w, CASE file[Seg(w)].at # "spool" -> "error"
                  [] file[Seg(w)].at = "spool" /\ local[w].seen.state = "ACKED" ->
                        "repair"
                  [] file[Seg(w)].at = "spool" /\ local[w].seen.state # "ACKED" ->
                        "downloaded")

DownloadFails(w) ==
    /\ At(w, "download")
    /\ Fault
    /\ Goto(w, "error")
    /\ UNCHANGED <<session, segment, local>>

MarkDownloaded(w) ==
    /\ At(w, "downloaded")
    /\ IF row[Seg(w)].state = "TRANSFERRING"
       THEN SetState(Seg(w), "DOWNLOADED") ELSE UNCHANGED row
    /\ OnRow(w, "verify")

\* The first transaction of persist(): VERIFIED and PERSISTING together.
Verify(w) ==
    /\ At(w, "verify")
    /\ row' = [row EXCEPT ![Seg(w)] =
                CASE @.state = "DOWNLOADED" ->
                        [@ EXCEPT !.state = "PERSISTING", !.counted = TRUE]
                  [] @.state = "VERIFIED" -> [@ EXCEPT !.state = "PERSISTING"]
                  [] @.state \notin {"DOWNLOADED", "VERIFIED"} -> @]
    /\ OnRow(w, "store")

PutCopy(w, step) ==
    /\ store' = store \cup {Seg(w)}
    /\ Goto(w, step)
    /\ NoFault
    /\ UNCHANGED <<session, file, row, local>>

Store(w) == At(w, "store") /\ PutCopy(w, "persisted")

\* The second transaction of persist(), or SEGMENT_STATE_CONFLICT.
CommitPersisted(w) ==
    /\ At(w, "persisted")
    /\ LET state == row[Seg(w)].state IN
        /\ row' = IF state = "PERSISTING"
                  THEN [row EXCEPT ![Seg(w)].state = "PERSISTED",
                                   ![Seg(w)].key = TRUE] ELSE row
        /\ OnRow(w, IF state \in {"PERSISTING", "PERSISTED"}
                    THEN "ackpending" ELSE "error")

\* repair_durable_copy of an ACKED segment.
Repair(w) ==
    /\ At(w, "repair")
    /\ IF row[Seg(w)].state = "ACKED" /\ row[Seg(w)].key
       THEN PutCopy(w, "repaired")
       ELSE UNCHANGED <<row, store>> /\ OnRow(w, "error")

CommitRepair(w) ==
    /\ At(w, "repaired")
    /\ IF row[Seg(w)].state = "ACKED"
       THEN row' = [row EXCEPT ![Seg(w)].missing = FALSE] /\ OnRow(w, "ackpending")
       ELSE UNCHANGED row /\ OnRow(w, "error")

\* The states an acknowledgement may start from.
AckableEarly == {"PERSISTED", "PERSISTING"}
Ackable == {"PERSISTED"}
AckPending(w) ==
    /\ At(w, "ackpending")
    /\ LET state == row[Seg(w)].state IN
        /\ IF state \in Ackable
           THEN SetState(Seg(w), "ACK_PENDING") ELSE UNCHANGED row
        /\ OnRow(w, IF state \in Ackable \cup {"ACK_PENDING"}
                    THEN "ack" ELSE "check")

Ack(w) ==
    /\ At(w, "ack")
    /\ IF row[Seg(w)].state = "ACK_PENDING"
       THEN SetState(Seg(w), "ACKED") /\ OnRow(w, "check")
       ELSE UNCHANGED row /\ OnRow(w, "error")

\* Delete from the DUT only while the committed copy verifies.
SafeToDeleteByRow(f) == row[f].key
SafeToDelete(f) == CopyValid(f)
CheckBeforeDelete(w) ==
    /\ At(w, "check")
    /\ UNCHANGED row
    /\ OnRow(w, CASE row[Seg(w)].state # "ACKED" -> "next"
                  [] row[Seg(w)].state = "ACKED" /\ SafeToDelete(Seg(w)) -> "delete"
                  [] row[Seg(w)].state = "ACKED" /\ ~SafeToDelete(Seg(w)) -> "missing")

DeleteScript(w) == file' = [file EXCEPT ![Seg(w)].at = "deleted"]

Delete(w) ==
    /\ At(w, "delete")
    /\ IF FenceAllows(w) THEN DeleteScript(w) /\ Goto(w, "deleted")
                         ELSE UNCHANGED file /\ Goto(w, "error")
    /\ NoFault
    /\ UNCHANGED <<session, row, store, local>>

\* REMOTE_DELETE_PENDING: left to the next run.
DeleteUnknown(w) ==
    /\ At(w, "delete") /\ FenceAllows(w)
    /\ Fault
    /\ DeleteScript(w) \/ UNCHANGED file
    /\ row' = [row EXCEPT ![Seg(w)].missing = FALSE]
    /\ Goto(w, "next")
    /\ UNCHANGED <<session, store, local>>

MarkDeletedAs == "DELETED"
DeletedState == "REMOTE_DELETED"
MarkDeleted(w) ==
    /\ At(w, "deleted")
    /\ IF row[Seg(w)].state = "ACKED"
       THEN SetState(Seg(w), DeletedState) /\ OnRow(w, "next")
       ELSE UNCHANGED row /\ OnRow(w, "error")

\* set_error never demotes an acknowledged segment.
KeptOnErrorUnlessAcked == {"REMOTE_DELETED"}
KeptOnError == Acked
SetError(w) ==
    /\ pc[w] \in {"error", "missing"}
    /\ row' = [row EXCEPT ![Seg(w)].state = IF @ \in KeptOnError THEN @ ELSE "ERROR",
                          ![Seg(w)].missing = At(w, "missing")]
    /\ local' = [local EXCEPT ![w].clean = FALSE]
    /\ Goto(w, "next")
    /\ NoFault
    /\ UNCHANGED <<session, file, store>>

(***************************************************************************)
(* CaptureV2CaptureFinalizer.finalize.                                     *)
(***************************************************************************)
StartFinalize(w) ==
    /\ At(w, "idle") /\ local[w].ctx # 0
    /\ FenceAllows(w)
    /\ local' = [local EXCEPT ![w].final = TRUE]
    /\ Goto(w, "stop")
    /\ NoFault
    /\ UNCHANGED <<session, segment>>

\* stop_identity does nothing to a producer of another identity.
StopProducer(w) ==
    /\ At(w, "stop")
    /\ IF FenceAllows(w)
       THEN /\ IF producer = local[w].ctx THEN ProducerGone
                                          ELSE UNCHANGED <<producer, file>>
            /\ Goto(w, "end")
            /\ UNCHANGED local
       ELSE UNCHANGED <<producer, file>> /\ Raise(w)
    /\ NoFault
    /\ UNCHANGED <<epoch, ended, gaps, durable, fence, row, store>>

\* The connection is lost: TERM may have reached the producer, and the read that
\* would observe it fails too.
StopUnknown(w) ==
    /\ At(w, "stop") /\ FenceAllows(w) /\ producer = local[w].ctx
    /\ Fault
    /\ ProducerGone \/ UNCHANGED <<producer, file>>
    /\ Raise(w)
    /\ UNCHANGED <<epoch, ended, gaps, durable, fence, row, store>>

MarkEnded(w) ==
    /\ At(w, "end")
    /\ ended' = ended \cup {local[w].ctx}
    /\ Goto(w, "sealall")
    /\ NoFault
    /\ UNCHANGED <<epoch, producer, gaps, durable, fence, segment, local>>

\* Packet accounting of the epoch just stopped, with or without statistics.
MismatchIgnored(e, known) == FALSE
Mismatch(e, known) ==
    known /\ (\A f \in RowsOf(e) : row[f].counted) /\ RowsOf(e) # FilesOf(e)

IsDurable(w, known) ==
    LET e == local[w].ctx IN
    /\ \A f \in File : row[f].state \in Acked \cup {"NONE"}
    /\ RowsOf(e) # {} \/ (known /\ FilesOf(e) = {})
    /\ ~Mismatch(e, known)
    /\ known => \A f \in RowsOf(e) : row[f].counted
    /\ local[w].clean

\* The fence is handed back whether or not the evidence is durable; when it is
\* not, the caller raises CAPTURE_V2_FINAL_EVIDENCE_NOT_DURABLE.
Account(w) ==
    /\ At(w, "account")
    /\ \E known \in ExitStats :
        /\ gaps' = IF Mismatch(local[w].ctx, known)
                   THEN gaps \cup {local[w].ctx} ELSE gaps
        /\ durable' = IF durable = 0 /\ IsDurable(w, known)
                      THEN local[w].ctx ELSE durable
    /\ fence' = fence \ {w}
    /\ Goto(w, "idle")
    /\ local' = [local EXCEPT ![w] = Blank]
    /\ NoFault
    /\ UNCHANGED <<epoch, producer, ended, segment>>

(***************************************************************************)
(* The DUT and the store.                                                  *)
(***************************************************************************)
\* tcpdump -G: the open file is closed and the next one opened.
Rotate(f) ==
    /\ producer # 0
    /\ file[f].at = "none" /\ \A g \in 1 .. f - 1 : file[g].at # "none"
    /\ file' = [g \in File |->
                    CASE g = f -> [at |-> "open", epoch |-> producer]
                      [] g # f /\ file[g].at = "open" ->
                            [file[g] EXCEPT !.at = "closed"]
                      [] g # f /\ file[g].at # "open" -> file[g]]
    /\ NoFault
    /\ UNCHANGED <<session, row, store, pc, local>>

ProducerDies ==
    /\ producer # 0
    /\ Fault
    /\ ProducerGone
    /\ UNCHANGED <<epoch, ended, gaps, durable, fence, row, store, pc, local>>

\* The store loses a copy the DUT could still replace.  A copy lost after its
\* last check and before the deletion it allowed is beyond the code, which can
\* only check first.
StoreLoses(f) ==
    /\ f \in store /\ file[f].at = "spool"
    /\ \A w \in Worker : ~(At(w, "delete") /\ Seg(w) = f)
    /\ losses < MaxLoss
    /\ losses' = losses + 1
    /\ store' = store \ {f}
    /\ lost' = lost \cup {f}
    /\ UNCHANGED <<session, file, row, pc, local, faults>>

Pump(w) ==
    \/ Establish(w) \/ StartDrain(w) \/ SealClosed(w) \/ SealRefused(w)
    \/ Discover(w) \/ ListKnown(w) \/ RunDone(w) \/ ReadSegment(w)
    \/ Examine(w) \/ Begin(w) \/ Download(w) \/ MarkDownloaded(w) \/ Verify(w)
    \/ Store(w) \/ CommitPersisted(w) \/ Repair(w) \/ CommitRepair(w)
    \/ AckPending(w) \/ Ack(w) \/ CheckBeforeDelete(w) \/ Delete(w)
    \/ MarkDeleted(w) \/ SetError(w) \/ StopProducer(w) \/ MarkEnded(w)
    \/ Account(w)

Faulty(w) ==
    \/ SealUnknown(w) \/ DownloadFails(w) \/ DeleteUnknown(w) \/ StopUnknown(w)
    \/ Crash(w) \/ Disconnect(w)

Next ==
    \/ \E w \in Worker : Pump(w) \/ StartFinalize(w) \/ Faulty(w)
    \/ \E f \in File : Rotate(f) \/ StoreLoses(f)
    \/ ProducerDies

\* The watch task drains again and again, and is restarted when it fails.
Spec == Init /\ [][Next]_vars /\ \A w \in Worker : WF_vars(Pump(w))

-----------------------------------------------------------------------------
(***************************************************************************)
(* Properties.                                                             *)
(***************************************************************************)
\* The variables hold values of their types.
TypeOK ==
    /\ {epoch, producer, durable} \subseteq 0 .. MaxEpoch
    /\ ended \subseteq 1 .. epoch /\ gaps \subseteq 1 .. epoch
    /\ fence \in {{}} \cup {{w} : w \in Worker}
    /\ file \in [File -> [at : Place, epoch : 0 .. MaxEpoch]]
    /\ row \in [File -> [state : State, counted : BOOLEAN, key : BOOLEAN,
                         missing : BOOLEAN]]
    /\ store \subseteq File
    /\ pc \in [Worker -> Steps]

\* I-05, evidence is always somewhere: a file leaves the DUT only while its
\* committed server copy is intact, through crashes, lost answers, retries,
\* overlapping pumps and copies the store lost.
EvidenceSomewhere ==
    \A f \in File : file[f].at = "deleted" => CopyValid(f)

\* I-06, an acknowledged segment was committed as persisted and its bytes are
\* in the store, unless the store itself lost them afterwards.
AckedIsPersisted ==
    \A f \in File :
        row[f].state \in Acked => row[f].key /\ f \in store \cup lost

\* "ACKED is a one-way Server-durability boundary": no error, retry or lost
\* copy takes an acknowledged segment back to an earlier state.
AckedStays ==
    \A f \in File : row[f].state \in Acked => row'[f].state \in Acked
AckedOneWay == [][AckedStays]_vars

\* The current epoch is accounted for when EVIDENCE_DURABLE is declared: each
\* of its files was acknowledged, or a gap of the epoch is on record.
DurableEpochIsComplete ==
    \A f \in FilesOf(durable) : row[f].state \in Acked \/ durable \in gaps

\* A discovered segment is eventually acknowledged, as long as its producer
\* lives and the store loses no copy: faults delay it and never strand it.
Drains ==
    \A f \in File :
        row[f].state # "NONE"
            ~> row[f].state \in Acked \/ producer # file[f].epoch \/ f \in lost
=============================================================================
