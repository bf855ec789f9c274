---------------------------- MODULE RoomJournal ----------------------------
(***************************************************************************)
(* The durable storage of one co-edited project and the successive lives of *)
(* its room (server/multiplayer/roomHost.ts over appwriteStorage.ts).       *)
(*                                                                          *)
(* A life is one HostedRoom object: it is loaded from the storage, accepts  *)
(* batches, writes them to the journal in packets, writes checkpoints that  *)
(* let the journal be pruned, and ends (idle, shut down, fenced, failed or  *)
(* killed).  Lives are numbered in the order in which they begin to load.   *)
(*                                                                          *)
(* A batch is known by its sequence number and the life that accepted it,   *)
(* so the content of a room is the sequence of those lives: log[q] is the   *)
(* life that accepted the batch numbered q, or Document for a number that   *)
(* was skipped when a room restarted from the project's document.           *)
(***************************************************************************)
EXTENDS Integers, Sequences, FiniteSets

CONSTANTS
  NRooms,     \* number of lives (bound)
  MaxSeq,     \* highest sequence number a life assigns (bound)
  FileIds,    \* identifiers of uploaded snapshot files (bound)
  NoFile,     \* none of them
  Overlap,    \* "never", "reload", "fenced" or "free": see MayLoad
  Faults      \* failures the storage's calls may have: see FaultKinds

\* "append": a packet may land although its sender saw the call fail, at once
\* or later; "update": the row may be written although the call failed.  A
\* call that fails without effect, and a killed process, are always possible.
FaultKinds == {"append", "update"}

ASSUME NRoomsAssumption == NRooms \in Nat /\ MaxSeq \in Nat
ASSUME FileAssumption == NoFile \notin FileIds
ASSUME ModeAssumption ==
  Overlap \in {"never", "reload", "fenced", "free"} /\ Faults \subseteq FaultKinds

Rooms    == 1..NRooms
Document == 0
Logs     == Seq(0..NRooms)

VARIABLES
  row,     \* the project's row: is `collab' set, which file it names, and the
           \* content its `data' holds (always that of the same update)
  files,   \* snapshot files present in the bucket
  journal, \* packets of the project_journal collection
  late,    \* packets whose sender no longer waits, still on their way
  room     \* the HostedRoom of each life

vars == <<row, files, journal, late, room>>

Packets == [start : Nat, end : Nat, by : Rooms]
Rows    == [meta : BOOLEAN, file : FileIds \cup {NoFile}, log : Logs]

Statuses == {"new", "reading", "document", "discarding", "initial", "open",
             "closing", "stopping", "closed"}
Phases   == {"idle", "append", "acked", "refused", "upload", "update",
             "pruneFiles", "pruneJournal"}

HostedRooms == [status : Statuses, phase : Phases,
                seen : Rows,                      \* the row the load has read
                rows : SUBSET Packets,            \* the packets it has read
                got : SUBSET {"snapshot", "journal"},
                base : Logs,                      \* what it was loaded with
                seq : Nat, journaled : Nat, durable : Nat,
                saved : Nat,                      \* lastCheckpointSeq
                first : Nat,                      \* firstJournalSeq, or 0
                target : Nat,                     \* checkpoint in progress, or 0
                upto : Nat,                       \* packet in progress, or 0
                file : FileIds \cup {NoFile}]

TypeOK ==
  /\ row \in Rows
  /\ files \subseteq FileIds
  /\ journal \subseteq Packets
  /\ late \subseteq Packets
  /\ room \in [Rooms -> HostedRooms]
  /\ \A r \in Rooms : room[r].status \in {"open", "closing", "stopping"} =>
       /\ room[r].durable <= room[r].journaled /\ room[r].journaled <= room[r].seq
       /\ room[r].saved <= room[r].journaled /\ room[r].target <= room[r].seq
       /\ Len(room[r].base) <= room[r].journaled

----------------------------------------------------------------------------
(* Contents                                                                *)

Covers(p, q) == p.start <= q /\ q <= p.end

\* The last sequence number of a content and of the packets read after it.
Top(log, rows) ==
  CHOOSE n \in {Len(log)} \cup {p.end : p \in rows} :
    n >= Len(log) /\ \A p \in rows : n >= p.end

\* assertContiguous: beyond the checkpoint every number is there once.
Contiguous(log, rows) ==
  \A q \in Len(log) + 1 .. Top(log, rows) :
    \E p \in rows : /\ Covers(p, q)
                    /\ \A p2 \in rows : Covers(p2, q) => p2 = p

\* recoverRoomState: the checkpoint, then the journal beyond its number.
Replay(log, rows) ==
  [q \in 1..Top(log, rows) |->
     IF q <= Len(log) THEN log[q]
     ELSE (CHOOSE p \in rows : Covers(p, q)).by]

\* What a room holds in memory: what it was loaded with, then its own batches.
LogOf(r) ==
  [q \in 1..room[r].seq |->
     IF q <= Len(room[r].base) THEN room[r].base[q] ELSE r]

PadTo(log, n) == [q \in 1..n |-> IF q <= Len(log) THEN log[q] ELSE Document]

\* What a room loaded now, undisturbed, would start from.
Readable    == row.meta /\ row.file \in files
Recoverable == IF Readable THEN Replay(row.log, journal) ELSE row.log

Ended(r)  == room[r].status = "closed"
Active(r) == room[r].status \in {"open", "closing", "stopping"}

NewRoom == [status |-> "new", phase |-> "idle",
            seen |-> [meta |-> FALSE, file |-> NoFile, log |-> <<>>],
            rows |-> {}, got |-> {}, base |-> <<>>,
            seq |-> 0, journaled |-> 0, durable |-> 0, saved |-> 0,
            first |-> 0, target |-> 0, upto |-> 0, file |-> NoFile]

\* A life that is over, its last storage call included, leaves nothing in
\* memory; what it announced durable is kept here for the properties.
Settled(h) ==
  IF h.status = "closed" /\ h.phase = "idle"
  THEN [NewRoom EXCEPT !.status = "closed", !.base = h.base,
                       !.seq = h.durable, !.durable = h.durable]
  ELSE h

\* A project no session has opened yet: a document, no co-editing data.
Init ==
  /\ row = [meta |-> FALSE, file |-> NoFile, log |-> <<>>]
  /\ files = {} /\ journal = {} /\ late = {}
  /\ room = [r \in Rooms |-> NewRoom]

----------------------------------------------------------------------------
(* Loading (RoomHost.open, loadRoom)                                       *)

(***************************************************************************)
(* When the next life may begin.  A server never loads a room it still      *)
(* holds (RoomHost.open); the previous life is over and, "never", its       *)
(* storage calls have returned, or, "reload", the calls of a room that      *)
(* failed still go on.  Two servers meet during a deployment: the new one   *)
(* loads while the old one still serves.  "fenced": the old one writes no   *)
(* checkpoint from then on; "free": it may.                                 *)
(***************************************************************************)
MayLoad(r) ==
  /\ \A s \in Rooms : s < r => room[s].status # "new"
  /\ \A s \in Rooms : s < r - 1 => Ended(s) /\ room[s].phase = "idle"
  /\ \A s \in Rooms : s = r - 1 =>
       \/ Ended(s) /\ room[s].phase = "idle"
       \/ Overlap = "reload" /\ Ended(s)
       \/ Overlap = "fenced" /\ Active(s) /\ room[s].target = 0
       \/ Overlap = "free" /\ Active(s)

\* loadRoom reads the row; without `collab' the document is read again.
LoadRow(r) ==
  /\ room[r].status = "new"
  /\ MayLoad(r)
  /\ room' = [room EXCEPT ![r].seen = row,
                          ![r].status = IF row.meta THEN "reading"
                                                    ELSE "document"]
  /\ UNCHANGED <<row, files, journal, late>>

\* readCheckpoint; a file that is gone sends the load to the document.
LoadSnapshot(r) ==
  /\ room[r].status = "reading" /\ "snapshot" \notin room[r].got
  /\ room' = IF room[r].seen.file \in files
             THEN [room EXCEPT ![r].got = @ \cup {"snapshot"}]
             ELSE [room EXCEPT ![r].status = "document"]
  /\ UNCHANGED <<row, files, journal, late>>

\* readJournalAfter, in parallel with the checkpoint's download.
LoadJournal(r) ==
  /\ room[r].status = "reading" /\ "journal" \notin room[r].got
  /\ room' = [room EXCEPT
       ![r].got = @ \cup {"journal"},
       ![r].rows = {p \in journal : p.end > Len(room[r].seen.log)}]
  /\ UNCHANGED <<row, files, journal, late>>

Loaded(r) ==
  /\ room[r].status = "reading"
  /\ room[r].got = {"snapshot", "journal"}

LoadedLog(r) == Replay(room[r].seen.log, room[r].rows)

\* The HostedRoom constructor: what was read is durable, and already saved
\* when the journal was empty.
LoadOpen(r) ==
  LET seen == room[r].seen
      log  == LoadedLog(r)
  IN  /\ Loaded(r)
      /\ Contiguous(seen.log, room[r].rows)
      /\ room' = [room EXCEPT ![r] =
           [NewRoom EXCEPT !.status = "open", !.base = log, !.seq = Len(log),
              !.journaled = Len(log), !.durable = Len(log),
              !.saved = IF room[r].rows = {} THEN Len(log) ELSE 0]]
      /\ UNCHANGED <<row, files, journal, late>>

\* A read fails, or assertContiguous throws: the load is given up.
LoadGivenUp(r) ==
  /\ room[r].status \in {"reading", "document"}
  /\ room' = [room EXCEPT ![r] = Settled([@ EXCEPT !.status = "closed"])]
  /\ UNCHANGED <<row, files, journal, late>>

\* No usable checkpoint: `data' is read...
LoadDocument(r) ==
  /\ room[r].status = "document"
  /\ room' = [room EXCEPT ![r].base = row.log, ![r].status = "discarding"]
  /\ UNCHANGED <<row, files, journal, late>>

\* ...then every journal row is deleted, and the numbering restarts above all
\* that was there.  (A document rewritten in between is not followed: guard.)
LoadDiscard(r) ==
  LET known == IF room[r].seen.meta THEN room[r].seen.log ELSE <<>>
      next  == Top(known, journal) + 1
  IN  /\ room[r].status = "discarding"
      /\ Len(room[r].base) < next
      /\ next <= MaxSeq
      /\ journal' = {}
      /\ room' = [room EXCEPT ![r] =
           [NewRoom EXCEPT !.status = "initial", !.base = PadTo(room[r].base, next),
                           !.seq = next, !.journaled = next]]
      /\ UNCHANGED <<row, files, late>>

\* One of those deletions fails: the load is given up half-way.
LoadDiscardFailed(r) ==
  /\ room[r].status = "discarding"
  /\ \E kept \in SUBSET journal : journal' = kept
  /\ room' = [room EXCEPT ![r] = Settled([@ EXCEPT !.status = "closed"])]
  /\ UNCHANGED <<row, files, late>>

----------------------------------------------------------------------------
(* Accepting and journalling                                               *)

\* onBatch: the room numbered a batch; it waits for the next packet.
Accept(r) ==
  /\ room[r].status = "open"
  /\ room[r].seq < MaxSeq
  /\ room' = [room EXCEPT ![r].seq = @ + 1]
  /\ UNCHANGED <<row, files, journal, late>>

PacketOf(r) == [start |-> room[r].journaled + 1, end |-> room[r].upto, by |-> r]

\* writeJournal: all that is unflushed goes into one packet.
AppendStart(r) ==
  /\ room[r].status \in {"open", "closing"}
  /\ room[r].phase = "idle"
  /\ room[r].seq > room[r].journaled
  /\ room' = [room EXCEPT ![r].phase = "append", ![r].upto = room[r].seq]
  /\ UNCHANGED <<row, files, journal, late>>

\* createDocument: the identifier <project>_<start> is taken at most once.
IdTaken(p) == \E p2 \in journal : p2.start = p.start

\* (slip: the packet is written over the one that has its identifier)
AppendLandOverwriting(r) ==
  /\ room[r].phase = "append"
  /\ room' = [room EXCEPT ![r].phase = "acked"]
  /\ journal' = {p \in journal : p.start # PacketOf(r).start} \cup {PacketOf(r)}
  /\ UNCHANGED <<row, files, late>>

AppendLand(r) ==
  /\ room[r].phase = "append"
  /\ IF IdTaken(PacketOf(r))
     THEN /\ room' = [room EXCEPT ![r].phase = "refused"]
          /\ UNCHANGED journal
     ELSE /\ room' = [room EXCEPT ![r].phase = "acked"]
          /\ journal' = journal \cup {PacketOf(r)}
  /\ UNCHANGED <<row, files, late>>

\* (slip: everything accepted is announced, not what was written)
NowDurableAll(r) == room[r].seq

\* The last batch of the packet just written (markDurable).
NowDurable(r) == room[r].upto

\* The packet is written: announced durable; a checkpoint that was waiting
\* for it goes on unless the room was closed; a stopping room closes.
AppendAnswered(r) ==
  /\ room[r].phase = "acked"
  /\ LET saving == room[r].target > 0 /\ room[r].status # "closed"
     IN  room' = [room EXCEPT ![r] = Settled([@ EXCEPT
           !.journaled = room[r].upto,
           !.durable = NowDurable(r),
           !.first = IF room[r].first = 0 THEN room[r].journaled + 1 ELSE room[r].first,
           !.upto = 0,
           !.phase = IF saving THEN "upload" ELSE "idle",
           !.target = IF saving THEN room[r].target ELSE 0,
           !.status = IF room[r].status = "stopping" THEN "closed" ELSE room[r].status])]
  /\ UNCHANGED <<row, files, journal, late>>

\* 409: another server holds the room; this one closes.
AppendRefused(r) ==
  /\ room[r].phase = "refused"
  /\ room' = [room EXCEPT ![r] =
       Settled([@ EXCEPT !.phase = "idle", !.status = "closed"])]
  /\ UNCHANGED <<row, files, journal, late>>

\* (slip: the batches of a packet that failed are not tried again)
AppendFailedForgetting(r) ==
  /\ room[r].phase = "append"
  /\ room' = [room EXCEPT ![r].phase = "idle", ![r].target = 0, ![r].upto = 0,
                          ![r].journaled = room[r].upto]
  /\ UNCHANGED <<row, files, journal, late>>

\* The call fails, whether or not it reached the storage or still will; the
\* same packet start is tried again, or the room closes after a long outage.
AppendFailed(r) ==
  /\ \/ room[r].phase = "append" /\ UNCHANGED late
     \/ /\ "append" \in Faults
        /\ \/ room[r].phase = "append" /\ late' = late \cup {PacketOf(r)}
           \/ room[r].phase \in {"acked", "refused"} /\ UNCHANGED late
  /\ \E closes \in BOOLEAN :
       room' = [room EXCEPT ![r] = Settled([@ EXCEPT
         !.phase = "idle", !.target = 0, !.upto = 0,
         !.status = IF room[r].status = "stopping" \/ closes THEN "closed"
                    ELSE room[r].status])]
  /\ UNCHANGED <<row, files, journal>>

\* A packet nobody waits for reaches the storage, or never does.
LateArrives(p) ==
  /\ late' = late \ {p}
  /\ journal' = IF IdTaken(p) THEN journal ELSE journal \cup {p}
  /\ UNCHANGED <<row, files, room>>

LateLost(p) ==
  /\ late' = late \ {p}
  /\ UNCHANGED <<row, files, journal, room>>

----------------------------------------------------------------------------
(* Checkpoints                                                             *)

\* (slip: the checkpoint does not wait for the journal)
FirstStepUnjournalled(r) == "upload"

\* The journal is written up to the serialised number first if it is behind.
FirstStep(r) == IF room[r].seq > room[r].journaled THEN "append" ELSE "upload"

\* maintain / initialCheckpoint: the state is serialised at its number.  What an
\* earlier life left on its way to the storage has landed or is lost by then.
CheckpointStart(r) ==
  /\ room[r].status \in {"open", "initial"}
  /\ room[r].phase = "idle"
  /\ room[r].seq > room[r].saved
  /\ room[r].status = "open" => \A p \in late : p.by >= r
  /\ Overlap # "free" => \A s \in Rooms : s > r => room[s].status = "new"
  /\ room' = [room EXCEPT
       ![r].target = room[r].seq,
       ![r].upto = IF room[r].seq > room[r].journaled THEN room[r].seq ELSE 0,
       ![r].phase = FirstStep(r)]
  /\ UNCHANGED <<row, files, journal, late>>

\* Identifiers some state still refers to: a fresh one is none of them.
InUse == files \cup {row.file} \cup {room[s].file : s \in Rooms}
               \cup {room[s].seen.file : s \in Rooms}

Upload(r) ==
  /\ room[r].phase = "upload"
  /\ FileIds \ InUse # {}
  /\ LET f == CHOOSE f \in FileIds \ InUse : TRUE
     IN  /\ files' = files \cup {f}
         /\ room' = [room EXCEPT ![r].file = f, ![r].phase = "update"]
  /\ UNCHANGED <<row, journal, late>>

SavedRow(r) == [meta |-> TRUE, file |-> room[r].file,
                log |-> SubSeq(LogOf(r), 1, room[r].target)]

\* updateDocument: the row names the new file; nothing is compared.
Update(r) ==
  /\ room[r].phase = "update"
  /\ row' = SavedRow(r)
  /\ room' = [room EXCEPT ![r].phase = "pruneFiles"]
  /\ UNCHANGED <<files, journal, late>>

\* The row once the call has failed: written all the same if the reply was lost.
RowsAfterFailure(r) ==
  {row} \cup {SavedRow(s) : s \in {t \in {r} :
                "update" \in Faults /\ room[t].phase = "update"}}

\* (slip: a failed saveCheckpoint does not leave checkpoint)
CheckpointFailedGoingOn(r) ==
  /\ room[r].phase \in {"upload", "update"}
  /\ room' = [room EXCEPT ![r].phase = "pruneJournal"]
  /\ UNCHANGED <<row, files, journal, late>>

\* saveCheckpoint fails: its uploads are deleted (or not, if that fails too);
\* a first checkpoint that fails gives the load up.
CheckpointFailed(r) ==
  /\ room[r].phase \in {"upload", "update"}
  /\ files' \in {files, files \ {room[r].file}}
  /\ row' \in RowsAfterFailure(r)
  /\ room' = [room EXCEPT ![r] = Settled([@ EXCEPT
       !.phase = "idle", !.target = 0, !.file = NoFile,
       !.status = IF room[r].status = "initial" THEN "closed" ELSE room[r].status])]
  /\ UNCHANGED <<journal, late>>

\* The other snapshot files are deleted, those whose deletion fails are kept.
PruneFiles(r) ==
  /\ room[r].phase = "pruneFiles"
  /\ \E kept \in SUBSET (files \ {room[r].file}) :
       files' = kept \cup (files \cap {room[r].file})
  /\ room' = [room EXCEPT ![r].phase = "pruneJournal", ![r].file = NoFile,
                          ![r].saved = room[r].target]
  /\ UNCHANGED <<row, journal, late>>

\* (slip: every packet the checkpoint covers)
PrunableAll(r) == {p \in journal : p.end <= room[r].target}

\* Packets the checkpoint covers, except the first this room wrote: the fence.
Prunable(r) == {p \in journal : p.end <= room[r].target /\ p.start # room[r].first}

PruneJournal(r) ==
  /\ room[r].phase = "pruneJournal"
  /\ \E gone \in SUBSET Prunable(r) : journal' = journal \ gone
  /\ room' = [room EXCEPT ![r] = Settled([@ EXCEPT
       !.phase = "idle", !.target = 0,
       !.durable = IF room[r].status = "initial" THEN room[r].seq ELSE room[r].durable,
       !.status = IF room[r].status = "initial" THEN "open" ELSE room[r].status])]
  /\ UNCHANGED <<row, files, late>>

----------------------------------------------------------------------------
(* The end of a life                                                       *)

\* unloadIfIdle: nobody connected, nothing waiting for the journal.
Unload(r) ==
  /\ room[r].status = "open" /\ room[r].phase = "idle"
  /\ room[r].journaled >= room[r].seq
  /\ room' = [room EXCEPT ![r] = Settled([@ EXCEPT !.status = "closed"])]
  /\ UNCHANGED <<row, files, journal, late>>

\* SIGTERM: batches are no longer accepted...
Shutdown(r) ==
  /\ room[r].status = "open"
  /\ room' = [room EXCEPT ![r].status = "closing"]
  /\ UNCHANGED <<row, files, journal, late>>

\* ...and once the calls in progress are over the rest is journalled, once.
ShutdownFlush(r) ==
  /\ room[r].status = "closing" /\ room[r].phase = "idle"
  /\ room' = IF room[r].seq > room[r].journaled
             THEN [room EXCEPT ![r].status = "stopping", ![r].phase = "append",
                               ![r].upto = room[r].seq]
             ELSE [room EXCEPT ![r] = Settled([@ EXCEPT !.status = "closed"])]
  /\ UNCHANGED <<row, files, journal, late>>

\* An exception while a message is handled: closed at once, a storage call in
\* progress goes on.
Fail(r) ==
  /\ room[r].status = "open"
  /\ room' = [room EXCEPT ![r] = Settled([@ EXCEPT !.status = "closed"])]
  /\ UNCHANGED <<row, files, journal, late>>

\* The process is killed at any point; a packet it was sending may still land.
Crash(r) ==
  /\ room[r].status # "new"
  /\ Ended(r) => room[r].phase # "idle"
  /\ \/ UNCHANGED late
     \/ room[r].phase = "append" /\ late' = late \cup {PacketOf(r)}
  /\ room' = [room EXCEPT ![r] =
       Settled([@ EXCEPT !.status = "closed", !.phase = "idle"])]
  /\ UNCHANGED <<row, files, journal>>

Load(r) ==
  \/ LoadRow(r) \/ LoadSnapshot(r) \/ LoadJournal(r) \/ LoadOpen(r)
  \/ LoadGivenUp(r) \/ LoadDocument(r) \/ LoadDiscard(r) \/ LoadDiscardFailed(r)

Journalling(r) ==
  \/ AppendStart(r) \/ AppendLand(r) \/ AppendAnswered(r)
  \/ AppendRefused(r) \/ AppendFailed(r)

Checkpointing(r) ==
  \/ CheckpointStart(r) \/ Upload(r) \/ Update(r) \/ CheckpointFailed(r)
  \/ PruneFiles(r) \/ PruneJournal(r)

Ending(r) ==
  \/ Unload(r) \/ Shutdown(r) \/ ShutdownFlush(r) \/ Fail(r) \/ Crash(r)

Next ==
  \/ \E r \in Rooms : Load(r) \/ Accept(r) \/ Journalling(r)
                      \/ Checkpointing(r) \/ Ending(r)
  \/ \E p \in late : LateArrives(p) \/ LateLost(p)

Spec == Init /\ [][Next]_vars

(***************************************************************************)
(* The queue of a room runs its tasks (timers and promises always fire);    *)
(* writeJournal is tried again for ever, with a bounded delay, so a storage *)
(* that takes a packet again and again, and whose answers reach the room    *)
(* again and again, ends up making its batches durable.                     *)
(***************************************************************************)
Fairness ==
  \A r \in Rooms :
    /\ WF_vars(AppendStart(r)) /\ SF_vars(AppendLand(r))
    /\ SF_vars(AppendAnswered(r) \/ AppendRefused(r))
    /\ WF_vars(Upload(r) \/ CheckpointFailed(r)) /\ WF_vars(Update(r))
    /\ WF_vars(PruneFiles(r)) /\ WF_vars(PruneJournal(r))

FairSpec == Spec /\ Fairness

----------------------------------------------------------------------------
(* Properties                                                              *)

\* No load is ever refused for a hole or a duplicate in the journal: whatever
\* was interrupted, the packets beyond the checkpoint follow it exactly
\* (assertContiguous would otherwise lock the project for good).
JournalFollowsCheckpoint == Readable => Contiguous(row.log, journal)

\* Every batch announced durable (markDurable), by whichever life, is what a
\* room loaded now would hold at that number: clients have forgotten it.
DurableKept ==
  /\ JournalFollowsCheckpoint
  /\ \A r \in Rooms : \A q \in 1..room[r].durable :
       q <= Len(Recoverable) /\ Recoverable[q] = LogOf(r)[q]

\* A room that serves starts from everything earlier lives announced durable:
\* a load racing a late packet, or after a half-done pruning, restores no less.
LoadsWhatWasPromised ==
  \A r \in Rooms : Active(r) =>
    \A s \in 1..r-1 : \A q \in 1..room[s].durable :
      q <= room[r].seq /\ LogOf(r)[q] = LogOf(s)[q]

\* The shadow validation made before a checkpoint (shadow.ts) finds no
\* difference: storage replayed up to the serialised number = memory there.
ShadowAgrees ==
  \A r \in Rooms : room[r].phase = "upload" /\ Readable =>
    /\ room[r].target <= Len(Recoverable)
    /\ \A q \in 1..room[r].target : Recoverable[q] = LogOf(r)[q]

Promised == CHOOSE n \in {room[r].durable : r \in Rooms} :
              \A r \in Rooms : room[r].durable <= n

\* The batches a room accepted become durable unless the life of that room
\* ends: checkpoints, failures and retries never leave one unwritten for ever.
BatchesSettle ==
  \A r \in Rooms :
    []<>(room[r].status = "open" => room[r].durable = room[r].seq)

\* The storage and its rooms implement the log of DurableLog.
Storage == INSTANCE DurableLog WITH log <- Recoverable, promised <- Promised
ImplementsDurableLog == Storage!Spec

\* What was announced durable is in the storage, and in every room loaded after.
PromisesKept == DurableKept /\ LoadsWhatWasPromised
=============================================================================
