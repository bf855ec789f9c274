------------------------ MODULE RoomJournal_proofs ------------------------
(***************************************************************************)
(* What is proved of RoomJournal for any number of lives, any highest        *)
(* number, any set of files, any overlap of servers and any faults.          *)
(***************************************************************************)
EXTENDS RoomJournal, WellFoundedInduction, SequenceTheorems, TLAPS

----------------------------------------------------------------------------
(* The inductive invariant                                                 *)

Writing == {"append", "acked", "refused"}
Saving  == {"upload", "update", "pruneFiles", "pruneJournal"}

\* The counters of a room: what is announced durable, saved or was loaded is
\* journalled, what is journalled was accepted; a packet in progress goes on
\* from the journal, a checkpoint in progress is of accepted batches, and of
\* journalled ones once its upload begins.
RoomOK(h) ==
  /\ h.seq <= MaxSeq /\ h.upto <= MaxSeq /\ h.durable <= MaxSeq
  /\ h.target <= h.seq
  /\ Len(h.seen.log) <= MaxSeq /\ \A p \in h.rows : p.end <= MaxSeq
  /\ h.status \in {"open", "closing", "stopping", "initial"} =>
       /\ h.durable <= h.journaled /\ h.journaled <= h.seq
       /\ h.saved <= h.journaled /\ Len(h.base) <= h.journaled
  /\ h.status = "initial" => h.journaled = h.seq
  /\ h.phase = "idle" => h.target = 0
  /\ h.phase \in Writing =>
       /\ h.status # "initial"
       /\ h.journaled < h.upto /\ h.upto <= h.seq /\ h.target <= h.upto
  /\ h.phase \in Saving /\ h.status # "closed" => h.target <= h.journaled

\* The storage holds nothing beyond the highest number.
StorageOK ==
  /\ row \in Rows /\ Len(row.log) <= MaxSeq
  /\ files \subseteq FileIds
  /\ journal \subseteq Packets /\ \A p \in journal : p.end <= MaxSeq
  /\ late \subseteq Packets /\ \A p \in late : p.end <= MaxSeq

IInv ==
  /\ StorageOK
  /\ room \in [Rooms -> HostedRooms]
  /\ \A r \in Rooms : RoomOK(room[r])

----------------------------------------------------------------------------
(* Contents                                                                *)

\* A set of numbers below a bound has a greatest one.
LEMMA GreatestExists ==
  ASSUME NEW B \in Nat, NEW S, S \subseteq 0..B, S # {}
  PROVE  \E n \in S : \A m \in S : n >= m
<1> DEFINE T == {B - n : n \in S}
<1>1. T \subseteq Nat /\ T # {}
  <2>1. PICK s \in S : TRUE
    OBVIOUS
  <2>2. B - s \in T
    BY <2>1
  <2> QED BY <2>2
<1>2. PICK x \in T : \A y \in T : ~ (<<y, x>> \in OpToRel(<, Nat))
  <2> HIDE DEF T
  <2> QED BY <1>1, NatLessThanWellFounded, WFMin
<1>3. \A y \in T : ~ (y < x)
  BY <1>1, <1>2 DEF OpToRel
<1>4. PICK n \in S : x = B - n
  BY <1>2
<1>5. \A m \in S : n >= m
  <2> TAKE m \in S
  <2>1. ~ (B - m < x)
    BY <1>3
  <2> QED BY <2>1, <1>4
<1> QED BY <1>5

\* A function on 1..n is a sequence of length n.
LEMMA FunctionIsSeq ==
  ASSUME NEW S, NEW n \in Nat, NEW f \in [1..n -> S]
  PROVE  f \in Seq(S) /\ Len(f) = n
<1>1. f \in Seq(S)
  OBVIOUS
<1>2. 1..Len(f) = 1..n /\ Len(f) \in Nat
  BY <1>1, LenProperties
<1> QED BY <1>1, <1>2

\* Top is a number, the greatest of its candidates.
LEMMA TopBounds ==
  ASSUME NEW log \in Logs, Len(log) <= MaxSeq,
         NEW rows \in SUBSET Packets, \A p \in rows : p.end <= MaxSeq
  PROVE  /\ Top(log, rows) \in 0..MaxSeq
         /\ Len(log) <= Top(log, rows)
<1> DEFINE S == {Len(log)} \cup {p.end : p \in rows}
<1>1. S \subseteq 0..MaxSeq /\ S # {}
  <2>1. Len(log) \in 0..MaxSeq
    BY DEF Logs
  <2>2. \A p \in rows : p.end \in 0..MaxSeq
    BY DEF Packets
  <2> QED BY <2>1, <2>2
<1>2. \E n \in S : \A m \in S : n >= m
  <2> HIDE DEF S
  <2> QED BY <1>1, GreatestExists, NRoomsAssumption
<1>3. \E n \in S : n >= Len(log) /\ \A p \in rows : n >= p.end
  BY <1>2
<1>4. Top(log, rows) \in S /\ Top(log, rows) >= Len(log)
  BY <1>3 DEF Top
<1> QED BY <1>1, <1>4 DEF Logs

\* Content replayed from a journal without a hole is content again.
LEMMA ReplayIsLog ==
  ASSUME NEW log \in Logs, Len(log) <= MaxSeq,
         NEW rows \in SUBSET Packets, \A p \in rows : p.end <= MaxSeq,
         Contiguous(log, rows)
  PROVE  /\ Replay(log, rows) \in Logs
         /\ Len(Replay(log, rows)) = Top(log, rows)
<1>1. Top(log, rows) \in Nat
  BY TopBounds
<1> DEFINE Entry(q) == IF q <= Len(log) THEN log[q]
                       ELSE (CHOOSE p \in rows : Covers(p, q)).by
<1>2. ASSUME NEW q \in 1..Top(log, rows)
      PROVE  Entry(q) \in 0..NRooms
  <2>1. CASE q <= Len(log)
    <3>1. q \in 1..Len(log)
      BY <1>1, <2>1 DEF Logs
    <3>2. log[q] \in 0..NRooms
      BY <3>1, ElementOfSeq DEF Logs
    <3> QED BY <2>1, <3>2
  <2>2. CASE ~(q <= Len(log))
    <3>1. q \in Len(log) + 1 .. Top(log, rows)
      BY <1>1, <2>2 DEF Logs
    <3>2. \E p \in rows : Covers(p, q)
      BY <3>1 DEF Contiguous
    <3>3. (CHOOSE p \in rows : Covers(p, q)) \in rows
      BY <3>2
    <3> QED BY <2>2, <3>3, NRoomsAssumption DEF Packets, Rooms
  <2> QED BY <2>1, <2>2
<1>3. Replay(log, rows) = [q \in 1..Top(log, rows) |-> Entry(q)]
  BY DEF Replay
<1>4. /\ [q \in 1..Top(log, rows) |-> Entry(q)] \in Logs
      /\ Len([q \in 1..Top(log, rows) |-> Entry(q)]) = Top(log, rows)
  <2>1. [q \in 1..Top(log, rows) |-> Entry(q)] \in [1..Top(log, rows) -> 0..NRooms]
    BY <1>2
  <2> HIDE DEF Entry
  <2> QED BY <1>1, <2>1, FunctionIsSeq DEF Logs
<1> QED BY <1>3, <1>4

\* A restarted numbering is content.
LEMMA PadToIsLog ==
  ASSUME NEW log \in Logs, NEW n \in Nat
  PROVE  PadTo(log, n) \in Logs /\ Len(PadTo(log, n)) = n
<1>1. PadTo(log, n) \in [1..n -> 0..NRooms]
  <2>1. ASSUME NEW q \in 1..n, q <= Len(log)
        PROVE  log[q] \in 0..NRooms
    <3>1. q \in 1..Len(log)
      BY <2>1, LenProperties DEF Logs
    <3> QED BY <3>1, ElementOfSeq DEF Logs
  <2>2. Document \in 0..NRooms
    BY NRoomsAssumption DEF Document
  <2> QED BY <2>1, <2>2 DEF PadTo
<1> QED BY <1>1, FunctionIsSeq DEF Logs

\* What a checkpoint writes is a row of the project.
LEMMA SavedRowIsRow ==
  ASSUME NEW r \in Rooms, room[r] \in HostedRooms, RoomOK(room[r])
  PROVE  SavedRow(r) \in Rows /\ Len(SavedRow(r).log) <= MaxSeq
<1> DEFINE n == room[r].target
           content == LogOf(r)
<1>1. /\ room[r].base \in Seq(0..NRooms) /\ room[r].seq \in Nat
      /\ n \in Nat /\ n <= room[r].seq /\ room[r].seq <= MaxSeq
      /\ room[r].file \in FileIds \cup {NoFile}
  BY DEF HostedRooms, RoomOK, Logs
<1>2. \A q \in 1..n : content[q] \in 0..NRooms
  <2>1. r \in 0..NRooms
    BY NRoomsAssumption DEF Rooms
  <2>2. ASSUME NEW q \in 1..n, q <= Len(room[r].base)
        PROVE  room[r].base[q] \in 0..NRooms
    <3>1. q \in 1..Len(room[r].base)
      BY <1>1, <2>2, LenProperties
    <3> QED BY <1>1, <3>1, ElementOfSeq
  <2> QED BY <1>1, <2>1, <2>2 DEF LogOf
<1>3. SubSeq(content, 1, n) \in Seq(0..NRooms) /\ Len(SubSeq(content, 1, n)) <= MaxSeq
  <2> HIDE DEF content, n
  <2>1. SubSeq(content, 1, n) \in Seq(0..NRooms)
    BY <1>1, <1>2, SubSeqProperties
  <2>2. Len(SubSeq(content, 1, n)) = IF 1 <= n THEN n - 1 + 1 ELSE 0
    BY <1>1, <1>2, SubSeqProperties
  <2> QED BY <1>1, <2>1, <2>2, NRoomsAssumption
<1> QED BY <1>1, <1>3 DEF SavedRow, Rows, Logs

----------------------------------------------------------------------------
(* The rooms                                                               *)

\* A room nobody has loaded yet is in order.
LEMMA NewRoomOK == NewRoom \in HostedRooms /\ RoomOK(NewRoom)
<1>1. <<>> \in Logs /\ Len(<<>>) = 0
  BY EmptySeq DEF Logs
<1>2. NewRoom \in HostedRooms
  BY <1>1 DEF NewRoom, HostedRooms, Statuses, Phases, Rows
<1>3. RoomOK(NewRoom)
  BY <1>1, NRoomsAssumption DEF NewRoom, RoomOK, Writing, Saving
<1> QED BY <1>2, <1>3

\* A room that is over keeps nothing, or its last call in progress.
LEMMA SettledOK ==
  ASSUME NEW h \in HostedRooms, h.durable <= MaxSeq,
         (h.status = "closed" /\ h.phase = "idle") \/ RoomOK(h)
  PROVE  Settled(h) \in HostedRooms /\ RoomOK(Settled(h))
<1>1. CASE h.status = "closed" /\ h.phase = "idle"
  <2> DEFINE g == [NewRoom EXCEPT !.status = "closed", !.base = h.base,
                       !.seq = h.durable, !.durable = h.durable]
  <2>1. Settled(h) = g
    BY <1>1 DEF Settled
  <2>2. g \in HostedRooms
    BY NewRoomOK DEF HostedRooms, Statuses
  <2>3. RoomOK(g)
    BY NewRoomOK, NRoomsAssumption DEF HostedRooms, RoomOK, NewRoom, Writing, Saving
  <2> QED BY <2>1, <2>2, <2>3
<1>2. CASE ~(h.status = "closed" /\ h.phase = "idle")
  BY <1>2 DEF Settled
<1> QED BY <1>1, <1>2

\* A step that changes one room, and leaves the storage in order.
LEMMA OneRoom ==
  ASSUME IInv, StorageOK', NEW r \in Rooms, NEW h \in HostedRooms, RoomOK(h),
         room' = [room EXCEPT ![r] = h]
  PROVE  IInv'
<1>1. room' \in [Rooms -> HostedRooms]
  BY DEF IInv
<1>2. \A s \in Rooms : RoomOK(room'[s])
  BY DEF IInv
<1>3. (\A s \in Rooms : RoomOK(room[s]))'
  BY <1>2 DEF RoomOK, Rooms
<1> QED BY <1>1, <1>3 DEF IInv

\* A step that leaves the storage alone.
LEMMA OnlyOneRoom ==
  ASSUME IInv, UNCHANGED <<row, files, journal, late>>,
         NEW r \in Rooms, NEW h \in HostedRooms, RoomOK(h),
         room' = [room EXCEPT ![r] = h]
  PROVE  IInv'
<1>1. StorageOK'
  BY DEF IInv, StorageOK
<1> QED BY <1>1, OneRoom

----------------------------------------------------------------------------
(* Loading                                                                 *)

\* Every step of a load (row, file, journal, discard) keeps the invariant: what
\* it takes over was written by a room in order.
LEMMA LoadKeeps ==
  ASSUME IInv, NEW r \in Rooms, Load(r)
  PROVE  IInv'
<1>1. room[r] \in HostedRooms /\ RoomOK(room[r]) /\ StorageOK
  BY DEF IInv
<1>2. CASE LoadRow(r)
  <2> DEFINE h == [room[r] EXCEPT !.seen = row,
                     !.status = IF row.meta THEN "reading" ELSE "document"]
  <2>1. room' = [room EXCEPT ![r] = h]
    BY <1>1, <1>2 DEF LoadRow, IInv
  <2>2. h \in HostedRooms
    BY <1>1 DEF HostedRooms, StorageOK, Statuses
  <2>3. RoomOK(h)
    BY <1>1, <1>2 DEF LoadRow, RoomOK, StorageOK, HostedRooms
  <2> QED BY <1>2, <2>1, <2>2, <2>3, OnlyOneRoom DEF LoadRow
<1>3. CASE LoadSnapshot(r)
  <2> DEFINE found == room[r].seen.file \in files
             h == IF found THEN [room[r] EXCEPT !.got = @ \cup {"snapshot"}]
                           ELSE [room[r] EXCEPT !.status = "document"]
  <2>1. room' = [room EXCEPT ![r] = h]
    BY <1>1, <1>3 DEF LoadSnapshot, IInv
  <2>2. h \in HostedRooms
    BY <1>1 DEF HostedRooms, Statuses
  <2>3. RoomOK(h)
    BY <1>1, <1>3 DEF LoadSnapshot, RoomOK, HostedRooms
  <2> QED BY <1>3, <2>1, <2>2, <2>3, OnlyOneRoom DEF LoadSnapshot
<1>4. CASE LoadJournal(r)
  <2> DEFINE read == {p \in journal : p.end > Len(room[r].seen.log)}
             h == [room[r] EXCEPT !.got = @ \cup {"journal"}, !.rows = read]
  <2>1. room' = [room EXCEPT ![r] = h]
    BY <1>1, <1>4 DEF LoadJournal, IInv
  <2>2. h \in HostedRooms
    BY <1>1 DEF HostedRooms, StorageOK
  <2>3. \A p \in read : p.end <= MaxSeq
    BY <1>1 DEF StorageOK
  <2>4. RoomOK(h)
    BY <1>1, <1>4, <2>3 DEF LoadJournal, RoomOK, HostedRooms
  <2> QED BY <1>4, <2>1, <2>2, <2>4, OnlyOneRoom DEF LoadJournal
<1>5. CASE LoadOpen(r)
  <2> DEFINE log == LoadedLog(r)
             n == Len(log)
             saved == IF room[r].rows = {} THEN n ELSE 0
             h == [NewRoom EXCEPT !.status = "open", !.base = log, !.seq = n,
                     !.journaled = n, !.durable = n, !.saved = saved]
  <2>1. room' = [room EXCEPT ![r] = h]
    BY <1>5 DEF LoadOpen
  <2>2. /\ room[r].seen.log \in Logs /\ Len(room[r].seen.log) <= MaxSeq
        /\ room[r].rows \in SUBSET Packets /\ \A p \in room[r].rows : p.end <= MaxSeq
        /\ Contiguous(room[r].seen.log, room[r].rows)
    BY <1>1, <1>5 DEF HostedRooms, Rows, RoomOK, LoadOpen
  <2>3. log \in Logs /\ n = Len(log) /\ n \in Nat /\ n <= MaxSeq
    BY <2>2, ReplayIsLog, TopBounds, NRoomsAssumption DEF LoadedLog
  <2> HIDE DEF log, n
  <2>4. saved \in Nat /\ saved <= n
    BY <2>3
  <2> HIDE DEF saved
  <2>5. h \in HostedRooms
    BY <2>3, <2>4, NewRoomOK DEF HostedRooms, Statuses
  <2>6. RoomOK(h)
    BY <2>3, <2>4, NewRoomOK DEF RoomOK, NewRoom, Writing, Saving
  <2> QED BY <1>5, <2>1, <2>5, <2>6, OnlyOneRoom DEF LoadOpen
<1>6. CASE LoadGivenUp(r)
  <2> DEFINE g == [room[r] EXCEPT !.status = "closed"]
  <2>1. room' = [room EXCEPT ![r] = Settled(g)]
    BY <1>6 DEF LoadGivenUp
  <2>2. g \in HostedRooms /\ g.durable <= MaxSeq
    BY <1>1 DEF HostedRooms, Statuses, RoomOK
  <2>3. RoomOK(g)
    BY <1>1 DEF HostedRooms, RoomOK
  <2> QED BY <1>6, <2>1, <2>2, <2>3, SettledOK, OnlyOneRoom DEF LoadGivenUp
<1>7. CASE LoadDocument(r)
  <2> DEFINE h == [room[r] EXCEPT !.base = row.log, !.status = "discarding"]
  <2>1. room' = [room EXCEPT ![r] = h]
    BY <1>1, <1>7 DEF LoadDocument, IInv
  <2>2. h \in HostedRooms
    BY <1>1 DEF HostedRooms, StorageOK, Rows, Statuses
  <2>3. RoomOK(h)
    BY <1>1, <1>7 DEF LoadDocument, RoomOK, HostedRooms
  <2> QED BY <1>7, <2>1, <2>2, <2>3, OnlyOneRoom DEF LoadDocument
<1>8. CASE LoadDiscard(r)
  <2> DEFINE known == IF room[r].seen.meta THEN room[r].seen.log ELSE <<>>
             next == Top(known, journal) + 1
             base == PadTo(room[r].base, next)
             h == [NewRoom EXCEPT !.status = "initial", !.base = base,
                                  !.seq = next, !.journaled = next]
  <2>1. room' = [room EXCEPT ![r] = h] /\ next <= MaxSeq
    BY <1>8 DEF LoadDiscard
  <2>2. known \in Logs /\ Len(known) <= MaxSeq
    <3>1. <<>> \in Logs /\ Len(<<>>) = 0
      BY EmptySeq DEF Logs
    <3>2. room[r].seen.log \in Logs /\ Len(room[r].seen.log) <= MaxSeq
      BY <1>1 DEF HostedRooms, Rows, RoomOK
    <3> QED BY <3>1, <3>2, NRoomsAssumption
  <2>3. next \in Nat
    <3> HIDE DEF known
    <3>1. Top(known, journal) \in 0..MaxSeq
      BY <1>1, <2>2, TopBounds DEF StorageOK
    <3> QED BY <3>1
  <2>4. base \in Logs /\ Len(base) = next
    <3> HIDE DEF next
    <3> QED BY <1>1, <2>3, PadToIsLog DEF HostedRooms
  <2>5. h \in HostedRooms
    <3> HIDE DEF base, next
    <3> QED BY <2>3, <2>4, NewRoomOK DEF HostedRooms, Statuses
  <2>6. RoomOK(h)
    <3> HIDE DEF base, next
    <3> QED BY <2>1, <2>3, <2>4, NewRoomOK DEF RoomOK, NewRoom, Writing, Saving
  <2>7. StorageOK'
    BY <1>1, <1>8 DEF LoadDiscard, StorageOK
  <2> QED BY <2>1, <2>5, <2>6, <2>7, OneRoom
<1>9. CASE LoadDiscardFailed(r)
  <2> DEFINE g == [room[r] EXCEPT !.status = "closed"]
  <2>1. room' = [room EXCEPT ![r] = Settled(g)]
    BY <1>9 DEF LoadDiscardFailed
  <2>2. g \in HostedRooms /\ g.durable <= MaxSeq
    BY <1>1 DEF HostedRooms, Statuses, RoomOK
  <2>3. RoomOK(g)
    BY <1>1 DEF HostedRooms, RoomOK
  <2>4. StorageOK'
    BY <1>1, <1>9 DEF LoadDiscardFailed, StorageOK
  <2> QED BY <2>1, <2>2, <2>3, <2>4, SettledOK, OneRoom
<1> QED BY <1>2, <1>3, <1>4, <1>5, <1>6, <1>7, <1>8, <1>9 DEF Load

----------------------------------------------------------------------------
(* Accepting and journalling                                               *)

\* A batch the room accepts.
LEMMA AcceptKeeps ==
  ASSUME IInv, NEW r \in Rooms, Accept(r)
  PROVE  IInv'
<1>1. room[r] \in HostedRooms /\ RoomOK(room[r])
  BY DEF IInv
<1> DEFINE h == [room[r] EXCEPT !.seq = @ + 1]
<1>2. room' = [room EXCEPT ![r] = h]
  BY <1>1 DEF Accept, IInv
<1>3. h \in HostedRooms
  BY <1>1 DEF HostedRooms
<1>4. RoomOK(h)
  BY <1>1, NRoomsAssumption DEF Accept, RoomOK, HostedRooms
<1> QED BY <1>2, <1>3, <1>4, OnlyOneRoom DEF Accept

\* The packet of an append in progress is a packet of accepted batches.
LEMMA PacketOK ==
  ASSUME NEW r \in Rooms, room[r] \in HostedRooms, RoomOK(room[r])
  PROVE  PacketOf(r) \in Packets /\ PacketOf(r).end <= MaxSeq
BY DEF PacketOf, Packets, HostedRooms, RoomOK

\* The steps of writeJournal: sent, landed, answered, refused or failed.
LEMMA JournallingKeeps ==
  ASSUME IInv, NEW r \in Rooms, Journalling(r)
  PROVE  IInv'
<1>1. room[r] \in HostedRooms /\ RoomOK(room[r]) /\ StorageOK
  BY DEF IInv
<1>2. CASE AppendStart(r)
  <2> DEFINE h == [room[r] EXCEPT !.phase = "append", !.upto = room[r].seq]
  <2>1. room' = [room EXCEPT ![r] = h]
    BY <1>1, <1>2 DEF AppendStart, IInv
  <2>2. h \in HostedRooms
    BY <1>1 DEF HostedRooms, Phases
  <2>3. RoomOK(h)
    BY <1>1, <1>2 DEF AppendStart, RoomOK, HostedRooms, Writing, Saving
  <2> QED BY <1>2, <2>1, <2>2, <2>3, OnlyOneRoom DEF AppendStart
<1>3. CASE AppendLand(r)
  <2> DEFINE h == [room[r] EXCEPT !.phase = IF IdTaken(PacketOf(r)) THEN "refused"
                                                                  ELSE "acked"]
  <2>1. room' = [room EXCEPT ![r] = h]
    BY <1>1, <1>3 DEF AppendLand, IInv
  <2>2. h \in HostedRooms
    BY <1>1 DEF HostedRooms, Phases
  <2>3. RoomOK(h)
    BY <1>1, <1>3 DEF AppendLand, RoomOK, HostedRooms, Writing, Saving
  <2>4. StorageOK'
    <3>1. journal' = journal \/ journal' = journal \cup {PacketOf(r)}
      BY <1>3 DEF AppendLand
    <3> QED BY <1>1, <1>3, <3>1, PacketOK DEF AppendLand, StorageOK
  <2> QED BY <2>1, <2>2, <2>3, <2>4, OneRoom
<1>4. CASE AppendAnswered(r)
  <2> DEFINE saving == room[r].target > 0 /\ room[r].status # "closed"
             first == IF room[r].first = 0 THEN room[r].journaled + 1 ELSE room[r].first
             phase == IF saving THEN "upload" ELSE "idle"
             target == IF saving THEN room[r].target ELSE 0
             status == IF room[r].status = "stopping" THEN "closed" ELSE room[r].status
             n == room[r].upto
             g == [room[r] EXCEPT !.journaled = n, !.durable = n, !.first = first,
                     !.upto = 0, !.phase = phase, !.target = target, !.status = status]
  <2>1. room' = [room EXCEPT ![r] = Settled(g)]
    BY <1>4 DEF AppendAnswered, NowDurable
  <2>2. /\ n \in Nat /\ n <= MaxSeq /\ n <= room[r].seq
        /\ room[r].journaled < n /\ room[r].target <= n
        /\ room[r].status # "initial"
    BY <1>1, <1>4 DEF AppendAnswered, HostedRooms, RoomOK, Writing
  <2>3. /\ first \in Nat /\ phase \in Phases /\ target \in Nat /\ status \in Statuses
        /\ target <= n
    BY <1>1, <2>2 DEF HostedRooms, Phases, Statuses
  <2>4. /\ phase = "idle" => target = 0
        /\ phase \notin Writing
        /\ status \in {"open", "closing", "stopping", "initial"} =>
             status = room[r].status
        /\ status # "initial"
    BY <2>2 DEF Writing
  <2> HIDE DEF saving, first, phase, target, status, n
  <2>5. g \in HostedRooms
    BY <1>1, <2>2, <2>3 DEF HostedRooms
  <2>6. RoomOK(g)
    <3>1. /\ g.journaled = n /\ g.durable = n /\ g.upto = 0 /\ g.phase = phase
          /\ g.target = target /\ g.status = status /\ g.seq = room[r].seq
          /\ g.saved = room[r].saved /\ g.base = room[r].base
          /\ g.seen = room[r].seen /\ g.rows = room[r].rows
      BY <1>1 DEF HostedRooms
    <3>2. /\ room[r].seq \in Nat /\ room[r].saved \in Nat
          /\ room[r].journaled \in Nat /\ Len(room[r].base) \in Nat
      BY <1>1 DEF HostedRooms, Logs
    <3> HIDE DEF g
    <3>3. /\ g.seq <= MaxSeq /\ g.upto <= MaxSeq /\ g.durable <= MaxSeq
          /\ g.target <= g.seq
          /\ Len(g.seen.log) <= MaxSeq /\ \A p \in g.rows : p.end <= MaxSeq
      BY <1>1, <2>2, <2>3, <3>1, <3>2, NRoomsAssumption DEF RoomOK
    <3>4. g.status \in {"open", "closing", "stopping", "initial"} =>
            /\ g.durable <= g.journaled /\ g.journaled <= g.seq
            /\ g.saved <= g.journaled /\ Len(g.base) <= g.journaled
      BY <1>1, <2>2, <2>4, <3>1, <3>2 DEF RoomOK
    <3> QED BY <2>3, <2>4, <3>1, <3>3, <3>4 DEF RoomOK
  <2>7. g.durable <= MaxSeq
    BY <1>1, <2>2 DEF HostedRooms
  <2> QED BY <1>4, <2>1, <2>5, <2>6, <2>7, SettledOK, OnlyOneRoom DEF AppendAnswered
<1>5. CASE AppendRefused(r)
  <2> DEFINE g == [room[r] EXCEPT !.phase = "idle", !.status = "closed"]
  <2>1. room' = [room EXCEPT ![r] = Settled(g)]
    BY <1>5 DEF AppendRefused
  <2>2. g \in HostedRooms /\ g.durable <= MaxSeq
    BY <1>1 DEF HostedRooms, Statuses, Phases, RoomOK
  <2>3. g.status = "closed" /\ g.phase = "idle"
    BY <1>1 DEF HostedRooms
  <2> QED BY <1>5, <2>1, <2>2, <2>3, SettledOK, OnlyOneRoom DEF AppendRefused
<1>6. CASE AppendFailed(r)
  <2>1. PICK closes \in BOOLEAN :
          room' = [room EXCEPT ![r] = Settled([@ EXCEPT
            !.phase = "idle", !.target = 0, !.upto = 0,
            !.status = IF room[r].status = "stopping" \/ closes THEN "closed"
                       ELSE room[r].status])]
    BY <1>6 DEF AppendFailed
  <2> DEFINE status == IF room[r].status = "stopping" \/ closes THEN "closed"
                                                      ELSE room[r].status
             g == [room[r] EXCEPT !.phase = "idle", !.target = 0, !.upto = 0,
                                  !.status = status]
  <2>2. room' = [room EXCEPT ![r] = Settled(g)]
    BY <2>1
  <2>3. status \in Statuses /\ status \in {"closed", room[r].status}
    BY <1>1 DEF HostedRooms, Statuses
  <2> HIDE DEF status
  <2>4. g \in HostedRooms /\ g.durable <= MaxSeq
    BY <1>1, <2>3 DEF HostedRooms, Phases, RoomOK
  <2>5. RoomOK(g)
    BY <1>1, <2>3, NRoomsAssumption DEF RoomOK, HostedRooms, Writing, Saving
  <2>6. StorageOK'
    BY <1>1, <1>6, PacketOK DEF AppendFailed, StorageOK
  <2> QED BY <2>2, <2>4, <2>5, <2>6, SettledOK, OneRoom
<1> QED BY <1>2, <1>3, <1>4, <1>5, <1>6 DEF Journalling

\* A packet nobody waits for.
LEMMA LateKeeps ==
  ASSUME IInv, NEW p \in late, LateArrives(p) \/ LateLost(p)
  PROVE  IInv'
<1>1. StorageOK'
  <2>1. journal' = journal \/ journal' = journal \cup {p}
    BY DEF LateArrives, LateLost
  <2>2. late' \subseteq late /\ UNCHANGED <<row, files>>
    BY DEF LateArrives, LateLost
  <2> QED BY <2>1, <2>2 DEF IInv, StorageOK
<1>2. UNCHANGED room
  BY DEF LateArrives, LateLost
<1> QED BY <1>1, <1>2 DEF IInv, RoomOK, Rooms

----------------------------------------------------------------------------
(* Checkpoints                                                             *)

\* The steps of a checkpoint: serialised, uploaded, row, pruning, failure.
LEMMA CheckpointingKeeps ==
  ASSUME IInv, NEW r \in Rooms, Checkpointing(r)
  PROVE  IInv'
<1>1. room[r] \in HostedRooms /\ RoomOK(room[r]) /\ StorageOK
  BY DEF IInv
<1>2. CASE CheckpointStart(r)
  <2> DEFINE behind == room[r].seq > room[r].journaled
             upto == IF behind THEN room[r].seq ELSE 0
             phase == IF behind THEN "append" ELSE "upload"
             h == [room[r] EXCEPT !.target = room[r].seq, !.upto = upto,
                                  !.phase = phase]
  <2>1. room' = [room EXCEPT ![r] = h]
    BY <1>1, <1>2 DEF CheckpointStart, FirstStep, IInv
  <2>2. upto \in Nat /\ phase \in Phases
    BY <1>1 DEF HostedRooms, Phases
  <2>3. h \in HostedRooms
    BY <1>1, <2>2 DEF HostedRooms
  <2>4. RoomOK(h)
    BY <1>1, <1>2, NRoomsAssumption
    DEF CheckpointStart, RoomOK, HostedRooms, Writing, Saving
  <2> QED BY <1>2, <2>1, <2>3, <2>4, OnlyOneRoom DEF CheckpointStart
<1>3. CASE Upload(r)
  <2>1. PICK f \in FileIds :
          /\ files' = files \cup {f}
          /\ room' = [room EXCEPT ![r].file = f, ![r].phase = "update"]
    BY <1>3 DEF Upload
  <2> DEFINE h == [room[r] EXCEPT !.file = f, !.phase = "update"]
  <2>2. room' = [room EXCEPT ![r] = h]
    BY <1>1, <2>1 DEF IInv
  <2>3. h \in HostedRooms
    BY <1>1 DEF HostedRooms, Phases
  <2>4. RoomOK(h)
    BY <1>1, <1>3 DEF Upload, RoomOK, HostedRooms, Writing, Saving
  <2>5. StorageOK'
    BY <1>1, <1>3, <2>1 DEF Upload, StorageOK
  <2> QED BY <2>2, <2>3, <2>4, <2>5, OneRoom
<1>4. CASE Update(r)
  <2> DEFINE h == [room[r] EXCEPT !.phase = "pruneFiles"]
  <2>1. room' = [room EXCEPT ![r] = h]
    BY <1>1, <1>4 DEF Update, IInv
  <2>2. h \in HostedRooms
    BY <1>1 DEF HostedRooms, Phases
  <2>3. RoomOK(h)
    BY <1>1, <1>4 DEF Update, RoomOK, HostedRooms, Writing, Saving
  <2>4. StorageOK'
    BY <1>1, <1>4, SavedRowIsRow DEF Update, StorageOK
  <2> QED BY <2>1, <2>2, <2>3, <2>4, OneRoom
<1>5. CASE CheckpointFailed(r)
  <2> DEFINE status == IF room[r].status = "initial" THEN "closed" ELSE room[r].status
             g == [room[r] EXCEPT !.phase = "idle", !.target = 0, !.file = NoFile,
                                  !.status = status]
  <2>1. room' = [room EXCEPT ![r] = Settled(g)]
    BY <1>5 DEF CheckpointFailed
  <2>2. status \in Statuses /\ status \in {"closed", room[r].status}
    BY <1>1 DEF HostedRooms, Statuses
  <2> HIDE DEF status
  <2>3. g \in HostedRooms /\ g.durable <= MaxSeq
    BY <1>1, <2>2 DEF HostedRooms, Phases, RoomOK
  <2>4. RoomOK(g)
    BY <1>1, <2>2 DEF RoomOK, HostedRooms, Writing, Saving
  <2>5. row' \in Rows /\ Len(row'.log) <= MaxSeq
    <3>1. row' = row \/ row' = SavedRow(r)
      BY <1>5 DEF CheckpointFailed, RowsAfterFailure
    <3> QED BY <1>1, <3>1, SavedRowIsRow DEF StorageOK
  <2>6. StorageOK'
    BY <1>1, <1>5, <2>5 DEF CheckpointFailed, StorageOK
  <2> QED BY <2>1, <2>3, <2>4, <2>6, SettledOK, OneRoom
<1>6. CASE PruneFiles(r)
  <2> DEFINE h == [room[r] EXCEPT !.phase = "pruneJournal", !.file = NoFile,
                                  !.saved = room[r].target]
  <2>1. room' = [room EXCEPT ![r] = h]
    BY <1>1, <1>6 DEF PruneFiles, IInv
  <2>2. h \in HostedRooms
    BY <1>1 DEF HostedRooms, Phases
  <2>3. RoomOK(h)
    BY <1>1, <1>6 DEF PruneFiles, RoomOK, HostedRooms, Writing, Saving
  <2>4. StorageOK'
    BY <1>1, <1>6 DEF PruneFiles, StorageOK
  <2> QED BY <2>1, <2>2, <2>3, <2>4, OneRoom
<1>7. CASE PruneJournal(r)
  <2> DEFINE durable == IF room[r].status = "initial" THEN room[r].seq
                                                      ELSE room[r].durable
             status == IF room[r].status = "initial" THEN "open" ELSE room[r].status
             g == [room[r] EXCEPT !.phase = "idle", !.target = 0,
                                  !.durable = durable, !.status = status]
  <2>1. room' = [room EXCEPT ![r] = Settled(g)]
    BY <1>7 DEF PruneJournal
  <2>2. /\ durable \in Nat /\ durable <= MaxSeq /\ status \in Statuses
        /\ status # "initial"
        /\ status \in {"open", "closing", "stopping"} => durable <= room[r].journaled
    BY <1>1 DEF HostedRooms, Statuses, RoomOK
  <2>3. status = "open" => room[r].status \in {"initial", "open"}
    OBVIOUS
  <2>4. status \in {"closing", "stopping"} => room[r].status = status
    OBVIOUS
  <2> HIDE DEF durable, status
  <2>5. g \in HostedRooms /\ g.durable <= MaxSeq
    BY <1>1, <2>2 DEF HostedRooms, Phases
  <2>6. RoomOK(g)
    BY <1>1, <2>2, <2>3, <2>4 DEF RoomOK, HostedRooms, Writing, Saving
  <2>7. StorageOK'
    BY <1>1, <1>7 DEF PruneJournal, StorageOK
  <2> QED BY <2>1, <2>5, <2>6, <2>7, SettledOK, OneRoom
<1> QED BY <1>2, <1>3, <1>4, <1>5, <1>6, <1>7 DEF Checkpointing

----------------------------------------------------------------------------
(* The end of a life                                                       *)

\* Unloading, shutdown, failure and kill.
LEMMA EndingKeeps ==
  ASSUME IInv, NEW r \in Rooms, Ending(r)
  PROVE  IInv'
<1>1. room[r] \in HostedRooms /\ RoomOK(room[r]) /\ StorageOK
  BY DEF IInv
<1> DEFINE over == [room[r] EXCEPT !.status = "closed"]
<1>2. over \in HostedRooms /\ over.durable <= MaxSeq
  BY <1>1 DEF HostedRooms, Statuses, RoomOK
<1>3. RoomOK(over)
  BY <1>1 DEF RoomOK, HostedRooms
<1>4. CASE Unload(r)
  <2>1. room' = [room EXCEPT ![r] = Settled(over)]
    BY <1>4 DEF Unload
  <2> QED BY <1>2, <1>3, <1>4, <2>1, SettledOK, OnlyOneRoom DEF Unload
<1>5. CASE Shutdown(r)
  <2> DEFINE h == [room[r] EXCEPT !.status = "closing"]
  <2>1. room' = [room EXCEPT ![r] = h]
    BY <1>1, <1>5 DEF Shutdown, IInv
  <2>2. h \in HostedRooms
    BY <1>1 DEF HostedRooms, Statuses
  <2>3. RoomOK(h)
    BY <1>1, <1>5 DEF Shutdown, RoomOK, HostedRooms
  <2> QED BY <1>5, <2>1, <2>2, <2>3, OnlyOneRoom DEF Shutdown
<1>6. CASE ShutdownFlush(r)
  <2>1. CASE room[r].seq > room[r].journaled
    <3> DEFINE h == [room[r] EXCEPT !.status = "stopping", !.phase = "append",
                                    !.upto = room[r].seq]
    <3>1. room' = [room EXCEPT ![r] = h]
      BY <1>1, <1>6, <2>1 DEF ShutdownFlush, IInv
    <3>2. h \in HostedRooms
      BY <1>1 DEF HostedRooms, Statuses, Phases
    <3>3. RoomOK(h)
      BY <1>1, <1>6, <2>1 DEF ShutdownFlush, RoomOK, HostedRooms, Writing, Saving
    <3> QED BY <1>6, <3>1, <3>2, <3>3, OnlyOneRoom DEF ShutdownFlush
  <2>2. CASE ~(room[r].seq > room[r].journaled)
    <3>1. room' = [room EXCEPT ![r] = Settled(over)]
      BY <1>6, <2>2 DEF ShutdownFlush
    <3> QED BY <1>2, <1>3, <1>6, <3>1, SettledOK, OnlyOneRoom DEF ShutdownFlush
  <2> QED BY <2>1, <2>2
<1>7. CASE Fail(r)
  <2>1. room' = [room EXCEPT ![r] = Settled(over)]
    BY <1>7 DEF Fail
  <2> QED BY <1>2, <1>3, <1>7, <2>1, SettledOK, OnlyOneRoom DEF Fail
<1>8. CASE Crash(r)
  <2> DEFINE g == [room[r] EXCEPT !.status = "closed", !.phase = "idle"]
  <2>1. room' = [room EXCEPT ![r] = Settled(g)]
    BY <1>8 DEF Crash
  <2>2. g \in HostedRooms /\ g.durable <= MaxSeq
    BY <1>1 DEF HostedRooms, Statuses, Phases, RoomOK
  <2>3. g.status = "closed" /\ g.phase = "idle"
    BY <1>1 DEF HostedRooms
  <2>4. StorageOK'
    BY <1>1, <1>8, PacketOK DEF Crash, StorageOK
  <2> QED BY <2>1, <2>2, <2>3, <2>4, SettledOK, OneRoom
<1> QED BY <1>4, <1>5, <1>6, <1>7, <1>8 DEF Ending

----------------------------------------------------------------------------
(* The specification                                                       *)

\* The storage holds numbered content and every room, whatever its status and
\* the call it waits for, keeps its numbers in order: a checkpoint or a packet
\* in progress never runs ahead of what the room accepted (roomHost.ts).
THEOREM Invariance == Spec => []IInv
<1>1. Init => IInv
  <2> SUFFICES ASSUME Init PROVE IInv
    OBVIOUS
  <2>1. <<>> \in Logs /\ Len(<<>>) = 0
    BY EmptySeq DEF Logs
  <2>2. StorageOK
    BY <2>1, NRoomsAssumption DEF Init, StorageOK, Rows
  <2> QED BY <2>2, NewRoomOK DEF Init, IInv
<1>2. IInv /\ [Next]_vars => IInv'
  <2> SUFFICES ASSUME IInv, [Next]_vars PROVE IInv'
    OBVIOUS
  <2>1. ASSUME NEW r \in Rooms, Load(r) PROVE IInv'
    BY <2>1, LoadKeeps
  <2>2. ASSUME NEW r \in Rooms, Accept(r) PROVE IInv'
    BY <2>2, AcceptKeeps
  <2>3. ASSUME NEW r \in Rooms, Journalling(r) PROVE IInv'
    BY <2>3, JournallingKeeps
  <2>4. ASSUME NEW r \in Rooms, Checkpointing(r) PROVE IInv'
    BY <2>4, CheckpointingKeeps
  <2>5. ASSUME NEW r \in Rooms, Ending(r) PROVE IInv'
    BY <2>5, EndingKeeps
  <2>6. ASSUME NEW p \in late, LateArrives(p) \/ LateLost(p) PROVE IInv'
    BY <2>6, LateKeeps
  <2>7. CASE UNCHANGED vars
    BY <2>7 DEF vars, IInv, StorageOK, RoomOK, Rooms
  <2> QED BY <2>1, <2>2, <2>3, <2>4, <2>5, <2>6, <2>7 DEF Next
<1> QED BY <1>1, <1>2, PTL DEF Spec

\* The storage and the rooms keep their types, and in a room that serves what
\* is announced durable, saved or was loaded is journalled, and what is
\* journalled was accepted (HostedRoom: durableSeq, lastCheckpointSeq,
\* journaledSeq, room.seq).
THEOREM TypeCorrect == Spec => []TypeOK
<1>1. IInv => TypeOK
  BY DEF IInv, TypeOK, StorageOK, RoomOK
<1> QED BY <1>1, Invariance, PTL

----------------------------------------------------------------------------
(* What the storage and the rooms keep: RoomJournal implements DurableLog.   *)
(* The content of the storage (Recoverable) only grows, and whoever works    *)
(* on it knows it up to where it wrote.  What nobody waits for any more      *)
(* lands right after it, on a number already taken, or below a checkpoint.   *)

\* One server at a time loads a room once the calls of the former life are
\* over, and a failed call of saveCheckpoint has not written the row.
Alone == Overlap = "never" /\ "update" \notin Faults

Over(h)    == h.status = "closed" /\ h.phase = "idle"
Serving(h) == h.status \in {"open", "closing", "stopping"}
                \/ (h.status = "closed" /\ h.phase # "idle")

\* Lives follow one another, and a packet comes from one that began.
Successive ==
  /\ \A r, s \in Rooms : r < s /\ room[s].status # "new" => Over(room[r])
  /\ \A p \in journal \cup late : room[p.by].status # "new" /\ p.start <= p.end

\* Until the first checkpoint there is nothing but the document.
Blank ==
  ~row.meta =>
    /\ row.log = <<>> /\ journal = {} /\ late = {}
    /\ \A r \in Rooms :
         /\ room[r].durable = 0 /\ ~Serving(room[r]) /\ room[r].status # "reading"
         /\ room[r].phase \in {"idle", "upload", "update"}

\* The file of the row is there; the one of a checkpoint is another until the
\* row names it.
Snapshots ==
  /\ row.meta => row.file \in files
  /\ \A r \in Rooms :
       /\ room[r].phase \notin {"update", "pruneFiles"} => room[r].file = NoFile
       /\ room[r].phase = "update" => room[r].file \in files \ {row.file}
       /\ room[r].phase = "pruneFiles" => room[r].file = row.file

Taken(n) == \E p \in journal : p.start = n
End      == Top(row.log, journal)

\* A packet on its way follows the journal, or changes nothing when it lands.
Harmless(p) ==
  Taken(p.start) \/ p.end <= Len(row.log) \/ p.start = End + 1

\* Nothing of the content after n is of a batch a room at n still has to write.
Follows(n) == n <= End /\ (End = n \/ Taken(n + 1))

Agrees(r, n) ==
  n <= Len(Recoverable) /\ \A q \in 1..n : Recoverable[q] = LogOf(r)[q]

Stored ==
  /\ row.meta => Contiguous(row.log, journal)
  /\ \A p \in late : Harmless(p)
  /\ \A r \in Rooms : room[r].durable <= room[r].seq /\ Agrees(r, room[r].durable)

\* What a load has read is what it would read again, or the beginning of it.
Reading(r) ==
  /\ room[r].seen = row /\ room[r].phase = "idle" /\ room[r].durable = 0
  /\ room[r].status = "reading" <=> row.meta
  /\ \A p \in late : p.by # r
  /\ room[r].status = "reading" /\ "journal" \in room[r].got =>
       LET n == Top(room[r].seen.log, room[r].rows)
       IN  /\ Follows(n)
           /\ \A q \in 1..n : LoadedLog(r)[q] = Recoverable[q]
           /\ \A s \in Rooms : room[s].durable <= n

\* The first checkpoint of a project.
First(r) ==
  /\ journal = {} /\ late = {} /\ \A s \in Rooms : room[s].durable = 0
  /\ room[r].seq = room[r].journaled /\ room[r].phase # "idle" => room[r].target = room[r].seq
  /\ room[r].phase \in {"idle", "upload", "update"} => ~row.meta
  /\ room[r].phase \in {"pruneFiles", "pruneJournal"} =>
       row.meta /\ Len(row.log) = room[r].seq /\ Agrees(r, room[r].seq)

\* How far the storage has what the room wrote.
Written(r) == IF room[r].phase = "acked" THEN room[r].upto ELSE room[r].journaled

\* A room that serves knows what is stored, up to where it wrote.
Serves(r) ==
  /\ row.meta
  /\ Len(row.log) <= room[r].journaled /\ Len(room[r].base) <= room[r].journaled
  /\ room[r].journaled <= room[r].seq
  /\ Agrees(r, Written(r)) /\ Follows(Written(r))
  /\ room[r].phase = "acked" => Taken(room[r].journaled + 1)
  /\ \A s \in Rooms : room[s].durable <= room[r].journaled
  /\ \A p \in late : p.by = r => p.end <= room[r].seq
  /\ room[r].target > 0 =>
       /\ Len(row.log) <= room[r].target
       /\ \A p \in late : p.by = r /\ p.end <= room[r].target
  /\ room[r].phase \in Saving => room[r].target > 0 /\ room[r].target <= room[r].journaled
  /\ room[r].phase \in {"pruneFiles", "pruneJournal"} => Len(row.log) = room[r].target

Live(r) ==
  /\ room[r].status \in {"reading", "document", "discarding"} => Reading(r)
  /\ room[r].status = "initial" => First(r)
  /\ Serving(room[r]) => Serves(r)
  /\ room[r].status = "new" => room[r] = NewRoom

DInv == Successive /\ Blank /\ Snapshots /\ Stored /\ \A r \in Rooms : Live(r)
-----------------------------------------------------------------------------
(* Contents                                                                *)

LEMMA TopIs ==
  ASSUME NEW log \in Logs, Len(log) <= MaxSeq,
         NEW rows \in SUBSET Packets, \A p \in rows : p.end <= MaxSeq
  PROVE  /\ Top(log, rows) \in Nat /\ Len(log) \in Nat /\ Len(log) <= Top(log, rows)
         /\ \A p \in rows : p.end <= Top(log, rows)
         /\ Top(log, rows) = Len(log) \/ \E p \in rows : Top(log, rows) = p.end
<1> DEFINE S == {Len(log)} \cup {p.end : p \in rows}
<1>1. S \subseteq 0..MaxSeq /\ S # {}
  <2>1. Len(log) \in 0..MaxSeq BY DEF Logs
  <2>2. \A p \in rows : p.end \in 0..MaxSeq BY DEF Packets
  <2>3. QED BY <2>1, <2>2
<1>2. \E n \in S : \A m \in S : n >= m
  <2> HIDE DEF S
  <2>1. QED BY <1>1, GreatestExists, NRoomsAssumption
<1>3. \E n \in S : n >= Len(log) /\ \A p \in rows : n >= p.end
  BY <1>2
<1>4. /\ Top(log, rows) \in S /\ Top(log, rows) >= Len(log)
      /\ \A p \in rows : Top(log, rows) >= p.end
  BY <1>3 DEF Top
<1>5. QED BY <1>1, <1>4, LenProperties DEF Packets, Logs

\* The only number that has these properties.
LEMMA TopUnique ==
  ASSUME NEW log \in Logs, Len(log) <= MaxSeq,
         NEW rows \in SUBSET Packets, \A p \in rows : p.end <= MaxSeq,
         NEW n \in Nat, Len(log) <= n, \A p \in rows : p.end <= n,
         n = Len(log) \/ \E p \in rows : n = p.end
  PROVE  Top(log, rows) = n
<1>1. /\ Top(log, rows) \in Nat /\ Len(log) \in Nat /\ Len(log) <= Top(log, rows)
      /\ \A p \in rows : p.end <= Top(log, rows)
      /\ Top(log, rows) = Len(log) \/ \E p \in rows : Top(log, rows) = p.end
  BY TopIs
<1>2. QED BY <1>1

\* What is replayed at a number.
LEMMA ReplayAt ==
  ASSUME NEW log \in Logs, Len(log) <= MaxSeq,
         NEW rows \in SUBSET Packets, \A p \in rows : p.end <= MaxSeq,
         Contiguous(log, rows), NEW q \in 1..Top(log, rows)
  PROVE  /\ q <= Len(log) => Replay(log, rows)[q] = log[q]
         /\ q > Len(log) => /\ \E p \in rows : Covers(p, q)
                            /\ \A p \in rows : Covers(p, q) => Replay(log, rows)[q] = p.by
<1>1. Top(log, rows) \in Nat /\ Len(log) \in Nat BY TopIs
<1>2. q <= Len(log) => Replay(log, rows)[q] = log[q] BY DEF Replay
<1>3. ASSUME q > Len(log)
      PROVE  /\ \E p \in rows : Covers(p, q)
             /\ \A p \in rows : Covers(p, q) => Replay(log, rows)[q] = p.by
  <2>1. q \in Len(log) + 1 .. Top(log, rows) BY <1>1, <1>3
  <2>2. PICK p \in rows : Covers(p, q) /\ \A p2 \in rows : Covers(p2, q) => p2 = p
    BY <2>1 DEF Contiguous
  <2>3. (CHOOSE p1 \in rows : Covers(p1, q)) = p BY <2>2
  <2>4. Replay(log, rows)[q] = p.by
    <3>1. ~(q <= Len(log)) BY <1>1, <1>3
    <3>2. Replay(log, rows)[q] = IF q <= Len(log) THEN log[q]
                                 ELSE (CHOOSE p1 \in rows : Covers(p1, q)).by
      BY DEF Replay
    <3>3. QED BY <2>3, <3>1, <3>2
  <2>5. QED BY <2>2, <2>4
<1>4. QED BY <1>2, <1>3

\* A packet that comes after all there is, or is below the checkpoint.
LEMMA LandContent ==
  ASSUME NEW log \in Logs, Len(log) <= MaxSeq,
         NEW rows \in SUBSET Packets, \A p \in rows : p.end <= MaxSeq,
         Contiguous(log, rows),
         NEW p \in Packets, p.start <= p.end, p.end <= MaxSeq,
         p.end <= Len(log) \/ p.start = Top(log, rows) + 1
  PROVE  LET new == rows \cup {p}
         IN  /\ Contiguous(log, new)
             /\ Top(log, new) = IF p.end <= Len(log) THEN Top(log, rows) ELSE p.end
             /\ Top(log, rows) <= Top(log, new)
             /\ \A q \in 1..Top(log, rows) : Replay(log, new)[q] = Replay(log, rows)[q]
             /\ p.start = Top(log, rows) + 1 =>
                  \A q \in p.start..p.end : Replay(log, new)[q] = p.by
<1> DEFINE new == rows \cup {p}
           n == Top(log, rows)
           m == IF p.end <= Len(log) THEN n ELSE p.end
<1>1. /\ n \in Nat /\ Len(log) \in Nat /\ Len(log) <= n
      /\ \A p1 \in rows : p1.end <= n /\ p1.start \in Nat /\ p1.end \in Nat
      /\ n = Len(log) \/ \E p1 \in rows : n = p1.end
      /\ p.start \in Nat /\ p.end \in Nat /\ MaxSeq \in Nat
  BY TopIs, NRoomsAssumption DEF Packets
<1>2. new \in SUBSET Packets /\ \A p1 \in new : p1.end <= MaxSeq OBVIOUS
<1> HIDE DEF n
<1>3. m \in Nat /\ n <= m /\ Len(log) <= m /\ \A p1 \in new : p1.end <= m
  BY <1>1 DEF n
<1>4. m = Len(log) \/ \E p1 \in new : m = p1.end BY <1>1
<1>5. Top(log, new) = m
  <2> HIDE DEF new, m
  <2>1. QED BY <1>2, <1>3, <1>4, TopUnique
<1>6. ASSUME NEW q \in Len(log) + 1 .. m
      PROVE  \E p1 \in new : Covers(p1, q) /\ \A p2 \in new : Covers(p2, q) => p2 = p1
  <2>1. CASE q <= n
    <3>1. PICK p1 \in rows : Covers(p1, q) /\ \A p2 \in rows : Covers(p2, q) => p2 = p1
      BY <1>1, <1>6, <2>1 DEF Contiguous, n
    <3>2. ~Covers(p, q) BY <1>1, <1>6, <2>1 DEF Covers, n
    <3>3. QED BY <3>1, <3>2
  <2>2. CASE q > n
    <3>1. Covers(p, q) BY <1>1, <1>6, <2>2 DEF Covers, n
    <3>2. \A p2 \in rows : ~Covers(p2, q) BY <1>1, <1>6, <2>2 DEF Covers
    <3>3. QED BY <3>1, <3>2
  <2>3. QED BY <1>1, <1>3, <1>6, <2>1, <2>2
<1>7. Contiguous(log, new) BY <1>5, <1>6 DEF Contiguous
<1>8. ASSUME NEW q \in 1..n PROVE Replay(log, new)[q] = Replay(log, rows)[q]
  <2>1. q \in 1..Top(log, new) /\ q \in 1..Top(log, rows) BY <1>1, <1>3, <1>5, <1>8 DEF n
  <2>2. CASE q <= Len(log) BY <1>2, <1>7, <2>1, <2>2, ReplayAt
  <2>3. CASE q > Len(log)
    <3>1. PICK p1 \in rows : Covers(p1, q) /\ Replay(log, rows)[q] = p1.by
      BY <2>1, <2>3, ReplayAt
    <3>2. Replay(log, new)[q] = p1.by
      <4>1. p1 \in new OBVIOUS
      <4> HIDE DEF new
      <4>2. QED BY <1>2, <1>7, <2>1, <2>3, <3>1, <4>1, ReplayAt
    <3>3. QED BY <3>1, <3>2
  <2>4. QED BY <1>1, <2>1, <2>2, <2>3
<1>9. ASSUME p.start = n + 1, NEW q \in p.start..p.end PROVE Replay(log, new)[q] = p.by
  <2>1. q > Len(log) /\ q \in 1..m /\ Covers(p, q) /\ p \in new
    BY <1>1, <1>9 DEF Covers
  <2>2. q \in 1..Top(log, new) BY <1>5, <2>1
  <2> HIDE DEF new, m
  <2>3. \A p1 \in new : Covers(p1, q) => Replay(log, new)[q] = p1.by
    BY <1>2, <1>7, <2>1, <2>2, ReplayAt
  <2>4. QED BY <2>1, <2>3
<1>10. QED BY <1>3, <1>5, <1>7, <1>8, <1>9 DEF n

\* Packets below the checkpoint count for nothing.
LEMMA SubContent ==
  ASSUME NEW log \in Logs, Len(log) <= MaxSeq,
         NEW rows \in SUBSET Packets, \A p \in rows : p.end <= MaxSeq,
         Contiguous(log, rows),
         NEW new \in SUBSET rows, \A p \in rows \ new : p.end <= Len(log)
  PROVE  /\ Contiguous(log, new)
         /\ Top(log, new) = Top(log, rows)
         /\ Replay(log, new) = Replay(log, rows)
<1>1. /\ Top(log, rows) \in Nat /\ Len(log) \in Nat /\ Len(log) <= Top(log, rows)
      /\ \A p \in rows : p.end <= Top(log, rows) /\ p.start \in Nat /\ p.end \in Nat
      /\ Top(log, rows) = Len(log) \/ \E p \in rows : Top(log, rows) = p.end
  BY TopIs DEF Packets
<1>2. new \in SUBSET Packets /\ \A p \in new : p.end <= MaxSeq OBVIOUS
<1>3. Top(log, rows) = Len(log) \/ \E p \in new : Top(log, rows) = p.end
  BY <1>1
<1>4. Top(log, new) = Top(log, rows)
  BY <1>1, <1>2, <1>3, TopUnique
<1>5. ASSUME NEW q \in Len(log) + 1 .. Top(log, rows)
      PROVE  \E p \in new : /\ Covers(p, q) /\ \A p2 \in rows : Covers(p2, q) => p2 = p
  <2>1. PICK p \in rows : Covers(p, q) /\ \A p2 \in rows : Covers(p2, q) => p2 = p
    BY DEF Contiguous
  <2>2. p \in new BY <1>1, <2>1 DEF Covers
  <2>3. QED BY <2>1, <2>2
<1>6. Contiguous(log, new) BY <1>4, <1>5 DEF Contiguous
<1>7. ASSUME NEW q \in 1..Top(log, rows) PROVE Replay(log, new)[q] = Replay(log, rows)[q]
  <2>1. CASE q <= Len(log) BY <1>2, <1>4, <1>6, <2>1, ReplayAt
  <2>2. CASE q > Len(log)
    <3>1. PICK p \in new : Covers(p, q)
      BY <1>1, <1>5, <2>2
    <3>2. Replay(log, new)[q] = p.by BY <1>2, <1>4, <1>6, <2>2, <3>1, ReplayAt
    <3>3. Replay(log, rows)[q] = p.by
      <4>1. p \in rows OBVIOUS
      <4>2. QED BY <2>2, <3>1, <4>1, ReplayAt
    <3>4. QED BY <3>2, <3>3
  <2>3. QED BY <1>1, <2>1, <2>2
<1>8. Replay(log, new) = Replay(log, rows)
  <2>1. /\ Replay(log, rows) = [q \in 1..Top(log, rows) |-> Replay(log, rows)[q]]
        /\ Replay(log, new) = [q \in 1..Top(log, new) |-> Replay(log, new)[q]]
    BY DEF Replay
  <2>2. QED BY <1>4, <1>7, <2>1
<1>9. QED BY <1>4, <1>6, <1>8

\* A checkpoint of the content, at a number that is stored.
LEMMA SaveContent ==
  ASSUME NEW log \in Logs, Len(log) <= MaxSeq,
         NEW rows \in SUBSET Packets, \A p \in rows : p.end <= MaxSeq,
         Contiguous(log, rows),
         NEW new \in Logs, Len(new) <= MaxSeq,
         Len(log) <= Len(new), Len(new) <= Top(log, rows),
         \A q \in 1..Len(new) : new[q] = Replay(log, rows)[q]
  PROVE  /\ Contiguous(new, rows)
         /\ Top(new, rows) = Top(log, rows)
         /\ \A q \in 1..Top(log, rows) : Replay(new, rows)[q] = Replay(log, rows)[q]
<1> DEFINE n == Top(log, rows)
<1>1. /\ n \in Nat /\ Len(log) \in Nat /\ Len(new) \in Nat
      /\ \A p \in rows : p.end <= n /\ p.start \in Nat /\ p.end \in Nat
      /\ n = Len(log) \/ \E p \in rows : n = p.end
  BY TopIs, LenProperties DEF Packets, Logs
<1>2. Top(new, rows) = n
  <2> HIDE DEF n
  <2>1. n = Len(new) \/ \E p \in rows : n = p.end BY <1>1 DEF n
  <2>2. Len(new) <= n BY DEF n
  <2>3. QED BY <1>1, <2>1, <2>2, TopUnique
<1>3. ASSUME NEW q \in Len(new) + 1 .. n
      PROVE  \E p \in rows : /\ Covers(p, q) /\ \A p2 \in rows : Covers(p2, q) => p2 = p
  <2>1. q \in Len(log) + 1 .. Top(log, rows) BY <1>1
  <2>2. QED BY <2>1 DEF Contiguous
<1>4. Contiguous(new, rows) BY <1>2, <1>3 DEF Contiguous
<1>5. ASSUME NEW q \in 1..n PROVE Replay(new, rows)[q] = Replay(log, rows)[q]
  <2>0. q \in 1..Top(new, rows) BY <1>2
  <2>1. CASE q <= Len(new)
    <3>1. Replay(new, rows)[q] = new[q] BY <1>4, <2>0, <2>1, ReplayAt
    <3>2. q \in 1..Len(new) BY <1>1, <2>1
    <3>3. QED BY <3>1, <3>2
  <2>2. CASE q > Len(new)
    <3>1. PICK p \in rows : Covers(p, q)
      BY <1>1, <1>3, <2>2
    <3>2. Replay(new, rows)[q] = p.by BY <1>4, <2>0, <2>2, <3>1, ReplayAt
    <3>3. Replay(log, rows)[q] = p.by
      <4>1. q > Len(log) BY <1>1, <2>2
      <4>2. QED BY <3>1, <4>1, ReplayAt
    <3>4. QED BY <3>2, <3>3
  <2>3. QED BY <1>1, <2>1, <2>2
<1>6. QED BY <1>2, <1>4, <1>5

\* A checkpoint alone is the content.
LEMMA AloneContent ==
  ASSUME NEW log \in Logs, Len(log) <= MaxSeq
  PROVE  Contiguous(log, {}) /\ Top(log, {}) = Len(log)
<1>1. Top(log, {}) = Len(log) /\ Len(log) \in Nat
  BY TopIs
<1>2. QED BY <1>1 DEF Contiguous
-----------------------------------------------------------------------------
(* The storage                                                             *)

\* What can be read makes a content.
Sound ==
  /\ row.meta => row.file \in files /\ Contiguous(row.log, journal)
  /\ ~row.meta => row.log = <<>> /\ journal = {}

Content ==
  /\ Recoverable \in Logs /\ Len(Recoverable) = End
  /\ End \in 0..MaxSeq /\ Len(row.log) \in Nat /\ Len(row.log) <= End
  /\ \A p \in journal : p.end <= End
  /\ row.meta => Recoverable = Replay(row.log, journal)
  /\ ~row.meta => Recoverable = <<>> /\ End = 0

LEMMA ContentIs == StorageOK /\ Sound => Content
<1> SUFFICES ASSUME StorageOK, Sound PROVE Content OBVIOUS
<1>1. /\ row.log \in Logs /\ Len(row.log) <= MaxSeq /\ MaxSeq \in Nat
      /\ journal \in SUBSET Packets /\ \A p \in journal : p.end <= MaxSeq
  BY NRoomsAssumption DEF StorageOK, Rows
<1>2. /\ End \in 0..MaxSeq /\ Len(row.log) \in Nat /\ Len(row.log) <= End
      /\ \A p \in journal : p.end <= End
      /\ End = Len(row.log) \/ \E p \in journal : End = p.end
  BY <1>1, TopIs, TopBounds DEF End
<1>3. CASE row.meta
  <2>1. Recoverable = Replay(row.log, journal) BY <1>3 DEF Sound, Recoverable, Readable
  <2>2. Recoverable \in Logs /\ Len(Recoverable) = End
    BY <1>1, <1>3, <2>1, ReplayIsLog DEF Sound, End
  <2>3. QED BY <1>2, <1>3, <2>1, <2>2 DEF Content
<1>4. CASE ~row.meta
  <2>1. Recoverable = <<>> /\ row.log = <<>> /\ journal = {}
    BY <1>4 DEF Sound, Recoverable, Readable
  <2>2. Len(<<>>) = 0 /\ <<>> \in Logs BY EmptySeq DEF Logs
  <2>3. QED BY <1>2, <1>4, <2>1, <2>2 DEF Content
<1>5. QED BY <1>3, <1>4

LEMMA ContentIsNext == StorageOK' /\ Sound' => Content'
BY ContentIs, PTL

\* A step that adds to the content, or leaves it: where it grows, a packet begins
\* right after what was there, and no packet goes that is beyond the checkpoint.
Grows ==
  /\ Sound'
  /\ Len(Recoverable) <= Len(Recoverable')
  /\ \A q \in 1..Len(Recoverable) : Recoverable'[q] = Recoverable[q]
  /\ row.meta /\ End' # End => \E p \in journal' : p.start = End + 1
  /\ Len(row.log) <= Len(row'.log)
  /\ \A p \in journal : p \in journal' \/ p.end <= Len(row'.log)
  /\ row.meta => row'.meta

LEMMA StaysStill ==
  ASSUME IInv, Sound, UNCHANGED <<row, journal>>, row.meta => row.file \in files'
  PROVE  Grows /\ Recoverable' = Recoverable
<1>1. Sound /\ Content BY ContentIs DEF IInv
<1>2. Sound' BY <1>1 DEF Sound, Contiguous, Top, Covers
<1>3. Recoverable' = Recoverable
  BY <1>1 DEF Sound, Recoverable, Readable, Replay, Top, Covers
<1>4. End' = End BY DEF End, Top
<1>5. QED BY <1>1, <1>2, <1>3, <1>4 DEF Grows, Content, IInv, StorageOK

LEMMA PacketLands ==
  ASSUME IInv, IInv', Sound, row.meta,
         NEW p \in Packets, p.start <= p.end, p.end <= MaxSeq, Harmless(p), ~IdTaken(p),
         journal' = journal \cup {p}, UNCHANGED <<row, files>>
  PROVE  /\ Grows
         /\ p.start = End + 1 =>
              End' = p.end /\ \A q \in p.start..p.end : Recoverable'[q] = p.by
<1>1. Sound /\ Content BY ContentIs DEF IInv
<1>2. p.end <= Len(row.log) \/ p.start = End + 1 BY DEF Harmless, Taken, IdTaken
<1>0. p \in Packets /\ p.start <= p.end /\ p.end <= MaxSeq OBVIOUS
<1>3. /\ row.log \in Logs /\ Len(row.log) <= MaxSeq
      /\ journal \in SUBSET Packets /\ \A p2 \in journal : p2.end <= MaxSeq
  BY DEF IInv, StorageOK, Rows
<1> DEFINE new == journal \cup {p}
<1>4. /\ Contiguous(row.log, new)
      /\ Top(row.log, new) = IF p.end <= Len(row.log) THEN End ELSE p.end
      /\ End <= Top(row.log, new)
      /\ \A q \in 1..End : Replay(row.log, new)[q] = Replay(row.log, journal)[q]
      /\ p.start = End + 1 => \A q \in p.start..p.end : Replay(row.log, new)[q] = p.by
  <2>1. Contiguous(row.log, journal) BY <1>1 DEF Sound
  <2>2. p.end <= Len(row.log) \/ p.start = Top(row.log, journal) + 1 BY <1>2 DEF End
  <2>3. /\ Contiguous(row.log, new)
        /\ Top(row.log, new) = IF p.end <= Len(row.log) THEN Top(row.log, journal) ELSE p.end
        /\ Top(row.log, journal) <= Top(row.log, new)
        /\ \A q \in 1..Top(row.log, journal) :
              Replay(row.log, new)[q] = Replay(row.log, journal)[q]
        /\ p.start = Top(row.log, journal) + 1 =>
              \A q \in p.start..p.end : Replay(row.log, new)[q] = p.by
    BY ONLY <1>0, <1>3, <2>1, <2>2, LandContent
  <2>4. QED BY <2>3 DEF End
<1>5. journal' = new /\ row' = row /\ files' = files OBVIOUS
<1> HIDE DEF new
<1>6. Sound'
  BY <1>1, <1>4, <1>5 DEF Sound, Contiguous, Top, Covers
<1>7. Content' BY <1>6, ContentIsNext DEF IInv
<1>8. Recoverable' = Replay(row.log, new)
  BY <1>5, <1>7 DEF Content
<1>9. End' = Top(row.log, new) BY <1>5 DEF End, Top
<1>10. Len(Recoverable') = End' /\ Len(Recoverable) = End /\ Recoverable = Replay(row.log, journal)
  BY <1>1, <1>7 DEF Content
<1>11. End' # End => p.start = End + 1 /\ p \in journal'
  BY <1>1, <1>2, <1>4, <1>9 DEF Content
<1>12. \A q \in 1..Len(Recoverable) : Recoverable'[q] = Recoverable[q]
  BY <1>4, <1>8, <1>10
<1>13. p.start = End + 1 =>
          End' = p.end /\ \A q \in p.start..p.end : Recoverable'[q] = p.by
  <2>1. ASSUME p.start = End + 1 PROVE p.end = End'
    BY <1>1, <1>4, <1>9, <2>1 DEF Content, Packets
  <2>2. p.end \in Nat BY DEF Packets
  <2>3. QED BY <1>4, <1>8, <1>10, <2>1, <2>2
<1>14. QED
  BY <1>1, <1>3, <1>4, <1>6, <1>9, <1>10, <1>11, <1>12, <1>13 DEF Grows, Content

\* A checkpoint of what is stored; the first one is all there is.
LEMMA CheckpointSaves ==
  ASSUME IInv, IInv', Sound, journal' = journal, row'.meta, row'.file \in files',
         row.meta => /\ Len(row.log) <= Len(row'.log) /\ Len(row'.log) <= End
                     /\ \A q \in 1..Len(row'.log) : row'.log[q] = Recoverable[q]
  PROVE  /\ Grows
         /\ row.meta => Len(Recoverable') = Len(Recoverable)
         /\ ~row.meta => /\ Len(Recoverable') = Len(row'.log)
                         /\ \A q \in 1..Len(row'.log) : Recoverable'[q] = row'.log[q]
<1>1. Sound /\ Content BY ContentIs DEF IInv
<1>2. /\ row.log \in Logs /\ Len(row.log) <= MaxSeq
      /\ row'.log \in Logs /\ Len(row'.log) <= MaxSeq /\ Len(row'.log) \in Nat
      /\ journal \in SUBSET Packets /\ \A p2 \in journal : p2.end <= MaxSeq
  BY DEF IInv, StorageOK, Rows, Logs
<1>3. CASE row.meta
  <2>1. /\ Contiguous(row.log, journal) /\ Recoverable = Replay(row.log, journal)
        /\ End = Top(row.log, journal)
        /\ Len(row'.log) <= Top(row.log, journal)
    BY <1>1, <1>3 DEF Sound, Content, End
  <2>2. \A q \in 1..Len(row'.log) : row'.log[q] = Replay(row.log, journal)[q]
    BY <1>3, <2>1
  <2>3. /\ Contiguous(row'.log, journal)
        /\ Top(row'.log, journal) = Top(row.log, journal)
        /\ \A q \in 1..Top(row.log, journal) :
             Replay(row'.log, journal)[q] = Replay(row.log, journal)[q]
    BY <1>2, <1>3, <2>1, <2>2, SaveContent
  <2>4. Sound' BY <2>3 DEF Sound
  <2>5. Content' BY <2>4, ContentIsNext DEF IInv
  <2>6. Recoverable' = Replay(row'.log, journal) BY <2>5 DEF Content
  <2>7. End' = End BY <2>1, <2>3 DEF End
  <2>8. QED BY <1>1, <1>3, <2>1, <2>3, <2>4, <2>5, <2>6, <2>7 DEF Grows, Content
<1>4. CASE ~row.meta
  <2>1. journal = {} /\ journal' = {} /\ Len(row.log) = 0 /\ Recoverable = <<>>
    BY <1>1, <1>4, EmptySeq DEF Sound, Content
  <2>2. Contiguous(row'.log, {}) /\ Top(row'.log, {}) = Len(row'.log)
    BY <1>2, AloneContent
  <2>3. Sound' BY <2>1, <2>2 DEF Sound
  <2>4. Content' BY <2>3, ContentIsNext DEF IInv
  <2>5. End' = Len(row'.log) BY <2>1, <2>2 DEF End
  <2>6. Recoverable' = Replay(row'.log, {}) BY <2>1, <2>4 DEF Content
  <2>7. \A q \in 1..Len(row'.log) : Recoverable'[q] = row'.log[q]
    BY <1>2, <2>2, <2>6 DEF Replay
  <2>8. QED BY <1>4, <2>1, <2>3, <2>4, <2>5, <2>7, EmptySeq, <1>2 DEF Grows, Content
<1>5. QED BY <1>3, <1>4

\* Packets below the checkpoint are deleted.
LEMMA PacketsGo ==
  ASSUME IInv, IInv', Sound, row.meta, UNCHANGED row, row.file \in files',
         journal' \subseteq journal, \A p \in journal \ journal' : p.end <= Len(row.log)
  PROVE  Grows /\ Recoverable' = Recoverable
<1>1. Sound /\ Content BY ContentIs DEF IInv
<1>2. /\ row.log \in Logs /\ Len(row.log) <= MaxSeq
      /\ journal \in SUBSET Packets /\ \A p2 \in journal : p2.end <= MaxSeq
      /\ journal' \in SUBSET journal
  BY DEF IInv, StorageOK, Rows
<1>3. /\ Contiguous(row.log, journal) /\ Recoverable = Replay(row.log, journal)
      /\ End = Top(row.log, journal)
  BY <1>1 DEF Sound, Content, End
<1>4. /\ Contiguous(row.log, journal')
      /\ Top(row.log, journal') = Top(row.log, journal)
      /\ Replay(row.log, journal') = Replay(row.log, journal)
  BY <1>2, <1>3, SubContent
<1>5. Sound' BY <1>4 DEF Sound
<1>6. Content' BY <1>5, ContentIsNext DEF IInv
<1>7. Recoverable' = Recoverable BY <1>3, <1>4, <1>6 DEF Content
<1>8. End' = End BY <1>3, <1>4 DEF End
<1>9. QED BY <1>1, <1>5, <1>7, <1>8 DEF Grows, Content

\* What a reader takes from the journal makes the same content.
LEMMA ReadsAll ==
  ASSUME IInv, Sound, row.meta,
         NEW rows, rows = {p \in journal : p.end > Len(row.log)}
  PROVE  /\ Contiguous(row.log, rows) /\ Top(row.log, rows) = End
         /\ Replay(row.log, rows) = Recoverable
<1>1. Sound /\ Content BY ContentIs DEF IInv
<1>2. /\ row.log \in Logs /\ Len(row.log) <= MaxSeq /\ Len(row.log) \in Nat
      /\ journal \in SUBSET Packets /\ \A p2 \in journal : p2.end <= MaxSeq
      /\ rows \in SUBSET journal
  BY DEF IInv, StorageOK, Rows, Logs
<1>3. /\ Contiguous(row.log, journal) /\ Recoverable = Replay(row.log, journal)
      /\ End = Top(row.log, journal)
  BY <1>1 DEF Sound, Content, End
<1>4. \A p \in journal \ rows : p.end <= Len(row.log) BY <1>2 DEF Packets
<1>5. /\ Contiguous(row.log, rows)
      /\ Top(row.log, rows) = Top(row.log, journal)
      /\ Replay(row.log, rows) = Replay(row.log, journal)
  BY <1>2, <1>3, <1>4, SubContent
<1>6. QED BY <1>3, <1>5

\* A batch already stored stays where it is.
LEMMA AgreesKept ==
  ASSUME Content, Grows, NEW s \in Rooms, NEW n \in Nat, Agrees(s, n),
         \A q \in 1..n : LogOf(s)'[q] = LogOf(s)[q], Content'
  PROVE  Agrees(s, n)'
<1>1. /\ Len(Recoverable) \in Nat /\ Len(Recoverable') \in Nat
      /\ Len(Recoverable) <= Len(Recoverable')
      /\ \A q \in 1..Len(Recoverable) : Recoverable'[q] = Recoverable[q]
      /\ n <= Len(Recoverable) /\ \A q \in 1..n : Recoverable[q] = LogOf(s)[q]
  BY DEF Content, Grows, Agrees
<1>2. n <= Len(Recoverable') /\ \A q \in 1..n : Recoverable'[q] = LogOf(s)'[q]
  BY <1>1
<1>3. QED BY <1>2 DEF Agrees

\* What follows the content at n goes on to, while a packet that begins there stays.
LEMMA FollowsOn ==
  ASSUME IInv, IInv', Sound, Grows, row.meta, NEW n \in Nat, Follows(n),
         Taken(n + 1) => Taken(n + 1)'
  PROVE  Follows(n)'
<1>1. Content /\ Content' /\ n <= End BY ContentIs, ContentIsNext DEF IInv, Grows, Follows
<1>2. End \in Nat /\ End' \in Nat /\ End <= End'
  BY <1>1 DEF Content, Grows
<1>3. CASE End = n
  <2>1. End' = End \/ \E p \in journal' : p.start = n + 1 BY <1>3 DEF Grows
  <2>2. QED BY <1>2, <1>3, <2>1 DEF Follows, Taken
<1>4. CASE Taken(n + 1)
  <2>1. QED BY <1>1, <1>2, <1>4 DEF Follows, Taken
<1>5. QED BY <1>3, <1>4 DEF Follows

LEMMA HarmlessOn ==
  ASSUME IInv, IInv', Sound, Grows, row.meta, NEW p \in Packets, Harmless(p),
         Taken(p.start) => Taken(p.start)' \/ p.end <= Len(row'.log)
  PROVE  Harmless(p)'
<1>1. Content /\ Content' BY ContentIs, ContentIsNext DEF IInv, Grows
<1>2. /\ Len(row.log) \in Nat /\ Len(row'.log) \in Nat /\ Len(row.log) <= Len(row'.log)
      /\ p.end \in Nat
  BY <1>1 DEF Content, Grows, Packets
<1>3. CASE p.end <= Len(row.log) BY <1>2, <1>3 DEF Harmless
<1>4. CASE p.start = End + 1 BY <1>4 DEF Harmless, Grows, Taken
<1>5. CASE Taken(p.start) BY <1>5 DEF Harmless, Taken
<1>6. QED BY <1>3, <1>4, <1>5 DEF Harmless
-----------------------------------------------------------------------------
(* The storage of successive lives                                          *)

LEMMA DInvSound == ASSUME IInv, DInv PROVE Sound /\ Content
<1>1. Sound BY DEF DInv, Blank, Snapshots, Stored, Sound
<1>2. QED BY <1>1, ContentIs DEF IInv

LEMMA Still ==
  ASSUME IInv, DInv, UNCHANGED <<row, journal>>, row.meta => row.file \in files'
  PROVE  Grows /\ Recoverable' = Recoverable
BY DInvSound, StaysStill

LEMMA Lands ==
  ASSUME IInv, IInv', DInv, row.meta,
         NEW p \in Packets, p.start <= p.end, p.end <= MaxSeq, Harmless(p), ~IdTaken(p),
         journal' = journal \cup {p}, UNCHANGED <<row, files>>
  PROVE  /\ Grows
         /\ p.start = End + 1 =>
              End' = p.end /\ \A q \in p.start..p.end : Recoverable'[q] = p.by
<1>1. Sound BY DInvSound
<1>2. QED BY <1>1, PacketLands

LEMMA Saves ==
  ASSUME IInv, IInv', DInv, journal' = journal, row'.meta, row'.file \in files',
         row.meta => /\ Len(row.log) <= Len(row'.log) /\ Len(row'.log) <= End
                     /\ \A q \in 1..Len(row'.log) : row'.log[q] = Recoverable[q]
  PROVE  /\ Grows
         /\ row.meta => Len(Recoverable') = Len(Recoverable)
         /\ ~row.meta => /\ Len(Recoverable') = Len(row'.log)
                         /\ \A q \in 1..Len(row'.log) : Recoverable'[q] = row'.log[q]
<1>1. Sound BY DInvSound
<1>2. QED BY <1>1, CheckpointSaves

LEMMA Prunes ==
  ASSUME IInv, IInv', DInv, row.meta, UNCHANGED row, row.file \in files',
         journal' \subseteq journal, \A p \in journal \ journal' : p.end <= Len(row.log)
  PROVE  Grows /\ Recoverable' = Recoverable
<1>1. Sound BY DInvSound
<1>2. QED BY <1>1, PacketsGo

LEMMA Reads ==
  ASSUME IInv, DInv, row.meta,
         NEW rows, rows = {p \in journal : p.end > Len(row.log)}
  PROVE  /\ Contiguous(row.log, rows) /\ Top(row.log, rows) = End
         /\ Replay(row.log, rows) = Recoverable
<1>1. Sound BY DInvSound
<1>2. QED BY <1>1, ReadsAll

LEMMA TakenKept ==
  ASSUME IInv, DInv, Grows, Content', NEW n \in Nat, Taken(n), Len(row'.log) < n
  PROVE  Taken(n)'
<1>1. PICK p \in journal : p.start = n BY DEF Taken
<1>2. p.start <= p.end /\ p.start \in Nat /\ p.end \in Nat /\ Len(row'.log) \in Nat
  BY DEF DInv, Successive, IInv, StorageOK, Packets, Content
<1>3. p \in journal' BY <1>1, <1>2 DEF Grows
<1>4. QED BY <1>1, <1>3 DEF Taken

LEMMA FollowsKept ==
  ASSUME IInv, IInv', DInv, Grows, row.meta, NEW n \in Nat, Follows(n), Len(row'.log) <= n
  PROVE  Follows(n)'
<1>1. Sound BY DInvSound
<1>2. Content' BY ContentIsNext DEF IInv, Grows
<1>3. Taken(n + 1) => Taken(n + 1)'
  <2>1. n + 1 \in Nat /\ Len(row'.log) < n + 1 BY <1>2 DEF Content
  <2>2. QED BY <1>2, <2>1, TakenKept
<1>4. QED BY <1>1, <1>3, FollowsOn

LEMMA HarmlessKept ==
  ASSUME IInv, IInv', DInv, Grows, row.meta, NEW p \in Packets, Harmless(p),
         journal \subseteq journal' \/ p.end <= Len(row'.log)
  PROVE  Harmless(p)'
<1>1. Sound BY DInvSound
<1>2. Taken(p.start) => Taken(p.start)' \/ p.end <= Len(row'.log) BY DEF Taken
<1>3. QED BY <1>1, <1>2, HarmlessOn
-----------------------------------------------------------------------------
(* One room at a time                                                      *)

Others(r) ==
  \A s \in Rooms : (s < r => Over(room[s])) /\ (r < s => room[s].status = "new")

\* While a room is loaded, serves or ends, the former lives are over and the
\* next ones have not begun.
LEMMA OnlyOne ==
  ASSUME DInv, NEW r \in Rooms, room[r].status # "new", ~Over(room[r])
  PROVE  Others(r)
BY DEF Others, DInv, Successive

\* Nothing stored or announced is taken back, and a step does not both store and
\* announce.
Adds ==
  /\ Grows
  /\ \A s \in Rooms : room[s].durable <= room'[s].durable
  /\ Recoverable' = Recoverable \/ \A s \in Rooms : room'[s].durable = room[s].durable

\* What a step of one room has to show.
LEMMA Keeps ==
  ASSUME IInv, IInv', DInv, Grows, NEW r \in Rooms, NEW h \in HostedRooms,
         room' = [room EXCEPT ![r] = h], Others(r), h.status # "new",
         \A p \in journal' \cup late' :
           p \in journal \cup late \/ (p.by = r /\ p.start <= p.end),
         \A p \in late' : Harmless(p)',
         NEW k \in Nat, h.durable = k, k <= h.seq, Agrees(r, k)',
         room[r].durable <= k, Recoverable' = Recoverable \/ k = room[r].durable,
         ~row'.meta => /\ late' = {} /\ h.durable = 0
                       /\ ~Serving(h) /\ h.status # "reading"
                       /\ h.phase \in {"idle", "upload", "update"},
         h.phase \notin {"update", "pruneFiles"} => h.file = NoFile,
         h.phase = "update" => h.file \in files' \ {row'.file},
         h.phase = "pruneFiles" => h.file = row'.file,
         Live(r)'
  PROVE  DInv' /\ Adds
<1>1. /\ room'[r] = h /\ \A s \in Rooms \ {r} : room'[s] = room[s]
      /\ \A s \in Rooms : room[s] \in HostedRooms
      /\ Rooms \subseteq Nat
  BY NRoomsAssumption DEF IInv, Rooms
<1>2. Sound /\ Content /\ Content' BY DInvSound, ContentIsNext DEF IInv, Grows
<1>3. \A s \in Rooms \ {r} : Over(room[s]) \/ room[s].status = "new"
  BY <1>1 DEF Others
<1>4. \A s \in Rooms : room[s].status = "new" => room[s] = NewRoom BY DEF DInv, Live
<1>5. \A s \in Rooms \ {r} :
        /\ room[s].phase = "idle" /\ room[s].file = NoFile
        /\ ~Serving(room[s]) /\ room[s].status \in {"closed", "new"}
  BY <1>3, <1>4, NewRoomOK DEF Over, NewRoom, Serving, DInv, Snapshots
<1>6. Successive'
  <2>1. \A a, b \in Rooms : a < b /\ room'[b].status # "new" => Over(room'[a])
    <3> TAKE a, b \in Rooms
    <3>1. CASE a = r BY <1>1, <3>1 DEF Others
    <3>2. CASE a # r /\ b = r BY <1>1, <3>2 DEF Others
    <3>3. CASE a # r /\ b # r BY <1>1, <3>3 DEF DInv, Successive
    <3>4. QED BY <3>1, <3>2, <3>3
  <2>2. \A p \in journal' \cup late' : room'[p.by].status # "new" /\ p.start <= p.end
    <3> TAKE p \in journal' \cup late'
    <3>1. CASE p.by = r /\ p.start <= p.end BY <1>1, <3>1
    <3>2. CASE p \in journal \cup late
      <4>1. room[p.by].status # "new" /\ p.start <= p.end /\ p.by \in Rooms
        BY <3>2 DEF DInv, Successive, IInv, StorageOK, Packets
      <4>2. QED BY <1>1, <4>1
    <3>3. QED BY <3>1, <3>2
  <2>3. QED BY <2>1, <2>2 DEF Successive, Over, Rooms
<1>7. Blank'
  <2> SUFFICES ASSUME ~row'.meta PROVE
        /\ row'.log = <<>> /\ journal' = {} /\ late' = {}
        /\ \A s \in Rooms :
             /\ room'[s].durable = 0 /\ ~Serving(room'[s]) /\ room'[s].status # "reading"
             /\ room'[s].phase \in {"idle", "upload", "update"}
    BY DEF Blank, Serving, Rooms
  <2>1. row'.log = <<>> /\ journal' = {} /\ late' = {} BY DEF Grows, Sound
  <2>2. ~row.meta BY DEF Grows
  <2>3. \A s \in Rooms : room[s].durable = 0 BY <2>2 DEF DInv, Blank
  <2>4. QED BY <1>1, <1>5, <2>1, <2>3
<1>8. Snapshots'
  <2>1. row'.meta => row'.file \in files' BY DEF Grows, Sound
  <2>2. \A s \in Rooms :
          /\ room'[s].phase \notin {"update", "pruneFiles"} => room'[s].file = NoFile
          /\ room'[s].phase = "update" => room'[s].file \in files' \ {row'.file}
          /\ room'[s].phase = "pruneFiles" => room'[s].file = row'.file
    <3> TAKE s \in Rooms
    <3>1. CASE s = r BY <1>1, <3>1
    <3>2. CASE s # r BY <1>1, <1>5, <3>2
    <3>3. QED BY <3>1, <3>2
  <2>3. QED BY <2>1, <2>2 DEF Snapshots, Rooms
<1>9. Stored'
  <2>1. row'.meta => Contiguous(row'.log, journal') BY DEF Grows, Sound
  <2>2. ASSUME NEW s \in Rooms PROVE room'[s].durable <= room'[s].seq /\ Agrees(s, room[s].durable)'
    <3>1. CASE s = r BY <1>1, <3>1 DEF Agrees
    <3>2. CASE s # r
      <4>1. PICK n \in Nat : n = room[s].durable BY <1>1 DEF HostedRooms
      <4>2. n <= room[s].seq /\ Agrees(s, n) BY <4>1 DEF DInv, Stored, Agrees
      <4>3. \A q \in 1..n : LogOf(s)'[q] = LogOf(s)[q]
        BY <1>1, <3>2 DEF LogOf
      <4>4. Agrees(s, n)' BY <1>2, <4>2, <4>3, AgreesKept
      <4>5. QED BY <1>1, <3>2, <4>1, <4>2, <4>4 DEF Agrees
    <3>3. QED BY <3>1, <3>2
  <2>3. QED BY <2>1, <2>2 DEF Stored, Rooms
<1>10. ASSUME NEW s \in Rooms PROVE Live(s)'
  <2>1. CASE s # r
    <3>1. room'[s] = room[s] BY <1>1, <2>1
    <3>2. /\ room'[s].status \in {"closed", "new"} /\ ~Serving(room'[s])
          /\ room'[s].status = "new" => room'[s] = NewRoom
      BY <1>4, <1>5, <2>1, <3>1
    <3>3. QED BY <3>2 DEF Live, Serving, NewRoom
  <2>2. QED BY <2>1
<1>11. DInv' BY <1>6, <1>7, <1>8, <1>9, <1>10 DEF DInv, Rooms
<1>12. \A s \in Rooms : room[s].durable \in Nat BY <1>1 DEF HostedRooms
<1>13. Adds BY <1>1, <1>12 DEF Adds
<1>14. QED BY <1>11, <1>13

\* A room whose life is over keeps what it announced, which is stored.
LEMMA Ends ==
  ASSUME IInv, IInv', DInv, Grows, NEW r \in Rooms, NEW g \in HostedRooms,
         room' = [room EXCEPT ![r] = Settled(g)], g.status = "closed", g.phase = "idle",
         room[r].status # "new", ~Over(room[r]),
         g.base = room[r].base, g.durable <= room[r].seq, Agrees(r, g.durable),
         room[r].durable <= g.durable,
         Recoverable' = Recoverable \/ g.durable = room[r].durable,
         \A p \in journal' \cup late' :
           p \in journal \cup late \/ (p.by = r /\ p.start <= p.end),
         \A p \in late' : Harmless(p)',
         ~row'.meta => late' = {} /\ g.durable = 0
  PROVE  DInv' /\ Adds
<1> DEFINE h == Settled(g)
<1>1. /\ h \in HostedRooms
      /\ h.status = "closed" /\ h.phase = "idle" /\ h.file = NoFile
      /\ h.base = g.base /\ h.seq = g.durable /\ h.durable = g.durable
  BY NewRoomOK DEF Settled, NewRoom, HostedRooms, Statuses
<1> HIDE DEF h
<1>2. PICK n \in Nat : n = g.durable BY DEF HostedRooms
<1>3. room'[r] = h /\ room[r].seq \in Nat BY DEF IInv, h, HostedRooms
<1>4. Content /\ Content' BY DInvSound, ContentIsNext DEF IInv, Grows
<1>5. Agrees(r, n)'
  <2>1. Agrees(r, n) /\ n <= room[r].seq BY <1>2 DEF Agrees
  <2>2. \A q \in 1..n : LogOf(r)'[q] = LogOf(r)[q]
    BY <1>1, <1>2, <1>3, <2>1 DEF LogOf
  <2>3. QED BY <1>4, <2>1, <2>2, AgreesKept
<1>6. Live(r)' BY <1>1, <1>3 DEF Live, Serving
<1>7. Others(r) BY OnlyOne
<1>8. /\ h.durable = n /\ n <= h.seq /\ room[r].durable <= n
      /\ Recoverable' = Recoverable \/ n = room[r].durable
  BY <1>1, <1>2
<1>9. room' = [room EXCEPT ![r] = h] BY DEF h
<1>10. ~Serving(h) /\ h.status # "new" BY <1>1 DEF Serving
<1>11. QED
  BY <1>1, <1>5, <1>6, <1>7, <1>8, <1>9, <1>10, Keeps

\* A packet that was being written when its sender stopped waiting for it.
LEMMA Abandoned ==
  ASSUME IInv, DInv, NEW r \in Rooms, Serving(room[r]), room[r].phase = "append",
         NEW p, p = PacketOf(r)
  PROVE  /\ p \in Packets /\ p.by = r /\ p.start = room[r].journaled + 1
         /\ p.start <= p.end /\ p.end <= MaxSeq
         /\ p.end = room[r].upto /\ p.end <= room[r].seq /\ Harmless(p)
<1>1. /\ room[r] \in HostedRooms /\ RoomOK(room[r]) BY DEF IInv
<1>2. /\ room[r].journaled < room[r].upto /\ room[r].upto <= room[r].seq
      /\ room[r].journaled \in Nat /\ room[r].upto \in Nat /\ room[r].upto <= MaxSeq
  BY <1>1 DEF RoomOK, Writing, HostedRooms
<1>3. Follows(room[r].journaled) BY DEF DInv, Live, Serves, Written
<1>4. Harmless(p) BY <1>3 DEF Follows, Harmless, PacketOf
<1>5. QED BY <1>2, <1>4 DEF PacketOf, Packets

\* Only a room that serves or whose call goes on is in the middle of one, but
\* for the first checkpoint.
LEMMA Busy ==
  ASSUME IInv, DInv, NEW r \in Rooms, room[r].phase # "idle", room[r].status # "initial"
  PROVE  /\ Serving(room[r]) /\ Serves(r) /\ row.meta
         /\ room[r].status # "new" /\ ~Over(room[r])
<1>1. room[r].status \in Statuses BY DEF IInv, HostedRooms
<1>2. Live(r) BY DEF DInv
<1>3. room[r].status # "new" BY <1>2, NewRoomOK DEF Live, NewRoom
<1>4. room[r].status \notin {"reading", "document", "discarding"} BY <1>2 DEF Live, Reading
<1>5. Serving(room[r]) BY <1>1, <1>3, <1>4 DEF Statuses, Serving
<1>6. QED BY <1>2, <1>3, <1>5 DEF Live, Serves, Over

\* While row and journal stay, so does what is on its way.
LEMMA LateStill ==
  ASSUME IInv, DInv, UNCHANGED <<row, journal>>, NEW r \in Rooms,
         \A p \in late' : p \in late \/ (/\ p = PacketOf(r) /\ room[r].phase = "append"
                                         /\ Serving(room[r]))
  PROVE  /\ \A p \in late' : Harmless(p)'
         /\ \A p \in journal' \cup late' :
              p \in journal \cup late \/ (p.by = r /\ p.start <= p.end)
         /\ \A p \in late' \ late : p.end <= room[r].seq
<1>1. \A p \in late' : p \in late \/ /\ p.by = r /\ p.start <= p.end /\ Harmless(p)
                                     /\ p.end <= room[r].seq
  BY Abandoned
<1>2. \A p \in late : Harmless(p) BY DEF DInv, Stored
<1>3. ASSUME NEW p, Harmless(p) PROVE Harmless(p)' BY <1>3 DEF Harmless, Taken, End, Top
<1>4. \A p \in late' : Harmless(p)' BY <1>1, <1>2, <1>3
<1>5. QED BY <1>1, <1>4
-----------------------------------------------------------------------------
(* Loading                                                                 *)

LEMMA LoadRowKeeps ==
  ASSUME IInv, IInv', DInv, Alone, NEW r \in Rooms, LoadRow(r)
  PROVE  DInv' /\ Adds
<1> DEFINE h == [room[r] EXCEPT !.seen = row,
                                !.status = IF row.meta THEN "reading" ELSE "document"]
<1>1. room' = [room EXCEPT ![r] = h] /\ UNCHANGED <<row, files, journal, late>>
  BY DEF LoadRow, IInv
<1>2. room[r] = NewRoom /\ room[r].status = "new" BY DEF LoadRow, DInv, Live
<1>3. h \in HostedRooms
  <2> HIDE DEF h
  <2>1. room'[r] = h /\ room'[r] \in HostedRooms BY <1>1 DEF IInv, Rooms
  <2>2. QED BY <2>1
<1>4. /\ h.seen = row /\ h.status = IF row.meta THEN "reading" ELSE "document"
      /\ h.phase = "idle" /\ h.durable = 0 /\ h.seq = 0 /\ h.got = {} /\ h.file = NoFile
  BY <1>2 DEF NewRoom
<1> HIDE DEF h
<1>5. room'[r] = h BY <1>1 DEF IInv
<1>6. Others(r)
  <2>1. \A s \in Rooms : s < r => Over(room[s])
    BY NRoomsAssumption DEF LoadRow, MayLoad, Alone, Over, Ended, Rooms
  <2>2. \A s \in Rooms : r < s => room[s].status = "new"
    BY <1>2 DEF DInv, Successive, Over
  <2>3. QED BY <2>1, <2>2 DEF Others
<1>7. Sound /\ Content BY DInvSound
<1>8. Grows /\ Recoverable' = Recoverable BY <1>1, <1>7, Still DEF Sound
<1>9. \A p \in late' : Harmless(p)' BY <1>1 DEF DInv, Stored, Harmless, Taken, End, Top
<1>10. Agrees(r, 0)'
  BY <1>4, <1>7, <1>8, ContentIsNext DEF Agrees, Content, Grows, IInv
<1>11. ~row'.meta => late' = {} BY <1>1 DEF DInv, Blank
<1>12. Reading(r)'
  <2>1. \A p \in late : p.by # r BY <1>2 DEF DInv, Successive
  <2>2. QED BY <1>1, <1>4, <1>5, <2>1 DEF Reading
<1>13. Live(r)' BY <1>4, <1>5, <1>12 DEF Live, Serving
<1>14. 0 <= h.seq /\ h.status # "new" /\ ~Serving(h) /\ room[r].durable <= 0
  BY <1>2, <1>4 DEF Serving, NewRoom
<1>15. QED
  BY <1>1, <1>3, <1>4, <1>6, <1>8, <1>9, <1>10, <1>11, <1>13, <1>14, Keeps

\* A step of a load that leaves the storage as it is.
LEMMA LoadStill ==
  ASSUME IInv, IInv', DInv, NEW r \in Rooms, Reading(r), room[r].status # "new",
         room[r].status # "closed",
         NEW h \in HostedRooms, room' = [room EXCEPT ![r] = h],
         UNCHANGED <<row, files, journal, late>>,
         h.status # "new", h.phase = "idle", h.durable = 0, h.file = NoFile,
         ~row.meta => ~Serving(h) /\ h.status # "reading",
         Live(r)'
  PROVE  DInv' /\ Adds
<1>1. Sound /\ Content BY DInvSound
<1>2. Grows /\ Recoverable' = Recoverable BY <1>1, Still DEF Sound
<1>3. \A p \in late' : Harmless(p)' BY DEF DInv, Stored, Harmless, Taken, End, Top
<1>4. Agrees(r, 0)'
  BY <1>1, <1>2, ContentIsNext DEF Agrees, Content, Grows, IInv
<1>5. ~row'.meta => late' = {} /\ ~Serving(h) /\ h.status # "reading"
  BY DEF DInv, Blank
<1>6. Others(r) BY OnlyOne DEF Over
<1>7. 0 <= h.seq /\ 0 \in Nat /\ room[r].durable <= 0 BY DEF HostedRooms, Reading
<1>8. QED BY <1>2, <1>3, <1>4, <1>5, <1>6, <1>7, Keeps

LEMMA LoadSnapshotKeeps ==
  ASSUME IInv, IInv', DInv, NEW r \in Rooms, LoadSnapshot(r)
  PROVE  DInv' /\ Adds
<1> DEFINE h == [room[r] EXCEPT !.got = @ \cup {"snapshot"}]
<1>1. Reading(r) /\ room[r].status = "reading" BY DEF LoadSnapshot, DInv, Live
<1>2. row.meta /\ room[r].seen.file \in files
  BY <1>1 DEF Reading, DInv, Snapshots
<1>3. room' = [room EXCEPT ![r] = h] /\ UNCHANGED <<row, files, journal, late>>
  BY <1>2 DEF LoadSnapshot, IInv
<1>4. h \in HostedRooms BY DEF IInv, HostedRooms
<1>5. /\ h.status = "reading" /\ h.phase = "idle" /\ h.durable = 0 /\ h.file = NoFile
      /\ h.seen = room[r].seen /\ h.rows = room[r].rows
      /\ "journal" \in h.got <=> "journal" \in room[r].got
  BY <1>1 DEF Reading, DInv, Snapshots, IInv, HostedRooms
<1> HIDE DEF h
<1>6. room'[r] = h BY <1>3 DEF IInv
<1>7. Reading(r)'
  <2>1. \A s \in Rooms : room'[s].durable = room[s].durable
    BY <1>1, <1>3, <1>5, <1>6 DEF Reading, IInv
  <2>2. CASE "journal" \notin room[r].got
    BY <1>1, <1>2, <1>3, <1>5, <1>6, <2>2 DEF Reading
  <2>3. CASE "journal" \in room[r].got
    <3>1. PICK n : n = Top(room[r].seen.log, room[r].rows) OBVIOUS
    <3>2. Top(room'[r].seen.log, room'[r].rows) = n BY <1>5, <1>6, <3>1
    <3>3. Follows(n)' 
      BY <1>1, <1>3, <2>3, <3>1 DEF Reading, Follows, Taken, End, Top
    <3>4. LoadedLog(r)' = LoadedLog(r) /\ Recoverable' = Recoverable
      BY <1>3, <1>5, <1>6 DEF LoadedLog, Recoverable, Readable
    <3>5. \A q \in 1..n : LoadedLog(r)'[q] = Recoverable'[q]
      BY <1>1, <2>3, <3>1, <3>4 DEF Reading
    <3>6. \A s \in Rooms : room'[s].durable <= n BY <1>1, <2>1, <2>3, <3>1 DEF Reading
    <3>7. QED
      BY <1>1, <1>2, <1>3, <1>5, <1>6, <3>2, <3>3, <3>5, <3>6 DEF Reading, Rooms, Follows
  <2>4. QED BY <2>2, <2>3
<1>8. Live(r)' BY <1>5, <1>6, <1>7 DEF Live, Serving
<1>9. QED BY <1>1, <1>2, <1>3, <1>4, <1>5, <1>8, LoadStill

LEMMA LoadJournalKeeps ==
  ASSUME IInv, IInv', DInv, NEW r \in Rooms, LoadJournal(r)
  PROVE  DInv' /\ Adds
<1>1. PICK rows : rows = {p \in journal : p.end > Len(row.log)} OBVIOUS
<1> DEFINE h == [room[r] EXCEPT !.got = @ \cup {"journal"}, !.rows = rows]
<1>2. Reading(r) /\ room[r].status = "reading" BY DEF LoadJournal, DInv, Live
<1>3. row.meta /\ room[r].seen = row BY <1>2 DEF Reading
<1>4. room' = [room EXCEPT ![r] = h] /\ UNCHANGED <<row, files, journal, late>>
  BY <1>1, <1>3 DEF LoadJournal, IInv
<1>5. h \in HostedRooms
  <2> HIDE DEF h
  <2>1. room'[r] = h /\ room'[r] \in HostedRooms BY <1>4 DEF IInv, Rooms
  <2>2. QED BY <2>1
<1>6. /\ h.status = "reading" /\ h.phase = "idle" /\ h.durable = 0 /\ h.file = NoFile
      /\ h.seen = row /\ h.rows = rows
  BY <1>2, <1>3 DEF Reading, DInv, Snapshots, IInv, HostedRooms
<1> HIDE DEF h
<1>7. room'[r] = h BY <1>4 DEF IInv
<1>8. Top(row.log, rows) = End /\ Replay(row.log, rows) = Recoverable
  BY <1>1, <1>3, Reads
<1>9. Sound /\ Content BY DInvSound
<1>10. Reading(r)'
  <2>1. \A s \in Rooms : room'[s].durable = room[s].durable
    BY <1>2, <1>4, <1>6, <1>7 DEF Reading, IInv
  <2>2. PICK n : n = End OBVIOUS
  <2>3. n \in Nat /\ n = Len(Recoverable) BY <1>9, <2>2 DEF Content
  <2>4. Top(room'[r].seen.log, room'[r].rows) = n BY <1>6, <1>7, <1>8, <2>2
  <2>5. Follows(n)' BY <1>4, <2>2, <2>3 DEF Follows, End, Top
  <2>6. Recoverable' = Recoverable BY <1>3, <1>4, <1>9, Still DEF Sound
  <2>7. LoadedLog(r)' = Recoverable' BY <1>6, <1>7, <1>8, <2>6 DEF LoadedLog
  <2>8. \A s \in Rooms : room'[s].durable <= n
    BY <2>1, <2>3 DEF DInv, Stored, Agrees
  <2>9. QED
    BY <1>2, <1>3, <1>4, <1>6, <1>7, <2>4, <2>5, <2>7, <2>8 DEF Reading, Rooms, Follows
<1>11. Live(r)' BY <1>6, <1>7, <1>10 DEF Live, Serving
<1>12. QED BY <1>2, <1>3, <1>4, <1>5, <1>6, <1>11, LoadStill

\* The room opens with what is stored.
LEMMA LoadOpenKeeps ==
  ASSUME IInv, IInv', DInv, NEW r \in Rooms, LoadOpen(r)
  PROVE  DInv' /\ Adds
<1>1. PICK log : log = LoadedLog(r) OBVIOUS
<1>2. PICK n : n = Len(log) OBVIOUS
<1>3. PICK saved : saved = IF room[r].rows = {} THEN n ELSE 0 OBVIOUS
<1>4. PICK h : h = [NewRoom EXCEPT !.status = "open", !.base = log, !.seq = n,
                      !.journaled = n, !.durable = n, !.saved = saved]
  OBVIOUS
<1>5. /\ room' = [room EXCEPT ![r] = h] /\ UNCHANGED <<row, files, journal, late>>
      /\ Contiguous(room[r].seen.log, room[r].rows)
  BY <1>1, <1>2, <1>3, <1>4 DEF LoadOpen
<1>6. Reading(r) /\ room[r].status = "reading" /\ "journal" \in room[r].got
  BY DEF LoadOpen, Loaded, DInv, Live
<1>7. row.meta /\ room[r].seen = row BY <1>6 DEF Reading
<1>8. /\ row.log \in Logs /\ Len(row.log) <= MaxSeq
      /\ room[r].rows \in SUBSET Packets /\ \A p \in room[r].rows : p.end <= MaxSeq
  BY <1>7 DEF IInv, HostedRooms, Rows, RoomOK
<1>9. /\ log \in Logs /\ n = Top(row.log, room[r].rows)
      /\ n \in Nat /\ Len(row.log) <= n /\ Len(row.log) \in Nat
  BY <1>1, <1>2, <1>5, <1>7, <1>8, ReplayIsLog, TopIs DEF LoadedLog
<1>10. /\ Follows(n) /\ \A q \in 1..n : log[q] = Recoverable[q]
       /\ \A s \in Rooms : room[s].durable <= n
       /\ \A p \in late : p.by # r
  BY <1>1, <1>6, <1>7, <1>9 DEF Reading
<1>11. /\ h.status = "open" /\ h.phase = "idle" /\ h.file = NoFile
       /\ h.base = log /\ h.seq = n /\ h.journaled = n /\ h.durable = n /\ h.target = 0
  BY <1>4 DEF NewRoom
<1>12. room'[r] = h /\ h \in HostedRooms
  <2>1. room'[r] = h /\ room'[r] \in HostedRooms BY <1>5 DEF IInv, Rooms
  <2>2. QED BY <2>1
<1>13. Sound /\ Content BY DInvSound
<1>14. Grows /\ Recoverable' = Recoverable BY <1>5, <1>13, Still DEF Sound
<1>15. Content' BY <1>14, ContentIsNext DEF Grows, IInv
<1>16. Agrees(r, n)'
  <2>1. n <= Len(Recoverable) BY <1>10, <1>13 DEF Follows, Content
  <2>2. \A q \in 1..n : LogOf(r)'[q] = log[q]
    <3>1. room'[r].seq = n /\ room'[r].base = log BY <1>11, <1>12
    <3>2. LogOf(r)' = [q \in 1..n |-> IF q <= Len(log) THEN log[q] ELSE r]
      BY <3>1 DEF LogOf
    <3>3. n = Len(log) /\ n \in Nat BY <1>2, <1>9
    <3> TAKE q \in 1..n
    <3>4. q <= Len(log) BY <3>3
    <3>5. LogOf(r)'[q] = IF q <= Len(log) THEN log[q] ELSE r BY <3>2
    <3>6. QED BY <3>4, <3>5
  <2>3. QED BY <1>10, <1>14, <2>1, <2>2 DEF Agrees
<1>17. Follows(n)' BY <1>5, <1>10 DEF Follows, Taken, End, Top
<1>18. Written(r)' = n BY <1>11, <1>12 DEF Written
<1>19. Serves(r)'
  <2>1. row'.meta /\ row' = row /\ late' = late BY <1>5, <1>7
  <2>2. Len(row'.log) <= n /\ Len(log) <= n BY <1>2, <1>9, <2>1
  <2>3. \A s \in Rooms : room'[s].durable <= n BY <1>5, <1>9, <1>10, <1>11 DEF IInv
  <2>4. (Agrees(r, Written(r)) /\ Follows(Written(r)))'
    BY <1>16, <1>17, <1>18 DEF Agrees, Follows
  <2>5. QED BY <1>9, <1>10, <1>11, <1>12, <2>1, <2>2, <2>3, <2>4 DEF Serves, Saving, Rooms
<1>20. Live(r)' BY <1>11, <1>12, <1>19 DEF Live
<1>21. \A p \in late' : Harmless(p)' BY <1>5 DEF DInv, Stored, Harmless, Taken, End, Top
<1>22. Others(r) BY <1>6, OnlyOne DEF Over
<1>23. h.durable = n /\ n <= h.seq /\ row'.meta /\ room[r].durable <= n
  BY <1>5, <1>6, <1>7, <1>9, <1>11 DEF Reading
<1>24. QED
  BY <1>5, <1>9, <1>11, <1>12, <1>14, <1>16, <1>20, <1>21, <1>22, <1>23, Keeps

\* A load given up leaves the storage as it is; there is nothing to discard.
LEMMA LoadEnds ==
  ASSUME IInv, IInv', DInv, NEW r \in Rooms,
         LoadGivenUp(r) \/ LoadDiscardFailed(r)
  PROVE  DInv' /\ Adds
<1>1. PICK g : g = [room[r] EXCEPT !.status = "closed"] OBVIOUS
<1>2. /\ Reading(r) /\ room[r].status \in {"reading", "document", "discarding"}
      /\ room[r].status = "discarding" => journal = {}
  BY DEF LoadGivenUp, LoadDiscardFailed, DInv, Live, Reading, Blank
<1>3. room' = [room EXCEPT ![r] = Settled(g)] /\ UNCHANGED <<row, files, journal, late>>
  BY <1>1, <1>2 DEF LoadGivenUp, LoadDiscardFailed
<1>4. /\ g \in HostedRooms /\ g.status = "closed" /\ g.phase = "idle"
      /\ g.base = room[r].base /\ g.durable = 0
  BY <1>1, <1>2 DEF IInv, HostedRooms, Statuses, Reading
<1>5. Sound /\ Content BY DInvSound
<1>6. Grows /\ Recoverable' = Recoverable BY <1>3, <1>5, Still DEF Sound
<1>7. Agrees(r, g.durable) /\ g.durable <= room[r].seq /\ room[r].durable <= g.durable
  BY <1>2, <1>4, <1>5 DEF Agrees, Content, IInv, HostedRooms, Reading
<1>8. \A p \in late' : Harmless(p)' BY <1>3 DEF DInv, Stored, Harmless, Taken, End, Top
<1>9. ~row'.meta => late' = {} BY <1>3 DEF DInv, Blank
<1>10. room[r].status # "new" /\ ~Over(room[r]) BY <1>2 DEF Over
<1>11. QED BY <1>3, <1>4, <1>6, <1>7, <1>8, <1>9, <1>10, Ends

LEMMA LoadDocumentKeeps ==
  ASSUME IInv, IInv', DInv, NEW r \in Rooms, LoadDocument(r)
  PROVE  DInv' /\ Adds
<1>1. PICK h : h = [room[r] EXCEPT !.base = row.log, !.status = "discarding"] OBVIOUS
<1>2. Reading(r) /\ room[r].status = "document" /\ ~row.meta
  BY DEF LoadDocument, DInv, Live, Reading
<1>3. room' = [room EXCEPT ![r] = h] /\ UNCHANGED <<row, files, journal, late>>
  BY <1>1 DEF LoadDocument, IInv
<1>4. /\ h \in HostedRooms /\ h.status = "discarding" /\ h.phase = "idle"
      /\ h.durable = 0 /\ h.file = NoFile /\ h.seen = room[r].seen
  <2>1. room[r] \in HostedRooms /\ row.log \in Logs BY DEF IInv, StorageOK, Rows
  <2>2. room[r].phase = "idle" /\ room[r].durable = 0 /\ room[r].file = NoFile
    BY <1>2 DEF Reading, DInv, Snapshots
  <2>3. QED BY <1>1, <2>1, <2>2 DEF HostedRooms, Statuses
<1>5. room'[r] = h BY <1>3 DEF IInv
<1>6. Reading(r)' BY <1>2, <1>3, <1>4, <1>5 DEF Reading
<1>7. Live(r)' BY <1>4, <1>5, <1>6 DEF Live, Serving
<1>8. ~Serving(h) BY <1>4 DEF Serving
<1>9. QED BY <1>2, <1>3, <1>4, <1>7, <1>8, LoadStill

\* The numbering begins; nothing was stored.
LEMMA LoadDiscardKeeps ==
  ASSUME IInv, IInv', DInv, NEW r \in Rooms, LoadDiscard(r)
  PROVE  DInv' /\ Adds
<1>1. PICK next : next = Top(IF room[r].seen.meta THEN room[r].seen.log ELSE <<>>, journal) + 1
  OBVIOUS
<1>2. PICK h : h = [NewRoom EXCEPT !.status = "initial", !.base = PadTo(room[r].base, next),
                                   !.seq = next, !.journaled = next]
  OBVIOUS
<1>3. Reading(r) /\ room[r].status = "discarding" /\ ~row.meta
  BY DEF LoadDiscard, DInv, Live, Reading
<1>4. journal = {} /\ late = {} /\ \A s \in Rooms : room[s].durable = 0
  BY <1>3 DEF DInv, Blank
<1>5. room' = [room EXCEPT ![r] = h] /\ UNCHANGED <<row, files, journal, late>>
  BY <1>1, <1>2, <1>4 DEF LoadDiscard
<1>6. room'[r] = h /\ h \in HostedRooms BY <1>5 DEF IInv
<1>7. /\ h.status = "initial" /\ h.phase = "idle" /\ h.durable = 0 /\ h.file = NoFile
      /\ h.seq = next /\ h.journaled = next
  BY <1>2 DEF NewRoom
<1>8. First(r)'
  <2>1. \A s \in Rooms : room'[s].durable = 0 BY <1>4, <1>5, <1>7 DEF IInv
  <2>2. QED BY <1>3, <1>4, <1>5, <1>6, <1>7, <2>1 DEF First, Rooms
<1>9. Live(r)' BY <1>6, <1>7, <1>8 DEF Live, Serving
<1>10. ~Serving(h) BY <1>7 DEF Serving
<1>11. QED BY <1>3, <1>5, <1>6, <1>7, <1>9, <1>10, LoadStill
-----------------------------------------------------------------------------
(* Serving                                                                 *)

\* What a step after which the room serves has to show.
LEMMA GoesOn ==
  ASSUME IInv, IInv', DInv, Grows, NEW r \in Rooms, NEW h \in HostedRooms,
         room' = [room EXCEPT ![r] = h], Others(r), Serving(h), row'.meta,
         \A p \in journal' \cup late' :
           p \in journal \cup late \/ (p.by = r /\ p.start <= p.end),
         \A p \in late' : Harmless(p)',
         NEW w \in Nat, w = IF h.phase = "acked" THEN h.upto ELSE h.journaled,
         Agrees(r, w)', Follows(w)', h.durable <= w, h.durable <= h.journaled,
         room[r].durable <= h.durable,
         Recoverable' = Recoverable \/ h.durable = room[r].durable,
         Len(row'.log) <= h.journaled, Len(h.base) <= h.journaled, h.journaled <= h.seq,
         h.phase = "acked" => \E p \in journal' : p.start = h.journaled + 1,
         \A s \in Rooms : room[s].durable <= h.journaled,
         \A p \in late' : p.by = r => p.end <= h.seq,
         h.target > 0 => /\ Len(row'.log) <= h.target
                         /\ \A p \in late' : p.by = r /\ p.end <= h.target,
         h.phase \in Saving => h.target > 0 /\ h.target <= h.journaled,
         h.phase \in {"pruneFiles", "pruneJournal"} => Len(row'.log) = h.target,
         h.phase \notin {"update", "pruneFiles"} => h.file = NoFile,
         h.phase = "update" => h.file \in files' \ {row'.file},
         h.phase = "pruneFiles" => h.file = row'.file
  PROVE  DInv' /\ Adds
<1>1. PICK k \in Nat : k = h.durable BY DEF HostedRooms
<1>2. /\ h.journaled \in Nat /\ h.seq \in Nat /\ h.status # "new" /\ h.status # "initial"
      /\ h.status \notin {"reading", "document", "discarding"}
  BY DEF HostedRooms, Serving
<1>3. Agrees(r, k)' BY <1>1 DEF Agrees
<1>4. room'[r] = h /\ \A s \in Rooms \ {r} : room'[s] = room[s] BY DEF IInv
<1>5. Serves(r)'
  <2>1. Written(r)' = w BY <1>4 DEF Written
  <2>2. (Agrees(r, Written(r)) /\ Follows(Written(r)))' BY <2>1 DEF Agrees, Follows
  <2>3. \A s \in Rooms : room'[s].durable <= h.journaled
    <3> TAKE s \in Rooms
    <3>1. CASE s = r BY <1>4, <3>1
    <3>2. CASE s # r BY <1>4, <3>2
    <3>3. QED BY <3>1, <3>2
  <2>4. room'[r].phase = "acked" => Taken(room[r].journaled + 1)' BY <1>4 DEF Taken
  <2>5. QED BY <1>4, <2>2, <2>3, <2>4 DEF Serves, Rooms, Saving
<1>6. Live(r)' BY <1>2, <1>4, <1>5 DEF Live
<1>7. /\ k <= h.seq /\ h.durable = k /\ room[r].durable <= k
      /\ Recoverable' = Recoverable \/ k = room[r].durable
  BY <1>1, <1>2
<1>8. QED BY <1>2, <1>3, <1>6, <1>7, Keeps

\* The room goes on, the row and the journal stay.
LEMMA Quiet ==
  ASSUME IInv, IInv', DInv, NEW r \in Rooms, NEW h \in HostedRooms,
         room' = [room EXCEPT ![r] = h], Serving(room[r]), Serving(h),
         UNCHANGED <<row, journal>>, row.file \in files',
         \A p \in late' : p \in late \/ (p = PacketOf(r) /\ room[r].phase = "append"),
         NEW w \in Nat, w = IF h.phase = "acked" THEN h.upto ELSE h.journaled,
         Agrees(r, w), Follows(w), w <= room[r].seq,
         h.base = room[r].base, room[r].seq <= h.seq, h.journaled <= h.seq,
         room[r].journaled <= h.journaled, h.durable <= w, h.durable <= h.journaled,
         room[r].durable <= h.durable,
         h.phase = "acked" => room[r].phase = "acked" /\ h.journaled = room[r].journaled,
         h.target > 0 => /\ Len(row.log) <= h.target
                         /\ \A p \in late' : p.by = r /\ p.end <= h.target,
         h.phase \in Saving => h.target > 0 /\ h.target <= h.journaled,
         h.phase \in {"pruneFiles", "pruneJournal"} => Len(row.log) = h.target,
         h.phase \notin {"update", "pruneFiles"} => h.file = NoFile,
         h.phase = "update" => h.file \in files' \ {row.file},
         h.phase = "pruneFiles" => h.file = row.file
  PROVE  DInv' /\ Adds
<1>1. Serves(r) /\ row.meta BY DEF DInv, Live, Serves
<1>2. Grows /\ Recoverable' = Recoverable BY <1>1, Still
<1>3. Content /\ Content' BY <1>2, DInvSound, ContentIsNext DEF IInv, Grows
<1>4. /\ Len(row.log) \in Nat /\ Len(row.log) <= room[r].journaled
      /\ Len(room[r].base) \in Nat /\ Len(room[r].base) <= room[r].journaled
      /\ room[r].journaled \in Nat /\ room[r].seq \in Nat
      /\ h.journaled \in Nat /\ h.seq \in Nat
  BY <1>1, <1>3, SMTT(30) DEF Serves, Content, IInv, HostedRooms, Logs
<1>5. Agrees(r, w)'
  <2>1. room'[r] = h BY DEF IInv
  <2>2. \A q \in 1..w : LogOf(r)'[q] = LogOf(r)[q] BY <1>4, <2>1 DEF LogOf
  <2>3. QED BY <1>2, <1>3, <2>2, AgreesKept
<1>6. Follows(w)' BY <1>1 DEF Follows, Taken, End, Top
<1>7. Others(r) BY <1>1, OnlyOne DEF Serving, Over
<1>8. /\ \A p \in late' : Harmless(p)'
      /\ \A p \in journal' \cup late' :
           p \in journal \cup late \/ (p.by = r /\ p.start <= p.end)
      /\ \A p \in late' \ late : p.end <= room[r].seq
  BY LateStill
<1>9. \A p \in late' : p.by = r => p.end <= h.seq
  <2>1. \A p \in late' : p.end \in Nat BY DEF IInv, StorageOK, Packets
  <2>2. \A p \in late' : p.by = r => p.end <= room[r].seq BY <1>1, <1>8 DEF Serves
  <2>3. QED BY <1>4, <2>1, <2>2
<1>10. \A s \in Rooms : room[s].durable <= h.journaled
  <2>1. \A s \in Rooms : room[s].durable \in Nat BY DEF IInv, HostedRooms
  <2>2. QED BY <1>1, <1>4, <2>1 DEF Serves
<1>11. h.phase = "acked" => \E p \in journal' : p.start = h.journaled + 1
  BY <1>1 DEF Serves, Taken
<1>12. Len(row'.log) <= h.journaled /\ Len(h.base) <= h.journaled /\ row'.meta
  BY <1>1, <1>4
<1>13. /\ h.target > 0 => /\ Len(row'.log) <= h.target
                          /\ \A p \in late' : p.by = r /\ p.end <= h.target
       /\ h.phase \in {"pruneFiles", "pruneJournal"} => Len(row'.log) = h.target
       /\ h.phase = "update" => h.file \in files' \ {row'.file}
       /\ h.phase = "pruneFiles" => h.file = row'.file
  OBVIOUS
<1>14. QED
  BY <1>2, <1>5, <1>6, <1>7, <1>8, <1>9, <1>10, <1>11, <1>12, <1>13, GoesOn

\* What is known of a room that serves.
LEMMA ServingFacts ==
  ASSUME IInv, DInv, NEW r \in Rooms, Serving(room[r])
  PROVE  /\ room[r] \in HostedRooms /\ RoomOK(room[r]) /\ Serves(r)
         /\ row.meta /\ row.file \in files /\ row.file # NoFile
         /\ room[r].status # "new" /\ ~Over(room[r]) /\ Others(r)
         /\ Written(r) \in Nat /\ room[r].journaled \in Nat /\ room[r].seq \in Nat
         /\ room[r].upto \in Nat /\ room[r].target \in Nat /\ room[r].durable \in Nat
         /\ room[r].journaled <= Written(r) /\ Written(r) <= room[r].seq
         /\ Agrees(r, Written(r)) /\ Follows(Written(r))
         /\ room[r].durable <= room[r].journaled
         /\ room[r].phase \notin {"update", "pruneFiles"} => room[r].file = NoFile
         /\ room[r].phase = "update" => room[r].file \in files \ {row.file}
         /\ room[r].phase = "pruneFiles" => room[r].file = row.file
         /\ room[r].phase \in Writing => room[r].journaled < room[r].upto
                                         /\ room[r].upto <= room[r].seq
                                         /\ room[r].target <= room[r].upto
         /\ room[r].target > 0 => /\ Len(row.log) <= room[r].target
                                  /\ \A p \in late : p.by = r /\ p.end <= room[r].target
         /\ room[r].phase \in Saving => room[r].target > 0 /\ room[r].target <= room[r].journaled
         /\ room[r].phase \in {"pruneFiles", "pruneJournal"} => Len(row.log) = room[r].target
<1>1. room[r] \in HostedRooms /\ RoomOK(room[r]) /\ Serves(r)
  BY DEF IInv, DInv, Live
<1>2. /\ row.meta /\ row.file \in files /\ row.file # NoFile
  BY <1>1, FileAssumption DEF Serves, DInv, Snapshots, IInv, StorageOK
<1>3. room[r].status # "new" /\ ~Over(room[r]) BY DEF Serving, Over
<1>4. Others(r) BY <1>3, OnlyOne
<1>5. /\ room[r].journaled \in Nat /\ room[r].seq \in Nat /\ room[r].durable \in Nat
      /\ room[r].upto \in Nat /\ room[r].target \in Nat
  BY <1>1 DEF HostedRooms
<1>6. room[r].phase \in Writing => room[r].journaled < room[r].upto
                                   /\ room[r].upto <= room[r].seq
                                   /\ room[r].target <= room[r].upto
  BY <1>1 DEF RoomOK
<1>7. /\ room[r].durable <= room[r].journaled
      /\ Agrees(r, Written(r)) /\ Follows(Written(r))
  BY <1>1 DEF Serves
<1>8. /\ Written(r) \in Nat
      /\ room[r].journaled <= Written(r) /\ Written(r) <= room[r].seq
  BY <1>1, <1>5, <1>6 DEF Written, Writing, Serves
<1>9. /\ room[r].phase \notin {"update", "pruneFiles"} => room[r].file = NoFile
      /\ room[r].phase = "update" => room[r].file \in files \ {row.file}
      /\ room[r].phase = "pruneFiles" => room[r].file = row.file
  BY DEF DInv, Snapshots
<1>10. /\ room[r].target > 0 => /\ Len(row.log) <= room[r].target
                                /\ \A p \in late : p.by = r /\ p.end <= room[r].target
       /\ room[r].phase \in Saving => room[r].target > 0 /\ room[r].target <= room[r].journaled
       /\ room[r].phase \in {"pruneFiles", "pruneJournal"} => Len(row.log) = room[r].target
  BY <1>1 DEF Serves
<1>11. QED BY <1>1, <1>2, <1>3, <1>4, <1>5, <1>6, <1>7, <1>8, <1>9, <1>10

LEMMA AcceptGoesOn ==
  ASSUME IInv, IInv', DInv, NEW r \in Rooms, Accept(r)
  PROVE  DInv' /\ Adds
<1>1. Serving(room[r]) BY DEF Accept, Serving
<1>2. PICK h : h = room'[r] OBVIOUS
<1>3. UNCHANGED <<row, files, journal, late>> BY DEF Accept
<1>4. PICK w \in Nat : w = Written(r) /\ Agrees(r, w) /\ Follows(w) /\ w <= room[r].seq
  BY <1>1, ServingFacts
<1>5. /\ room' = [room EXCEPT ![r] = h]
      /\ h \in HostedRooms /\ h.status = room[r].status /\ h.phase = room[r].phase
      /\ h.base = room[r].base /\ h.seq = room[r].seq + 1 /\ h.file = room[r].file
      /\ h.journaled = room[r].journaled /\ h.durable = room[r].durable
      /\ h.target = room[r].target /\ h.upto = room[r].upto
  BY <1>2 DEF Accept, IInv, HostedRooms
<1>6. Serving(h) BY <1>1, <1>5 DEF Serving
<1>7. w = IF h.phase = "acked" THEN h.upto ELSE h.journaled BY <1>4, <1>5 DEF Written
<1>8. /\ w <= h.seq /\ room[r].seq <= h.seq /\ h.journaled <= h.seq
      /\ h.durable <= w /\ h.durable <= h.journaled /\ room[r].durable <= h.durable
  BY <1>1, <1>4, <1>5, ServingFacts
<1>9. /\ row.file \in files'
      /\ h.target > 0 => /\ Len(row.log) <= h.target
                         /\ \A p \in late' : p.by = r /\ p.end <= h.target
      /\ h.phase \in Saving => h.target > 0 /\ h.target <= h.journaled
      /\ h.phase \in {"pruneFiles", "pruneJournal"} => Len(row.log) = h.target
      /\ h.phase \notin {"update", "pruneFiles"} => h.file = NoFile
      /\ h.phase = "update" => h.file \in files' \ {row.file}
      /\ h.phase = "pruneFiles" => h.file = row.file
  BY <1>1, <1>3, <1>5, ServingFacts
<1>10. /\ room[r].journaled <= h.journaled
       /\ h.phase = "acked" => room[r].phase = "acked" /\ h.journaled = room[r].journaled
  BY <1>1, <1>5, ServingFacts
<1>11. /\ UNCHANGED <<row, journal>>
       /\ \A p \in late' : p \in late \/ (p = PacketOf(r) /\ room[r].phase = "append")
  BY <1>3
<1>12. h \in HostedRooms /\ room' = [room EXCEPT ![r] = h] /\ h.base = room[r].base BY <1>5
<1>13. QED
  BY <1>1, <1>4, <1>6, <1>7, <1>8, <1>9, <1>10, <1>11, <1>12, Quiet

\* A packet is about to be written.
LEMMA AppendStarts ==
  ASSUME IInv, IInv', DInv, NEW r \in Rooms,
         AppendStart(r)
           \/ (ShutdownFlush(r) /\ room[r].seq > room[r].journaled)
  PROVE  DInv' /\ Adds
<1>1. /\ Serving(room[r]) /\ room[r].phase = "idle" /\ room[r].status # "closed"
      /\ row' = row /\ files' = files /\ journal' = journal /\ late' = late
  BY DEF AppendStart, ShutdownFlush, Serving
<1>2. PICK h : h = room'[r] OBVIOUS
<1>3. /\ room' = [room EXCEPT ![r] = h]
      /\ h.status = room[r].status \/ h.status = "stopping"
      /\ h.phase = "append" /\ h.upto = room[r].seq
      /\ h.base = room[r].base /\ h.seq = room[r].seq /\ h.file = room[r].file
      /\ h.journaled = room[r].journaled /\ h.durable = room[r].durable
      /\ h.target = room[r].target
  BY <1>1, <1>2 DEF AppendStart, ShutdownFlush, IInv, HostedRooms
<1>4. h \in HostedRooms BY <1>2 DEF IInv
<1>5. PICK w \in Nat : w = Written(r) /\ Agrees(r, w) /\ Follows(w) /\ w <= room[r].seq
  BY <1>1, ServingFacts
<1>6. Serving(h) BY <1>1, <1>3 DEF Serving
<1>7. w = IF h.phase = "acked" THEN h.upto ELSE h.journaled BY <1>1, <1>3, <1>5 DEF Written
<1>8. /\ w <= h.seq /\ room[r].seq <= h.seq /\ h.journaled <= h.seq
      /\ h.durable <= w /\ h.durable <= h.journaled /\ room[r].durable <= h.durable
  BY <1>1, <1>3, <1>5, ServingFacts
<1>9. /\ row.file \in files'
      /\ h.target > 0 => /\ Len(row.log) <= h.target
                         /\ \A p \in late' : p.by = r /\ p.end <= h.target
      /\ h.phase \notin {"update", "pruneFiles"} => h.file = NoFile
  BY <1>1, <1>3, ServingFacts
<1>10. room[r].journaled <= h.journaled BY <1>1, <1>3, ServingFacts
<1>11. h.phase \notin Saving BY <1>3 DEF Saving
<1>12. /\ UNCHANGED <<row, journal>>
       /\ \A p \in late' : p \in late \/ (p = PacketOf(r) /\ room[r].phase = "append")
  BY <1>1
<1>13. QED
  BY <1>1, <1>3, <1>4, <1>5, <1>6, <1>7, <1>8, <1>9, <1>10, <1>11, <1>12, Quiet

\* SIGTERM, or an exception while a call is in progress.
LEMMA Interrupted ==
  ASSUME IInv, IInv', DInv, NEW r \in Rooms,
         Shutdown(r) \/ (Fail(r) /\ room[r].phase # "idle")
  PROVE  DInv' /\ Adds
<1>1. /\ Serving(room[r])
      /\ row' = row /\ files' = files /\ journal' = journal /\ late' = late
  BY DEF Shutdown, Fail, Serving
<1>2. PICK h : h = room'[r] OBVIOUS
<1>3. /\ room' = [room EXCEPT ![r] = h]
      /\ h.status = "closing" \/ (h.status = "closed" /\ h.phase # "idle")
      /\ h.phase = room[r].phase /\ h.upto = room[r].upto
      /\ h.base = room[r].base /\ h.seq = room[r].seq /\ h.file = room[r].file
      /\ h.journaled = room[r].journaled /\ h.durable = room[r].durable
      /\ h.target = room[r].target
  BY <1>1, <1>2 DEF Shutdown, Fail, Settled, IInv, HostedRooms
<1>4. h \in HostedRooms BY <1>2 DEF IInv
<1>5. PICK w \in Nat : w = Written(r) /\ Agrees(r, w) /\ Follows(w) /\ w <= room[r].seq
  BY <1>1, ServingFacts
<1>6. Serving(h) BY <1>3 DEF Serving
<1>7. w = IF h.phase = "acked" THEN h.upto ELSE h.journaled BY <1>1, <1>3, <1>5 DEF Written
<1>8. /\ w <= h.seq /\ room[r].seq <= h.seq /\ h.journaled <= h.seq
      /\ h.durable <= w /\ h.durable <= h.journaled /\ room[r].durable <= h.durable
  BY <1>1, <1>3, <1>5, ServingFacts
<1>9. /\ row.file \in files'
      /\ h.target > 0 => /\ Len(row.log) <= h.target
                         /\ \A p \in late' : p.by = r /\ p.end <= h.target
      /\ h.phase \in Saving => h.target > 0 /\ h.target <= h.journaled
      /\ h.phase \in {"pruneFiles", "pruneJournal"} => Len(row.log) = h.target
      /\ h.phase \notin {"update", "pruneFiles"} => h.file = NoFile
      /\ h.phase = "update" => h.file \in files' \ {row.file}
      /\ h.phase = "pruneFiles" => h.file = row.file
  BY <1>1, <1>3, ServingFacts
<1>10. /\ room[r].journaled <= h.journaled
       /\ h.phase = "acked" => room[r].phase = "acked" /\ h.journaled = room[r].journaled
  BY <1>1, <1>3, ServingFacts
<1>11. /\ UNCHANGED <<row, journal>>
       /\ \A p \in late' : p \in late \/ (p = PacketOf(r) /\ room[r].phase = "append")
  BY <1>1
<1>12. QED
  BY <1>1, <1>3, <1>4, <1>5, <1>6, <1>7, <1>8, <1>9, <1>10, <1>11, Quiet

\* The life ends with no call in progress, or is killed, or its call fails and
\* nobody waits for it any more: what it announced stays.
LEMMA LifeEnds ==
  ASSUME IInv, IInv', DInv, NEW r \in Rooms, NEW g \in HostedRooms,
         room' = [room EXCEPT ![r] = Settled(g)], g.status = "closed", g.phase = "idle",
         room[r].status # "new", ~Over(room[r]),
         g.base = room[r].base, g.durable = room[r].durable,
         UNCHANGED <<row, journal>>, row.meta => row.file \in files',
         \A p \in late' : p \in late \/ (/\ p = PacketOf(r) /\ room[r].phase = "append"
                                         /\ Serving(room[r]))
  PROVE  DInv' /\ Adds
<1>1. Grows /\ Recoverable' = Recoverable BY Still
<1>2. /\ \A p \in late' : Harmless(p)'
      /\ \A p \in journal' \cup late' :
           p \in journal \cup late \/ (p.by = r /\ p.start <= p.end)
  BY LateStill
<1>3. Agrees(r, room[r].durable) /\ room[r].durable <= room[r].seq BY DEF DInv, Stored
<1>4. ~row'.meta => late' = {} /\ g.durable = 0
  <2> SUFFICES ASSUME ~row'.meta PROVE late' = {} /\ g.durable = 0 OBVIOUS
  <2>1. late = {} /\ room[r].durable = 0 /\ ~Serving(room[r]) BY DEF DInv, Blank
  <2>2. QED BY <2>1
<1>5. /\ Agrees(r, g.durable) /\ g.durable <= room[r].seq
      /\ room[r].durable <= g.durable
  BY <1>3 DEF IInv, HostedRooms
<1>6. QED BY <1>1, <1>2, <1>4, <1>5, Ends

LEMMA QuietEnd ==
  ASSUME IInv, IInv', DInv, NEW r \in Rooms,
         Unload(r) \/ (ShutdownFlush(r) /\ ~(room[r].seq > room[r].journaled))
           \/ (Fail(r) /\ room[r].phase = "idle") \/ AppendRefused(r) \/ Crash(r)
  PROVE  DInv' /\ Adds
<1>1. PICK g : g = [room[r] EXCEPT !.status = "closed", !.phase = "idle"] OBVIOUS
<1>2. room[r] \in HostedRooms /\ RoomOK(room[r]) BY DEF IInv
<1>3. /\ g \in HostedRooms /\ g.status = "closed" /\ g.phase = "idle"
      /\ g.base = room[r].base /\ g.durable = room[r].durable
  BY <1>1, <1>2 DEF HostedRooms, Statuses, Phases
<1>4. /\ room' = [room EXCEPT ![r] = Settled(g)]
      /\ row' = row /\ files' = files /\ journal' = journal
      /\ room[r].status # "new" /\ ~Over(room[r])
      /\ \A p \in late' : p \in late \/ (p = PacketOf(r) /\ room[r].phase = "append")
  <2>1. CASE \/ Unload(r)
             \/ ShutdownFlush(r) /\ ~(room[r].seq > room[r].journaled)
             \/ Fail(r) /\ room[r].phase = "idle"
    <3>1. room[r].phase = "idle" /\ room[r].status \notin {"new", "closed"}
      BY <2>1 DEF Unload, ShutdownFlush, Fail
    <3>2. g = [room[r] EXCEPT !.status = "closed"] BY <1>1, <1>2, <3>1 DEF HostedRooms
    <3>3. room' = [room EXCEPT ![r] = Settled(g)] /\ UNCHANGED <<row, files, journal, late>>
      BY <2>1, <3>2 DEF Unload, ShutdownFlush, Fail
    <3>4. QED BY <3>1, <3>3 DEF Over
  <2>2. CASE AppendRefused(r)
    <3>1. g = [room[r] EXCEPT !.phase = "idle", !.status = "closed"]
      BY <1>1, <1>2 DEF HostedRooms
    <3>2. room[r].phase = "refused" /\ room[r].status # "initial"
      BY <1>2, <2>2 DEF AppendRefused, RoomOK, Writing
    <3>3. room' = [room EXCEPT ![r] = Settled(g)] /\ UNCHANGED <<row, files, journal, late>>
      BY <2>2, <3>1 DEF AppendRefused
    <3>4. room[r].status # "new" /\ ~Over(room[r]) BY <3>2, Busy
    <3>5. QED BY <3>3, <3>4
  <2>3. CASE Crash(r)
    <3>1. room[r].status # "new" /\ ~Over(room[r]) BY <2>3 DEF Crash, Over, Ended
    <3>2. room' = [room EXCEPT ![r] = Settled(g)] /\ UNCHANGED <<row, files, journal>>
      BY <1>1, <2>3 DEF Crash
    <3>3. QED BY <2>3, <3>1, <3>2 DEF Crash
  <2>4. QED BY <2>1, <2>2, <2>3
<1>5. row.meta => row.file \in files' BY <1>4 DEF DInv, Snapshots
<1>6. room[r].phase = "append" => Serving(room[r])
  <2>1. room[r].phase = "append" => room[r].status # "initial"
    BY <1>2 DEF RoomOK, Writing
  <2>2. QED BY <2>1, Busy
<1>7. UNCHANGED <<row, journal>> BY <1>4
<1>8. QED BY <1>3, <1>4, <1>5, <1>6, <1>7, LifeEnds

\* A call to the journal fails: the same numbers are tried again, or the life ends.
LEMMA AppendFails ==
  ASSUME IInv, IInv', DInv, NEW r \in Rooms, AppendFailed(r)
  PROVE  DInv' /\ Adds
<1>1. PICK closes \in BOOLEAN :
        room' = [room EXCEPT ![r] = Settled([room[r] EXCEPT
          !.phase = "idle", !.target = 0, !.upto = 0,
          !.status = IF room[r].status = "stopping" \/ closes THEN "closed"
                     ELSE room[r].status])]
  BY DEF AppendFailed
<1>2. PICK g : g = [room[r] EXCEPT
          !.phase = "idle", !.target = 0, !.upto = 0,
          !.status = IF room[r].status = "stopping" \/ closes THEN "closed"
                     ELSE room[r].status]
  OBVIOUS
<1>3. room' = [room EXCEPT ![r] = Settled(g)] BY <1>1, <1>2
<1>4. /\ row' = row /\ files' = files /\ journal' = journal
      /\ room[r].phase \in Writing
      /\ \A p \in late' : p \in late \/ (p = PacketOf(r) /\ room[r].phase = "append")
  BY DEF AppendFailed, Writing
<1>5. Serving(room[r]) /\ room[r].status # "initial"
  <2>1. RoomOK(room[r]) BY DEF IInv
  <2>2. room[r].status # "initial" /\ room[r].phase # "idle" BY <1>4, <2>1 DEF RoomOK, Writing
  <2>3. QED BY <2>2, Busy
<1>6. room[r] \in HostedRooms /\ room[r].status \in Statuses BY DEF IInv, HostedRooms
<1>7. /\ g \in HostedRooms /\ g.phase = "idle" /\ g.target = 0
      /\ g.status = IF room[r].status = "stopping" \/ closes THEN "closed"
                    ELSE room[r].status
      /\ g.base = room[r].base /\ g.durable = room[r].durable /\ g.file = room[r].file
      /\ g.seq = room[r].seq /\ g.journaled = room[r].journaled
  <2>1. (IF room[r].status = "stopping" \/ closes THEN "closed" ELSE room[r].status) \in Statuses
    BY <1>6 DEF Statuses
  <2>2. "idle" \in Phases BY DEF Phases
  <2>3. QED BY <1>2, <1>6, <2>1, <2>2 DEF HostedRooms
<1>8. UNCHANGED <<row, journal>> BY <1>4
<1>9. CASE g.status = "closed"
  <2>1. row.meta => row.file \in files' BY <1>4 DEF DInv, Snapshots
  <2>2. room[r].status # "new" /\ ~Over(room[r]) BY <1>5, ServingFacts
  <2>3. QED BY <1>3, <1>4, <1>5, <1>7, <1>8, <1>9, <2>1, <2>2, LifeEnds
<1>10. CASE g.status # "closed"
  <2>1. room' = [room EXCEPT ![r] = g] BY <1>3, <1>10 DEF Settled
  <2>2. Serving(g) BY <1>5, <1>7, <1>10 DEF Serving
  <2>3. PICK w \in Nat : w = room[r].journaled BY <1>5, ServingFacts
  <2>4. Agrees(r, w) /\ Follows(w) /\ w <= room[r].seq
    <3>1. /\ w <= Written(r) /\ Written(r) \in Nat /\ w <= room[r].seq
          /\ Agrees(r, Written(r)) /\ Follows(Written(r))
      BY <1>5, <2>3, ServingFacts
    <3>2. w = Written(r) \/ Taken(w + 1)
      BY <1>5, <2>3, ServingFacts DEF Written, Serves
    <3>3. Content BY DInvSound
    <3>4. Agrees(r, w) BY <3>1, <3>3 DEF Agrees, Content
    <3>5. Follows(w) BY <3>1, <3>2, <3>3 DEF Follows, Content
    <3>6. QED BY <3>1, <3>4, <3>5
  <2>5. /\ w = IF g.phase = "acked" THEN g.upto ELSE g.journaled
        /\ g.phase \notin Saving \cup {"acked", "update", "pruneFiles", "pruneJournal"}
    BY <1>7, <2>3 DEF Saving
  <2>6. /\ g.durable <= w /\ g.durable <= g.journaled /\ g.journaled <= g.seq
        /\ room[r].durable <= g.durable
        /\ room[r].journaled <= g.journaled /\ room[r].seq <= g.seq
        /\ row.file \in files' /\ g.file = NoFile
    BY <1>4, <1>5, <1>7, <2>3, ServingFacts DEF Writing
  <2>7. ~(g.target > 0) BY <1>7
  <2>8. QED
    BY <1>4, <1>5, <1>7, <1>8, <2>1, <2>2, <2>4, <2>5, <2>6, <2>7, Quiet
<1>11. QED BY <1>9, <1>10

\* The packet lands: it goes on from what is stored.
LEMMA AppendLands ==
  ASSUME IInv, IInv', DInv, NEW r \in Rooms, AppendLand(r)
  PROVE  DInv' /\ Adds
<1>1. PICK p : p = PacketOf(r) OBVIOUS
<1>2. PICK h : h = room'[r] OBVIOUS
<1>3. /\ room[r].phase = "append" /\ row' = row /\ files' = files /\ late' = late
  BY DEF AppendLand
<1>4. Serving(room[r]) /\ room[r].status # "initial"
  <2>1. RoomOK(room[r]) BY DEF IInv
  <2>2. room[r].status # "initial" BY <1>3, <2>1 DEF RoomOK, Writing
  <2>3. QED BY <1>3, <2>2, Busy
<1>5. /\ room' = [room EXCEPT ![r] = h] /\ h \in HostedRooms
      /\ h.phase = IF IdTaken(p) THEN "refused" ELSE "acked"
      /\ h.status = room[r].status /\ h.upto = room[r].upto
      /\ h.base = room[r].base /\ h.seq = room[r].seq /\ h.file = room[r].file
      /\ h.journaled = room[r].journaled /\ h.durable = room[r].durable
      /\ h.target = room[r].target
  BY <1>1, <1>2 DEF AppendLand, IInv, HostedRooms
<1>6. Serving(h) BY <1>4, <1>5 DEF Serving
<1>7. PICK w \in Nat : w = Written(r) /\ Agrees(r, w) /\ Follows(w) /\ w <= room[r].seq
  BY <1>4, ServingFacts
<1>8. w = room[r].journaled BY <1>3, <1>7 DEF Written
<1>9. /\ h.phase \notin Saving \cup {"update", "pruneFiles", "pruneJournal"}
      /\ h.journaled <= h.seq /\ h.durable <= w /\ h.durable <= h.journaled
      /\ row.file \in files' /\ h.file = NoFile /\ room[r].durable <= h.durable
      /\ h.target > 0 => /\ Len(row.log) <= h.target
                         /\ \A p2 \in late' : p2.by = r /\ p2.end <= h.target
  BY <1>3, <1>4, <1>5, <1>8, ServingFacts DEF Saving
<1>10. CASE IdTaken(p)
  <2>1. UNCHANGED <<row, journal>> BY <1>1, <1>3, <1>10 DEF AppendLand
  <2>2. /\ h.phase # "acked" /\ w = IF h.phase = "acked" THEN h.upto ELSE h.journaled
    BY <1>5, <1>8, <1>10
  <2>3. room[r].seq <= h.seq /\ room[r].journaled <= h.journaled
    BY <1>4, <1>5, ServingFacts
  <2>4. \A p2 \in late' : p2 \in late \/ (p2 = PacketOf(r) /\ room[r].phase = "append")
    BY <1>3
  <2>5. QED
    BY <1>4, <1>5, <1>6, <1>7, <1>9, <2>1, <2>2, <2>3, <2>4, Quiet
<1>11. CASE ~IdTaken(p)
  <2>1. journal' = journal \cup {p} /\ h.phase = "acked"
    BY <1>1, <1>5, <1>11 DEF AppendLand
  <2>2. /\ p \in Packets /\ p.by = r /\ p.start = room[r].journaled + 1
        /\ p.start <= p.end /\ p.end <= MaxSeq
        /\ p.end = room[r].upto /\ p.end <= room[r].seq /\ Harmless(p)
        /\ row.meta /\ Serves(r) /\ Others(r)
        /\ room[r].journaled \in Nat /\ room[r].upto \in Nat
        /\ room[r].journaled < room[r].upto
    BY <1>1, <1>3, <1>4, Abandoned, ServingFacts DEF Writing
  <2>3. Content BY DInvSound
  <2>4. p.start = End + 1
    BY <1>7, <1>8, <1>11, <2>2 DEF Follows, Taken, IdTaken, Content
  <2>5. /\ Grows /\ End' = p.end
        /\ \A q \in p.start..p.end : Recoverable'[q] = p.by
    <3>1. UNCHANGED <<row, files>> BY <1>3
    <3>2. QED BY <1>11, <2>1, <2>2, <2>4, <3>1, Lands
  <2>6. Content' BY <2>5, ContentIsNext DEF IInv, Grows
  <2>7. PICK u \in Nat : u = room[r].upto BY <2>2
  <2>8. Agrees(r, u)'
    <3>1. \A q \in 1..room[r].journaled : Recoverable'[q] = LogOf(r)[q]
      BY <1>7, <1>8, <2>3, <2>5, <2>6 DEF Agrees, Grows, Content
    <3>2. LogOf(r)' = LogOf(r) BY <1>2, <1>5 DEF LogOf
    <3>3. \A q \in room[r].journaled + 1 .. u : LogOf(r)[q] = r
      <4>1. /\ Len(room[r].base) <= room[r].journaled /\ Len(room[r].base) \in Nat
            /\ u <= room[r].seq /\ room[r].seq \in Nat
        BY <1>4, <2>2, <2>7, ServingFacts DEF Serves, HostedRooms, Logs
      <4>2. QED BY <2>2, <4>1 DEF LogOf
    <3>4. \A q \in room[r].journaled + 1 .. u : Recoverable'[q] = r BY <2>2, <2>5, <2>7
    <3>5. \A q \in 1..u : Recoverable'[q] = LogOf(r)'[q] BY <2>2, <3>1, <3>2, <3>3, <3>4
    <3>6. u <= Len(Recoverable') BY <2>2, <2>5, <2>6, <2>7 DEF Content
    <3>7. QED BY <3>5, <3>6 DEF Agrees
  <2>9. Follows(u)' BY <2>2, <2>5, <2>7 DEF Follows
  <2>10. \A p2 \in late' : Harmless(p2)'
    <3> TAKE p2 \in late'
    <3>1. p2 \in Packets /\ Harmless(p2) BY <1>3 DEF IInv, StorageOK, DInv, Stored
    <3>2. QED BY <2>1, <2>2, <2>5, <3>1, HarmlessKept
  <2>11. \A p2 \in journal' \cup late' :
           p2 \in journal \cup late \/ (p2.by = r /\ p2.start <= p2.end)
    BY <1>3, <2>1, <2>2
  <2>12. /\ u = IF h.phase = "acked" THEN h.upto ELSE h.journaled
         /\ h.durable <= u /\ row'.meta
         /\ Len(row'.log) <= h.journaled /\ Len(h.base) <= h.journaled
         /\ \E p2 \in journal' : p2.start = h.journaled + 1
         /\ \A s \in Rooms : room[s].durable <= h.journaled
         /\ \A p2 \in late' : p2.by = r => p2.end <= h.seq
    <3>1. h.durable \in Nat BY <1>5 DEF HostedRooms
    <3>2. u = (IF h.phase = "acked" THEN h.upto ELSE h.journaled) /\ h.durable <= u
      BY <1>5, <1>9, <2>1, <2>2, <2>7, <3>1
    <3>3. QED BY <1>3, <1>5, <2>1, <2>2, <3>2 DEF Serves
  <2>13. h.target > 0 => /\ Len(row'.log) <= h.target
                         /\ \A p2 \in late' : p2.by = r /\ p2.end <= h.target
    BY <1>3, <1>9
  <2>14. QED
    BY <1>5, <1>6, <1>9, <2>2, <2>5, <2>8, <2>9, <2>10, <2>11, <2>12, <2>13, GoesOn
<1>12. QED BY <1>10, <1>11

\* What was written is announced.
LEMMA AppendIsAnswered ==
  ASSUME IInv, IInv', DInv, NEW r \in Rooms, AppendAnswered(r)
  PROVE  DInv' /\ Adds
<1>1. PICK saving : saving = (room[r].target > 0 /\ room[r].status # "closed") OBVIOUS
<1>2. PICK g : g = [room[r] EXCEPT
           !.journaled = room[r].upto,
           !.durable = room[r].upto,
           !.first = IF room[r].first = 0 THEN room[r].journaled + 1 ELSE room[r].first,
           !.upto = 0,
           !.phase = IF saving THEN "upload" ELSE "idle",
           !.target = IF saving THEN room[r].target ELSE 0,
           !.status = IF room[r].status = "stopping" THEN "closed" ELSE room[r].status]
  OBVIOUS
<1>3. /\ room' = [room EXCEPT ![r] = Settled(g)] /\ room[r].phase = "acked"
      /\ row' = row /\ files' = files /\ journal' = journal /\ late' = late
  BY <1>1, <1>2 DEF AppendAnswered, NowDurable
<1>4. Serving(room[r])
  <2>1. RoomOK(room[r]) BY DEF IInv
  <2>2. room[r].status # "initial" BY <1>3, <2>1 DEF RoomOK, Writing
  <2>3. QED BY <1>3, <2>2, Busy
<1>5. room[r] \in HostedRooms /\ room[r].status \in Statuses BY DEF IInv, HostedRooms
<1>6. /\ g \in HostedRooms
      /\ g.phase = IF saving THEN "upload" ELSE "idle"
      /\ g.target = IF saving THEN room[r].target ELSE 0
      /\ g.status = IF room[r].status = "stopping" THEN "closed" ELSE room[r].status
      /\ g.base = room[r].base /\ g.durable = room[r].upto /\ g.file = room[r].file
      /\ g.seq = room[r].seq /\ g.journaled = room[r].upto
  <2>1. PICK a, b, c, d :
          /\ a = (IF room[r].first = 0 THEN room[r].journaled + 1 ELSE room[r].first)
          /\ b = (IF saving THEN "upload" ELSE "idle")
          /\ c = (IF saving THEN room[r].target ELSE 0)
          /\ d = (IF room[r].status = "stopping" THEN "closed" ELSE room[r].status)
    OBVIOUS
  <2>2. a \in Nat /\ b \in Phases /\ c \in Nat /\ d \in Statuses
    BY <1>5, <2>1 DEF HostedRooms, Phases, Statuses
  <2>3. g = [room[r] EXCEPT !.journaled = room[r].upto, !.durable = room[r].upto,
               !.first = a, !.upto = 0, !.phase = b, !.target = c, !.status = d]
    BY <1>2, <2>1
  <2>4. g \in HostedRooms BY <1>5, <2>2, <2>3 DEF HostedRooms
  <2>5. /\ g.phase = b /\ g.target = c /\ g.status = d
        /\ g.base = room[r].base /\ g.durable = room[r].upto /\ g.file = room[r].file
        /\ g.seq = room[r].seq /\ g.journaled = room[r].upto
    BY <1>5, <2>3 DEF HostedRooms
  <2>6. QED BY <2>1, <2>4, <2>5
<1>7. PICK w \in Nat : w = room[r].upto BY <1>4, ServingFacts
<1>8. Agrees(r, w) /\ Follows(w) /\ w <= room[r].seq
  BY <1>3, <1>4, <1>7, ServingFacts DEF Written
<1>9. UNCHANGED <<row, journal>> /\ row.meta /\ row.file \in files' 
  BY <1>3, <1>4, ServingFacts
<1>10. CASE g.status = "closed" /\ g.phase = "idle"
  <2>1. Grows /\ Recoverable' = Recoverable BY <1>9, Still
  <2>2. \A p \in late' : p \in late \/ (/\ p = PacketOf(r) /\ room[r].phase = "append"
                                        /\ Serving(room[r]))
    BY <1>3
  <2>3. /\ \A p \in late' : Harmless(p)'
        /\ \A p \in journal' \cup late' :
             p \in journal \cup late \/ (p.by = r /\ p.start <= p.end)
    BY <1>9, <2>2, LateStill
  <2>4. /\ Agrees(r, g.durable) /\ g.durable <= room[r].seq
        /\ room[r].durable <= g.durable
    BY <1>3, <1>4, <1>6, <1>7, <1>8, ServingFacts DEF Writing
  <2>5. room[r].status # "new" /\ ~Over(room[r]) /\ row'.meta
    BY <1>3, <1>4, <1>9, ServingFacts
  <2>6. QED BY <1>3, <1>6, <1>10, <2>1, <2>3, <2>4, <2>5, Ends
<1>11. CASE ~(g.status = "closed" /\ g.phase = "idle")
  <2>1. room' = [room EXCEPT ![r] = g] BY <1>3, <1>11 DEF Settled
  <2>2. Serving(g) BY <1>4, <1>6, <1>11 DEF Serving
  <2>3. /\ w = IF g.phase = "acked" THEN g.upto ELSE g.journaled
        /\ g.phase \notin {"acked", "update", "pruneFiles", "pruneJournal"}
    BY <1>6, <1>7
  <2>4. /\ g.durable <= w /\ g.durable <= g.journaled /\ g.journaled <= g.seq
        /\ room[r].durable <= g.durable
        /\ room[r].journaled <= g.journaled /\ room[r].seq <= g.seq /\ g.file = NoFile
    BY <1>3, <1>4, <1>6, <1>7, <1>8, ServingFacts DEF Writing
  <2>5. /\ g.target > 0 => /\ Len(row.log) <= g.target
                           /\ \A p \in late' : p.by = r /\ p.end <= g.target
        /\ g.phase \in Saving => g.target > 0 /\ g.target <= g.journaled
    <3>1. CASE saving BY <1>1, <1>3, <1>4, <1>6, <3>1, ServingFacts DEF Writing, Saving
    <3>2. CASE ~saving BY <1>6, <3>2 DEF Saving
    <3>3. QED BY <3>1, <3>2
  <2>6. \A p \in late' : p \in late \/ (p = PacketOf(r) /\ room[r].phase = "append")
    BY <1>3
  <2>7. QED
    BY <1>4, <1>6, <1>8, <1>9, <2>1, <2>2, <2>3, <2>4, <2>5, <2>6, Quiet
<1>12. QED BY <1>10, <1>11
-----------------------------------------------------------------------------
(* Checkpoints                                                             *)

\* What is known of a room that makes the first checkpoint.
LEMMA FirstFacts ==
  ASSUME IInv, DInv, NEW r \in Rooms, room[r].status = "initial"
  PROVE  /\ room[r] \in HostedRooms /\ RoomOK(room[r]) /\ First(r) /\ Others(r)
         /\ ~Over(room[r]) /\ room[r].journaled = room[r].seq /\ room[r].seq \in Nat
         /\ room[r].durable = 0 /\ room[r].phase \in {"idle"} \cup Saving
         /\ room[r].phase # "idle" => room[r].target = room[r].seq
         /\ journal = {} /\ late = {}
<1>1. room[r] \in HostedRooms /\ RoomOK(room[r]) /\ First(r) BY DEF IInv, DInv, Live
<1>2. ~Over(room[r]) /\ Others(r) BY OnlyOne DEF Over
<1>3. room[r].journaled = room[r].seq /\ room[r].seq \in Nat BY <1>1 DEF RoomOK, HostedRooms
<1>4. room[r].phase \in {"idle"} \cup Saving
  <2>1. room[r].phase \notin Writing BY <1>1 DEF RoomOK
  <2>2. room[r].phase \in Phases BY <1>1 DEF HostedRooms
  <2>3. QED BY <2>1, <2>2 DEF Phases, Writing, Saving
<1>5. QED BY <1>1, <1>2, <1>3, <1>4 DEF First

\* The first checkpoint goes on; nothing is stored yet.
LEMMA FirstStill ==
  ASSUME IInv, IInv', DInv, NEW r \in Rooms, room[r].status = "initial",
         room[r].phase \in {"idle", "upload"}, NEW h \in HostedRooms,
         room' = [room EXCEPT ![r] = h], UNCHANGED <<row, journal, late>>,
         h.status = "initial", h.phase \in {"upload", "update"},
         h.seq = room[r].seq, h.durable = room[r].durable, h.target = h.seq,
         h.phase = "upload" => h.file = NoFile,
         h.phase = "update" => h.file \in files' \ {row.file}
  PROVE  DInv' /\ Adds
<1>1. ~row.meta /\ journal = {} /\ late = {} /\ \A s \in Rooms : room[s].durable = 0
  BY FirstFacts DEF First
<1>2. Grows /\ Recoverable' = Recoverable BY <1>1, Still
<1>3. Content' BY <1>2, ContentIsNext DEF IInv, Grows
<1>4. room'[r] = h /\ h.durable = 0 /\ 0 <= h.seq BY <1>1 DEF IInv, HostedRooms
<1>5. Agrees(r, 0)' BY <1>3 DEF Agrees, Content
<1>6. \A s \in Rooms : room'[s].durable = 0 BY <1>1, <1>4 DEF IInv
<1>7. First(r)' BY <1>1, <1>4, <1>6 DEF First, Rooms
<1>8. Live(r)' BY <1>4, <1>7 DEF Live, Serving
<1>9. Others(r) BY FirstFacts
<1>10. ~Serving(h) /\ h.status # "reading" /\ h.status # "new" BY DEF Serving
<1>11. /\ journal' = {} /\ late' = {} /\ row' = row
       /\ h.phase \in {"idle", "upload", "update"} /\ h.phase # "pruneFiles"
       /\ h.phase \notin {"update", "pruneFiles"} => h.file = NoFile
       /\ h.phase = "update" => h.file \in files' \ {row'.file}
  BY <1>1
<1>12. /\ \A p \in late' : Harmless(p)'
       /\ \A p \in journal' \cup late' :
            p \in journal \cup late \/ (p.by = r /\ p.start <= p.end)
  BY <1>11
<1>13. ~row'.meta => /\ late' = {} /\ h.durable = 0
                     /\ ~Serving(h) /\ h.status # "reading"
                     /\ h.phase \in {"idle", "upload", "update"}
  BY <1>4, <1>10, <1>11
<1>14. h.phase = "pruneFiles" => h.file = row'.file BY <1>11
<1>15. PICK k \in Nat : /\ k = h.durable /\ k <= h.seq /\ Agrees(r, k)'
                        /\ room[r].durable <= k
  BY <1>4, <1>5
<1>16. QED
  BY <1>2, <1>8, <1>9, <1>10, <1>11, <1>12, <1>13, <1>14, <1>15, Keeps

LEMMA CheckpointStarts ==
  ASSUME IInv, IInv', DInv, NEW r \in Rooms, CheckpointStart(r)
  PROVE  DInv' /\ Adds
<1>1. PICK h : h = room'[r] OBVIOUS
<1>2. /\ room[r].status \in {"open", "initial"} /\ room[r].phase = "idle"
      /\ room[r].seq > room[r].saved
      /\ room[r].status = "open" => \A p \in late : p.by >= r
      /\ row' = row /\ files' = files /\ journal' = journal /\ late' = late
  BY DEF CheckpointStart
<1>3. /\ room' = [room EXCEPT ![r] = h] /\ h \in HostedRooms
      /\ h.phase = IF room[r].seq > room[r].journaled THEN "append" ELSE "upload"
      /\ h.target = room[r].seq /\ h.status = room[r].status
      /\ h.base = room[r].base /\ h.durable = room[r].durable /\ h.file = room[r].file
      /\ h.seq = room[r].seq /\ h.journaled = room[r].journaled
  BY <1>1 DEF CheckpointStart, FirstStep, IInv, HostedRooms
<1>4. UNCHANGED <<row, journal>> /\ UNCHANGED <<row, journal, late>> BY <1>2
<1>5. room[r].file = NoFile BY <1>2 DEF DInv, Snapshots
<1>6. CASE room[r].status = "initial"
  <2>1. ~(room[r].seq > room[r].journaled) BY <1>6, FirstFacts
  <2>2. h.phase = "upload" BY <1>3, <2>1
  <2>3. QED BY <1>2, <1>3, <1>4, <1>5, <1>6, <2>2, FirstStill
<1>7. CASE room[r].status = "open"
  <2>1. Serving(room[r]) /\ Serving(h) BY <1>3, <1>7 DEF Serving
  <2>2. PICK w \in Nat : w = Written(r) /\ Agrees(r, w) /\ Follows(w) /\ w <= room[r].seq
    BY <2>1, ServingFacts
  <2>3. w = room[r].journaled BY <1>2, <2>2 DEF Written
  <2>4. /\ h.phase \notin {"acked", "update", "pruneFiles", "pruneJournal"}
        /\ w = IF h.phase = "acked" THEN h.upto ELSE h.journaled
    BY <1>3, <2>3
  <2>5. /\ h.durable <= w /\ h.durable <= h.journaled /\ h.journaled <= h.seq
        /\ room[r].durable <= h.durable
        /\ room[r].journaled <= h.journaled /\ room[r].seq <= h.seq /\ row.file \in files'
    BY <1>2, <1>3, <2>1, <2>3, ServingFacts
  <2>6. \A p \in late' : p.by = r
    <3> TAKE p \in late'
    <3>1. p \in late /\ p.by \in Rooms /\ p.by >= r /\ room[p.by].status # "new"
      BY <1>2, <1>7 DEF IInv, StorageOK, Packets, DInv, Successive
    <3>2. ~(r < p.by) BY <2>1, <3>1, ServingFacts DEF Others
    <3>3. QED BY <3>1, <3>2, NRoomsAssumption DEF Rooms
  <2>7. Len(row.log) <= h.target /\ \A p \in late' : p.by = r /\ p.end <= h.target
    <3>1. Serves(r) BY <2>1, ServingFacts
    <3>2. Len(row.log) \in Nat /\ room[r].journaled \in Nat /\ room[r].seq \in Nat
      BY <2>1, ServingFacts, DInvSound DEF Content
    <3>3. Len(row.log) <= h.target BY <1>3, <3>1, <3>2 DEF Serves
    <3>4. \A p \in late' : p.by = r /\ p.end <= h.target BY <1>2, <1>3, <2>6, <3>1 DEF Serves
    <3>5. QED BY <3>3, <3>4
  <2>8. h.phase \in Saving => h.target > 0 /\ h.target <= h.journaled
    <3>1. room[r].seq > 0 BY <1>2 DEF IInv, HostedRooms
    <3>2. room[r].seq \in Nat /\ room[r].journaled \in Nat BY <2>1, ServingFacts
    <3>3. QED BY <1>3, <3>1, <3>2 DEF Saving
  <2>9. \A p \in late' : p \in late \/ (p = PacketOf(r) /\ room[r].phase = "append")
    BY <1>2
  <2>10. h.file = NoFile BY <1>3, <1>5
  <2>11. QED
    BY <1>3, <1>4, <2>1, <2>2, <2>4, <2>5, <2>7, <2>8, <2>9, <2>10, Quiet
<1>8. QED BY <1>2, <1>6, <1>7

LEMMA Uploads ==
  ASSUME IInv, IInv', DInv, NEW r \in Rooms, Upload(r)
  PROVE  DInv' /\ Adds
<1>1. PICK h : h = room'[r] OBVIOUS
<1>2. PICK f : f = CHOOSE f2 \in FileIds \ InUse : TRUE OBVIOUS
<1>3. /\ room[r].phase = "upload" /\ f \in FileIds \ InUse
      /\ row' = row /\ journal' = journal /\ late' = late /\ files' = files \cup {f}
      /\ room' = [room EXCEPT ![r].file = f, ![r].phase = "update"]
  BY <1>2 DEF Upload
<1>4. /\ room' = [room EXCEPT ![r] = h] /\ h \in HostedRooms
      /\ h.phase = "update" /\ h.file = f
      /\ h.target = room[r].target /\ h.status = room[r].status
      /\ h.base = room[r].base /\ h.durable = room[r].durable
      /\ h.seq = room[r].seq /\ h.journaled = room[r].journaled
  BY <1>1, <1>3 DEF IInv, HostedRooms
<1>5. UNCHANGED <<row, journal>> /\ UNCHANGED <<row, journal, late>> BY <1>3
<1>6. h.file \in files' \ {row.file} BY <1>3, <1>4 DEF InUse
<1>7. CASE room[r].status = "initial"
  <2>1. h.target = h.seq BY <1>3, <1>4, <1>7, FirstFacts
  <2>2. /\ room[r].phase \in {"idle", "upload"} /\ h.phase \in {"upload", "update"}
        /\ h.status = "initial" /\ h.phase # "upload"
    BY <1>3, <1>4, <1>7
  <2>3. room' = [room EXCEPT ![r] = h] BY <1>4
  <2>4. QED BY ONLY IInv, IInv', DInv, <1>4, <1>5, <1>6, <1>7, <2>1, <2>2, <2>3, FirstStill
<1>8. CASE room[r].status # "initial"
  <2>1. Serving(room[r]) BY <1>3, <1>8, Busy
  <2>2. Serving(h) BY <1>4, <2>1 DEF Serving
  <2>3. PICK w \in Nat : w = Written(r) /\ Agrees(r, w) /\ Follows(w) /\ w <= room[r].seq
    BY <2>1, ServingFacts
  <2>4. w = IF h.phase = "acked" THEN h.upto ELSE h.journaled BY <1>3, <1>4, <2>3 DEF Written
  <2>5. /\ h.durable <= w /\ h.durable <= h.journaled /\ h.journaled <= h.seq
        /\ room[r].durable <= h.durable
        /\ room[r].journaled <= h.journaled /\ room[r].seq <= h.seq /\ row.file \in files'
    BY <1>3, <1>4, <2>1, <2>4, ServingFacts
  <2>6. /\ h.target > 0 => /\ Len(row.log) <= h.target
                           /\ \A p \in late' : p.by = r /\ p.end <= h.target
        /\ h.target > 0 /\ h.target <= h.journaled
    BY <1>3, <1>4, <2>1, ServingFacts DEF Saving
  <2>7. \A p \in late' : p \in late \/ (p = PacketOf(r) /\ room[r].phase = "append")
    BY <1>3
  <2>8. h.phase \notin {"acked", "pruneFiles", "pruneJournal"} BY <1>4
  <2>9. QED
    BY <1>4, <1>5, <1>6, <2>1, <2>2, <2>3, <2>4, <2>5, <2>6, <2>7, <2>8, Quiet
<1>9. QED BY <1>7, <1>8

LEMMA CheckpointFails ==
  ASSUME IInv, IInv', DInv, Alone, NEW r \in Rooms, CheckpointFailed(r)
  PROVE  DInv' /\ Adds
<1>1. PICK status : status = IF room[r].status = "initial" THEN "closed" ELSE room[r].status
  OBVIOUS
<1>2. PICK g : g = [room[r] EXCEPT !.phase = "idle", !.target = 0, !.file = NoFile,
                                   !.status = status]
  OBVIOUS
<1>3. /\ room' = [room EXCEPT ![r] = Settled(g)]
      /\ room[r].phase \in {"upload", "update"}
      /\ files' \in {files, files \ {room[r].file}}
      /\ journal' = journal /\ late' = late
  BY <1>1, <1>2 DEF CheckpointFailed
<1>4. row' = row BY DEF CheckpointFailed, RowsAfterFailure, Alone
<1>5. room[r] \in HostedRooms /\ RoomOK(room[r]) /\ status \in Statuses
  BY <1>1 DEF IInv, HostedRooms, Statuses
<1>6. g \in HostedRooms BY <1>2, <1>5 DEF HostedRooms, Phases
<1>7. /\ g.phase = "idle" /\ g.target = 0 /\ g.file = NoFile /\ g.status = status
      /\ g.base = room[r].base /\ g.durable = room[r].durable
      /\ g.seq = room[r].seq /\ g.journaled = room[r].journaled
  BY <1>2, <1>5 DEF HostedRooms
<1>8. row.meta => row.file \in files'
  <2>1. row.meta => room[r].file # row.file /\ row.file \in files
    BY <1>3, FileAssumption DEF DInv, Snapshots, IInv, StorageOK
  <2>2. QED BY <1>3, <2>1
<1>9. room[r].status # "initial" => Serving(room[r])
  BY <1>3, Busy
<1>10. room[r].status # "new" /\ ~Over(room[r])
  BY <1>3, <1>9, Busy, FirstFacts
<1>11. UNCHANGED <<row, journal>>
       /\ \A p \in late' : p \in late \/ (/\ p = PacketOf(r) /\ room[r].phase = "append"
                                         /\ Serving(room[r]))
  BY <1>3, <1>4
<1>12. CASE status = "closed"
  BY <1>3, <1>6, <1>7, <1>8, <1>10, <1>11, <1>12, LifeEnds
<1>13. CASE status # "closed"
  <2>1. room' = [room EXCEPT ![r] = g] BY <1>3, <1>7, <1>13 DEF Settled
  <2>2. Serving(room[r]) /\ Serving(g) BY <1>1, <1>7, <1>9, <1>13 DEF Serving
  <2>3. PICK w \in Nat : w = Written(r) /\ Agrees(r, w) /\ Follows(w) /\ w <= room[r].seq
    BY <2>2, ServingFacts
  <2>4. w = IF g.phase = "acked" THEN g.upto ELSE g.journaled
    BY <1>3, <1>7, <2>3 DEF Written
  <2>5. /\ g.durable <= w /\ g.durable <= g.journaled /\ g.journaled <= g.seq
        /\ room[r].durable <= g.durable
        /\ room[r].journaled <= g.journaled /\ room[r].seq <= g.seq /\ row.file \in files'
    BY <1>7, <1>8, <2>2, <2>4, ServingFacts
  <2>6. g.phase \notin Saving \cup {"acked", "update", "pruneFiles", "pruneJournal"}
        /\ ~(g.target > 0)
    BY <1>7 DEF Saving
  <2>7. QED
    BY <1>6, <1>7, <1>11, <2>1, <2>2, <2>3, <2>4, <2>5, <2>6, Quiet
<1>14. QED BY <1>12, <1>13

\* What a checkpoint writes.
LEMMA SavedContent ==
  ASSUME NEW r \in Rooms, room[r] \in HostedRooms, RoomOK(room[r]),
         NEW n \in Nat, n = room[r].target
  PROVE  /\ Len(SavedRow(r).log) = n
         /\ \A q \in 1..n : SavedRow(r).log[q] = LogOf(r)[q]
<1>1. room[r].seq \in Nat /\ n <= room[r].seq BY DEF HostedRooms, RoomOK
<1>2. SavedRow(r).log = SubSeq(LogOf(r), 1, n) BY DEF SavedRow
<1>3. SubSeq(LogOf(r), 1, n) = [q \in 1..n |-> LogOf(r)[q]]
  BY <1>1 DEF LogOf
<1>4. PICK S : S = {LogOf(r)[q] : q \in 1..n} OBVIOUS
<1>5. PICK f : f = [q \in 1..n |-> LogOf(r)[q]] OBVIOUS
<1>6. f \in [1..n -> S] BY <1>4, <1>5
<1>7. Len(f) = n BY <1>6, FunctionIsSeq
<1>8. QED BY <1>2, <1>3, <1>5, <1>7

\* The row names the new checkpoint: nothing of the content changes.
LEMMA Updates ==
  ASSUME IInv, IInv', DInv, NEW r \in Rooms, Update(r)
  PROVE  DInv' /\ Adds
<1>1. PICK h : h = room'[r] OBVIOUS
<1>2. /\ room[r].phase = "update" /\ row' = SavedRow(r)
      /\ files' = files /\ journal' = journal /\ late' = late
  BY DEF Update
<1>3. /\ room' = [room EXCEPT ![r] = h] /\ h \in HostedRooms
      /\ h.phase = "pruneFiles" /\ h.file = room[r].file
      /\ h.target = room[r].target /\ h.status = room[r].status
      /\ h.base = room[r].base /\ h.durable = room[r].durable
      /\ h.seq = room[r].seq /\ h.journaled = room[r].journaled
  BY <1>1 DEF Update, IInv, HostedRooms
<1>4. room[r] \in HostedRooms /\ RoomOK(room[r]) BY DEF IInv
<1>5. PICK n \in Nat : n = room[r].target BY <1>4 DEF HostedRooms
<1>6. /\ Len(row'.log) = n /\ \A q \in 1..n : row'.log[q] = LogOf(r)[q]
      /\ row'.meta /\ row'.file = room[r].file
  BY <1>2, <1>4, <1>5, SavedContent DEF SavedRow
<1>7. row'.file \in files' /\ room[r].file \in files
  BY <1>2, <1>6 DEF DInv, Snapshots
<1>8. Sound /\ Content BY DInvSound
<1>9. LogOf(r)' = LogOf(r) BY <1>1, <1>3 DEF LogOf
<1>10. CASE room[r].status = "initial"
  <2>1. /\ First(r) /\ ~row.meta /\ journal = {} /\ late = {} /\ Others(r)
        /\ n = room[r].seq /\ \A s \in Rooms : room[s].durable = 0
    BY <1>2, <1>5, <1>10, FirstFacts DEF First
  <2>2. /\ Grows /\ Len(Recoverable') = n
        /\ \A q \in 1..n : Recoverable'[q] = LogOf(r)[q]
    BY <1>2, <1>6, <1>7, <2>1, Saves
  <2>3. Agrees(r, n)' BY <1>9, <2>2 DEF Agrees
  <2>4. Agrees(r, 0)' BY <2>3 DEF Agrees
  <2>5. room'[r] = h /\ h.durable = 0 /\ 0 <= h.seq BY <1>3, <2>1 DEF IInv, HostedRooms
  <2>6. \A s \in Rooms : room'[s].durable = 0 BY <1>3, <2>1, <2>5 DEF IInv
  <2>7. First(r)'
    <3>1. Agrees(r, room[r].seq)' BY <1>3, <2>1, <2>3, <2>5 DEF Agrees
    <3>2. QED BY <1>2, <1>3, <1>5, <1>6, <2>1, <2>5, <2>6, <3>1 DEF First, Rooms
  <2>8. Live(r)' BY <1>3, <1>10, <2>5, <2>7 DEF Live, Serving
  <2>9. /\ \A p \in late' : Harmless(p)'
        /\ \A p \in journal' \cup late' :
             p \in journal \cup late \/ (p.by = r /\ p.start <= p.end)
        /\ h.status # "new" /\ h.file = row'.file
    BY <1>2, <1>3, <1>6, <1>10, <2>1
  <2>10. PICK k \in Nat : /\ k = h.durable /\ k <= h.seq /\ Agrees(r, k)'
                          /\ room[r].durable <= k /\ k = room[r].durable
    BY <1>3, <2>4, <2>5
  <2>11. h.phase \notin {"update"} BY <1>3
  <2>12. QED BY <1>3, <1>6, <2>1, <2>2, <2>8, <2>9, <2>10, <2>11, Keeps
<1>11. CASE room[r].status # "initial"
  <2>1. Serving(room[r]) BY <1>2, <1>11, Busy
  <2>2. Serving(h) /\ Serves(r) /\ row.meta /\ Others(r)
    BY <1>2, <1>3, <2>1, ServingFacts DEF Serving
  <2>3. PICK w \in Nat : w = room[r].journaled /\ Agrees(r, w) /\ Follows(w) /\ w <= room[r].seq
    <3>1. Written(r) = room[r].journaled BY <1>2 DEF Written
    <3>2. QED BY <2>1, <3>1, ServingFacts
  <2>4. Len(row.log) <= n /\ n <= w /\ n > 0
    BY <1>2, <1>5, <2>1, <2>3, ServingFacts DEF Saving
  <2>5. Grows
    <3>1. w <= End /\ End \in Nat BY <1>8, <2>3 DEF Agrees, Content
    <3>2. \A q \in 1..n : row'.log[q] = Recoverable[q]
      BY <1>6, <2>3, <2>4 DEF Agrees
    <3>3. Len(row.log) <= Len(row'.log) /\ Len(row'.log) <= End BY <1>6, <2>3, <2>4, <3>1
    <3>4. QED BY <1>2, <1>6, <1>7, <3>2, <3>3, Saves
  <2>6. Content' BY <2>5, ContentIsNext DEF IInv, Grows
  <2>7. Agrees(r, w)' BY <1>8, <1>9, <2>3, <2>5, <2>6, AgreesKept
  <2>8. Follows(w)' BY <1>6, <2>2, <2>3, <2>4, <2>5, FollowsKept
  <2>9. \A p \in late' : p.by = r /\ p.end <= n
    BY <1>2, <1>5, <2>1, <2>4, ServingFacts
  <2>10. \A p \in late' : Harmless(p)'
    <3> TAKE p \in late'
    <3>1. p \in Packets /\ Harmless(p) BY <1>2 DEF IInv, StorageOK, DInv, Stored
    <3>2. p.end <= Len(row'.log) BY <1>6, <2>9
    <3>3. QED BY <2>2, <2>5, <3>1, <3>2, HarmlessKept
  <2>11. \A p \in journal' \cup late' :
           p \in journal \cup late \/ (p.by = r /\ p.start <= p.end)
    BY <1>2
  <2>12. /\ w = IF h.phase = "acked" THEN h.upto ELSE h.journaled
         /\ h.durable <= w /\ h.durable <= h.journaled /\ h.journaled <= h.seq
        /\ room[r].durable <= h.durable
         /\ Len(row'.log) <= h.journaled /\ Len(h.base) <= h.journaled
         /\ \A s \in Rooms : room[s].durable <= h.journaled
    BY <1>3, <1>6, <2>1, <2>2, <2>3, <2>4, ServingFacts DEF Serves
  <2>13. \A p \in late' : p.by = r => p.end <= h.seq
    BY <1>2, <1>3, <2>2 DEF Serves
  <2>14. /\ h.target > 0 => /\ Len(row'.log) <= h.target
                            /\ \A p \in late' : p.by = r /\ p.end <= h.target
         /\ h.target > 0 /\ h.target <= h.journaled /\ Len(row'.log) = h.target
    BY <1>3, <1>5, <1>6, <2>3, <2>4, <2>9
  <2>15. h.phase \notin {"acked", "update"} /\ h.file = row'.file BY <1>3, <1>6
  <2>16. QED
    BY <1>3, <1>6, <2>2, <2>5, <2>7, <2>8, <2>10, <2>11, <2>12, <2>13, <2>14, <2>15, GoesOn
<1>12. QED BY <1>10, <1>11

LEMMA FilesPruned ==
  ASSUME IInv, IInv', DInv, NEW r \in Rooms, PruneFiles(r)
  PROVE  DInv' /\ Adds
<1>1. PICK h : h = room'[r] OBVIOUS
<1>2. /\ room[r].phase = "pruneFiles" /\ room[r].file = row.file
      /\ row' = row /\ journal' = journal /\ late' = late
  BY DEF PruneFiles, DInv, Snapshots
<1>3. /\ room' = [room EXCEPT ![r] = h] /\ h \in HostedRooms
      /\ h.phase = "pruneJournal" /\ h.file = NoFile
      /\ h.target = room[r].target /\ h.status = room[r].status
      /\ h.base = room[r].base /\ h.durable = room[r].durable
      /\ h.seq = room[r].seq /\ h.journaled = room[r].journaled
  BY <1>1 DEF PruneFiles, IInv, HostedRooms
<1>4. row.meta => row.file \in files'
  BY <1>2 DEF PruneFiles, DInv, Snapshots
<1>5. UNCHANGED <<row, journal>> BY <1>2
<1>6. LogOf(r)' = LogOf(r) BY <1>1, <1>3 DEF LogOf
<1>7. CASE room[r].status = "initial"
  <2>1. /\ First(r) /\ row.meta /\ journal = {} /\ late = {} /\ Others(r)
        /\ Len(row.log) = room[r].seq /\ Agrees(r, room[r].seq)
        /\ room[r].target = room[r].seq
        /\ room[r].journaled = room[r].seq /\ \A s \in Rooms : room[s].durable = 0
    BY <1>2, <1>7, FirstFacts DEF First
  <2>2. Grows /\ Recoverable' = Recoverable BY <1>4, <1>5, Still
  <2>3. room'[r] = h /\ h.durable = 0 /\ 0 <= h.seq BY <1>3, <2>1 DEF IInv, HostedRooms
  <2>4. \A s \in Rooms : room'[s].durable = 0 BY <1>3, <2>1, <2>3 DEF IInv
  <2>5. Agrees(r, room[r].seq)' BY <1>3, <1>6, <2>1, <2>2, <2>3 DEF Agrees
  <2>6. First(r)' BY <1>2, <1>3, <2>1, <2>3, <2>4, <2>5 DEF First, Rooms
  <2>7. Live(r)' BY <1>3, <1>7, <2>3, <2>6 DEF Live, Serving
  <2>8. PICK k \in Nat : /\ k = h.durable /\ k <= h.seq /\ Agrees(r, k)'
                         /\ room[r].durable <= k
    <3>1. Content' BY <2>2, ContentIsNext DEF IInv, Grows
    <3>2. Agrees(r, 0)' BY <3>1 DEF Agrees, Content
    <3>3. QED BY <1>3, <2>3, <3>2
  <2>9. /\ \A p \in late' : Harmless(p)'
        /\ \A p \in journal' \cup late' :
             p \in journal \cup late \/ (p.by = r /\ p.start <= p.end)
        /\ h.status # "new" /\ h.phase \notin {"update", "pruneFiles"} /\ row'.meta
    BY <1>2, <1>3, <1>7, <2>1
  <2>10. QED BY <1>3, <2>1, <2>2, <2>7, <2>8, <2>9, Keeps
<1>8. CASE room[r].status # "initial"
  <2>1. Serving(room[r]) BY <1>2, <1>8, Busy
  <2>2. Serving(h) BY <1>2, <1>3, <2>1 DEF Serving
  <2>3. PICK w \in Nat : w = Written(r) /\ Agrees(r, w) /\ Follows(w) /\ w <= room[r].seq
    BY <2>1, ServingFacts
  <2>4. w = IF h.phase = "acked" THEN h.upto ELSE h.journaled
    BY <1>2, <1>3, <2>3 DEF Written
  <2>5. /\ h.durable <= w /\ h.durable <= h.journaled /\ h.journaled <= h.seq
        /\ room[r].durable <= h.durable
        /\ room[r].journaled <= h.journaled /\ room[r].seq <= h.seq /\ row.file \in files'
    BY <1>3, <1>4, <2>1, <2>4, <1>2, ServingFacts
  <2>6. /\ h.target > 0 => /\ Len(row.log) <= h.target
                           /\ \A p \in late' : p.by = r /\ p.end <= h.target
        /\ h.target > 0 /\ h.target <= h.journaled /\ Len(row.log) = h.target
    BY <1>2, <1>3, <2>1, ServingFacts DEF Saving
  <2>7. \A p \in late' : p \in late \/ (p = PacketOf(r) /\ room[r].phase = "append")
    BY <1>2
  <2>8. h.phase \notin {"acked", "update", "pruneFiles"} BY <1>3
  <2>9. QED
    BY <1>3, <1>5, <2>1, <2>2, <2>3, <2>4, <2>5, <2>6, <2>7, <2>8, Quiet
<1>9. QED BY <1>7, <1>8

\* The packets of the checkpoint go; the room opens if it was the first one.
LEMMA JournalPruned ==
  ASSUME IInv, IInv', DInv, NEW r \in Rooms, PruneJournal(r)
  PROVE  DInv' /\ Adds
<1>1. PICK first : first = (room[r].status = "initial") OBVIOUS
<1>2. PICK g : g = [room[r] EXCEPT !.phase = "idle", !.target = 0,
                      !.durable = IF first THEN room[r].seq ELSE room[r].durable,
                      !.status = IF first THEN "open" ELSE room[r].status]
  OBVIOUS
<1>3. /\ room' = [room EXCEPT ![r] = Settled(g)]
      /\ room[r].phase = "pruneJournal"
      /\ row' = row /\ files' = files /\ late' = late
      /\ journal' \subseteq journal
      /\ \A p \in journal \ journal' : p.end <= room[r].target
  BY <1>1, <1>2 DEF PruneJournal, Prunable
<1>4. room[r] \in HostedRooms /\ RoomOK(room[r]) BY DEF IInv
<1>5. /\ g \in HostedRooms
      /\ g.phase = "idle" /\ g.target = 0 /\ g.file = room[r].file
      /\ g.status = IF first THEN "open" ELSE room[r].status
      /\ g.durable = IF first THEN room[r].seq ELSE room[r].durable
      /\ g.base = room[r].base /\ g.seq = room[r].seq /\ g.journaled = room[r].journaled
  <2>1. PICK a, b : /\ a = (IF first THEN room[r].seq ELSE room[r].durable)
                    /\ b = (IF first THEN "open" ELSE room[r].status)
    OBVIOUS
  <2>2. a \in Nat /\ b \in Statuses /\ "idle" \in Phases
    BY <1>4, <2>1 DEF HostedRooms, Statuses, Phases
  <2>3. g = [room[r] EXCEPT !.phase = "idle", !.target = 0, !.durable = a, !.status = b]
    BY <1>2, <2>1
  <2>4. g \in HostedRooms BY <1>4, <2>2, <2>3 DEF HostedRooms
  <2>5. /\ g.phase = "idle" /\ g.target = 0 /\ g.file = room[r].file
        /\ g.status = b /\ g.durable = a
        /\ g.base = room[r].base /\ g.seq = room[r].seq /\ g.journaled = room[r].journaled
    BY <1>4, <2>3 DEF HostedRooms
  <2>6. QED BY <2>1, <2>4, <2>5
<1>6. /\ row.meta /\ row.file \in files' /\ Len(row.log) = room[r].target
      /\ ~Over(room[r]) /\ room[r].status # "new" /\ Others(r) /\ room[r].file = NoFile
  <2>1. room[r].file = NoFile BY <1>3 DEF DInv, Snapshots
  <2>2. CASE first
    <3>1. row.meta /\ Len(row.log) = room[r].target
      BY <1>1, <1>3, <2>2, FirstFacts DEF First
    <3>2. row.file \in files' BY <1>3, <3>1 DEF DInv, Snapshots
    <3>3. QED BY <1>1, <2>1, <2>2, <3>1, <3>2, FirstFacts
  <2>3. CASE ~first
    <3>1. Serving(room[r]) BY <1>1, <1>3, <2>3, Busy
    <3>2. QED BY <1>3, <2>1, <3>1, ServingFacts
  <2>4. QED BY <2>2, <2>3
<1>7. Grows /\ Recoverable' = Recoverable
  <2>1. UNCHANGED row /\ \A p \in journal \ journal' : p.end <= Len(row.log)
    BY <1>3, <1>6
  <2>2. QED BY <1>3, <1>6, <2>1, Prunes
<1>8. Content /\ Content' BY <1>7, DInvSound, ContentIsNext DEF IInv, Grows
<1>9. \A p \in journal' \cup late' :
        p \in journal \cup late \/ (p.by = r /\ p.start <= p.end)
  BY <1>3
<1>10. CASE first
  <2>1. /\ First(r) /\ journal = {} /\ late = {}
        /\ Agrees(r, room[r].seq) /\ Len(row.log) = room[r].seq /\ room[r].seq \in Nat
        /\ room[r].journaled = room[r].seq /\ \A s \in Rooms : room[s].durable = 0
    BY <1>1, <1>3, <1>10, FirstFacts DEF First
  <2>2. PICK w \in Nat : w = room[r].seq BY <2>1
  <2>3. room' = [room EXCEPT ![r] = g] BY <1>3, <1>5, <1>10 DEF Settled
  <2>4. room'[r] = g BY <2>3 DEF IInv
  <2>5. Agrees(r, w)'
    <3>1. LogOf(r)' = LogOf(r) BY <1>5, <2>4 DEF LogOf
    <3>2. QED BY <1>7, <2>1, <2>2, <3>1 DEF Agrees
  <2>6. Follows(w)'
    <3>1. journal' = {} BY <1>3, <2>1
    <3>2. row'.log \in Logs /\ Len(row'.log) <= MaxSeq BY DEF IInv, StorageOK, Rows
    <3>3. End' = w BY <1>3, <2>1, <2>2, <3>1, <3>2, AloneContent DEF End
    <3>4. QED BY <2>2, <3>3 DEF Follows
  <2>7. /\ \A p \in late' : Harmless(p)' /\ p.by = r /\ p.end <= g.target
        /\ \A p \in late' : p.by = r => p.end <= g.seq
        /\ Serving(g) /\ row'.meta /\ g.file = NoFile
        /\ g.phase \notin Saving \cup {"acked", "update", "pruneFiles", "pruneJournal"}
        /\ ~(g.target > 0)
    BY <1>3, <1>5, <1>6, <1>10, <2>1 DEF Serving, Saving
  <2>8. /\ w = IF g.phase = "acked" THEN g.upto ELSE g.journaled
        /\ g.durable <= w /\ g.durable <= g.journaled /\ g.journaled <= g.seq
        /\ room[r].durable <= g.durable
        /\ Len(row'.log) <= g.journaled
        /\ \A s \in Rooms : room[s].durable <= g.journaled
    BY <1>3, <1>5, <1>10, <2>1, <2>2
  <2>9. Len(g.base) <= g.journaled BY <1>1, <1>4, <1>5, <1>10 DEF RoomOK
  <2>10. QED
    BY <1>5, <1>6, <1>7, <1>9, <2>3, <2>5, <2>6, <2>7, <2>8, <2>9, GoesOn
<1>11. CASE ~first
  <2>1. Serving(room[r]) BY <1>1, <1>3, <1>11, Busy
  <2>2. \A p \in late' : Harmless(p)'
    <3> TAKE p \in late'
    <3>1. p \in Packets /\ Harmless(p) BY <1>3 DEF IInv, StorageOK, DInv, Stored
    <3>2. p.end <= Len(row'.log) BY <1>3, <1>6, <2>1, ServingFacts DEF Saving
    <3>3. QED BY <1>6, <1>7, <3>1, <3>2, HarmlessKept
  <2>3. CASE g.status = "closed"
    <3>1. /\ Agrees(r, g.durable) /\ g.durable <= room[r].seq
          /\ room[r].durable <= g.durable
      BY <1>5, <1>11 DEF DInv, Stored, IInv, HostedRooms
    <3>2. row'.meta BY <1>3, <1>6
    <3>3. QED BY <1>3, <1>5, <1>6, <1>7, <1>9, <2>2, <2>3, <3>1, <3>2, Ends
  <2>4. CASE g.status # "closed"
    <3>1. room' = [room EXCEPT ![r] = g] BY <1>3, <2>4 DEF Settled
    <3>2. Serving(g) BY <1>5, <1>11, <2>1, <2>4 DEF Serving
    <3>3. PICK w \in Nat : w = room[r].journaled /\ Agrees(r, w) /\ Follows(w)
      <4>1. Written(r) = room[r].journaled BY <1>3 DEF Written
      <4>2. QED BY <2>1, <4>1, ServingFacts
    <3>4. Serves(r) BY <2>1, ServingFacts
    <3>5. LogOf(r)' = LogOf(r)
      <4>1. room'[r] = g BY <3>1 DEF IInv
      <4>2. QED BY <1>5, <4>1 DEF LogOf
    <3>6. Agrees(r, w)' BY <1>8, <1>7, <3>3, <3>5, AgreesKept
    <3>7. Len(row'.log) <= w BY <1>3, <3>3, <3>4 DEF Serves
    <3>8. Follows(w)' BY <1>6, <1>7, <3>3, <3>7, FollowsKept
    <3>9. /\ w = IF g.phase = "acked" THEN g.upto ELSE g.journaled
          /\ g.durable <= w /\ g.durable <= g.journaled /\ g.journaled <= g.seq
        /\ room[r].durable <= g.durable
          /\ Len(row'.log) <= g.journaled /\ Len(g.base) <= g.journaled
          /\ \A s \in Rooms : room[s].durable <= g.journaled
      BY <1>5, <1>11, <2>1, <3>3, <3>4, <3>7, ServingFacts DEF Serves
    <3>10. /\ \A p \in late' : p.by = r => p.end <= g.seq
           /\ row'.meta /\ g.file = NoFile
      BY <1>3, <1>5, <1>6, <3>4 DEF Serves
    <3>11. /\ g.phase \notin Saving \cup {"acked", "update", "pruneFiles", "pruneJournal"}
           /\ ~(g.target > 0)
      BY <1>5 DEF Saving
    <3>12. QED
      BY <1>5, <1>6, <1>7, <1>9, <2>2, <3>1, <3>2, <3>6, <3>8, <3>9, <3>10, <3>11, GoesOn
  <2>5. QED BY <2>3, <2>4
<1>12. QED BY <1>10, <1>11
-----------------------------------------------------------------------------
(* A packet nobody waits for                                               *)

\* It lands after all there is, or where it changes nothing, or never does.
LEMMA LateSettles ==
  ASSUME IInv, IInv', DInv, NEW p \in late, LateArrives(p) \/ LateLost(p)
  PROVE  DInv' /\ Adds
<1>1. /\ row' = row /\ files' = files /\ room' = room /\ late' \subseteq late
      /\ journal' = journal \/ (journal' = journal \cup {p} /\ ~IdTaken(p))
  BY DEF LateArrives, LateLost
<1>2. row.meta BY DEF DInv, Blank
<1>3. /\ p \in Packets /\ p.start <= p.end /\ p.end <= MaxSeq /\ Harmless(p)
  BY DEF IInv, StorageOK, DInv, Successive, Stored
<1>4. Sound /\ Content BY DInvSound
<1>5. Grows
  <2>1. CASE journal' = journal
    <3>1. UNCHANGED <<row, journal>> /\ row.file \in files' BY <1>1, <1>2, <1>4, <2>1 DEF Sound
    <3>2. QED BY <3>1, Still
  <2>2. CASE journal' = journal \cup {p} /\ ~IdTaken(p)
    <3>1. UNCHANGED <<row, files>> BY <1>1
    <3>2. QED BY <1>2, <1>3, <2>2, <3>1, Lands
  <2>3. QED BY <1>1, <2>1, <2>2
<1>6. Content' /\ journal \subseteq journal' BY <1>1, <1>5, ContentIsNext DEF IInv, Grows
<1>7. \A r \in Rooms : LogOf(r)' = LogOf(r) BY <1>1 DEF LogOf
<1>8. ASSUME NEW r \in Rooms, NEW n \in Nat, Agrees(r, n) PROVE Agrees(r, n)'
  BY <1>4, <1>5, <1>6, <1>7, <1>8, AgreesKept
<1>9. ASSUME NEW n \in Nat, Follows(n), Len(row.log) <= n PROVE Follows(n)'
  <2>1. Len(row'.log) <= n BY <1>1, <1>9
  <2>2. QED BY <1>2, <1>5, <1>9, <2>1, FollowsKept
<1>10. \A r \in Rooms : room[r] \in HostedRooms BY DEF IInv
<1>11. Successive'
  <2>1. \A a, b \in Rooms : a < b /\ room'[b].status # "new" => Over(room'[a])
    BY <1>1 DEF DInv, Successive, Over
  <2>2. \A p2 \in journal' \cup late' : room'[p2.by].status # "new" /\ p2.start <= p2.end
    BY <1>1 DEF DInv, Successive
  <2>3. QED BY <2>1, <2>2 DEF Successive, Over, Rooms
<1>12. Blank' BY <1>1, <1>2 DEF Blank
<1>13. Snapshots' BY <1>1 DEF DInv, Snapshots, Rooms
<1>14. Stored'
  <2>1. row'.meta => Contiguous(row'.log, journal') BY <1>5 DEF Grows, Sound
  <2>2. \A p2 \in late' : Harmless(p2)'
    <3> TAKE p2 \in late'
    <3>1. p2 \in Packets /\ Harmless(p2) BY <1>1 DEF IInv, StorageOK, DInv, Stored
    <3>2. QED BY <1>2, <1>5, <1>6, <3>1, HarmlessKept
  <2>3. ASSUME NEW r \in Rooms
        PROVE  room'[r].durable <= room'[r].seq /\ Agrees(r, room[r].durable)'
    <3>1. PICK n \in Nat : n = room[r].durable BY <1>10 DEF HostedRooms
    <3>2. n <= room[r].seq /\ Agrees(r, n) BY <3>1 DEF DInv, Stored, Agrees
    <3>3. Agrees(r, n)' BY <1>8, <3>2
    <3>4. QED BY <1>1, <3>1, <3>2, <3>3 DEF Agrees
  <2>4. QED BY <1>1, <2>1, <2>2, <2>3 DEF Stored, Rooms, Agrees
<1>15. ASSUME NEW r \in Rooms, Reading(r) PROVE Reading(r)'
  <2>1. CASE ~(room[r].status = "reading" /\ "journal" \in room[r].got)
    BY <1>1, <1>15, <2>1 DEF Reading
  <2>2. CASE room[r].status = "reading" /\ "journal" \in room[r].got
    <3>1. PICK n : n = Top(row.log, room[r].rows) OBVIOUS
    <3>2. /\ row.log \in Logs /\ Len(row.log) <= MaxSeq
          /\ room[r].rows \in SUBSET Packets /\ \A p2 \in room[r].rows : p2.end <= MaxSeq
      BY DEF IInv, StorageOK, Rows, HostedRooms, RoomOK
    <3>3. n \in Nat /\ Len(row.log) <= n BY <3>1, <3>2, TopIs
    <3>4. room[r].seen = row BY <1>15 DEF Reading
    <3>5. /\ Follows(n) /\ \A q \in 1..n : LoadedLog(r)[q] = Recoverable[q]
          /\ \A s \in Rooms : room[s].durable <= n
      BY <1>15, <2>2, <3>1, <3>4 DEF Reading
    <3>6. Follows(n)' BY <1>9, <3>3, <3>5
    <3>7. LoadedLog(r)' = LoadedLog(r) BY <1>1 DEF LoadedLog
    <3>8. \A q \in 1..n : LoadedLog(r)'[q] = Recoverable'[q]
      <4>1. n <= Len(Recoverable) BY <1>4, <3>5 DEF Follows, Content
      <4>2. Len(Recoverable) \in Nat BY <1>4 DEF Content
      <4>3. \A q \in 1..n : Recoverable'[q] = Recoverable[q]
        BY <1>5, <3>3, <4>1, <4>2 DEF Grows
      <4>4. QED BY <3>5, <3>7, <4>3
    <3>9. Top(room'[r].seen.log, room'[r].rows) = n BY <1>1, <3>1, <3>4
    <3>10. QED BY <1>1, <1>15, <3>5, <3>6, <3>8, <3>9 DEF Reading, Rooms, Follows
  <2>3. QED BY <2>1, <2>2
<1>16. ASSUME NEW r \in Rooms, Serving(room[r]) PROVE Serves(r)'
  <2>1. PICK w \in Nat : w = Written(r) /\ Agrees(r, w) /\ Follows(w) /\ room[r].journaled <= w
    BY <1>16, ServingFacts
  <2>2. Serves(r) /\ room[r].journaled \in Nat BY <1>16, ServingFacts
  <2>3. Len(row.log) <= w BY <1>4, <2>1, <2>2 DEF Serves, Content
  <2>4. Agrees(r, w)' /\ Follows(w)' BY <1>8, <1>9, <2>1, <2>3
  <2>5. Written(r)' = w BY <1>1, <2>1 DEF Written
  <2>6. (Agrees(r, Written(r)) /\ Follows(Written(r)))'
    BY <2>4, <2>5 DEF Agrees, Follows
  <2>7. room[r].phase = "acked" => Taken(room[r].journaled + 1)'
    BY <1>1, <1>6, <2>2 DEF Serves, Taken
  <2>8. QED BY <1>1, <2>2, <2>6, <2>7 DEF Serves, Rooms, Taken
<1>17. ASSUME NEW r \in Rooms PROVE Live(r)'
  <2>1. room[r].status # "initial" BY DEF DInv, Live, First
  <2>2. QED BY <1>1, <1>15, <1>16, <2>1 DEF DInv, Live
<1>18. DInv' BY <1>11, <1>12, <1>13, <1>14, <1>17 DEF DInv, Rooms
<1>19. Adds BY <1>1, <1>5, <1>10 DEF Adds, HostedRooms
<1>20. QED BY <1>18, <1>19
-----------------------------------------------------------------------------
(* Every step                                                              *)

LEMMA InitKeeps == Init => DInv
<1> SUFFICES ASSUME Init PROVE DInv OBVIOUS
<1>1. Len(<<>>) = 0 BY EmptySeq
<1>2. /\ row.meta = FALSE /\ row.log = <<>> /\ journal = {} /\ late = {} /\ files = {}
      /\ \A r \in Rooms : room[r] = NewRoom
  BY DEF Init
<1>3. /\ NewRoom.status = "new" /\ NewRoom.phase = "idle" /\ NewRoom.durable = 0
      /\ NewRoom.seq = 0 /\ NewRoom.file = NoFile /\ ~Serving(NewRoom)
  BY DEF NewRoom, Serving
<1>4. Recoverable = <<>> BY <1>2 DEF Recoverable, Readable
<1>5. Successive BY <1>2, <1>3 DEF Successive
<1>6. Blank BY <1>2, <1>3 DEF Blank
<1>7. Snapshots BY <1>2, <1>3 DEF Snapshots
<1>8. Stored BY <1>1, <1>2, <1>3, <1>4 DEF Stored, Agrees
<1>9. \A r \in Rooms : Live(r) BY <1>2, <1>3 DEF Live
<1>10. QED BY <1>5, <1>6, <1>7, <1>8, <1>9 DEF DInv

LEMMA StutterKeeps == DInv /\ UNCHANGED vars => DInv'
<1> SUFFICES ASSUME DInv, UNCHANGED vars PROVE DInv' OBVIOUS
<1>1. row' = row /\ files' = files /\ journal' = journal /\ late' = late /\ room' = room
  BY DEF vars
<1>2. Recoverable' = Recoverable /\ End' = End BY <1>1 DEF Recoverable, Readable, End
<1>3. ASSUME NEW r \in Rooms PROVE LogOf(r)' = LogOf(r) /\ LoadedLog(r)' = LoadedLog(r)
  BY <1>1 DEF LogOf, LoadedLog
<1>4. Successive' BY <1>1 DEF DInv, Successive, Rooms, Over
<1>5. Blank' BY <1>1 DEF DInv, Blank, Rooms, Serving
<1>6. Snapshots' BY <1>1 DEF DInv, Snapshots, Rooms
<1>7. Stored' BY <1>1, <1>2, <1>3 DEF DInv, Stored, Rooms, Agrees, Harmless, Taken
<1>8. ASSUME NEW r \in Rooms PROVE Live(r)'
  <2>1. Live(r) BY DEF DInv
  <2>2. Reading(r) => Reading(r)'
    BY <1>1, <1>2, <1>3 DEF Reading, Follows, Taken, Rooms
  <2>3. First(r) => First(r)' BY <1>1, <1>2, <1>3 DEF First, Agrees, Rooms
  <2>4. Serves(r) => Serves(r)'
    BY <1>1, <1>2, <1>3 DEF Serves, Agrees, Follows, Taken, Written, Rooms
  <2>5. QED BY <1>1, <2>1, <2>2, <2>3, <2>4 DEF Live
<1>9. QED BY <1>4, <1>5, <1>6, <1>7, <1>8 DEF DInv, Rooms

LEMMA StepKeeps ==
  ASSUME IInv, IInv', DInv, Alone, Next
  PROVE  DInv' /\ Adds
<1>1. ASSUME NEW r \in Rooms, Load(r) PROVE DInv' /\ Adds
  <2>1. CASE LoadRow(r) BY <2>1, LoadRowKeeps
  <2>2. CASE LoadSnapshot(r) BY <2>2, LoadSnapshotKeeps
  <2>3. CASE LoadJournal(r) BY <2>3, LoadJournalKeeps
  <2>4. CASE LoadOpen(r) BY <2>4, LoadOpenKeeps
  <2>5. CASE LoadGivenUp(r) \/ LoadDiscardFailed(r) BY <2>5, LoadEnds
  <2>6. CASE LoadDocument(r) BY <2>6, LoadDocumentKeeps
  <2>7. CASE LoadDiscard(r) BY <2>7, LoadDiscardKeeps
  <2>8. QED BY <1>1, <2>1, <2>2, <2>3, <2>4, <2>5, <2>6, <2>7 DEF Load
<1>2. ASSUME NEW r \in Rooms, Accept(r) PROVE DInv' /\ Adds
  BY <1>2, AcceptGoesOn
<1>3. ASSUME NEW r \in Rooms, Journalling(r) PROVE DInv' /\ Adds
  <2>1. CASE AppendStart(r) BY <2>1, AppendStarts
  <2>2. CASE AppendLand(r) BY <2>2, AppendLands
  <2>3. CASE AppendAnswered(r) BY <2>3, AppendIsAnswered
  <2>4. CASE AppendRefused(r) BY <2>4, QuietEnd
  <2>5. CASE AppendFailed(r) BY <2>5, AppendFails
  <2>6. QED BY <1>3, <2>1, <2>2, <2>3, <2>4, <2>5 DEF Journalling
<1>4. ASSUME NEW r \in Rooms, Checkpointing(r) PROVE DInv' /\ Adds
  <2>1. CASE CheckpointStart(r) BY <2>1, CheckpointStarts
  <2>2. CASE Upload(r) BY <2>2, Uploads
  <2>3. CASE Update(r) BY <2>3, Updates
  <2>4. CASE CheckpointFailed(r) BY <2>4, CheckpointFails
  <2>5. CASE PruneFiles(r) BY <2>5, FilesPruned
  <2>6. CASE PruneJournal(r) BY <2>6, JournalPruned
  <2>7. QED BY <1>4, <2>1, <2>2, <2>3, <2>4, <2>5, <2>6 DEF Checkpointing
<1>5. ASSUME NEW r \in Rooms, Ending(r) PROVE DInv' /\ Adds
  <2>1. CASE Unload(r) BY <2>1, QuietEnd
  <2>2. CASE Shutdown(r) BY <2>2, Interrupted
  <2>3. CASE ShutdownFlush(r) /\ room[r].seq > room[r].journaled BY <2>3, AppendStarts
  <2>4. CASE ShutdownFlush(r) /\ ~(room[r].seq > room[r].journaled) BY <2>4, QuietEnd
  <2>5. CASE Fail(r) /\ room[r].phase # "idle" BY <2>5, Interrupted
  <2>6. CASE Fail(r) /\ room[r].phase = "idle" BY <2>6, QuietEnd
  <2>7. CASE Crash(r) BY <2>7, QuietEnd
  <2>8. QED BY <1>5, <2>1, <2>2, <2>3, <2>4, <2>5, <2>6, <2>7 DEF Ending
<1>6. ASSUME NEW p \in late, LateArrives(p) \/ LateLost(p) PROVE DInv' /\ Adds
  BY <1>6, LateSettles
<1>7. QED BY <1>1, <1>2, <1>3, <1>4, <1>5, <1>6 DEF Next

LEMMA AlwaysDInv == ASSUME Alone PROVE Spec => []DInv
<1>1. IInv /\ IInv' /\ DInv /\ [Next]_vars => DInv' BY StepKeeps, StutterKeeps
<1>2. QED BY <1>1, InitKeeps, Invariance, PTL DEF Spec
-----------------------------------------------------------------------------
(* What is promised                                                        *)

\* Whatever the lives of a room announce durable (markDurable of roomHost.ts),
\* a room loaded later has it at the same number, and no load is refused for a
\* hole or a duplicate (assertContiguous of appwriteStorage.ts): with one server
\* at a time, for any number of lives, files and numbers, with packets that land
\* late or not at all and processes killed at any point.
THEOREM PromisesAreKept == ASSUME Alone PROVE Spec => []PromisesKept
<1>1. IInv /\ DInv => DurableKept
  <2> SUFFICES ASSUME IInv, DInv PROVE DurableKept OBVIOUS
  <2>1. JournalFollowsCheckpoint BY DEF DInv, Stored, JournalFollowsCheckpoint, Readable
  <2>2. Len(Recoverable) \in Nat BY DInvSound DEF Content
  <2>3. \A r \in Rooms : room[r].durable \in Nat /\ Agrees(r, room[r].durable)
    BY DEF DInv, Stored, IInv, HostedRooms
  <2>4. QED BY <2>1, <2>2, <2>3 DEF DurableKept, Agrees
<1>2. IInv /\ DInv => LoadsWhatWasPromised
  <2> SUFFICES ASSUME IInv, DInv, NEW r \in Rooms, Active(r),
                      NEW s \in 1..r-1, NEW q \in 1..room[s].durable
               PROVE  q <= room[r].seq /\ LogOf(r)[q] = LogOf(s)[q]
    BY DEF LoadsWhatWasPromised
  <2>1. s \in Rooms BY NRoomsAssumption DEF Rooms
  <2>2. Serving(room[r]) BY DEF Active, Serving
  <2>3. PICK w \in Nat : w = Written(r) /\ Agrees(r, w) /\ room[r].journaled <= w
                         /\ w <= room[r].seq /\ room[r].journaled \in Nat
                         /\ room[r].seq \in Nat
    BY <2>2, ServingFacts
  <2>4. room[s].durable <= room[r].journaled /\ room[s].durable \in Nat
    BY <2>1, <2>2, ServingFacts DEF Serves, IInv, HostedRooms
  <2>5. q \in 1..w /\ q <= room[r].seq BY <2>3, <2>4
  <2>6. Recoverable[q] = LogOf(r)[q] BY <2>3, <2>5 DEF Agrees
  <2>7. Recoverable[q] = LogOf(s)[q] BY <2>1 DEF DInv, Stored, Agrees
  <2>8. QED BY <2>5, <2>6, <2>7
<1>3. QED BY <1>1, <1>2, AlwaysDInv, Invariance, PTL DEF PromisesKept

\* The shadow validation made before a checkpoint (shadow.ts, called by the
\* maintenance of roomHost.ts) never reports a difference: what the storage
\* replays up to the serialised number is what the room holds in memory.
THEOREM ShadowNeverDiffers == ASSUME Alone PROVE Spec => []ShadowAgrees
<1>1. IInv /\ DInv => ShadowAgrees
  <2> SUFFICES ASSUME IInv, DInv, NEW r \in Rooms, room[r].phase = "upload", Readable
               PROVE  /\ room[r].target <= Len(Recoverable)
                      /\ \A q \in 1..room[r].target : Recoverable[q] = LogOf(r)[q]
    BY DEF ShadowAgrees
  <2>1. room[r].status # "initial" BY DEF DInv, Live, First, Readable
  <2>2. Serving(room[r]) BY <2>1, Busy
  <2>3. PICK w \in Nat : w = room[r].journaled /\ Agrees(r, w)
                         /\ room[r].target \in Nat /\ room[r].target <= w
    <3>1. Written(r) = room[r].journaled BY DEF Written
    <3>2. QED BY <2>2, <3>1, ServingFacts DEF Saving
  <2>4. Len(Recoverable) \in Nat /\ w <= Len(Recoverable)
    BY <2>3, DInvSound DEF Content, Agrees
  <2>5. QED BY <2>3, <2>4 DEF Agrees
<1>2. QED BY <1>1, AlwaysDInv, Invariance, PTL

\* Promised is the highest number announced durable.
LEMMA PromisedIs ==
  ASSUME IInv, NRooms # 0
  PROVE  /\ Promised \in Nat /\ \A r \in Rooms : room[r].durable <= Promised
         /\ \E r \in Rooms : Promised = room[r].durable
<1> DEFINE S == {room[r].durable : r \in Rooms}
<1>1. \A r \in Rooms : room[r].durable \in 0..MaxSeq
  BY NRoomsAssumption DEF IInv, HostedRooms, RoomOK
<1>2. S \subseteq 0..MaxSeq BY <1>1
<1>3. 1 \in Rooms BY NRoomsAssumption DEF Rooms
<1>4. S # {} BY <1>3
<1>5. \E n \in S : \A m \in S : n >= m
  <2> HIDE DEF S
  <2>1. QED BY <1>2, <1>4, GreatestExists, NRoomsAssumption
<1>6. \E n \in S : \A r \in Rooms : room[r].durable <= n BY <1>1, <1>5
<1>7. Promised \in S /\ \A r \in Rooms : room[r].durable <= Promised
  BY <1>6 DEF Promised
<1>8. QED BY <1>1, <1>7

\* The storage and the rooms of a project implement the log of DurableLog: the
\* content a load would start from only grows, whatever call of the storage
\* fails or lands late (createDocument, updateDocument, the pruning), and what
\* markDurable announces (roomHost.ts) is always a part of it that only grows.
THEOREM LogIsImplemented ==
  ASSUME Alone, NRooms # 0 PROVE Spec => ImplementsDurableLog
<1>1. Init => Storage!Init
  <2> SUFFICES ASSUME Init PROVE Recoverable = <<>> /\ Promised = 0 BY DEF Storage!Init
  <2>1. Recoverable = <<>> BY DEF Init, Recoverable, Readable
  <2>2. \A r \in Rooms : room[r].durable = 0 BY DEF Init, NewRoom
  <2>3. 1 \in Rooms BY NRoomsAssumption DEF Rooms
  <2>4. {room[r].durable : r \in Rooms} = {0} BY <2>2, <2>3
  <2>5. QED BY <2>1, <2>2, <2>4 DEF Promised
<1>2. ASSUME IInv, IInv', DInv, DInv', Next
      PROVE  Storage!Next
  <2>1. Adds BY <1>2, StepKeeps
  <2>2. /\ Promised \in Nat /\ \A r \in Rooms : room[r].durable <= Promised
        /\ \E r \in Rooms : Promised = room[r].durable
    BY <1>2, PromisedIs
  <2>3. /\ Promised' \in Nat /\ \A r \in Rooms : room'[r].durable <= Promised'
        /\ \E r \in Rooms : Promised' = room'[r].durable
    <3>1. (IInv => /\ Promised \in Nat /\ \A r \in Rooms : room[r].durable <= Promised
                   /\ \E r \in Rooms : Promised = room[r].durable)'
      BY PromisedIs, PTL
    <3>2. QED BY <1>2, <3>1 DEF Rooms
  <2>4. /\ \A r \in Rooms : room[r].durable \in Nat /\ room'[r].durable \in Nat
        /\ \A r \in Rooms : room'[r].durable <= Len(Recoverable')
    BY <1>2 DEF IInv, HostedRooms, DInv, Stored, Agrees, Rooms
  <2>5. Content BY <1>2, DInvSound
  <2>6. CASE Recoverable' = Recoverable
    <3>1. Promised <= Promised' BY <2>1, <2>2, <2>3, <2>4 DEF Adds
    <3>2. Promised' <= Len(Recoverable) BY <2>3, <2>4, <2>6
    <3>3. Len(Recoverable) \in Nat BY <2>5 DEF Content
    <3>4. Promised' \in Promised..Len(Recoverable) BY <2>2, <2>3, <3>1, <3>2, <3>3
    <3>5. QED BY <2>6, <3>4 DEF Storage!Next, Storage!Promise
  <2>7. CASE \A s \in Rooms : room'[s].durable = room[s].durable
    <3>1. Promised' = Promised BY <2>2, <2>3, <2>4, <2>7
    <3>2. QED BY <2>1, <3>1
      DEF Storage!Next, Storage!Commit, Storage!Extends, Adds, Grows
  <2>8. QED BY <2>1, <2>6, <2>7 DEF Adds
<1>3. ASSUME UNCHANGED vars PROVE UNCHANGED <<Recoverable, Promised>>
  BY <1>3 DEF vars, Recoverable, Readable, Promised
<1>4. IInv /\ IInv' /\ DInv /\ DInv' /\ [Next]_vars
        => [Storage!Next]_<<Recoverable, Promised>>
  BY <1>2, <1>3
<1>5. QED
  BY <1>1, <1>4, AlwaysDInv, Invariance, PTL DEF Spec, ImplementsDurableLog, Storage!Spec
----------------------------------------------------------------------------
(* Two servers, the older one left behind the fence                         *)

\* During a deployment the new server loads a room while the old one serves it.
\* The calls of the storage fail without effect; a process may be killed at any
\* point, and its last packet lands late, or never.
Deployment == Overlap = "fenced" /\ Faults = {}

WrittenBy(h) == IF h.phase = "acked" THEN h.upto ELSE h.journaled

\* The number of the first packet a room writes, above all it has read...
FenceOf(h) ==
  IF Serving(h) THEN IF h.first # 0 THEN h.first ELSE h.journaled + 1
  ELSE Top(h.seen.log, h.rows) + 1

HasWritten(h) == Serving(h) /\ (h.first # 0 \/ h.phase = "acked")
HasRead(h)    == Serving(h) \/ (h.status = "reading" /\ "journal" \in h.got)

\* ...and a packet another server would write at n: not below, and refused as
\* soon as that first packet is there.
Stops(n, h) == FenceOf(h) <= n /\ (HasWritten(h) => n = FenceOf(h) /\ Taken(n))

\* At most two lives are not over, and the older of them makes no checkpoint.
Beside ==
  /\ \A a, b \in Rooms : a < b /\ room[b].status # "new" =>
       \/ Over(room[a])
       \/ b = a + 1 /\ Serving(room[a]) /\ room[a].target = 0 /\ room[b].status # "initial"
  /\ \A p \in journal \cup late : room[p.by].status # "new" /\ p.start <= p.end
  /\ \A p \in late : Over(room[p.by])

\* What an older life still writes meets the fence of the younger one.
Fenced(r) ==
  HasRead(room[r]) =>
    /\ \A a \in Rooms : a < r /\ Serving(room[a]) =>
         Stops(WrittenBy(room[a]) + 1, room[r])
    /\ Serving(room[r]) /\ room[r].target > 0 =>
         \A p \in late : p.by < r => Stops(p.start, room[r])

LoadsBeside(r) ==
  /\ room[r].seen = row /\ room[r].phase = "idle" /\ room[r].durable = 0
  /\ room[r].status = "reading" <=> row.meta
  /\ room[r].status = "reading" /\ "journal" \in room[r].got =>
       LET n == Top(room[r].seen.log, room[r].rows)
       IN  /\ Follows(n)
           /\ \A q \in 1..n : LoadedLog(r)[q] = Recoverable[q]

\* No later life has begun: only such a room makes checkpoints.
Last(r) == \A s \in Rooms : r < s => room[s].status = "new"

ServesBeside(r) ==
  /\ row.meta
  /\ Last(r) => Len(row.log) <= room[r].journaled
  /\ Len(room[r].base) <= room[r].journaled
  /\ room[r].durable <= room[r].journaled /\ room[r].journaled <= room[r].seq
  /\ Agrees(r, WrittenBy(room[r])) /\ Follows(WrittenBy(room[r]))
  /\ room[r].target > 0 => Len(row.log) <= room[r].target
  /\ room[r].phase \in Saving => room[r].target > 0 /\ room[r].target <= room[r].journaled
  /\ room[r].phase \in {"pruneFiles", "pruneJournal"} => Len(row.log) = room[r].target

LiveBeside(r) ==
  /\ room[r].status \in {"reading", "document", "discarding"} => LoadsBeside(r)
  /\ room[r].status = "initial" => First(r)
  /\ Serving(room[r]) => ServesBeside(r)
  /\ room[r].status = "new" => room[r] = NewRoom

BesideInv ==
  /\ Beside /\ Blank /\ Snapshots /\ Stored
  /\ \A r \in Rooms : Fenced(r) /\ LiveBeside(r)

LEMMA BesideSound == ASSUME IInv, BesideInv PROVE Sound /\ Content
<1>1. Sound BY DEF BesideInv, Blank, Snapshots, Stored, Sound
<1>2. QED BY <1>1, ContentIs DEF IInv

LEMMA StillBeside ==
  ASSUME IInv, BesideInv, UNCHANGED <<row, journal>>, row.meta => row.file \in files'
  PROVE  Grows /\ Recoverable' = Recoverable
BY BesideSound, StaysStill

\* What stops a packet goes on stopping it, while the one that has its number stays.
LEMMA StopsStays ==
  ASSUME NEW g, NEW h, NEW n, Stops(n, g), FenceOf(h) = FenceOf(g),
         HasWritten(h) => HasWritten(g), Taken(n) => Taken(n)'
  PROVE  Stops(n, h)'
BY DEF Stops, Taken, FenceOf, HasWritten

\* The lives that are not over, seen from one of them.
LEMMA Neighbours ==
  ASSUME IInv, BesideInv, NEW r \in Rooms, room[r].status # "new", ~Over(room[r])
  PROVE  /\ \A s \in Rooms : s < r =>
              \/ Over(room[s])
              \/ /\ r = s + 1 /\ Serving(room[s]) /\ room[s].target = 0
                 /\ room[r].status # "initial"
         /\ \A s \in Rooms : r < s =>
              \/ room[s].status = "new"
              \/ /\ s = r + 1 /\ Serving(room[r]) /\ room[r].target = 0
                 /\ room[s].status # "initial"
BY DEF BesideInv, Beside
----------------------------------------------------------------------------
(* What the other rooms keep                                               *)

LEMMA LoadsStay ==
  ASSUME IInv, IInv', BesideInv, Grows, NEW s \in Rooms, room'[s] = room[s],
         row' = row, journal \subseteq journal',
         room[s].status \in {"reading", "document", "discarding"}
  PROVE  LoadsBeside(s)'
<1>1. LoadsBeside(s) BY DEF BesideInv, LiveBeside
<1>2. CASE ~(room[s].status = "reading" /\ "journal" \in room[s].got)
  BY <1>1, <1>2 DEF LoadsBeside
<1>3. CASE room[s].status = "reading" /\ "journal" \in room[s].got
  <2>1. PICK n : n = Top(row.log, room[s].rows) OBVIOUS
  <2>2. /\ row.log \in Logs /\ Len(row.log) <= MaxSeq
        /\ room[s].rows \in SUBSET Packets /\ \A p2 \in room[s].rows : p2.end <= MaxSeq
    BY DEF IInv, StorageOK, Rows, HostedRooms, RoomOK
  <2>3. n \in Nat /\ Len(row.log) <= n BY <2>1, <2>2, TopIs
  <2>4. room[s].seen = row /\ row.meta BY <1>1, <1>3 DEF LoadsBeside
  <2>5. Follows(n) /\ \A q \in 1..n : LoadedLog(s)[q] = Recoverable[q]
    BY <1>1, <1>3, <2>1, <2>4 DEF LoadsBeside
  <2>6. Sound /\ Content BY BesideSound
  <2>7. Taken(n + 1) => Taken(n + 1)' BY DEF Taken
  <2>8. Follows(n)' BY <2>3, <2>4, <2>5, <2>6, <2>7, FollowsOn
  <2>9. LoadedLog(s)' = LoadedLog(s) BY DEF LoadedLog
  <2>10. \A q \in 1..n : LoadedLog(s)'[q] = Recoverable'[q]
    <3>1. n <= Len(Recoverable) BY <2>5, <2>6 DEF Follows, Content
    <3>2. Len(Recoverable) \in Nat BY <2>6 DEF Content
    <3>3. \A q \in 1..n : Recoverable'[q] = Recoverable[q]
      BY <2>3, <3>1, <3>2 DEF Grows
    <3>4. QED BY <2>5, <2>9, <3>3
  <2>11. Top(room'[s].seen.log, room'[s].rows) = n BY <2>1, <2>4
  <2>12. QED BY <1>1, <1>3, <2>4, <2>8, <2>10, <2>11 DEF LoadsBeside, Follows
<1>4. QED BY <1>2, <1>3

\* What is known of a room that serves.
LEMMA ServingIs ==
  ASSUME IInv, BesideInv, NEW r \in Rooms, Serving(room[r])
  PROVE  /\ room[r] \in HostedRooms /\ RoomOK(room[r]) /\ ServesBeside(r)
         /\ row.meta /\ row.file \in files /\ row.file # NoFile
         /\ room[r].status # "new" /\ ~Over(room[r])
         /\ WrittenBy(room[r]) \in Nat /\ room[r].journaled \in Nat /\ room[r].seq \in Nat
         /\ room[r].upto \in Nat /\ room[r].target \in Nat /\ room[r].durable \in Nat
         /\ room[r].journaled <= WrittenBy(room[r]) /\ WrittenBy(room[r]) <= room[r].seq
         /\ Agrees(r, WrittenBy(room[r])) /\ Follows(WrittenBy(room[r]))
         /\ room[r].durable <= room[r].journaled
         /\ room[r].phase \notin {"update", "pruneFiles"} => room[r].file = NoFile
         /\ room[r].phase = "update" => room[r].file \in files \ {row.file}
         /\ room[r].phase = "pruneFiles" => room[r].file = row.file
         /\ room[r].phase \in Writing => room[r].journaled < room[r].upto
                                         /\ room[r].upto <= room[r].seq
                                         /\ room[r].target <= room[r].upto
         /\ room[r].target > 0 => Len(row.log) <= room[r].target /\ Last(r)
         /\ room[r].phase \in Saving => room[r].target > 0 /\ room[r].target <= room[r].journaled
         /\ room[r].phase \in {"pruneFiles", "pruneJournal"} => Len(row.log) = room[r].target
<1>1. room[r] \in HostedRooms /\ RoomOK(room[r]) /\ ServesBeside(r)
  BY DEF IInv, BesideInv, LiveBeside
<1>2. /\ row.meta /\ row.file \in files /\ row.file # NoFile
  BY <1>1, FileAssumption DEF ServesBeside, BesideInv, Snapshots, IInv, StorageOK
<1>3. room[r].status # "new" /\ ~Over(room[r]) BY DEF Serving, Over
<1>4. room[r].target > 0 => Last(r) BY <1>3, Neighbours DEF Last
<1>5. /\ room[r].journaled \in Nat /\ room[r].seq \in Nat /\ room[r].durable \in Nat
      /\ room[r].upto \in Nat /\ room[r].target \in Nat
  BY <1>1 DEF HostedRooms
<1>6. room[r].phase \in Writing => room[r].journaled < room[r].upto
                                   /\ room[r].upto <= room[r].seq
                                   /\ room[r].target <= room[r].upto
  BY <1>1 DEF RoomOK
<1>7. /\ room[r].durable <= room[r].journaled
      /\ Agrees(r, WrittenBy(room[r])) /\ Follows(WrittenBy(room[r]))
  BY <1>1 DEF ServesBeside
<1>8. /\ WrittenBy(room[r]) \in Nat
      /\ room[r].journaled <= WrittenBy(room[r]) /\ WrittenBy(room[r]) <= room[r].seq
  BY <1>1, <1>5, <1>6 DEF WrittenBy, Writing, ServesBeside
<1>9. /\ room[r].phase \notin {"update", "pruneFiles"} => room[r].file = NoFile
      /\ room[r].phase = "update" => room[r].file \in files \ {row.file}
      /\ room[r].phase = "pruneFiles" => room[r].file = row.file
  BY DEF BesideInv, Snapshots
<1>10. /\ room[r].target > 0 => Len(row.log) <= room[r].target
       /\ room[r].phase \in Saving => room[r].target > 0 /\ room[r].target <= room[r].journaled
       /\ room[r].phase \in {"pruneFiles", "pruneJournal"} => Len(row.log) = room[r].target
  BY <1>1 DEF ServesBeside
<1>11. QED BY <1>1, <1>2, <1>3, <1>4, <1>5, <1>6, <1>7, <1>8, <1>9, <1>10

LEMMA ServesStay ==
  ASSUME IInv, IInv', BesideInv, Grows, NEW s \in Rooms, room'[s] = room[s],
         Serving(room[s]),
         Taken(WrittenBy(room[s]) + 1) => Taken(WrittenBy(room[s]) + 1)',
         \/ row' = row /\ (Last(s)' => Last(s))
         \/ ~Last(s)' /\ room[s].target = 0
  PROVE  ServesBeside(s)'
<1>1. PICK w \in Nat : /\ w = WrittenBy(room[s]) /\ Agrees(s, w) /\ Follows(w)
                       /\ Taken(w + 1) => Taken(w + 1)'
  BY ServingIs
<1>2. Sound /\ Content /\ row.meta BY BesideSound, ServingIs
<1>3. Content' BY ContentIsNext DEF IInv, Grows
<1>4. LogOf(s)' = LogOf(s) BY DEF LogOf
<1>5. Agrees(s, w)' BY <1>1, <1>2, <1>3, <1>4, AgreesKept
<1>6. Follows(w)' BY <1>1, <1>2, FollowsOn
<1>7. WrittenBy(room[s])' = w BY <1>1 DEF WrittenBy
<1>8. (Agrees(s, WrittenBy(room[s])) /\ Follows(WrittenBy(room[s])))'
  BY <1>5, <1>6, <1>7 DEF Agrees, Follows
<1>9. ServesBeside(s) BY ServingIs
<1>10. row'.meta BY <1>2 DEF Grows
<1>11. CASE row' = row /\ (Last(s)' => Last(s))
  BY <1>8, <1>9, <1>10, <1>11 DEF ServesBeside
<1>12. CASE ~Last(s)' /\ room[s].target = 0
  <2>1. room'[s].target = 0 /\ ~(room'[s].target > 0) BY <1>12
  <2>2. room'[s].phase \notin Saving BY <1>9, <2>1 DEF ServesBeside
  <2>3. QED BY <1>8, <1>9, <1>10, <1>12, <2>1, <2>2 DEF ServesBeside, Saving
<1>13. QED BY <1>11, <1>12
----------------------------------------------------------------------------
\* What a step of one room has to show.
LEMMA BesideKeeps ==
  ASSUME IInv, IInv', BesideInv, Grows, NEW r \in Rooms, NEW h \in HostedRooms,
         room' = [room EXCEPT ![r] = h], h.status # "new", ~Over(room[r]),
         \A s \in Rooms : s < r =>
           \/ Over(room[s])
           \/ /\ r = s + 1 /\ Serving(room[s]) /\ room[s].target = 0
              /\ h.status # "initial",
         Over(h) \/ (Serving(h) /\ h.target = 0) \/ Last(r),
         Last(r) \/ (files' = files /\ row' = row /\ journal \subseteq journal'),
         \A s \in Rooms \ {r} :
           Serving(room[s]) /\ Taken(WrittenBy(room[s]) + 1)
             => Taken(WrittenBy(room[s]) + 1)',
         \A p \in journal' : p \in journal \cup late \/ (p.by = r /\ p.start <= p.end),
         \A p \in late' : p \in late \/ (p.by = r /\ p.start <= p.end /\ Over(h)),
         \A p \in late' : Harmless(p)',
         NEW k \in Nat, h.durable = k, k <= h.seq, Agrees(r, k)',
         ~row'.meta => /\ late' = {} /\ h.durable = 0
                       /\ ~Serving(h) /\ h.status # "reading"
                       /\ h.phase \in {"idle", "upload", "update"},
         h.phase \notin {"update", "pruneFiles"} => h.file = NoFile,
         h.phase = "update" => h.file \in files' \ {row'.file},
         h.phase = "pruneFiles" => h.file = row'.file,
         HasRead(h) => \A a \in Rooms : a < r /\ Serving(room[a]) =>
                         Stops(WrittenBy(room[a]) + 1, h)',
         Serving(h) /\ h.target > 0 => \A p \in late' : p.by < r => Stops(p.start, h)',
         \A s \in Rooms : r < s /\ HasRead(room[s]) =>
           /\ Serving(h) => Stops(WrittenBy(h) + 1, room[s])'
           /\ Serving(room[s]) /\ room[s].target > 0 =>
                \A p \in late' \ late : Stops(p.start, room[s])',
         LiveBeside(r)'
  PROVE  BesideInv'
<1>1. /\ room'[r] = h /\ \A s \in Rooms \ {r} : room'[s] = room[s]
      /\ \A s \in Rooms : room[s] \in HostedRooms
      /\ Rooms \subseteq Nat
  BY NRoomsAssumption DEF IInv, Rooms
<1>2. Sound /\ Content /\ Content' BY BesideSound, ContentIsNext DEF IInv, Grows
<1>3. \A s \in Rooms : room[s].status = "new" => room[s] = NewRoom
  BY DEF BesideInv, LiveBeside
<1>4. \A s \in Rooms : r < s =>
        \/ room[s].status = "new"
        \/ /\ s = r + 1 /\ Serving(room[r]) /\ room[r].target = 0
           /\ room[s].status # "initial"
  BY DEF BesideInv, Beside
<1>5. \A s \in Rooms : s < r => \/ Over(room[s])
                                \/ r = s + 1 /\ Serving(room[s]) /\ room[s].target = 0
  OBVIOUS
<1>6. \A s \in Rooms : Serving(room[s]) \/ HasRead(room[s]) => ~Over(room[s]) /\ room[s].status # "new"
  BY DEF Serving, HasRead, Over
<1>7. Beside'
  <2>1. \A a, b \in Rooms : a < b /\ room'[b].status # "new" =>
          \/ Over(room'[a])
          \/ /\ b = a + 1 /\ Serving(room'[a]) /\ room'[a].target = 0
             /\ room'[b].status # "initial"
    <3> TAKE a, b \in Rooms
    <3>1. CASE a = r /\ b # r
      <4>1. CASE Last(r) BY <1>1, <3>1, <4>1 DEF Last
      <4>2. CASE ~Last(r) BY <1>1, <1>4, <3>1, <4>2
      <4>3. QED BY <4>1, <4>2
    <3>2. CASE a # r /\ b = r BY <1>1, <3>2
    <3>3. CASE a # r /\ b # r BY <1>1, <3>3 DEF BesideInv, Beside
    <3>4. CASE a = r /\ b = r BY <1>1, <3>4
    <3>5. QED BY <3>1, <3>2, <3>3, <3>4
  <2>2. \A p \in journal' \cup late' : room'[p.by].status # "new" /\ p.start <= p.end
    <3> TAKE p \in journal' \cup late'
    <3>1. CASE p.by = r /\ p.start <= p.end BY <1>1, <3>1
    <3>2. CASE p \in journal \cup late
      <4>1. room[p.by].status # "new" /\ p.start <= p.end /\ p.by \in Rooms
        BY <3>2 DEF BesideInv, Beside, IInv, StorageOK, Packets
      <4>2. QED BY <1>1, <4>1
    <3>3. QED BY <3>1, <3>2
  <2>3. \A p \in late' : Over(room'[p.by])
    <3> TAKE p \in late'
    <3>1. CASE p.by = r /\ Over(h) BY <1>1, <3>1
    <3>2. CASE p \in late
      <4>1. Over(room[p.by]) /\ p.by \in Rooms /\ p.by # r
        BY <3>2 DEF BesideInv, Beside, IInv, StorageOK, Packets
      <4>2. QED BY <1>1, <4>1
    <3>3. QED BY <3>1, <3>2
  <2>4. QED BY <2>1, <2>2, <2>3 DEF Beside, Over, Serving, Rooms
<1>8. Blank'
  <2> SUFFICES ASSUME ~row'.meta PROVE
        /\ row'.log = <<>> /\ journal' = {} /\ late' = {}
        /\ \A s \in Rooms :
             /\ room'[s].durable = 0 /\ ~Serving(room'[s]) /\ room'[s].status # "reading"
             /\ room'[s].phase \in {"idle", "upload", "update"}
    BY DEF Blank, Serving, Rooms
  <2>1. row'.log = <<>> /\ journal' = {} /\ late' = {} BY DEF Grows, Sound
  <2>2. ~row.meta BY DEF Grows
  <2>3. \A s \in Rooms :
          /\ room[s].durable = 0 /\ ~Serving(room[s]) /\ room[s].status # "reading"
          /\ room[s].phase \in {"idle", "upload", "update"}
    BY <2>2 DEF BesideInv, Blank
  <2>4. QED BY <1>1, <2>1, <2>3
<1>9. Snapshots'
  <2>1. row'.meta => row'.file \in files' BY DEF Grows, Sound
  <2>2. \A s \in Rooms :
          /\ room'[s].phase \notin {"update", "pruneFiles"} => room'[s].file = NoFile
          /\ room'[s].phase = "update" => room'[s].file \in files' \ {row'.file}
          /\ room'[s].phase = "pruneFiles" => room'[s].file = row'.file
    <3> TAKE s \in Rooms
    <3>1. CASE s = r BY <1>1, <3>1
    <3>2. CASE s # r /\ files' = files /\ row' = row
      BY <1>1, <3>2 DEF BesideInv, Snapshots
    <3>3. CASE s # r /\ Last(r)
      <4>1. room[s].phase \notin Saving
        <5>1. CASE r < s
          <6>1. room[s] = NewRoom BY <1>3, <3>3, <5>1 DEF Last
          <6>2. QED BY <6>1 DEF NewRoom, Saving
        <5>2. CASE s < r
          <6>1. CASE Over(room[s]) BY <6>1 DEF Over, Saving
          <6>2. CASE Serving(room[s]) /\ room[s].target = 0
            BY <6>2, ServingIs
          <6>3. QED BY <1>5, <5>2, <6>1, <6>2
        <5>3. QED BY <1>1, <3>3, <5>1, <5>2
      <4>2. room[s].file = NoFile BY <4>1 DEF BesideInv, Snapshots, Saving
      <4>3. QED BY <1>1, <3>3, <4>1, <4>2 DEF Saving
    <3>4. QED BY <3>1, <3>2, <3>3
  <2>3. QED BY <2>1, <2>2 DEF Snapshots, Rooms
<1>10. Stored'
  <2>1. row'.meta => Contiguous(row'.log, journal') BY DEF Grows, Sound
  <2>2. ASSUME NEW s \in Rooms PROVE room'[s].durable <= room'[s].seq /\ Agrees(s, room[s].durable)'
    <3>1. CASE s = r BY <1>1, <3>1 DEF Agrees
    <3>2. CASE s # r
      <4>1. PICK n \in Nat : n = room[s].durable BY <1>1 DEF HostedRooms
      <4>2. n <= room[s].seq /\ Agrees(s, n) BY <4>1 DEF BesideInv, Stored, Agrees
      <4>3. \A q \in 1..n : LogOf(s)'[q] = LogOf(s)[q]
        BY <1>1, <3>2 DEF LogOf
      <4>4. Agrees(s, n)' BY <1>2, <4>2, <4>3, AgreesKept
      <4>5. QED BY <1>1, <3>2, <4>1, <4>2, <4>4 DEF Agrees
    <3>3. QED BY <3>1, <3>2
  <2>3. QED BY <2>1, <2>2 DEF Stored, Rooms
<1>11. ASSUME NEW s \in Rooms PROVE Fenced(s)'
  <2> SUFFICES ASSUME HasRead(room'[s])
               PROVE  /\ \A a \in Rooms : a < s /\ Serving(room'[a]) =>
                           Stops(WrittenBy(room[a]) + 1, room[s])'
                      /\ Serving(room'[s]) /\ room'[s].target > 0 =>
                           \A p \in late' : p.by < s => Stops(p.start, room[s])'
    BY DEF Fenced, HasRead, Serving, Rooms
  <2>1. CASE s = r
    <3>1. \A n : Stops(n, h)' => Stops(n, room[s])' 
      BY <1>1, <2>1 DEF Stops, FenceOf, HasWritten, Taken
    <3>2. \A a \in Rooms : a < s /\ Serving(room'[a]) => Stops(WrittenBy(room[a]) + 1, room[s])'
      <4> SUFFICES ASSUME NEW a \in Rooms, a < s, Serving(room'[a])
                   PROVE  Stops(WrittenBy(room[a]) + 1, room[s])'
        OBVIOUS
      <4>1. room'[a] = room[a] /\ a # r BY <1>1, <2>1
      <4>2. Stops(WrittenBy(room[a]) + 1, h)' BY <1>1, <2>1, <4>1
      <4>3. QED BY <1>1, <2>1, <4>1, <4>2 DEF Stops, FenceOf, HasWritten, Taken, WrittenBy
    <3>3. Serving(room'[s]) /\ room'[s].target > 0 =>
            \A p \in late' : p.by < s => Stops(p.start, room[s])'
      BY <1>1, <2>1 DEF Stops, FenceOf, HasWritten, Taken
    <3>4. QED BY <3>2, <3>3
  <2>2. CASE s # r
    <3>1. room'[s] = room[s] /\ HasRead(room[s]) BY <1>1, <2>2
    <3>2. /\ \A a \in Rooms : a < s /\ Serving(room[a]) =>
               Stops(WrittenBy(room[a]) + 1, room[s])
          /\ Serving(room[s]) /\ room[s].target > 0 =>
               \A p \in late : p.by < s => Stops(p.start, room[s])
      BY <3>1 DEF BesideInv, Fenced
    <3>3. CASE Last(r)
      <4>1. s < r BY <1>1, <1>6, <2>2, <3>1, <3>3 DEF Last
      <4>2. Serving(room[s]) /\ room[s].target = 0 /\ r = s + 1
        BY <1>5, <1>6, <3>1, <4>1
      <4>3. \A a \in Rooms : a < s => ~Serving(room'[a])
        BY <1>1, <1>5, <1>6, <4>1, <4>2
      <4>4. QED BY <3>1, <4>2, <4>3
    <3>4. CASE journal \subseteq journal'
      <4>1. \A n : Stops(n, room[s]) => Stops(n, room[s])'
        BY <3>1, <3>4 DEF Stops, FenceOf, HasWritten, Taken
      <4>2. \A a \in Rooms : a < s /\ Serving(room'[a]) =>
              Stops(WrittenBy(room[a]) + 1, room[s])'
        <5> SUFFICES ASSUME NEW a \in Rooms, a < s, Serving(room'[a])
                     PROVE  Stops(WrittenBy(room[a]) + 1, room[s])'
          OBVIOUS
        <5>1. CASE a = r
          <6>1. Stops(WrittenBy(h) + 1, room[s])' BY <1>1, <3>1, <5>1
          <6>2. QED BY <1>1, <5>1, <6>1 DEF Stops, WrittenBy
        <5>2. CASE a # r
          <6>1. room'[a] = room[a] /\ Stops(WrittenBy(room[a]) + 1, room[s])
            BY <1>1, <3>2, <5>2
          <6>2. QED
            BY <3>1, <3>4, <6>1 DEF Stops, FenceOf, HasWritten, Taken, WrittenBy
        <5>3. QED BY <5>1, <5>2
      <4>3. ASSUME Serving(room'[s]), room'[s].target > 0, NEW p \in late', p.by < s
            PROVE  Stops(p.start, room[s])'
        <5>1. CASE p \in late BY <3>1, <3>2, <4>1, <4>3, <5>1
        <5>2. CASE p \notin late
          <6>1. p.by = r BY <5>2
          <6>2. QED BY <3>1, <4>3, <5>2, <6>1
        <5>3. QED BY <5>1, <5>2
      <4>4. QED BY <4>2, <4>3
    <3>5. QED BY <3>3, <3>4
  <2>3. QED BY <2>1, <2>2
<1>12. ASSUME NEW s \in Rooms PROVE LiveBeside(s)'
  <2>1. CASE s = r BY <2>1
  <2>2. CASE s # r
    <3>1. room'[s] = room[s] /\ LiveBeside(s) BY <1>1, <2>2 DEF BesideInv
    <3>2. room[s].status # "initial"
      <4>1. r < s => room[s].status # "initial" BY <1>4
      <4>2. s < r => room[s].status # "initial" BY <1>5 DEF Over, Serving
      <4>3. QED BY <1>1, <2>2, <4>1, <4>2
    <3>3. ASSUME room[s].status \in {"reading", "document", "discarding"} PROVE LoadsBeside(s)'
      <4>1. r < s BY <1>1, <1>5, <2>2, <3>3 DEF Over, Serving
      <4>2. ~Last(r) BY <3>3, <4>1 DEF Last
      <4>3. QED BY <3>1, <3>3, <4>2, LoadsStay
    <3>4. ASSUME Serving(room[s]) PROVE ServesBeside(s)'
      <4>1. Taken(WrittenBy(room[s]) + 1) => Taken(WrittenBy(room[s]) + 1)'
        BY <2>2, <3>4
      <4>2. CASE row' = row
        <5>1. Last(s)' => Last(s)
          <6> SUFFICES ASSUME \A t \in Rooms : s < t => room'[t].status = "new"
                       PROVE  \A t \in Rooms : s < t => room[t].status = "new"
            BY DEF Last, Rooms
          <6>1. QED BY <1>1
        <5>2. QED BY <3>1, <3>4, <4>1, <4>2, <5>1, ServesStay
      <4>3. CASE row' # row
        <5>1. Last(r) BY <4>3
        <5>2. s < r /\ room[s].target = 0
          BY <1>1, <1>5, <1>6, <2>2, <3>4, <5>1 DEF Last
        <5>3. ~Last(s)' BY <1>1, <5>2 DEF Last
        <5>4. QED BY <3>1, <3>4, <4>1, <5>2, <5>3, ServesStay
      <4>4. QED BY <4>2, <4>3
    <3>5. (room[s].status = "new" => room[s] = NewRoom)' BY <3>1 DEF LiveBeside, NewRoom
    <3>6. QED BY <3>1, <3>2, <3>3, <3>4, <3>5 DEF LiveBeside
  <2>3. QED BY <2>1, <2>2
<1>13. QED BY <1>7, <1>8, <1>9, <1>10, <1>11, <1>12 DEF BesideInv, Rooms
----------------------------------------------------------------------------
\* What is on its way stays harmless while the packets with its numbers stay.
LEMMA LateOn ==
  ASSUME IInv, IInv', BesideInv, Grows, row.meta, journal \subseteq journal',
         \A p \in late' : p \in late
  PROVE  \A p \in late' : Harmless(p)'
<1> TAKE p \in late'
<1>1. p \in Packets /\ Harmless(p) BY DEF IInv, StorageOK, BesideInv, Stored
<1>2. Taken(p.start) => Taken(p.start)' BY DEF Taken
<1>3. Sound BY BesideSound
<1>4. QED BY <1>1, <1>2, <1>3, HarmlessOn

\* A packet that was being written when its sender stopped waiting for it.
LEMMA AbandonedBeside ==
  ASSUME IInv, BesideInv, NEW r \in Rooms, Serving(room[r]), room[r].phase = "append",
         NEW p, p = PacketOf(r)
  PROVE  /\ p \in Packets /\ p.by = r /\ p.start = WrittenBy(room[r]) + 1
         /\ p.start = room[r].journaled + 1
         /\ p.start <= p.end /\ p.end <= MaxSeq
         /\ p.end = room[r].upto /\ p.end <= room[r].seq /\ Harmless(p)
<1>1. /\ room[r] \in HostedRooms /\ RoomOK(room[r]) BY DEF IInv
<1>2. /\ room[r].journaled < room[r].upto /\ room[r].upto <= room[r].seq
      /\ room[r].journaled \in Nat /\ room[r].upto \in Nat /\ room[r].upto <= MaxSeq
      /\ WrittenBy(room[r]) = room[r].journaled
  BY <1>1 DEF RoomOK, Writing, HostedRooms, WrittenBy
<1>3. Follows(room[r].journaled) BY <1>2, ServingIs
<1>4. Harmless(p) BY <1>3 DEF Follows, Harmless, PacketOf
<1>5. QED BY <1>2, <1>4 DEF PacketOf, Packets

LEMMA BusyBeside ==
  ASSUME IInv, BesideInv, NEW r \in Rooms, room[r].phase # "idle", room[r].status # "initial"
  PROVE  Serving(room[r])
<1>1. room[r].status \in Statuses BY DEF IInv, HostedRooms
<1>2. LiveBeside(r) BY DEF BesideInv
<1>3. room[r].status # "new" BY <1>2, NewRoomOK DEF LiveBeside, NewRoom
<1>4. room[r].status \notin {"reading", "document", "discarding"}
  BY <1>2 DEF LiveBeside, LoadsBeside
<1>5. QED BY <1>1, <1>3, <1>4 DEF Statuses, Serving

\* A life that ends keeps what it announced; its last packet may still land.
LEMMA BesideEnds ==
  ASSUME IInv, IInv', BesideInv, Grows, NEW r \in Rooms, NEW g \in HostedRooms,
         room' = [room EXCEPT ![r] = Settled(g)], g.status = "closed", g.phase = "idle",
         room[r].status # "new", ~Over(room[r]),
         g.base = room[r].base, g.durable <= room[r].seq, Agrees(r, g.durable),
         Last(r) \/ (files' = files /\ row' = row /\ journal \subseteq journal'),
         \A s \in Rooms \ {r} :
           Serving(room[s]) /\ Taken(WrittenBy(room[s]) + 1)
             => Taken(WrittenBy(room[s]) + 1)',
         journal' \subseteq journal,
         \A p \in late' : p \in late \/ (/\ p = PacketOf(r) /\ room[r].phase = "append"
                                         /\ Serving(room[r]) /\ journal' = journal),
         \A p \in late' : Harmless(p)',
         ~row'.meta => late' = {} /\ g.durable = 0
  PROVE  BesideInv'
<1> DEFINE h == Settled(g)
<1>1. /\ h \in HostedRooms
      /\ h.status = "closed" /\ h.phase = "idle" /\ h.file = NoFile
      /\ h.base = g.base /\ h.seq = g.durable /\ h.durable = g.durable
  BY NewRoomOK DEF Settled, NewRoom, HostedRooms, Statuses
<1> HIDE DEF h
<1>2. PICK n \in Nat : n = g.durable BY DEF HostedRooms
<1>3. room'[r] = h /\ room[r].seq \in Nat BY DEF IInv, h, HostedRooms
<1>4. Content /\ Content' BY BesideSound, ContentIsNext DEF IInv, Grows
<1>5. Agrees(r, n)'
  <2>1. Agrees(r, n) /\ n <= room[r].seq BY <1>2 DEF Agrees
  <2>2. \A q \in 1..n : LogOf(r)'[q] = LogOf(r)[q]
    BY <1>1, <1>2, <1>3, <2>1 DEF LogOf
  <2>3. QED BY <1>4, <2>1, <2>2, AgreesKept
<1>6. LiveBeside(r)' BY <1>1, <1>3 DEF LiveBeside, Serving
<1>7. h.durable = n /\ n <= h.seq BY <1>1, <1>2
<1>8. room' = [room EXCEPT ![r] = h] BY DEF h
<1>9. ~Serving(h) /\ ~HasRead(h) /\ h.status # "new" /\ Over(h) /\ h.status # "initial"
      /\ h.status # "reading"
  BY <1>1 DEF Serving, HasRead, Over
<1>10. \A s \in Rooms : s < r =>
         \/ Over(room[s])
         \/ r = s + 1 /\ Serving(room[s]) /\ room[s].target = 0 /\ h.status # "initial"
  BY <1>9, Neighbours
<1>11. \A p \in late' : p \in late \/ (p.by = r /\ p.start <= p.end /\ Over(h))
  BY <1>9, AbandonedBeside
<1>12. \A p \in journal' : p \in journal \cup late \/ (p.by = r /\ p.start <= p.end)
  OBVIOUS
<1>13. ASSUME NEW s \in Rooms, r < s, HasRead(room[s]), Serving(room[s]), room[s].target > 0,
              NEW p \in late' \ late
       PROVE  Stops(p.start, room[s])'
  <2>1. Serving(room[r]) /\ p.start = WrittenBy(room[r]) + 1 /\ journal' = journal
    BY <1>13, AbandonedBeside
  <2>2. Stops(p.start, room[s]) BY <1>13, <2>1 DEF BesideInv, Fenced
  <2>3. room'[s] = room[s]
    <3>1. s # r BY <1>13, NRoomsAssumption DEF Rooms
    <3>2. QED BY <3>1 DEF IInv
  <2>4. QED BY <2>1, <2>2, <2>3 DEF Stops, FenceOf, HasWritten, Taken
<1>14. QED
  BY <1>1, <1>5, <1>6, <1>7, <1>8, <1>9, <1>10, <1>11, <1>12, <1>13, BesideKeeps

\* The row and the journal stay when it ends.
LEMMA BesideEndsStill ==
  ASSUME IInv, IInv', BesideInv, NEW r \in Rooms, NEW g \in HostedRooms,
         room' = [room EXCEPT ![r] = Settled(g)], g.status = "closed", g.phase = "idle",
         room[r].status # "new", ~Over(room[r]),
         g.base = room[r].base, g.durable <= room[r].seq, Agrees(r, g.durable),
         UNCHANGED <<row, journal>>, row.meta => row.file \in files',
         Last(r) \/ files' = files, ~row.meta => g.durable = 0,
         \A p \in late' : p \in late \/ (/\ p = PacketOf(r) /\ room[r].phase = "append"
                                         /\ Serving(room[r]))
  PROVE  BesideInv'
<1>1. Grows BY StillBeside
<1>2. \A p \in late' : Harmless(p)'
  <2>1. \A p \in late' : Harmless(p) BY AbandonedBeside DEF BesideInv, Stored
  <2>2. QED BY <2>1 DEF Harmless, Taken, End, Top
<1>3. \A s \in Rooms \ {r} :
        Serving(room[s]) /\ Taken(WrittenBy(room[s]) + 1)
          => Taken(WrittenBy(room[s]) + 1)'
  BY DEF Taken
<1>4. ~row'.meta => late' = {} /\ g.durable = 0
  <2> SUFFICES ASSUME ~row'.meta PROVE late' = {} /\ g.durable = 0 OBVIOUS
  <2>1. late = {} /\ ~Serving(room[r]) BY DEF BesideInv, Blank
  <2>2. QED BY <2>1
<1>5. /\ journal' = journal /\ journal' \subseteq journal
      /\ Last(r) \/ (files' = files /\ row' = row /\ journal \subseteq journal')
      /\ \A p \in late' : p \in late \/ (/\ p = PacketOf(r) /\ room[r].phase = "append"
                                         /\ Serving(room[r]) /\ journal' = journal)
  OBVIOUS
<1>6. QED BY <1>1, <1>2, <1>3, <1>4, <1>5, BesideEnds

\* What a step after which the room serves has to show.
LEMMA BesideServes ==
  ASSUME IInv, IInv', BesideInv, Grows, NEW r \in Rooms, NEW h \in HostedRooms,
         room' = [room EXCEPT ![r] = h], room[r].status # "new", ~Over(room[r]),
         Serving(h), row'.meta, h.target = 0 \/ Last(r),
         Last(r) \/ (files' = files /\ row' = row /\ journal \subseteq journal'),
         \A s \in Rooms \ {r} :
           Serving(room[s]) /\ Taken(WrittenBy(room[s]) + 1)
             => Taken(WrittenBy(room[s]) + 1)',
         \A p \in journal' : p \in journal \/ (p.by = r /\ p.start <= p.end),
         late' = late, \A p \in late' : Harmless(p)',
         NEW w \in Nat, w = WrittenBy(h), Agrees(r, w)', Follows(w)',
         h.durable <= h.journaled,
         Last(r) => Len(row'.log) <= h.journaled,
         Len(h.base) <= h.journaled, h.journaled <= h.seq,
         h.target > 0 => Len(row'.log) <= h.target,
         h.phase \in Saving => h.target > 0 /\ h.target <= h.journaled,
         h.phase \in {"pruneFiles", "pruneJournal"} => Len(row'.log) = h.target,
         h.phase \notin {"update", "pruneFiles"} => h.file = NoFile,
         h.phase = "update" => h.file \in files' \ {row'.file},
         h.phase = "pruneFiles" => h.file = row'.file,
         \A a \in Rooms : a < r /\ Serving(room[a]) => Stops(WrittenBy(room[a]) + 1, h)',
         h.target > 0 => \A p \in late' : p.by < r => Stops(p.start, h)',
         \A s \in Rooms : r < s /\ HasRead(room[s]) => Stops(w + 1, room[s])'
  PROVE  BesideInv'
<1>1. PICK k \in Nat : k = h.durable BY DEF HostedRooms
<1>2. /\ h.journaled \in Nat /\ h.seq \in Nat /\ h.status # "new" /\ h.status # "initial"
      /\ h.status \notin {"reading", "document", "discarding"}
  BY DEF HostedRooms, Serving
<1>3. Agrees(r, k)'
  <2>1. RoomOK(h)
    <3>1. room'[r] = h BY DEF IInv
    <3>2. RoomOK(room[r])' BY DEF IInv, Rooms
    <3>3. QED BY <3>1, <3>2 DEF RoomOK
  <2>2. h.journaled <= w BY <1>2, <2>1 DEF RoomOK, WrittenBy, Writing, HostedRooms
  <2>3. k <= w BY <1>1, <1>2, <2>2
  <2>4. QED BY <2>3 DEF Agrees
<1>4. room'[r] = h BY DEF IInv
<1>5. ServesBeside(r)'
  <2>1. WrittenBy(room[r])' = w BY <1>4 DEF WrittenBy
  <2>2. (Agrees(r, WrittenBy(room[r])) /\ Follows(WrittenBy(room[r])))'
    BY <2>1 DEF Agrees, Follows
  <2>3. Last(r)' => Len(row'.log) <= room'[r].journaled
    <3>1. Last(r)' => Last(r)
      <4> SUFFICES ASSUME \A t \in Rooms : r < t => room'[t].status = "new"
                   PROVE  \A t \in Rooms : r < t => room[t].status = "new"
        BY DEF Last, Rooms
      <4> TAKE t \in Rooms
      <4>1. r < t => t # r BY NRoomsAssumption DEF Rooms
      <4>2. QED BY <4>1 DEF IInv
    <3>2. QED BY <1>4, <3>1
  <2>4. QED BY <1>4, <2>2, <2>3 DEF ServesBeside, Saving
<1>6. LiveBeside(r)' BY <1>2, <1>4, <1>5 DEF LiveBeside
<1>7. k <= h.seq /\ h.durable = k BY <1>1, <1>2
<1>8. \A s \in Rooms : s < r =>
        \/ Over(room[s])
        \/ r = s + 1 /\ Serving(room[s]) /\ room[s].target = 0 /\ h.status # "initial"
  BY <1>2, Neighbours
<1>9. Over(h) \/ (Serving(h) /\ h.target = 0) \/ Last(r) OBVIOUS
<1>10. /\ \A p \in journal' : p \in journal \cup late \/ (p.by = r /\ p.start <= p.end)
       /\ \A p \in late' : p \in late \/ (p.by = r /\ p.start <= p.end /\ Over(h))
  OBVIOUS
<1>11. \A s \in Rooms : r < s /\ HasRead(room[s]) =>
         /\ Serving(h) => Stops(WrittenBy(h) + 1, room[s])'
         /\ Serving(room[s]) /\ room[s].target > 0 =>
              \A p \in late' \ late : Stops(p.start, room[s])'
  OBVIOUS
<1>12. HasRead(h) => \A a \in Rooms : a < r /\ Serving(room[a]) =>
                       Stops(WrittenBy(room[a]) + 1, h)'
  OBVIOUS
<1>13. QED
  BY <1>2, <1>3, <1>6, <1>7, <1>8, <1>9, <1>10, <1>11, <1>12, BesideKeeps

\* The room goes on, the row and the journal stay.
LEMMA BesideQuiet ==
  ASSUME IInv, IInv', BesideInv, NEW r \in Rooms, NEW h \in HostedRooms,
         room' = [room EXCEPT ![r] = h], Serving(room[r]), Serving(h),
         UNCHANGED <<row, journal, late>>, row.file \in files',
         h.target = 0 \/ (/\ Last(r)
                          /\ room[r].target > 0 \/ \A p \in late : p.by >= r),
         Last(r) \/ files' = files,
         NEW w \in Nat, w = WrittenBy(h), w = WrittenBy(room[r]),
         FenceOf(h) = FenceOf(room[r]), HasWritten(h) => HasWritten(room[r]),
         h.base = room[r].base, room[r].seq <= h.seq, h.journaled <= h.seq,
         room[r].journaled <= h.journaled, h.durable <= h.journaled,
         h.target > 0 => Len(row.log) <= h.target,
         h.phase \in Saving => h.target > 0 /\ h.target <= h.journaled,
         h.phase \in {"pruneFiles", "pruneJournal"} => Len(row.log) = h.target,
         h.phase \notin {"update", "pruneFiles"} => h.file = NoFile,
         h.phase = "update" => h.file \in files' \ {row.file},
         h.phase = "pruneFiles" => h.file = row.file
  PROVE  BesideInv'
<1>1. /\ ServesBeside(r) /\ row.meta /\ room[r].status # "new" /\ ~Over(room[r])
      /\ Agrees(r, w) /\ Follows(w) /\ w <= room[r].seq
  BY ServingIs
<1>2. Grows /\ Recoverable' = Recoverable BY <1>1, StillBeside
<1>3. Content /\ Content' BY <1>2, BesideSound, ContentIsNext DEF IInv, Grows
<1>4. /\ Len(row.log) \in Nat /\ Len(room[r].base) \in Nat
      /\ room[r].journaled \in Nat /\ room[r].seq \in Nat
      /\ h.journaled \in Nat /\ h.seq \in Nat
  BY <1>3, SMTT(30) DEF Content, IInv, HostedRooms, Logs
<1>5. Agrees(r, w)'
  <2>1. room'[r] = h BY DEF IInv
  <2>2. \A q \in 1..w : LogOf(r)'[q] = LogOf(r)[q] BY <1>1, <1>4, <2>1 DEF LogOf
  <2>3. QED BY <1>1, <1>2, <1>3, <2>2, AgreesKept
<1>6. Follows(w)' BY <1>1 DEF Follows, Taken, End, Top
<1>7. \A p \in late' : Harmless(p)' BY <1>1, <1>2, LateOn
<1>8. /\ Last(r) => Len(row'.log) <= h.journaled
      /\ Len(h.base) <= h.journaled /\ row'.meta
  BY <1>1, <1>4 DEF ServesBeside
<1>9. \A n : Stops(n, room[r]) => Stops(n, h)'
  BY DEF Stops, Taken, FenceOf, HasWritten
<1>10. Fenced(r) /\ HasRead(room[r]) BY DEF BesideInv, HasRead
<1>11. \A a \in Rooms : a < r /\ Serving(room[a]) => Stops(WrittenBy(room[a]) + 1, h)'
  <2> SUFFICES ASSUME NEW a \in Rooms, a < r, Serving(room[a])
               PROVE  Stops(WrittenBy(room[a]) + 1, h)'
    OBVIOUS
  <2>1. Stops(WrittenBy(room[a]) + 1, room[r]) BY <1>10 DEF Fenced
  <2>2. QED BY <2>1 DEF Stops, Taken, FenceOf, HasWritten
<1>12. h.target > 0 => \A p \in late' : p.by < r => Stops(p.start, h)'
  <2> SUFFICES ASSUME h.target > 0, NEW p \in late, p.by < r PROVE Stops(p.start, h)'
    OBVIOUS
  <2>1. CASE room[r].target > 0
    BY <1>9, <1>10, <2>1 DEF Fenced
  <2>2. CASE \A p2 \in late : p2.by >= r
    BY <2>2, NRoomsAssumption DEF IInv, StorageOK, Packets, Rooms
  <2>3. QED BY <2>1, <2>2
<1>13. \A s \in Rooms : r < s /\ HasRead(room[s]) => Stops(w + 1, room[s])'
  <2> SUFFICES ASSUME NEW s \in Rooms, r < s, HasRead(room[s])
               PROVE  Stops(w + 1, room[s])'
    OBVIOUS
  <2>1. Stops(w + 1, room[s]) BY DEF BesideInv, Fenced
  <2>2. room'[s] = room[s]
    <3>1. s # r BY NRoomsAssumption DEF Rooms
    <3>2. QED BY <3>1 DEF IInv
  <2>3. QED BY <2>1, <2>2 DEF Stops, Taken, FenceOf, HasWritten
<1>14. /\ \A s \in Rooms \ {r} :
            Serving(room[s]) /\ Taken(WrittenBy(room[s]) + 1)
              => Taken(WrittenBy(room[s]) + 1)'
       /\ \A p \in journal' : p \in journal \/ (p.by = r /\ p.start <= p.end)
       /\ Last(r) \/ (files' = files /\ row' = row /\ journal \subseteq journal')
       /\ h.target = 0 \/ Last(r)
  BY DEF Taken
<1>15. /\ h.target > 0 => Len(row'.log) <= h.target
       /\ h.phase \in {"pruneFiles", "pruneJournal"} => Len(row'.log) = h.target
       /\ h.phase = "update" => h.file \in files' \ {row'.file}
       /\ h.phase = "pruneFiles" => h.file = row'.file
       /\ late' = late
  OBVIOUS
<1>16. QED
  BY <1>1, <1>2, <1>5, <1>6, <1>7, <1>8, <1>11, <1>12, <1>13, <1>14, <1>15, BesideServes
----------------------------------------------------------------------------
(* A server loads beside the one that serves                                *)

\* What a room holds beyond its checkpoint when the next one reads the journal.
Current ==
  \A a, r \in Rooms :
    /\ r = a + 1 /\ Serving(room[a])
    /\ room[r].status = "reading" /\ "journal" \notin room[r].got
    => Len(Recoverable) = WrittenBy(room[a])

\* A step of a load that leaves the storage as it is.
LEMMA BesideLoads ==
  ASSUME IInv, IInv', BesideInv, NEW r \in Rooms, NEW h \in HostedRooms,
         room' = [room EXCEPT ![r] = h], ~Over(room[r]),
         UNCHANGED <<row, files, journal, late>>,
         h.status \in {"reading", "document", "discarding", "initial"},
         h.phase = "idle", h.durable = 0, h.file = NoFile,
         ~row.meta => h.status # "reading",
         \A s \in Rooms : s < r =>
           \/ Over(room[s])
           \/ r = s + 1 /\ Serving(room[s]) /\ room[s].target = 0,
         Last(r),
         \A a \in Rooms : a < r /\ Serving(room[a]) =>
           /\ h.status # "initial"
           /\ HasRead(h) => FenceOf(h) <= WrittenBy(room[a]) + 1,
         LiveBeside(r)'
  PROVE  BesideInv'
<1>1. Sound /\ Content BY BesideSound
<1>2. Grows /\ Recoverable' = Recoverable BY <1>1, StillBeside DEF Sound
<1>3. \A p \in late' : Harmless(p)' BY DEF BesideInv, Stored, Harmless, Taken, End, Top
<1>4. Agrees(r, 0)'
  BY <1>1, <1>2, ContentIsNext DEF Agrees, Content, Grows, IInv
<1>5. ~Serving(h) /\ h.status # "new" BY DEF Serving
<1>6. ~row'.meta => late' = {} /\ h.status # "reading" BY DEF BesideInv, Blank
<1>7. 0 <= h.seq /\ 0 \in Nat BY DEF HostedRooms
<1>8. \A s \in Rooms : s < r =>
        \/ Over(room[s])
        \/ r = s + 1 /\ Serving(room[s]) /\ room[s].target = 0 /\ h.status # "initial"
  OBVIOUS
<1>9. HasRead(h) => \A a \in Rooms : a < r /\ Serving(room[a]) =>
                      Stops(WrittenBy(room[a]) + 1, h)'
  <2> SUFFICES ASSUME HasRead(h), NEW a \in Rooms, a < r, Serving(room[a])
               PROVE  Stops(WrittenBy(room[a]) + 1, h)'
    OBVIOUS
  <2>1. FenceOf(h) <= WrittenBy(room[a]) + 1 /\ ~HasWritten(h) BY <1>5 DEF HasWritten
  <2>2. room'[a] = room[a]
    <3>1. a # r BY NRoomsAssumption DEF Rooms
    <3>2. QED BY <3>1 DEF IInv
  <2>3. QED BY <2>1, <2>2 DEF Stops, FenceOf, HasWritten, WrittenBy
<1>10. /\ \A s \in Rooms \ {r} :
            Serving(room[s]) /\ Taken(WrittenBy(room[s]) + 1)
              => Taken(WrittenBy(room[s]) + 1)'
       /\ \A p \in journal' : p \in journal \cup late \/ (p.by = r /\ p.start <= p.end)
       /\ \A p \in late' : p \in late \/ (p.by = r /\ p.start <= p.end /\ Over(h))
  BY DEF Taken
<1>11. \A s \in Rooms : r < s => ~HasRead(room[s])
  BY DEF Last, HasRead, Serving
<1>12. QED
  BY <1>2, <1>3, <1>4, <1>5, <1>6, <1>7, <1>8, <1>9, <1>10, <1>11, BesideKeeps

LEMMA LoadRowBeside ==
  ASSUME IInv, IInv', BesideInv, Deployment, NEW r \in Rooms, LoadRow(r)
  PROVE  BesideInv'
<1> DEFINE h == [room[r] EXCEPT !.seen = row,
                                !.status = IF row.meta THEN "reading" ELSE "document"]
<1>1. room' = [room EXCEPT ![r] = h] /\ UNCHANGED <<row, files, journal, late>>
  BY DEF LoadRow, IInv
<1>2. room[r] = NewRoom /\ room[r].status = "new" BY DEF LoadRow, BesideInv, LiveBeside
<1>3. h \in HostedRooms
  <2> HIDE DEF h
  <2>1. room'[r] = h /\ room'[r] \in HostedRooms BY <1>1 DEF IInv, Rooms
  <2>2. QED BY <2>1
<1>4. /\ h.seen = row /\ h.status = IF row.meta THEN "reading" ELSE "document"
      /\ h.phase = "idle" /\ h.durable = 0 /\ h.seq = 0 /\ h.got = {} /\ h.file = NoFile
  BY <1>2 DEF NewRoom
<1> HIDE DEF h
<1>5. room'[r] = h BY <1>1 DEF IInv
<1>6. \A s \in Rooms : s < r =>
        Over(room[s]) \/ (r = s + 1 /\ Serving(room[s]) /\ room[s].target = 0)
  <2> SUFFICES ASSUME NEW s \in Rooms, s < r
               PROVE  Over(room[s]) \/ (r = s + 1 /\ Serving(room[s]) /\ room[s].target = 0)
    OBVIOUS
  <2>1. s \in Nat /\ r \in Nat BY NRoomsAssumption DEF Rooms
  <2>2. CASE s < r - 1 BY <2>1, <2>2 DEF LoadRow, MayLoad, Over, Ended
  <2>3. CASE s = r - 1
    BY <2>1, <2>3 DEF LoadRow, MayLoad, Over, Ended, Deployment, Active, Serving
  <2>4. QED BY <2>1, <2>2, <2>3
<1>7. Last(r)
  BY <1>2 DEF Last, BesideInv, Beside, Over, Serving
<1>8. LoadsBeside(r)' BY <1>1, <1>4, <1>5 DEF LoadsBeside
<1>9. LiveBeside(r)' BY <1>4, <1>5, <1>8 DEF LiveBeside, Serving
<1>10. ~Over(room[r]) BY <1>2 DEF Over
<1>11. ~HasRead(h) BY <1>4 DEF HasRead, Serving
<1>12. QED BY <1>1, <1>3, <1>4, <1>6, <1>7, <1>9, <1>10, <1>11, BesideLoads

\* A load in progress: the room before it serves, or none does.
LEMMA LoadingIs ==
  ASSUME IInv, BesideInv, NEW r \in Rooms,
         room[r].status \in {"reading", "document", "discarding"}
  PROVE  /\ LoadsBeside(r) /\ Last(r) /\ ~Over(room[r]) /\ room[r].status # "new"
         /\ \A s \in Rooms : s < r =>
              Over(room[s]) \/ (r = s + 1 /\ Serving(room[s]) /\ room[s].target = 0)
         /\ room[r].status # "reading" => \A s \in Rooms : s < r => ~Serving(room[s])
         /\ room[r].file = NoFile
<1>1. LoadsBeside(r) BY DEF BesideInv, LiveBeside
<1>2. ~Over(room[r]) /\ room[r].status # "new" /\ ~Serving(room[r])
  BY <1>1 DEF Over, Serving, LoadsBeside
<1>3. Last(r) BY <1>2, Neighbours DEF Last
<1>4. \A s \in Rooms : s < r =>
        Over(room[s]) \/ (r = s + 1 /\ Serving(room[s]) /\ room[s].target = 0)
  BY <1>2, Neighbours
<1>5. room[r].status # "reading" => \A s \in Rooms : s < r => ~Serving(room[s])
  BY <1>1 DEF LoadsBeside, BesideInv, Blank
<1>6. room[r].file = NoFile BY <1>1 DEF LoadsBeside, BesideInv, Snapshots
<1>7. QED BY <1>1, <1>2, <1>3, <1>4, <1>5, <1>6

LEMMA LoadSnapshotBeside ==
  ASSUME IInv, IInv', BesideInv, NEW r \in Rooms, LoadSnapshot(r)
  PROVE  BesideInv'
<1> DEFINE h == [room[r] EXCEPT !.got = @ \cup {"snapshot"}]
<1>1. /\ room[r].status = "reading" /\ LoadsBeside(r) /\ Last(r) /\ ~Over(room[r])
      /\ room[r].file = NoFile
      /\ \A s \in Rooms : s < r =>
           Over(room[s]) \/ (r = s + 1 /\ Serving(room[s]) /\ room[s].target = 0)
  BY LoadingIs DEF LoadSnapshot
<1>2. row.meta /\ room[r].seen.file \in files
  BY <1>1 DEF LoadsBeside, BesideInv, Snapshots
<1>3. room' = [room EXCEPT ![r] = h] /\ UNCHANGED <<row, files, journal, late>>
  BY <1>2 DEF LoadSnapshot, IInv
<1>4. h \in HostedRooms BY DEF IInv, HostedRooms
<1>5. /\ h.status = "reading" /\ h.phase = "idle" /\ h.durable = 0 /\ h.file = NoFile
      /\ h.seen = room[r].seen /\ h.rows = room[r].rows
      /\ "journal" \in h.got <=> "journal" \in room[r].got
  BY <1>1 DEF LoadsBeside, IInv, HostedRooms
<1> HIDE DEF h
<1>6. room'[r] = h BY <1>3 DEF IInv
<1>7. LoadsBeside(r)'
  <2>1. CASE "journal" \notin room[r].got
    BY <1>1, <1>2, <1>3, <1>5, <1>6, <2>1 DEF LoadsBeside
  <2>2. CASE "journal" \in room[r].got
    <3>1. PICK n : n = Top(room[r].seen.log, room[r].rows) OBVIOUS
    <3>2. Top(room'[r].seen.log, room'[r].rows) = n BY <1>5, <1>6, <3>1
    <3>3. Follows(n)'
      BY <1>1, <1>3, <2>2, <3>1 DEF LoadsBeside, Follows, Taken, End, Top
    <3>4. LoadedLog(r)' = LoadedLog(r) /\ Recoverable' = Recoverable
      BY <1>3, <1>5, <1>6 DEF LoadedLog, Recoverable, Readable
    <3>5. \A q \in 1..n : LoadedLog(r)'[q] = Recoverable'[q]
      BY <1>1, <2>2, <3>1, <3>4 DEF LoadsBeside
    <3>6. QED
      BY <1>1, <1>2, <1>3, <1>5, <1>6, <3>2, <3>3, <3>5 DEF LoadsBeside, Follows
  <2>3. QED BY <2>1, <2>2
<1>8. LiveBeside(r)' BY <1>5, <1>6, <1>7 DEF LiveBeside, Serving
<1>9. \A a \in Rooms : a < r /\ Serving(room[a]) =>
        /\ h.status # "initial"
        /\ HasRead(h) => FenceOf(h) <= WrittenBy(room[a]) + 1
  <2> SUFFICES ASSUME NEW a \in Rooms, a < r, Serving(room[a]), HasRead(h)
               PROVE  FenceOf(h) <= WrittenBy(room[a]) + 1
    BY <1>5
  <2>1. ~Serving(h) /\ ~Serving(room[r]) BY <1>1, <1>5 DEF Serving
  <2>2. HasRead(room[r]) /\ FenceOf(h) = FenceOf(room[r])
    BY <1>1, <1>5, <2>1 DEF HasRead, FenceOf
  <2>3. QED BY <2>2 DEF BesideInv, Fenced, Stops
<1>10. QED BY <1>1, <1>2, <1>3, <1>4, <1>5, <1>8, <1>9, BesideLoads

LEMMA LoadJournalBeside ==
  ASSUME IInv, IInv', BesideInv, Current, NEW r \in Rooms, LoadJournal(r)
  PROVE  BesideInv'
<1>1. PICK rows : rows = {p \in journal : p.end > Len(row.log)} OBVIOUS
<1> DEFINE h == [room[r] EXCEPT !.got = @ \cup {"journal"}, !.rows = rows]
<1>2. /\ room[r].status = "reading" /\ LoadsBeside(r) /\ Last(r) /\ ~Over(room[r])
      /\ room[r].file = NoFile /\ "journal" \notin room[r].got
      /\ \A s \in Rooms : s < r =>
           Over(room[s]) \/ (r = s + 1 /\ Serving(room[s]) /\ room[s].target = 0)
  BY LoadingIs DEF LoadJournal
<1>3. row.meta /\ room[r].seen = row BY <1>2 DEF LoadsBeside
<1>4. room' = [room EXCEPT ![r] = h] /\ UNCHANGED <<row, files, journal, late>>
  BY <1>1, <1>3 DEF LoadJournal, IInv
<1>5. h \in HostedRooms
  <2> HIDE DEF h
  <2>1. room'[r] = h /\ room'[r] \in HostedRooms BY <1>4 DEF IInv, Rooms
  <2>2. QED BY <2>1
<1>6. /\ h.status = "reading" /\ h.phase = "idle" /\ h.durable = 0 /\ h.file = NoFile
      /\ h.seen = row /\ h.rows = rows
  BY <1>2, <1>3 DEF LoadsBeside, IInv, HostedRooms
<1> HIDE DEF h
<1>7. room'[r] = h BY <1>4 DEF IInv
<1>8. Sound /\ Content BY BesideSound
<1>9. Top(row.log, rows) = End /\ Replay(row.log, rows) = Recoverable
  BY <1>1, <1>3, <1>8, ReadsAll
<1>10. LoadsBeside(r)'
  <2>1. PICK n : n = End OBVIOUS
  <2>2. n \in Nat /\ n = Len(Recoverable) BY <1>8, <2>1 DEF Content
  <2>3. Top(room'[r].seen.log, room'[r].rows) = n BY <1>6, <1>7, <1>9, <2>1
  <2>4. Follows(n)' BY <1>4, <2>1, <2>2 DEF Follows, End, Top
  <2>5. Recoverable' = Recoverable BY <1>3, <1>4, <1>8, StillBeside DEF Sound
  <2>6. LoadedLog(r)' = Recoverable' BY <1>6, <1>7, <1>9, <2>5 DEF LoadedLog
  <2>7. QED
    BY <1>2, <1>3, <1>4, <1>6, <1>7, <2>3, <2>4, <2>6 DEF LoadsBeside, Follows
<1>11. LiveBeside(r)' BY <1>6, <1>7, <1>10 DEF LiveBeside, Serving
<1>12. \A a \in Rooms : a < r /\ Serving(room[a]) =>
         /\ h.status # "initial"
         /\ HasRead(h) => FenceOf(h) <= WrittenBy(room[a]) + 1
  <2> SUFFICES ASSUME NEW a \in Rooms, a < r, Serving(room[a])
               PROVE  FenceOf(h) <= WrittenBy(room[a]) + 1
    BY <1>6
  <2>1. r = a + 1 BY <1>2 DEF Over, Serving
  <2>2. WrittenBy(room[a]) = End BY <1>2, <1>8, <2>1 DEF Current, Content
  <2>3. FenceOf(h) = End + 1 BY <1>6, <1>9 DEF FenceOf, Serving
  <2>4. End \in Nat BY <1>8 DEF Content
  <2>5. QED BY <2>2, <2>3, <2>4
<1>13. QED BY <1>2, <1>3, <1>4, <1>5, <1>6, <1>11, <1>12, BesideLoads

\* The room opens with what it read.
LEMMA LoadOpenBeside ==
  ASSUME IInv, IInv', BesideInv, NEW r \in Rooms, LoadOpen(r)
  PROVE  BesideInv'
<1>1. PICK log : log = LoadedLog(r) OBVIOUS
<1>2. PICK n : n = Len(log) OBVIOUS
<1>3. PICK saved : saved = IF room[r].rows = {} THEN n ELSE 0 OBVIOUS
<1>4. PICK h : h = [NewRoom EXCEPT !.status = "open", !.base = log, !.seq = n,
                      !.journaled = n, !.durable = n, !.saved = saved]
  OBVIOUS
<1>5. /\ room' = [room EXCEPT ![r] = h] /\ UNCHANGED <<row, files, journal, late>>
      /\ Contiguous(room[r].seen.log, room[r].rows)
  BY <1>1, <1>2, <1>3, <1>4 DEF LoadOpen
<1>6. /\ room[r].status = "reading" /\ "journal" \in room[r].got /\ room[r].status # "new"
      /\ LoadsBeside(r) /\ Last(r) /\ ~Over(room[r])
  BY LoadingIs DEF LoadOpen, Loaded
<1>7. row.meta /\ room[r].seen = row BY <1>6 DEF LoadsBeside
<1>8. /\ row.log \in Logs /\ Len(row.log) <= MaxSeq
      /\ room[r].rows \in SUBSET Packets /\ \A p \in room[r].rows : p.end <= MaxSeq
  BY <1>7 DEF IInv, HostedRooms, Rows, RoomOK
<1>9. /\ log \in Logs /\ n = Top(row.log, room[r].rows)
      /\ n \in Nat /\ Len(row.log) <= n /\ Len(row.log) \in Nat
  BY <1>1, <1>2, <1>5, <1>7, <1>8, ReplayIsLog, TopIs DEF LoadedLog
<1>10. Follows(n) /\ \A q \in 1..n : log[q] = Recoverable[q]
  BY <1>1, <1>6, <1>7, <1>9 DEF LoadsBeside
<1>11. /\ h.status = "open" /\ h.phase = "idle" /\ h.file = NoFile
       /\ h.base = log /\ h.seq = n /\ h.journaled = n /\ h.durable = n /\ h.target = 0
       /\ h.first = 0
  BY <1>4 DEF NewRoom
<1>12. room'[r] = h /\ h \in HostedRooms
  <2>1. room'[r] = h /\ room'[r] \in HostedRooms BY <1>5 DEF IInv, Rooms
  <2>2. QED BY <2>1
<1>13. Sound /\ Content BY BesideSound
<1>14. Grows /\ Recoverable' = Recoverable BY <1>5, <1>13, StillBeside DEF Sound
<1>15. Content' BY <1>14, ContentIsNext DEF Grows, IInv
<1>16. Agrees(r, n)'
  <2>1. n <= Len(Recoverable) BY <1>10, <1>13 DEF Follows, Content
  <2>2. \A q \in 1..n : LogOf(r)'[q] = log[q]
    <3>1. room'[r].seq = n /\ room'[r].base = log BY <1>11, <1>12
    <3>2. LogOf(r)' = [q \in 1..n |-> IF q <= Len(log) THEN log[q] ELSE r]
      BY <3>1 DEF LogOf
    <3>3. n = Len(log) /\ n \in Nat BY <1>2, <1>9
    <3> TAKE q \in 1..n
    <3>4. q <= Len(log) BY <3>3
    <3>5. LogOf(r)'[q] = IF q <= Len(log) THEN log[q] ELSE r BY <3>2
    <3>6. QED BY <3>4, <3>5
  <2>3. QED BY <1>10, <1>14, <2>1, <2>2 DEF Agrees
<1>17. Follows(n)' BY <1>5, <1>10 DEF Follows, Taken, End, Top
<1>18. Serving(h) /\ ~HasWritten(h) /\ FenceOf(h) = n + 1 /\ WrittenBy(h) = n
  BY <1>11 DEF Serving, HasWritten, FenceOf, WrittenBy
<1>19. \A a \in Rooms : a < r /\ Serving(room[a]) => Stops(WrittenBy(room[a]) + 1, h)'
  <2> SUFFICES ASSUME NEW a \in Rooms, a < r, Serving(room[a])
               PROVE  Stops(WrittenBy(room[a]) + 1, h)'
    OBVIOUS
  <2>1. ~Serving(room[r]) /\ HasRead(room[r]) BY <1>6 DEF Serving, HasRead
  <2>2. FenceOf(room[r]) = n + 1 BY <1>7, <1>9, <2>1 DEF FenceOf
  <2>3. n + 1 <= WrittenBy(room[a]) + 1 BY <2>1, <2>2 DEF BesideInv, Fenced, Stops
  <2>4. room'[a] = room[a]
    <3>1. a # r BY NRoomsAssumption DEF Rooms
    <3>2. QED BY <1>5, <3>1 DEF IInv
  <2>5. QED BY <1>18, <2>3, <2>4 DEF Stops, FenceOf, HasWritten, WrittenBy
<1>20. \A s \in Rooms : r < s /\ HasRead(room[s]) => Stops(n + 1, room[s])'
  BY <1>6 DEF Last, HasRead, Serving
<1>21. \A p \in late' : Harmless(p)' BY <1>5 DEF BesideInv, Stored, Harmless, Taken, End, Top
<1>22. /\ row' = row /\ files' = files /\ journal' = journal /\ late' = late /\ row'.meta
       /\ \A s \in Rooms \ {r} :
            Serving(room[s]) /\ Taken(WrittenBy(room[s]) + 1)
              => Taken(WrittenBy(room[s]) + 1)'
       /\ \A p \in journal' : p \in journal \/ (p.by = r /\ p.start <= p.end)
  BY <1>5, <1>7 DEF Taken
<1>23. /\ h.durable <= h.journaled
       /\ Len(h.base) <= h.journaled /\ h.journaled <= h.seq
  <2>1. n \in Nat /\ n <= n BY <1>9
  <2>2. Len(h.base) = n BY <1>2, <1>11
  <2>3. h.durable = n /\ h.seq = n /\ h.journaled = n BY <1>11
  <2>4. QED BY <2>1, <2>2, <2>3
<1>24. Len(row'.log) <= h.journaled BY <1>9, <1>11, <1>22
<1>25. /\ ~(h.target > 0)
       /\ h.phase \notin Saving \cup {"update", "pruneFiles", "pruneJournal"}
  BY <1>11 DEF Saving
<1>26. QED
  BY <1>5, <1>6, <1>9, <1>11, <1>12, <1>14, <1>16, <1>17, <1>18, <1>19, <1>20, <1>21, <1>22,
     <1>23, <1>24, <1>25, BesideServes

\* A load given up leaves the storage as it is; there is nothing to discard.
LEMMA LoadEndsBeside ==
  ASSUME IInv, IInv', BesideInv, NEW r \in Rooms,
         LoadGivenUp(r) \/ LoadDiscardFailed(r)
  PROVE  BesideInv'
<1>1. PICK g : g = [room[r] EXCEPT !.status = "closed"] OBVIOUS
<1>2. /\ LoadsBeside(r) /\ room[r].status \in {"reading", "document", "discarding"}
      /\ ~Over(room[r]) /\ room[r].status # "new"
  BY LoadingIs DEF LoadGivenUp, LoadDiscardFailed
<1>3. room[r].status = "discarding" => journal = {}
  BY <1>2 DEF LoadsBeside, BesideInv, Blank
<1>4. room' = [room EXCEPT ![r] = Settled(g)] /\ UNCHANGED <<row, files, journal, late>>
  BY <1>1, <1>3 DEF LoadGivenUp, LoadDiscardFailed
<1>5. /\ g \in HostedRooms /\ g.status = "closed" /\ g.phase = "idle"
      /\ g.base = room[r].base /\ g.durable = 0
  BY <1>1, <1>2 DEF IInv, HostedRooms, Statuses, LoadsBeside
<1>6. Sound /\ Content BY BesideSound
<1>7. Agrees(r, g.durable) /\ g.durable <= room[r].seq
  BY <1>5, <1>6 DEF Agrees, Content, IInv, HostedRooms
<1>8. row.meta => row.file \in files' BY <1>4 DEF BesideInv, Snapshots
<1>9. /\ UNCHANGED <<row, journal>> /\ files' = files
      /\ \A p \in late' : p \in late \/ (/\ p = PacketOf(r) /\ room[r].phase = "append"
                                         /\ Serving(room[r]))
  BY <1>4
<1>10. QED BY <1>2, <1>4, <1>5, <1>7, <1>8, <1>9, BesideEndsStill

LEMMA LoadDocumentBeside ==
  ASSUME IInv, IInv', BesideInv, NEW r \in Rooms, LoadDocument(r)
  PROVE  BesideInv'
<1>1. PICK h : h = [room[r] EXCEPT !.base = row.log, !.status = "discarding"] OBVIOUS
<1>2. /\ room[r].status = "document" /\ LoadsBeside(r) /\ Last(r) /\ ~Over(room[r])
      /\ room[r].file = NoFile /\ \A s \in Rooms : s < r => ~Serving(room[s])
      /\ \A s \in Rooms : s < r =>
           Over(room[s]) \/ (r = s + 1 /\ Serving(room[s]) /\ room[s].target = 0)
  BY LoadingIs DEF LoadDocument
<1>3. ~row.meta BY <1>2 DEF LoadsBeside
<1>4. room' = [room EXCEPT ![r] = h] /\ UNCHANGED <<row, files, journal, late>>
  BY <1>1 DEF LoadDocument, IInv
<1>5. /\ h \in HostedRooms /\ h.status = "discarding" /\ h.phase = "idle"
      /\ h.durable = 0 /\ h.file = NoFile /\ h.seen = room[r].seen
  <2>1. room[r] \in HostedRooms /\ row.log \in Logs BY DEF IInv, StorageOK, Rows
  <2>2. room[r].phase = "idle" /\ room[r].durable = 0 BY <1>2 DEF LoadsBeside
  <2>3. QED BY <1>1, <1>2, <2>1, <2>2 DEF HostedRooms, Statuses
<1>6. room'[r] = h BY <1>4 DEF IInv
<1>7. LoadsBeside(r)' BY <1>2, <1>3, <1>4, <1>5, <1>6 DEF LoadsBeside
<1>8. LiveBeside(r)' BY <1>5, <1>6, <1>7 DEF LiveBeside, Serving
<1>9. QED BY <1>2, <1>3, <1>4, <1>5, <1>8, BesideLoads

\* The numbering begins; nothing was stored.
LEMMA LoadDiscardBeside ==
  ASSUME IInv, IInv', BesideInv, NEW r \in Rooms, LoadDiscard(r)
  PROVE  BesideInv'
<1>1. PICK next : next = Top(IF room[r].seen.meta THEN room[r].seen.log ELSE <<>>, journal) + 1
  OBVIOUS
<1>2. PICK h : h = [NewRoom EXCEPT !.status = "initial", !.base = PadTo(room[r].base, next),
                                   !.seq = next, !.journaled = next]
  OBVIOUS
<1>3. /\ room[r].status = "discarding" /\ LoadsBeside(r) /\ Last(r) /\ ~Over(room[r])
      /\ \A s \in Rooms : s < r => ~Serving(room[s])
      /\ \A s \in Rooms : s < r =>
           Over(room[s]) \/ (r = s + 1 /\ Serving(room[s]) /\ room[s].target = 0)
  BY LoadingIs DEF LoadDiscard
<1>4. ~row.meta BY <1>3 DEF LoadsBeside
<1>5. journal = {} /\ late = {} /\ \A s \in Rooms : room[s].durable = 0
  BY <1>4 DEF BesideInv, Blank
<1>6. room' = [room EXCEPT ![r] = h] /\ UNCHANGED <<row, files, journal, late>>
  BY <1>1, <1>2, <1>5 DEF LoadDiscard
<1>7. room'[r] = h /\ h \in HostedRooms BY <1>6 DEF IInv
<1>8. /\ h.status = "initial" /\ h.phase = "idle" /\ h.durable = 0 /\ h.file = NoFile
      /\ h.seq = next /\ h.journaled = next
  BY <1>2 DEF NewRoom
<1>9. First(r)'
  <2>1. \A s \in Rooms : room'[s].durable = 0 BY <1>5, <1>6, <1>8 DEF IInv
  <2>2. QED BY <1>4, <1>5, <1>6, <1>7, <1>8, <2>1 DEF First, Rooms
<1>10. LiveBeside(r)' BY <1>7, <1>8, <1>9 DEF LiveBeside, Serving
<1>11. QED BY <1>3, <1>4, <1>6, <1>7, <1>8, <1>10, BesideLoads
----------------------------------------------------------------------------
(* Each of the two serves, and ends                                         *)

\* The counters the fence depends on stay.
LEMMA SameFence ==
  ASSUME NEW g, NEW h, Serving(g), Serving(h), h.first = g.first,
         h.journaled = g.journaled, h.phase = "acked" => g.phase = "acked" \/ g.first # 0
  PROVE  FenceOf(h) = FenceOf(g) /\ (HasWritten(h) => HasWritten(g))
BY DEF FenceOf, HasWritten

LEMMA AcceptBeside ==
  ASSUME IInv, IInv', BesideInv, NEW r \in Rooms, Accept(r)
  PROVE  BesideInv'
<1>1. Serving(room[r]) BY DEF Accept, Serving
<1>2. PICK h : h = room'[r] OBVIOUS
<1>3. UNCHANGED <<row, journal, late>> /\ files' = files BY DEF Accept
<1>4. PICK w \in Nat : w = WrittenBy(room[r]) /\ w <= room[r].seq
  BY <1>1, ServingIs
<1>5. /\ room' = [room EXCEPT ![r] = h]
      /\ h \in HostedRooms /\ h.status = room[r].status /\ h.phase = room[r].phase
      /\ h.base = room[r].base /\ h.seq = room[r].seq + 1 /\ h.file = room[r].file
      /\ h.journaled = room[r].journaled /\ h.durable = room[r].durable
      /\ h.target = room[r].target /\ h.upto = room[r].upto /\ h.first = room[r].first
  BY <1>2 DEF Accept, IInv, HostedRooms
<1>6. Serving(h) BY <1>1, <1>5 DEF Serving
<1>7. w = WrittenBy(h) BY <1>4, <1>5 DEF WrittenBy
<1>8. FenceOf(h) = FenceOf(room[r]) /\ (HasWritten(h) => HasWritten(room[r]))
  BY <1>1, <1>5, <1>6, SameFence
<1>9. /\ room[r].seq <= h.seq /\ h.journaled <= h.seq
      /\ room[r].journaled <= h.journaled
  BY <1>1, <1>4, <1>5, ServingIs
<1>10. h.durable <= h.journaled BY <1>1, <1>5, ServingIs
<1>11. h.target = 0 \/ (/\ Last(r)
                        /\ room[r].target > 0 \/ \A p \in late : p.by >= r)
  BY <1>1, <1>5, ServingIs
<1>12. /\ row.file \in files'
       /\ h.target > 0 => Len(row.log) <= h.target
       /\ h.phase \in Saving => h.target > 0 /\ h.target <= h.journaled
       /\ h.phase \in {"pruneFiles", "pruneJournal"} => Len(row.log) = h.target
       /\ h.phase \notin {"update", "pruneFiles"} => h.file = NoFile
       /\ h.phase = "update" => h.file \in files' \ {row.file}
       /\ h.phase = "pruneFiles" => h.file = row.file
  BY <1>1, <1>3, <1>5, ServingIs
<1>13. QED
  BY <1>1, <1>3, <1>4, <1>5, <1>6, <1>7, <1>8, <1>9, <1>10, <1>11, <1>12, BesideQuiet
----------------------------------------------------------------------------
\* A packet is about to be written.
LEMMA AppendStartBeside ==
  ASSUME IInv, IInv', BesideInv, NEW r \in Rooms,
         AppendStart(r)
           \/ (ShutdownFlush(r) /\ room[r].seq > room[r].journaled)
  PROVE  BesideInv'
<1>1. /\ Serving(room[r]) /\ room[r].phase = "idle" /\ room[r].status # "closed"
      /\ row' = row /\ files' = files /\ journal' = journal /\ late' = late
  BY DEF AppendStart, ShutdownFlush, Serving
<1>2. PICK h : h = room'[r] OBVIOUS
<1>3. /\ room' = [room EXCEPT ![r] = h]
      /\ h.status = room[r].status \/ h.status = "stopping"
      /\ h.phase = "append" /\ h.upto = room[r].seq
      /\ h.base = room[r].base /\ h.seq = room[r].seq /\ h.file = room[r].file
      /\ h.journaled = room[r].journaled /\ h.durable = room[r].durable
      /\ h.target = room[r].target /\ h.first = room[r].first
  BY <1>1, <1>2 DEF AppendStart, ShutdownFlush, IInv, HostedRooms
<1>4. h \in HostedRooms BY <1>2 DEF IInv
<1>5. PICK w \in Nat : w = WrittenBy(room[r]) BY <1>1, ServingIs
<1>6. Serving(h) /\ w = WrittenBy(h) BY <1>1, <1>3, <1>5 DEF Serving, WrittenBy
<1>7. FenceOf(h) = FenceOf(room[r]) /\ (HasWritten(h) => HasWritten(room[r]))
  BY <1>1, <1>3, <1>6, SameFence
<1>8. /\ room[r].seq <= h.seq /\ h.journaled <= h.seq /\ h.durable <= h.journaled
      /\ room[r].journaled <= h.journaled /\ row.file \in files'
      /\ h.target > 0 => Len(row.log) <= h.target
      /\ h.phase \notin {"update", "pruneFiles"} => h.file = NoFile
  BY <1>1, <1>3, ServingIs
<1>9. h.target = 0 \/ (/\ Last(r)
                       /\ room[r].target > 0 \/ \A p \in late : p.by >= r)
  BY <1>1, <1>3, ServingIs
<1>10. h.phase \notin Saving \cup {"update", "pruneFiles", "pruneJournal"}
  BY <1>3 DEF Saving
<1>11. UNCHANGED <<row, journal, late>> /\ files' = files BY <1>1
<1>12. QED
  BY <1>1, <1>3, <1>4, <1>5, <1>6, <1>7, <1>8, <1>9, <1>10, <1>11, BesideQuiet

\* SIGTERM, or an exception while a call is in progress.
LEMMA InterruptedBeside ==
  ASSUME IInv, IInv', BesideInv, NEW r \in Rooms,
         Shutdown(r) \/ (Fail(r) /\ room[r].phase # "idle")
  PROVE  BesideInv'
<1>1. /\ Serving(room[r])
      /\ row' = row /\ files' = files /\ journal' = journal /\ late' = late
  BY DEF Shutdown, Fail, Serving
<1>2. PICK h : h = room'[r] OBVIOUS
<1>3. /\ room' = [room EXCEPT ![r] = h]
      /\ h.status = "closing" \/ (h.status = "closed" /\ h.phase # "idle")
      /\ h.phase = room[r].phase /\ h.upto = room[r].upto
      /\ h.base = room[r].base /\ h.seq = room[r].seq /\ h.file = room[r].file
      /\ h.journaled = room[r].journaled /\ h.durable = room[r].durable
      /\ h.target = room[r].target /\ h.first = room[r].first
  BY <1>1, <1>2 DEF Shutdown, Fail, Settled, IInv, HostedRooms
<1>4. h \in HostedRooms BY <1>2 DEF IInv
<1>5. PICK w \in Nat : w = WrittenBy(room[r]) BY <1>1, ServingIs
<1>6. Serving(h) /\ w = WrittenBy(h) BY <1>1, <1>3, <1>5 DEF Serving, WrittenBy
<1>7. FenceOf(h) = FenceOf(room[r]) /\ (HasWritten(h) => HasWritten(room[r]))
  BY <1>1, <1>3, <1>6, SameFence
<1>8. /\ room[r].seq <= h.seq /\ h.journaled <= h.seq /\ h.durable <= h.journaled
      /\ room[r].journaled <= h.journaled /\ row.file \in files'
      /\ h.target > 0 => Len(row.log) <= h.target
      /\ h.phase \in Saving => h.target > 0 /\ h.target <= h.journaled
      /\ h.phase \in {"pruneFiles", "pruneJournal"} => Len(row.log) = h.target
      /\ h.phase \notin {"update", "pruneFiles"} => h.file = NoFile
      /\ h.phase = "update" => h.file \in files' \ {row.file}
      /\ h.phase = "pruneFiles" => h.file = row.file
  BY <1>1, <1>3, ServingIs
<1>9. h.target = 0 \/ (/\ Last(r)
                       /\ room[r].target > 0 \/ \A p \in late : p.by >= r)
  BY <1>1, <1>3, ServingIs
<1>10. UNCHANGED <<row, journal, late>> /\ files' = files BY <1>1
<1>11. QED
  BY <1>1, <1>3, <1>4, <1>5, <1>6, <1>7, <1>8, <1>9, <1>10, BesideQuiet

LEMMA QuietEndBeside ==
  ASSUME IInv, IInv', BesideInv, NEW r \in Rooms,
         Unload(r) \/ (ShutdownFlush(r) /\ ~(room[r].seq > room[r].journaled))
           \/ (Fail(r) /\ room[r].phase = "idle") \/ AppendRefused(r) \/ Crash(r)
  PROVE  BesideInv'
<1>1. PICK g : g = [room[r] EXCEPT !.status = "closed", !.phase = "idle"] OBVIOUS
<1>2. room[r] \in HostedRooms /\ RoomOK(room[r]) BY DEF IInv
<1>3. /\ g \in HostedRooms /\ g.status = "closed" /\ g.phase = "idle"
      /\ g.base = room[r].base /\ g.durable = room[r].durable
  BY <1>1, <1>2 DEF HostedRooms, Statuses, Phases
<1>4. /\ room' = [room EXCEPT ![r] = Settled(g)]
      /\ row' = row /\ files' = files /\ journal' = journal
      /\ room[r].status # "new" /\ ~Over(room[r])
      /\ \A p \in late' : p \in late \/ (p = PacketOf(r) /\ room[r].phase = "append")
  <2>1. CASE \/ Unload(r)
             \/ ShutdownFlush(r) /\ ~(room[r].seq > room[r].journaled)
             \/ Fail(r) /\ room[r].phase = "idle"
    <3>1. room[r].phase = "idle" /\ room[r].status \notin {"new", "closed"}
      BY <2>1 DEF Unload, ShutdownFlush, Fail
    <3>2. g = [room[r] EXCEPT !.status = "closed"] BY <1>1, <1>2, <3>1 DEF HostedRooms
    <3>3. room' = [room EXCEPT ![r] = Settled(g)] /\ UNCHANGED <<row, files, journal, late>>
      BY <2>1, <3>2 DEF Unload, ShutdownFlush, Fail
    <3>4. QED BY <3>1, <3>3 DEF Over
  <2>2. CASE AppendRefused(r)
    <3>1. g = [room[r] EXCEPT !.phase = "idle", !.status = "closed"]
      BY <1>1, <1>2 DEF HostedRooms
    <3>2. room[r].phase = "refused" /\ room[r].status # "initial"
      BY <1>2, <2>2 DEF AppendRefused, RoomOK, Writing
    <3>3. room' = [room EXCEPT ![r] = Settled(g)] /\ UNCHANGED <<row, files, journal, late>>
      BY <2>2, <3>1 DEF AppendRefused
    <3>4. Serving(room[r]) BY <3>2, BusyBeside
    <3>5. QED BY <3>3, <3>4 DEF Serving, Over
  <2>3. CASE Crash(r)
    <3>1. room[r].status # "new" /\ ~Over(room[r]) BY <2>3 DEF Crash, Over, Ended
    <3>2. room' = [room EXCEPT ![r] = Settled(g)] /\ UNCHANGED <<row, files, journal>>
      BY <1>1, <2>3 DEF Crash
    <3>3. QED BY <2>3, <3>1, <3>2 DEF Crash
  <2>4. QED BY <2>1, <2>2, <2>3
<1>5. row.meta => row.file \in files' BY <1>4 DEF BesideInv, Snapshots
<1>6. room[r].phase = "append" => Serving(room[r])
  <2>1. room[r].phase = "append" => room[r].status # "initial"
    BY <1>2 DEF RoomOK, Writing
  <2>2. QED BY <2>1, BusyBeside
<1>7. UNCHANGED <<row, journal>> BY <1>4
<1>8. Agrees(r, g.durable) /\ g.durable <= room[r].seq /\ (~row.meta => g.durable = 0)
  BY <1>3 DEF BesideInv, Stored, Blank
<1>9. QED BY <1>3, <1>4, <1>5, <1>6, <1>7, <1>8, BesideEndsStill

\* A call to the journal fails: the same numbers are tried again, or the life ends.
LEMMA AppendFailedBeside ==
  ASSUME IInv, IInv', BesideInv, Deployment, NEW r \in Rooms, AppendFailed(r)
  PROVE  BesideInv'
<1>1. PICK closes \in BOOLEAN :
        room' = [room EXCEPT ![r] = Settled([room[r] EXCEPT
          !.phase = "idle", !.target = 0, !.upto = 0,
          !.status = IF room[r].status = "stopping" \/ closes THEN "closed"
                     ELSE room[r].status])]
  BY DEF AppendFailed
<1>2. PICK g : g = [room[r] EXCEPT
          !.phase = "idle", !.target = 0, !.upto = 0,
          !.status = IF room[r].status = "stopping" \/ closes THEN "closed"
                     ELSE room[r].status]
  OBVIOUS
<1>3. room' = [room EXCEPT ![r] = Settled(g)] BY <1>1, <1>2
<1>4. /\ row' = row /\ files' = files /\ journal' = journal /\ late' = late
      /\ room[r].phase = "append"
  BY DEF AppendFailed, Deployment
<1>5. Serving(room[r]) /\ room[r].status # "initial"
  <2>1. RoomOK(room[r]) BY DEF IInv
  <2>2. room[r].status # "initial" BY <1>4, <2>1 DEF RoomOK, Writing
  <2>3. QED BY <1>4, <2>2, BusyBeside
<1>6. room[r] \in HostedRooms /\ room[r].status \in Statuses BY DEF IInv, HostedRooms
<1>7. /\ g \in HostedRooms /\ g.phase = "idle" /\ g.target = 0
      /\ g.status = IF room[r].status = "stopping" \/ closes THEN "closed"
                    ELSE room[r].status
      /\ g.base = room[r].base /\ g.durable = room[r].durable /\ g.file = room[r].file
      /\ g.seq = room[r].seq /\ g.journaled = room[r].journaled /\ g.first = room[r].first
  <2>1. (IF room[r].status = "stopping" \/ closes THEN "closed" ELSE room[r].status) \in Statuses
    BY <1>6 DEF Statuses
  <2>2. "idle" \in Phases BY DEF Phases
  <2>3. QED BY <1>2, <1>6, <2>1, <2>2 DEF HostedRooms
<1>8. UNCHANGED <<row, journal>> /\ UNCHANGED <<row, journal, late>> /\ row.meta
      /\ row.file \in files'
  BY <1>4, <1>5, ServingIs
<1>9. CASE g.status = "closed"
  <2>1. /\ Agrees(r, g.durable) /\ g.durable <= room[r].seq
    BY <1>7 DEF BesideInv, Stored
  <2>2. room[r].status # "new" /\ ~Over(room[r]) BY <1>5, ServingIs
  <2>3. QED BY <1>3, <1>4, <1>7, <1>8, <1>9, <2>1, <2>2, BesideEndsStill
<1>10. CASE g.status # "closed"
  <2>1. room' = [room EXCEPT ![r] = g] BY <1>3, <1>10 DEF Settled
  <2>2. Serving(g) BY <1>5, <1>7, <1>10 DEF Serving
  <2>3. PICK w \in Nat : w = WrittenBy(room[r]) BY <1>5, ServingIs
  <2>4. w = WrittenBy(g) BY <1>4, <1>7, <2>3 DEF WrittenBy
  <2>5. FenceOf(g) = FenceOf(room[r]) /\ (HasWritten(g) => HasWritten(room[r]))
    BY <1>5, <1>7, <2>2, SameFence
  <2>6. g.phase \notin Saving \cup {"update", "pruneFiles", "pruneJournal"}
    BY <1>7 DEF Saving
  <2>7. /\ g.durable <= g.journaled /\ g.journaled <= g.seq
        /\ room[r].journaled <= g.journaled /\ room[r].seq <= g.seq
        /\ g.file = NoFile
    BY <1>4, <1>5, <1>7, ServingIs
  <2>8. ~(g.target > 0) BY <1>7
  <2>9. QED
    BY <1>4, <1>5, <1>7, <1>8, <2>1, <2>2, <2>3, <2>4, <2>5, <2>6, <2>7, <2>8, BesideQuiet
<1>11. QED BY <1>9, <1>10
----------------------------------------------------------------------------
\* The packet a room writes right after all there is becomes its fence.
LEMMA FenceStands ==
  ASSUME NEW g, NEW h, NEW n \in Nat, Stops(n, g), Serving(g), Serving(h),
         g.phase = "append", h.phase = "acked", h.first = g.first,
         h.journaled = g.journaled, g.journaled \in Nat,
         g.first = 0 => n <= g.journaled + 1,
         NEW p, journal' = journal \cup {p}, p.start = g.journaled + 1
  PROVE  Stops(n, h)'
<1>1. HasWritten(h) /\ FenceOf(h) = FenceOf(g) BY DEF HasWritten, FenceOf
<1>2. CASE g.first # 0
  <2>1. HasWritten(g) BY <1>2 DEF HasWritten
  <2>2. n = FenceOf(g) /\ Taken(n) BY <2>1 DEF Stops
  <2>3. Taken(n)' BY <2>2 DEF Taken
  <2>4. FenceOf(h) <= n /\ n = FenceOf(h) BY <1>1, <2>2
  <2>5. QED BY <2>3, <2>4 DEF Stops, Taken, FenceOf, HasWritten
<1>3. CASE g.first = 0
  <2>1. FenceOf(g) = g.journaled + 1 BY <1>3 DEF FenceOf
  <2>2. n = g.journaled + 1 BY <1>3, <2>1 DEF Stops
  <2>3. Taken(n)' BY <2>2 DEF Taken
  <2>4. FenceOf(h) <= n /\ n = FenceOf(h) BY <1>1, <2>1, <2>2
  <2>5. QED BY <2>3, <2>4 DEF Stops, Taken, FenceOf, HasWritten
<1>4. QED BY <1>2, <1>3

\* A packet reaches the storage, or finds its number taken.
LEMMA AppendLandBeside ==
  ASSUME IInv, IInv', BesideInv, NEW r \in Rooms, AppendLand(r)
  PROVE  BesideInv'
<1>1. PICK p : p = PacketOf(r) OBVIOUS
<1>2. PICK h : h = room'[r] OBVIOUS
<1>3. /\ room[r].phase = "append" /\ row' = row /\ files' = files /\ late' = late
  BY DEF AppendLand
<1>4. Serving(room[r]) /\ room[r].status # "initial"
  <2>1. RoomOK(room[r]) BY DEF IInv
  <2>2. room[r].status # "initial" BY <1>3, <2>1 DEF RoomOK, Writing
  <2>3. QED BY <1>3, <2>2, BusyBeside
<1>5. /\ room' = [room EXCEPT ![r] = h] /\ h \in HostedRooms
      /\ h.phase = IF IdTaken(p) THEN "refused" ELSE "acked"
      /\ h.status = room[r].status /\ h.upto = room[r].upto
      /\ h.base = room[r].base /\ h.seq = room[r].seq /\ h.file = room[r].file
      /\ h.journaled = room[r].journaled /\ h.durable = room[r].durable
      /\ h.target = room[r].target /\ h.first = room[r].first
  BY <1>1, <1>2 DEF AppendLand, IInv, HostedRooms
<1>6. Serving(h) BY <1>4, <1>5 DEF Serving
<1>7. PICK w \in Nat : /\ w = WrittenBy(room[r]) /\ Agrees(r, w) /\ Follows(w)
                       /\ w <= room[r].seq
  BY <1>4, ServingIs
<1>8. w = room[r].journaled BY <1>3, <1>7 DEF WrittenBy
<1>9. /\ h.phase \notin Saving \cup {"update", "pruneFiles", "pruneJournal"}
      /\ h.journaled <= h.seq /\ h.durable <= h.journaled
      /\ row.file \in files' /\ h.file = NoFile
      /\ h.target > 0 => Len(row.log) <= h.target
      /\ h.target = 0 \/ Last(r)
      /\ h.target = 0 \/ (/\ Last(r)
                          /\ room[r].target > 0 \/ \A p2 \in late : p2.by >= r)
  BY <1>3, <1>4, <1>5, <1>8, ServingIs DEF Saving
<1>10. CASE IdTaken(p)
  <2>1. UNCHANGED <<row, journal, late>> /\ files' = files
    BY <1>1, <1>3, <1>10 DEF AppendLand
  <2>2. h.phase = "refused" /\ w = WrittenBy(h) BY <1>5, <1>8, <1>10 DEF WrittenBy
  <2>3. room[r].seq <= h.seq /\ room[r].journaled <= h.journaled
    BY <1>4, <1>5, ServingIs
  <2>4. FenceOf(h) = FenceOf(room[r]) /\ (HasWritten(h) => HasWritten(room[r]))
    BY <1>4, <1>5, <1>6, <2>2, SameFence
  <2>5. QED
    BY <1>4, <1>5, <1>6, <1>7, <1>9, <2>1, <2>2, <2>3, <2>4, BesideQuiet
<1>11. CASE ~IdTaken(p)
  <2>1. journal' = journal \cup {p} /\ h.phase = "acked"
    BY <1>1, <1>5, <1>11 DEF AppendLand
  <2>2. /\ p \in Packets /\ p.by = r /\ p.start = room[r].journaled + 1
        /\ p.start <= p.end /\ p.end <= MaxSeq
        /\ p.end = room[r].upto /\ p.end <= room[r].seq /\ Harmless(p)
    BY <1>1, <1>3, <1>4, AbandonedBeside
  <2>3. /\ row.meta /\ ServesBeside(r) /\ room[r].status # "new" /\ ~Over(room[r])
        /\ room[r].journaled \in Nat /\ room[r].upto \in Nat /\ room[r].seq \in Nat
        /\ room[r].journaled < room[r].upto
    BY <1>3, <1>4, ServingIs DEF Writing
  <2>4. Sound /\ Content BY BesideSound
  <2>5. p.start = End + 1 /\ End = room[r].journaled
    BY <1>7, <1>8, <1>11, <2>2, <2>4 DEF Follows, Taken, IdTaken, Content
  <2>6. /\ Grows /\ End' = p.end
        /\ \A q \in p.start..p.end : Recoverable'[q] = p.by
    <3>1. UNCHANGED <<row, files>> BY <1>3
    <3>2. QED BY <1>11, <2>1, <2>2, <2>3, <2>4, <2>5, <3>1, PacketLands
  <2>7. Content' BY <2>6, ContentIsNext DEF IInv, Grows
  <2>8. PICK u \in Nat : u = room[r].upto BY <2>3
  <2>9. Agrees(r, u)'
    <3>1. \A q \in 1..room[r].journaled : Recoverable'[q] = LogOf(r)[q]
      BY <1>7, <1>8, <2>4, <2>6, <2>7 DEF Agrees, Grows, Content
    <3>2. LogOf(r)' = LogOf(r) BY <1>2, <1>5 DEF LogOf
    <3>3. \A q \in room[r].journaled + 1 .. u : LogOf(r)[q] = r
      <4>1. /\ Len(room[r].base) <= room[r].journaled /\ Len(room[r].base) \in Nat
            /\ u <= room[r].seq /\ room[r].seq \in Nat
        BY <2>2, <2>3, <2>8, SMTT(30) DEF ServesBeside, IInv, HostedRooms, Logs
      <4>2. QED BY <2>3, <4>1 DEF LogOf
    <3>4. \A q \in room[r].journaled + 1 .. u : Recoverable'[q] = r BY <2>2, <2>6, <2>8
    <3>5. \A q \in 1..u : Recoverable'[q] = LogOf(r)'[q] BY <2>3, <3>1, <3>2, <3>3, <3>4
    <3>6. u <= Len(Recoverable') BY <2>2, <2>6, <2>7, <2>8 DEF Content
    <3>7. QED BY <3>5, <3>6 DEF Agrees
  <2>10. Follows(u)' BY <2>2, <2>6, <2>8 DEF Follows
  <2>11. \A p2 \in late' : Harmless(p2)'
    <3> TAKE p2 \in late'
    <3>1. p2 \in Packets /\ Harmless(p2) BY <1>3 DEF IInv, StorageOK, BesideInv, Stored
    <3>2. Taken(p2.start) => Taken(p2.start)' BY <2>1 DEF Taken
    <3>3. QED BY <2>3, <2>4, <2>6, <3>1, <3>2, HarmlessOn
  <2>12. \A a \in Rooms : a < r /\ Serving(room[a]) => Stops(WrittenBy(room[a]) + 1, h)'
    <3> SUFFICES ASSUME NEW a \in Rooms, a < r, Serving(room[a])
                 PROVE  Stops(WrittenBy(room[a]) + 1, h)'
      OBVIOUS
    <3>1. PICK n : n = WrittenBy(room[a]) + 1 OBVIOUS
    <3>2. WrittenBy(room[a]) \in Nat /\ Follows(WrittenBy(room[a])) BY ServingIs
    <3>3. n \in Nat /\ n <= room[r].journaled + 1
      BY <2>4, <2>5, <3>1, <3>2 DEF Follows, Content
    <3>4. HasRead(room[r]) BY <1>4 DEF HasRead
    <3>5. Stops(n, room[r]) BY <3>1, <3>4 DEF BesideInv, Fenced
    <3>6. Stops(n, h)'
      BY <1>3, <1>4, <1>5, <1>6, <2>1, <2>2, <2>3, <3>3, <3>5, FenceStands
    <3>7. room'[a] = room[a]
      <4>1. a # r BY NRoomsAssumption DEF Rooms
      <4>2. QED BY <1>5, <4>1 DEF IInv
    <3>8. n = WrittenBy(room'[a]) + 1 BY <3>1, <3>7
    <3>9. QED BY <3>6, <3>8 DEF Stops, FenceOf, HasWritten, Taken
  <2>13. h.target > 0 => \A p2 \in late' : p2.by < r => Stops(p2.start, h)'
    <3> SUFFICES ASSUME h.target > 0, NEW p2 \in late, p2.by < r PROVE Stops(p2.start, h)'
      BY <1>3
    <3>1. HasRead(room[r]) BY <1>4 DEF HasRead
    <3>2. Stops(p2.start, room[r])
      BY <1>4, <1>5, <3>1 DEF BesideInv, Fenced
    <3>3. PICK n : n = p2.start OBVIOUS
    <3>4. p2 \in Packets /\ Harmless(p2) /\ p2.start <= p2.end /\ n \in Nat
      BY <3>3 DEF IInv, StorageOK, Packets, BesideInv, Stored, Beside
    <3>5. room[r].first = 0 => n <= room[r].journaled + 1
      <4> SUFFICES ASSUME room[r].first = 0 PROVE n <= room[r].journaled + 1 OBVIOUS
      <4>1. CASE Taken(n)
        <5>1. PICK q \in journal : q.start = n BY <4>1 DEF Taken
        <5>2. q.end <= End /\ q.start <= q.end /\ q \in Packets
          BY <2>4 DEF Content, BesideInv, Beside, IInv, StorageOK
        <5>3. QED BY <2>3, <2>5, <3>4, <5>1, <5>2 DEF Packets
      <4>2. CASE p2.end <= Len(row.log)
        <5>1. Len(row.log) <= End /\ Len(row.log) \in Nat BY <2>4 DEF Content
        <5>2. QED BY <2>3, <2>5, <3>3, <3>4, <4>2, <5>1 DEF Packets
      <4>3. CASE p2.start = End + 1 BY <2>3, <2>5, <3>3, <4>3
      <4>4. QED BY <3>3, <3>4, <4>1, <4>2, <4>3 DEF Harmless
    <3>6. Stops(n, h)'
      BY <1>3, <1>4, <1>5, <1>6, <2>1, <2>2, <2>3, <3>2, <3>3, <3>4, <3>5, FenceStands
    <3>7. QED BY <3>3, <3>6
  <2>14. \A s \in Rooms : r < s /\ HasRead(room[s]) => Stops(u + 1, room[s])'
    <3> SUFFICES ASSUME NEW s \in Rooms, r < s, HasRead(room[s])
                 PROVE  Stops(u + 1, room[s])'
      OBVIOUS
    <3>1. Stops(w + 1, room[s]) BY <1>4, <1>7 DEF BesideInv, Fenced
    <3>2. ~Taken(w + 1) BY <1>8, <1>11, <2>2 DEF Taken, IdTaken
    <3>3. ~HasWritten(room[s]) /\ FenceOf(room[s]) <= w + 1 BY <3>1, <3>2 DEF Stops
    <3>4. room'[s] = room[s]
      <4>1. s # r BY NRoomsAssumption DEF Rooms
      <4>2. QED BY <1>5, <4>1 DEF IInv
    <3>5. FenceOf(room[s]) \in Int
      <4>1. room[s] \in HostedRooms /\ RoomOK(room[s]) BY DEF IInv
      <4>2. Top(room[s].seen.log, room[s].rows) \in Nat
        BY <4>1, TopIs DEF RoomOK, HostedRooms, Rows
      <4>3. QED BY <4>1, <4>2 DEF FenceOf, HostedRooms
    <3>6. FenceOf(room[s]) <= u + 1 BY <1>8, <2>3, <2>8, <3>3, <3>5
    <3>7. QED BY <3>3, <3>4, <3>6 DEF Stops, FenceOf, HasWritten
  <2>15. /\ u = WrittenBy(h) /\ row'.meta
         /\ Len(h.base) <= h.journaled
         /\ Last(r) => Len(row'.log) <= h.journaled
         /\ h.target > 0 => Len(row'.log) <= h.target
    BY <1>3, <1>5, <1>9, <2>1, <2>3, <2>8 DEF WrittenBy, ServesBeside
  <2>16. /\ \A s \in Rooms \ {r} :
              Serving(room[s]) /\ Taken(WrittenBy(room[s]) + 1)
                => Taken(WrittenBy(room[s]) + 1)'
         /\ \A p2 \in journal' : p2 \in journal \/ (p2.by = r /\ p2.start <= p2.end)
         /\ files' = files /\ row' = row /\ journal \subseteq journal'
    <3>1. \A s \in Rooms \ {r} : room'[s] = room[s] BY <1>5 DEF IInv
    <3>2. QED BY <1>3, <2>1, <2>2, <3>1 DEF Taken
  <2>17. QED
    BY <1>3, <1>5, <1>6, <1>9, <2>3, <2>6, <2>8, <2>9, <2>10, <2>11, <2>12, <2>13, <2>14,
       <2>15, <2>16, BesideServes
<1>12. QED BY <1>10, <1>11
----------------------------------------------------------------------------
\* What was written is announced.
LEMMA AppendAnsweredBeside ==
  ASSUME IInv, IInv', BesideInv, NEW r \in Rooms, AppendAnswered(r)
  PROVE  BesideInv'
<1>1. PICK saving : saving = (room[r].target > 0 /\ room[r].status # "closed") OBVIOUS
<1>2. PICK a, b, c, d :
        /\ a = (IF room[r].first = 0 THEN room[r].journaled + 1 ELSE room[r].first)
        /\ b = (IF saving THEN "upload" ELSE "idle")
        /\ c = (IF saving THEN room[r].target ELSE 0)
        /\ d = (IF room[r].status = "stopping" THEN "closed" ELSE room[r].status)
  OBVIOUS
<1>3. PICK g : g = [room[r] EXCEPT
           !.journaled = room[r].upto, !.durable = room[r].upto, !.first = a, !.upto = 0,
           !.phase = b, !.target = c, !.status = d]
  OBVIOUS
<1>4. /\ room' = [room EXCEPT ![r] = Settled(g)] /\ room[r].phase = "acked"
      /\ row' = row /\ files' = files /\ journal' = journal /\ late' = late
  BY <1>1, <1>2, <1>3 DEF AppendAnswered, NowDurable
<1>5. Serving(room[r])
  <2>1. RoomOK(room[r]) BY DEF IInv
  <2>2. room[r].status # "initial" BY <1>4, <2>1 DEF RoomOK, Writing
  <2>3. QED BY <1>4, <2>2, BusyBeside
<1>6. room[r] \in HostedRooms /\ room[r].status \in Statuses BY DEF IInv, HostedRooms
<1>7. /\ g \in HostedRooms /\ g.phase = b /\ g.target = c /\ g.status = d /\ g.first = a
      /\ g.base = room[r].base /\ g.durable = room[r].upto /\ g.file = room[r].file
      /\ g.seq = room[r].seq /\ g.journaled = room[r].upto
  <2>1. a \in Nat /\ b \in Phases /\ c \in Nat /\ d \in Statuses
    BY <1>2, <1>6 DEF HostedRooms, Phases, Statuses
  <2>2. g \in HostedRooms BY <1>3, <1>6, <2>1 DEF HostedRooms
  <2>3. /\ g.phase = b /\ g.target = c /\ g.status = d /\ g.first = a
        /\ g.base = room[r].base /\ g.durable = room[r].upto /\ g.file = room[r].file
        /\ g.seq = room[r].seq /\ g.journaled = room[r].upto
    BY <1>3, <1>6 DEF HostedRooms
  <2>4. QED BY <2>2, <2>3
<1>8. PICK w \in Nat : w = room[r].upto BY <1>5, ServingIs
<1>9. w = WrittenBy(room[r]) /\ Agrees(r, w) /\ w <= room[r].seq
  <2>1. w = WrittenBy(room[r]) BY <1>4, <1>8 DEF WrittenBy
  <2>2. QED BY <1>5, <2>1, ServingIs
<1>10. /\ UNCHANGED <<row, journal>> /\ UNCHANGED <<row, journal, late>>
       /\ row.meta /\ row.file \in files' /\ files' = files
       /\ room[r].status # "new" /\ ~Over(room[r])
  BY <1>4, <1>5, ServingIs
<1>11. CASE g.status = "closed" /\ g.phase = "idle"
  <2>1. Agrees(r, g.durable) /\ g.durable <= room[r].seq BY <1>7, <1>8, <1>9
  <2>2. \A p \in late' : p \in late \/ (/\ p = PacketOf(r) /\ room[r].phase = "append"
                                        /\ Serving(room[r]))
    BY <1>4
  <2>3. QED BY <1>4, <1>7, <1>10, <1>11, <2>1, <2>2, BesideEndsStill
<1>12. CASE ~(g.status = "closed" /\ g.phase = "idle")
  <2>1. room' = [room EXCEPT ![r] = g] BY <1>4, <1>12 DEF Settled
  <2>2. Serving(g)
    <3>1. g.status \in {"open", "closing", "stopping", "closed"}
      BY <1>2, <1>5, <1>7 DEF Serving
    <3>2. QED BY <1>12, <3>1 DEF Serving
  <2>3. g.phase \in {"upload", "idle"} /\ g.phase \notin {"acked", "update", "pruneFiles", "pruneJournal"}
    BY <1>2, <1>7
  <2>4. w = WrittenBy(g) BY <1>7, <1>8, <2>3 DEF WrittenBy
  <2>5. FenceOf(g) = FenceOf(room[r]) /\ (HasWritten(g) => HasWritten(room[r]))
    <3>1. HasWritten(room[r]) BY <1>4, <1>5 DEF HasWritten
    <3>2. room[r].journaled + 1 # 0 BY <1>6 DEF HostedRooms
    <3>3. QED BY <1>2, <1>5, <1>7, <2>2, <3>1, <3>2 DEF FenceOf
  <2>6. /\ room[r].journaled <= g.journaled /\ g.journaled <= g.seq
        /\ g.durable <= g.journaled /\ room[r].seq <= g.seq /\ g.file = NoFile
    BY <1>4, <1>5, <1>7, <1>8, <1>9, ServingIs DEF Writing
  <2>7. /\ g.target > 0 => Len(row.log) <= g.target /\ Last(r) /\ room[r].target > 0
        /\ g.phase \in Saving => g.target > 0 /\ g.target <= g.journaled
    <3>1. CASE saving
      BY <1>1, <1>2, <1>4, <1>5, <1>7, <3>1, ServingIs DEF Writing, Saving
    <3>2. CASE ~saving BY <1>2, <1>7, <3>2 DEF Saving
    <3>3. QED BY <3>1, <3>2
  <2>8. g.target = 0 \/ (/\ Last(r)
                         /\ room[r].target > 0 \/ \A p \in late : p.by >= r)
    BY <1>7, <2>7 DEF HostedRooms
  <2>9. QED
    BY <1>5, <1>7, <1>9, <1>10, <2>1, <2>2, <2>3, <2>4, <2>5, <2>6, <2>7, <2>8, BesideQuiet
<1>13. QED BY <1>11, <1>12
----------------------------------------------------------------------------
(* Its checkpoints                                                         *)

\* What is known of a room that makes the first checkpoint.
LEMMA FirstIs ==
  ASSUME IInv, BesideInv, NEW r \in Rooms, room[r].status = "initial"
  PROVE  /\ room[r] \in HostedRooms /\ RoomOK(room[r]) /\ First(r) /\ Last(r)
         /\ \A s \in Rooms : s < r => Over(room[s])
         /\ ~Over(room[r]) /\ room[r].journaled = room[r].seq /\ room[r].seq \in Nat
         /\ room[r].durable = 0 /\ room[r].phase \in {"idle"} \cup Saving
         /\ room[r].phase # "idle" => room[r].target = room[r].seq
         /\ journal = {} /\ late = {} /\ \A s \in Rooms : room[s].durable = 0
<1>1. room[r] \in HostedRooms /\ RoomOK(room[r]) /\ First(r)
  BY DEF IInv, BesideInv, LiveBeside
<1>2. ~Over(room[r]) /\ ~Serving(room[r]) BY DEF Over, Serving
<1>3. Last(r) /\ \A s \in Rooms : s < r => Over(room[s])
  BY <1>2, Neighbours DEF Last
<1>4. room[r].journaled = room[r].seq /\ room[r].seq \in Nat BY <1>1 DEF RoomOK, HostedRooms
<1>5. room[r].phase \in {"idle"} \cup Saving
  <2>1. room[r].phase \notin Writing BY <1>1 DEF RoomOK
  <2>2. room[r].phase \in Phases BY <1>1 DEF HostedRooms
  <2>3. QED BY <2>1, <2>2 DEF Phases, Writing, Saving
<1>6. QED BY <1>1, <1>2, <1>3, <1>4, <1>5 DEF First

\* The first checkpoint goes on.
LEMMA FirstBeside ==
  ASSUME IInv, IInv', BesideInv, Grows, NEW r \in Rooms, room[r].status = "initial",
         NEW h \in HostedRooms, room' = [room EXCEPT ![r] = h],
         UNCHANGED <<journal, late>>, h.status = "initial", h.durable = 0,
         ~row'.meta => h.phase \in {"upload", "update"},
         h.phase \notin {"update", "pruneFiles"} => h.file = NoFile,
         h.phase = "update" => h.file \in files' \ {row'.file},
         h.phase = "pruneFiles" => h.file = row'.file,
         h.seq = room[r].seq, h.target = h.seq, h.phase \in Saving,
         h.phase \in {"upload", "update"} => ~row'.meta,
         h.phase \in {"pruneFiles", "pruneJournal"} =>
           row'.meta /\ Len(row'.log) = h.seq /\ Agrees(r, h.seq)'
  PROVE  BesideInv'
<1>1. /\ journal = {} /\ late = {} /\ \A s \in Rooms : room[s].durable = 0
      /\ Last(r) /\ ~Over(room[r]) /\ \A s \in Rooms : s < r => Over(room[s])
      /\ room[r].seq \in Nat
  BY FirstIs
<1>2. Content' BY ContentIsNext DEF IInv, Grows
<1>3. Agrees(r, 0)' BY <1>2 DEF Agrees, Content
<1>4. room'[r] = h BY DEF IInv
<1>5. First(r)'
  <2>1. \A s \in Rooms : room'[s].durable = 0 BY <1>1, <1>4 DEF IInv
  <2>2. RoomOK(h)
    <3>1. RoomOK(room[r])' BY DEF IInv, Rooms
    <3>2. QED BY <1>4, <3>1 DEF RoomOK
  <2>3. h.journaled = h.seq BY <2>2 DEF RoomOK
  <2>4. Agrees(r, h.seq)' => Agrees(r, room[r].seq)' BY <1>4 DEF Agrees
  <2>5. h.phase # "idle" BY DEF Saving
  <2>6. QED BY <1>1, <1>4, <2>1, <2>3, <2>4, <2>5 DEF First, Rooms
<1>6. LiveBeside(r)' BY <1>4, <1>5 DEF LiveBeside, Serving
<1>7. ~Serving(h) /\ h.status # "new" /\ ~HasRead(h) BY DEF Serving, HasRead
<1>8. 0 \in Nat /\ 0 <= h.seq BY <1>1
<1>9. /\ \A s \in Rooms : s < r =>
           \/ Over(room[s])
           \/ r = s + 1 /\ Serving(room[s]) /\ room[s].target = 0 /\ h.status # "initial"
      /\ Over(h) \/ (Serving(h) /\ h.target = 0) \/ Last(r)
      /\ Last(r) \/ (files' = files /\ row' = row /\ journal \subseteq journal')
      /\ \A s \in Rooms : r < s => ~HasRead(room[s])
  BY <1>1 DEF Last, HasRead, Serving
<1>10. /\ journal' = {} /\ late' = {}
       /\ \A s \in Rooms \ {r} :
            Serving(room[s]) /\ Taken(WrittenBy(room[s]) + 1)
              => Taken(WrittenBy(room[s]) + 1)'
       /\ \A p \in journal' : p \in journal \cup late \/ (p.by = r /\ p.start <= p.end)
       /\ \A p \in late' : p \in late \/ (p.by = r /\ p.start <= p.end /\ Over(h))
       /\ \A p \in late' : Harmless(p)'
  BY <1>1 DEF Taken
<1>11. ~row'.meta => /\ late' = {} /\ h.durable = 0
                     /\ ~Serving(h) /\ h.status # "reading"
                     /\ h.phase \in {"idle", "upload", "update"}
  BY <1>7, <1>10
<1>12. QED BY <1>1, <1>3, <1>6, <1>7, <1>8, <1>9, <1>10, <1>11, BesideKeeps

LEMMA CheckpointStartBeside ==
  ASSUME IInv, IInv', BesideInv, Deployment, NEW r \in Rooms, CheckpointStart(r)
  PROVE  BesideInv'
<1>1. PICK h : h = room'[r] OBVIOUS
<1>2. /\ room[r].status \in {"open", "initial"} /\ room[r].phase = "idle"
      /\ room[r].seq > room[r].saved
      /\ room[r].status = "open" => \A p \in late : p.by >= r
      /\ row' = row /\ files' = files /\ journal' = journal /\ late' = late
      /\ Last(r)
  BY DEF CheckpointStart, Deployment, Last
<1>3. /\ room' = [room EXCEPT ![r] = h] /\ h \in HostedRooms
      /\ h.phase = IF room[r].seq > room[r].journaled THEN "append" ELSE "upload"
      /\ h.target = room[r].seq /\ h.status = room[r].status
      /\ h.base = room[r].base /\ h.durable = room[r].durable /\ h.file = room[r].file
      /\ h.seq = room[r].seq /\ h.journaled = room[r].journaled /\ h.first = room[r].first
  BY <1>1 DEF CheckpointStart, FirstStep, IInv, HostedRooms
<1>4. UNCHANGED <<row, journal>> /\ UNCHANGED <<row, journal, late>> /\ files' = files
  BY <1>2
<1>5. room[r].file = NoFile BY <1>2 DEF BesideInv, Snapshots
<1>6. CASE room[r].status = "initial"
  <2>1. ~row.meta /\ room[r].durable = 0 /\ ~(room[r].seq > room[r].journaled)
    BY <1>2, <1>6, FirstIs DEF First
  <2>2. Grows BY <1>4, <2>1, StillBeside
  <2>3. h.phase = "upload" BY <1>3, <2>1
  <2>4. QED
    BY <1>2, <1>3, <1>4, <1>5, <1>6, <2>1, <2>2, <2>3, FirstBeside DEF Saving
<1>7. CASE room[r].status = "open"
  <2>1. Serving(room[r]) /\ Serving(h) BY <1>3, <1>7 DEF Serving
  <2>2. PICK w \in Nat : w = WrittenBy(room[r]) BY <2>1, ServingIs
  <2>3. w = room[r].journaled BY <1>2, <2>2 DEF WrittenBy
  <2>4. h.phase \in {"append", "upload"} /\ w = WrittenBy(h)
    BY <1>3, <2>3 DEF WrittenBy
  <2>5. FenceOf(h) = FenceOf(room[r]) /\ (HasWritten(h) => HasWritten(room[r]))
    BY <1>3, <2>1, <2>4, SameFence
  <2>6. /\ h.durable <= h.journaled /\ h.journaled <= h.seq
        /\ room[r].journaled <= h.journaled /\ room[r].seq <= h.seq /\ row.file \in files'
    BY <1>2, <1>3, <2>1, <2>2, <2>3, ServingIs
  <2>7. Len(row.log) <= h.target
    <3>1. ServesBeside(r) BY <2>1, ServingIs
    <3>2. Len(row.log) \in Nat BY BesideSound DEF Content
    <3>3. room[r].journaled \in Nat /\ room[r].seq \in Nat /\ room[r].journaled <= room[r].seq
      BY <2>1, ServingIs
    <3>4. QED BY <1>2, <1>3, <3>1, <3>2, <3>3 DEF ServesBeside
  <2>8. h.phase \in Saving => h.target > 0 /\ h.target <= h.journaled
    <3>1. room[r].seq > 0 BY <1>2 DEF IInv, HostedRooms
    <3>2. room[r].seq \in Nat /\ room[r].journaled \in Nat BY <2>1, ServingIs
    <3>3. QED BY <1>3, <3>1, <3>2 DEF Saving
  <2>9. h.target = 0 \/ (/\ Last(r)
                         /\ room[r].target > 0 \/ \A p \in late : p.by >= r)
    BY <1>2, <1>7
  <2>10. /\ h.phase \notin {"update", "pruneFiles", "pruneJournal"} /\ h.file = NoFile
    BY <1>3, <1>5, <2>4
  <2>11. QED
    BY <1>3, <1>4, <2>1, <2>2, <2>4, <2>5, <2>6, <2>7, <2>8, <2>9, <2>10, BesideQuiet
<1>8. QED BY <1>2, <1>6, <1>7

LEMMA UploadBeside ==
  ASSUME IInv, IInv', BesideInv, NEW r \in Rooms, Upload(r)
  PROVE  BesideInv'
<1>1. PICK h : h = room'[r] OBVIOUS
<1>2. PICK f : f = CHOOSE f2 \in FileIds \ InUse : TRUE OBVIOUS
<1>3. /\ room[r].phase = "upload" /\ f \in FileIds \ InUse
      /\ row' = row /\ journal' = journal /\ late' = late /\ files' = files \cup {f}
      /\ room' = [room EXCEPT ![r].file = f, ![r].phase = "update"]
  BY <1>2 DEF Upload
<1>4. /\ room' = [room EXCEPT ![r] = h] /\ h \in HostedRooms
      /\ h.phase = "update" /\ h.file = f
      /\ h.target = room[r].target /\ h.status = room[r].status
      /\ h.base = room[r].base /\ h.durable = room[r].durable
      /\ h.seq = room[r].seq /\ h.journaled = room[r].journaled /\ h.first = room[r].first
  BY <1>1, <1>3 DEF IInv, HostedRooms
<1>5. UNCHANGED <<row, journal>> /\ UNCHANGED <<row, journal, late>>
      /\ UNCHANGED <<journal, late>>
  BY <1>3
<1>6. h.file \in files' \ {row.file} BY <1>3, <1>4 DEF InUse
<1>7. CASE room[r].status = "initial"
  <2>1. ~row.meta /\ room[r].durable = 0 /\ room[r].target = room[r].seq
    BY <1>3, <1>7, FirstIs DEF First
  <2>2. Grows BY <1>5, <2>1, StillBeside
  <2>3. h.phase \in Saving /\ h.phase \notin {"pruneFiles", "pruneJournal"}
        /\ h.phase \in {"upload", "update"}
    BY <1>4 DEF Saving
  <2>4. ~row'.meta /\ h.file \in files' \ {row'.file} BY <1>3, <1>6, <2>1
  <2>5. /\ h.status = "initial" /\ h.durable = 0 /\ h.seq = room[r].seq /\ h.target = h.seq
        /\ room' = [room EXCEPT ![r] = h]
    BY <1>4, <1>7, <2>1
  <2>6. QED
    BY ONLY IInv, IInv', BesideInv, <1>4, <1>5, <1>7, <2>2, <2>3, <2>4, <2>5, FirstBeside
<1>8. CASE room[r].status # "initial"
  <2>1. Serving(room[r]) BY <1>3, <1>8, BusyBeside
  <2>2. Serving(h) BY <1>3, <1>4, <2>1 DEF Serving
  <2>3. PICK w \in Nat : w = WrittenBy(room[r]) BY <2>1, ServingIs
  <2>4. w = WrittenBy(h) BY <1>3, <1>4, <2>3 DEF WrittenBy
  <2>5. FenceOf(h) = FenceOf(room[r]) /\ (HasWritten(h) => HasWritten(room[r]))
    BY <1>4, <2>1, <2>2, SameFence
  <2>6. /\ h.durable <= h.journaled /\ h.journaled <= h.seq
        /\ room[r].journaled <= h.journaled /\ room[r].seq <= h.seq /\ row.file \in files'
        /\ room[r].journaled \in Nat /\ room[r].seq \in Nat
    BY <1>3, <1>4, <2>1, <2>3, ServingIs
  <2>7. /\ h.target > 0 /\ h.target <= h.journaled /\ Len(row.log) <= h.target /\ Last(r)
        /\ room[r].target > 0
    BY <1>3, <1>4, <2>1, ServingIs DEF Saving
  <2>8. h.phase \notin {"acked", "pruneFiles", "pruneJournal"} BY <1>4
  <2>9. QED
    BY ONLY IInv, IInv', BesideInv, r \in Rooms, <1>4, <1>5, <1>6, <2>1, <2>2, <2>3, <2>4,
       <2>5, <2>6, <2>7, <2>8, BesideQuiet
<1>9. QED BY <1>7, <1>8

\* A checkpoint that fails leaves the row as it is.
LEMMA CheckpointFailedBeside ==
  ASSUME IInv, IInv', BesideInv, Deployment, NEW r \in Rooms, CheckpointFailed(r)
  PROVE  BesideInv'
<1>1. PICK status : status = IF room[r].status = "initial" THEN "closed" ELSE room[r].status
  OBVIOUS
<1>2. PICK g : g = [room[r] EXCEPT !.phase = "idle", !.target = 0, !.file = NoFile,
                                   !.status = status]
  OBVIOUS
<1>3. /\ room' = [room EXCEPT ![r] = Settled(g)]
      /\ room[r].phase \in {"upload", "update"}
      /\ files' \in {files, files \ {room[r].file}}
      /\ journal' = journal /\ late' = late
  BY <1>1, <1>2 DEF CheckpointFailed
<1>4. row' = row BY DEF CheckpointFailed, RowsAfterFailure, Deployment
<1>5. room[r] \in HostedRooms /\ RoomOK(room[r]) /\ status \in Statuses
  BY <1>1 DEF IInv, HostedRooms, Statuses
<1>6. g \in HostedRooms BY <1>2, <1>5 DEF HostedRooms, Phases
<1>7. /\ g.phase = "idle" /\ g.target = 0 /\ g.file = NoFile /\ g.status = status
      /\ g.base = room[r].base /\ g.durable = room[r].durable
      /\ g.seq = room[r].seq /\ g.journaled = room[r].journaled /\ g.first = room[r].first
  BY <1>2, <1>5 DEF HostedRooms
<1>8. row.meta => row.file \in files'
  <2>1. row.meta => room[r].file # row.file /\ row.file \in files
    BY <1>3, FileAssumption DEF BesideInv, Snapshots, IInv, StorageOK
  <2>2. QED BY <1>3, <2>1
<1>9. room[r].status # "initial" => Serving(room[r])
  BY <1>3, BusyBeside
<1>10. room[r].status # "new" /\ ~Over(room[r]) /\ Last(r)
  <2>1. CASE room[r].status = "initial" BY <2>1, FirstIs
  <2>2. CASE room[r].status # "initial" BY <1>3, <1>9, <2>2, ServingIs DEF Saving
  <2>3. QED BY <2>1, <2>2
<1>11. UNCHANGED <<row, journal>> /\ UNCHANGED <<row, journal, late>>
  BY <1>3, <1>4
<1>12. CASE status = "closed"
  <2>1. Agrees(r, g.durable) /\ g.durable <= room[r].seq /\ (~row.meta => g.durable = 0)
    BY <1>7 DEF BesideInv, Stored, Blank
  <2>2. \A p \in late' : p \in late \/ (/\ p = PacketOf(r) /\ room[r].phase = "append"
                                        /\ Serving(room[r]))
    BY <1>3
  <2>3. QED
    BY <1>3, <1>6, <1>7, <1>8, <1>10, <1>11, <1>12, <2>1, <2>2, BesideEndsStill
<1>13. CASE status # "closed"
  <2>1. room' = [room EXCEPT ![r] = g] BY <1>3, <1>7, <1>13 DEF Settled
  <2>2. Serving(room[r]) /\ Serving(g) BY <1>1, <1>7, <1>9, <1>13 DEF Serving
  <2>3. PICK w \in Nat : w = WrittenBy(room[r]) BY <2>2, ServingIs
  <2>4. w = WrittenBy(g) BY <1>3, <1>7, <2>3 DEF WrittenBy
  <2>5. FenceOf(g) = FenceOf(room[r]) /\ (HasWritten(g) => HasWritten(room[r]))
    BY <1>7, <2>2, SameFence
  <2>6. /\ g.durable <= g.journaled /\ g.journaled <= g.seq
        /\ room[r].journaled <= g.journaled /\ room[r].seq <= g.seq /\ row.file \in files'
        /\ room[r].journaled \in Nat /\ room[r].seq \in Nat
    BY <1>3, <1>7, <1>8, <2>2, <2>3, ServingIs
  <2>7. g.phase \notin Saving \cup {"acked", "update", "pruneFiles", "pruneJournal"}
        /\ ~(g.target > 0)
    BY <1>7 DEF Saving
  <2>8. QED
    BY <1>6, <1>7, <1>10, <1>11, <2>1, <2>2, <2>3, <2>4, <2>5, <2>6, <2>7, BesideQuiet
<1>14. QED BY <1>12, <1>13
----------------------------------------------------------------------------
\* The row names the new checkpoint.
LEMMA UpdateBeside ==
  ASSUME IInv, IInv', BesideInv, NEW r \in Rooms, Update(r)
  PROVE  BesideInv'
<1>1. PICK h : h = room'[r] OBVIOUS
<1>2. /\ room[r].phase = "update" /\ row' = SavedRow(r)
      /\ files' = files /\ journal' = journal /\ late' = late
  BY DEF Update
<1>3. /\ room' = [room EXCEPT ![r] = h] /\ h \in HostedRooms
      /\ h.phase = "pruneFiles" /\ h.file = room[r].file
      /\ h.target = room[r].target /\ h.status = room[r].status
      /\ h.base = room[r].base /\ h.durable = room[r].durable
      /\ h.seq = room[r].seq /\ h.journaled = room[r].journaled /\ h.first = room[r].first
  BY <1>1 DEF Update, IInv, HostedRooms
<1>4. room[r] \in HostedRooms /\ RoomOK(room[r]) BY DEF IInv
<1>5. PICK n \in Nat : n = room[r].target BY <1>4 DEF HostedRooms
<1>6. /\ Len(row'.log) = n /\ \A q \in 1..n : row'.log[q] = LogOf(r)[q]
      /\ row'.meta /\ row'.file = room[r].file
  BY <1>2, <1>4, <1>5, SavedContent DEF SavedRow
<1>7. row'.file \in files' /\ room[r].file \in files
  BY <1>2, <1>6 DEF BesideInv, Snapshots
<1>8. Sound /\ Content BY BesideSound
<1>9. LogOf(r)' = LogOf(r) BY <1>1, <1>3 DEF LogOf
<1>10. CASE room[r].status = "initial"
  <2>1. /\ ~row.meta /\ n = room[r].seq /\ room[r].durable = 0
    BY <1>2, <1>5, <1>10, FirstIs DEF First
  <2>2. /\ Grows /\ Len(Recoverable') = n
        /\ \A q \in 1..n : Recoverable'[q] = LogOf(r)[q]
    BY <1>2, <1>6, <1>7, <1>8, <2>1, CheckpointSaves
  <2>3. Agrees(r, h.seq)'
    <3>1. h.seq = n BY <1>3, <2>1
    <3>2. Agrees(r, n)' BY <1>9, <2>2 DEF Agrees
    <3>3. QED BY <3>1, <3>2
  <2>4. /\ h.phase \in Saving /\ h.phase \notin {"upload", "update"}
        /\ h.file = row'.file /\ row'.meta /\ Len(row'.log) = h.seq /\ h.target = h.seq
        /\ h.durable = 0 /\ h.status = "initial" /\ h.seq = room[r].seq
        /\ UNCHANGED <<journal, late>>
    BY <1>2, <1>3, <1>5, <1>6, <1>10, <2>1 DEF Saving
  <2>5. QED BY <1>3, <1>10, <2>2, <2>3, <2>4, FirstBeside
<1>11. CASE room[r].status # "initial"
  <2>1. Serving(room[r]) BY <1>2, <1>11, BusyBeside
  <2>2. /\ Serving(h) /\ ServesBeside(r) /\ row.meta /\ Last(r)
        /\ room[r].status # "new" /\ ~Over(room[r])
    BY <1>2, <1>3, <2>1, ServingIs DEF Serving, Saving
  <2>3. PICK w \in Nat : w = room[r].journaled /\ Agrees(r, w) /\ Follows(w) /\ w <= room[r].seq
    <3>1. WrittenBy(room[r]) = room[r].journaled BY <1>2 DEF WrittenBy
    <3>2. QED BY <2>1, <3>1, ServingIs
  <2>4. Len(row.log) <= n /\ n <= w /\ n > 0
    BY <1>2, <1>5, <2>1, <2>3, ServingIs DEF Saving
  <2>5. Grows
    <3>1. w <= End /\ End \in Nat BY <1>8, <2>3 DEF Agrees, Content
    <3>2. \A q \in 1..n : row'.log[q] = Recoverable[q]
      BY <1>6, <2>3, <2>4 DEF Agrees
    <3>3. Len(row.log) <= Len(row'.log) /\ Len(row'.log) <= End BY <1>6, <2>3, <2>4, <3>1
    <3>4. QED BY <1>2, <1>6, <1>7, <1>8, <3>2, <3>3, CheckpointSaves
  <2>6. Content' BY <2>5, ContentIsNext DEF IInv, Grows
  <2>7. Agrees(r, w)' BY <1>8, <1>9, <2>3, <2>5, <2>6, AgreesKept
  <2>8. \A m : Taken(m) => Taken(m)' BY <1>2 DEF Taken
  <2>9. Follows(w)' BY <1>8, <2>2, <2>3, <2>5, <2>8, FollowsOn
  <2>10. \A p \in late' : Harmless(p)'
    <3> TAKE p \in late'
    <3>1. p \in Packets /\ Harmless(p) BY <1>2 DEF IInv, StorageOK, BesideInv, Stored
    <3>2. QED BY <1>8, <2>2, <2>5, <2>8, <3>1, HarmlessOn
  <2>11. HasRead(room[r]) /\ FenceOf(h) = FenceOf(room[r])
         /\ (HasWritten(h) => HasWritten(room[r]))
    BY <1>3, <2>1, <2>2, SameFence DEF HasRead
  <2>12. \A a \in Rooms : a < r /\ Serving(room[a]) => Stops(WrittenBy(room[a]) + 1, h)'
    <3> SUFFICES ASSUME NEW a \in Rooms, a < r, Serving(room[a])
                 PROVE  Stops(WrittenBy(room[a]) + 1, h)'
      OBVIOUS
    <3>1. PICK m : m = WrittenBy(room[a]) + 1 OBVIOUS
    <3>2. Stops(m, room[r]) BY <2>11, <3>1 DEF BesideInv, Fenced
    <3>3. Stops(m, h)' BY <2>8, <2>11, <3>2, StopsStays
    <3>4. room'[a] = room[a]
      <4>1. a # r BY NRoomsAssumption DEF Rooms
      <4>2. QED BY <1>3, <4>1 DEF IInv
    <3>5. m = WrittenBy(room'[a]) + 1 BY <3>1, <3>4
    <3>6. QED BY <3>3, <3>5 DEF Stops, FenceOf, HasWritten, Taken
  <2>13. \A p \in late' : p.by < r => Stops(p.start, h)'
    <3> SUFFICES ASSUME NEW p \in late, p.by < r PROVE Stops(p.start, h)'
      BY <1>2
    <3>1. Stops(p.start, room[r])
      BY <1>5, <2>1, <2>4, <2>11 DEF BesideInv, Fenced
    <3>2. QED BY <2>8, <2>11, <3>1, StopsStays
  <2>14. \A s \in Rooms : r < s /\ HasRead(room[s]) => Stops(w + 1, room[s])'
    BY <2>2 DEF Last, HasRead, Serving
  <2>15. /\ \A s \in Rooms \ {r} :
              Serving(room[s]) /\ Taken(WrittenBy(room[s]) + 1)
                => Taken(WrittenBy(room[s]) + 1)'
         /\ \A p \in journal' : p \in journal \/ (p.by = r /\ p.start <= p.end)
    <3>1. \A s \in Rooms \ {r} : room'[s] = room[s] BY <1>3 DEF IInv
    <3>2. QED BY <1>2, <3>1 DEF Taken
  <2>16. /\ w = WrittenBy(h)
         /\ h.durable <= h.journaled /\ h.journaled <= h.seq
         /\ Len(row'.log) <= h.journaled /\ Len(h.base) <= h.journaled
         /\ Len(row'.log) <= h.target /\ Len(row'.log) = h.target
         /\ h.target > 0 /\ h.target <= h.journaled
         /\ h.phase \notin {"acked", "update"} /\ h.file = row'.file
    BY <1>3, <1>5, <1>6, <2>1, <2>2, <2>3, <2>4, ServingIs DEF WrittenBy, ServesBeside
  <2>17. QED
    BY <1>2, <1>3, <1>6, <2>2, <2>3, <2>5, <2>7, <2>9, <2>10, <2>12, <2>13, <2>14, <2>15,
       <2>16, BesideServes
<1>12. QED BY <1>10, <1>11

LEMMA PruneFilesBeside ==
  ASSUME IInv, IInv', BesideInv, NEW r \in Rooms, PruneFiles(r)
  PROVE  BesideInv'
<1>1. PICK h : h = room'[r] OBVIOUS
<1>2. /\ room[r].phase = "pruneFiles" /\ room[r].file = row.file
      /\ row' = row /\ journal' = journal /\ late' = late
  BY DEF PruneFiles, BesideInv, Snapshots
<1>3. /\ room' = [room EXCEPT ![r] = h] /\ h \in HostedRooms
      /\ h.phase = "pruneJournal" /\ h.file = NoFile
      /\ h.target = room[r].target /\ h.status = room[r].status
      /\ h.base = room[r].base /\ h.durable = room[r].durable
      /\ h.seq = room[r].seq /\ h.journaled = room[r].journaled /\ h.first = room[r].first
  BY <1>1 DEF PruneFiles, IInv, HostedRooms
<1>4. row.meta => row.file \in files'
  BY <1>2 DEF PruneFiles, BesideInv, Snapshots
<1>5. UNCHANGED <<row, journal>> /\ UNCHANGED <<row, journal, late>>
      /\ UNCHANGED <<journal, late>>
  BY <1>2
<1>6. LogOf(r)' = LogOf(r) BY <1>1, <1>3 DEF LogOf
<1>7. CASE room[r].status = "initial"
  <2>1. /\ row.meta /\ Len(row.log) = room[r].seq /\ Agrees(r, room[r].seq)
        /\ room[r].target = room[r].seq /\ room[r].durable = 0
    BY <1>2, <1>7, FirstIs DEF First
  <2>2. Grows /\ Recoverable' = Recoverable BY <1>4, <1>5, StillBeside
  <2>3. Agrees(r, h.seq)' BY <1>3, <1>6, <2>1, <2>2 DEF Agrees
  <2>4. /\ h.phase \in Saving /\ h.phase \notin {"upload", "update", "pruneFiles"}
        /\ row'.meta /\ Len(row'.log) = h.seq /\ h.target = h.seq
        /\ h.durable = 0 /\ h.status = "initial" /\ h.seq = room[r].seq
    BY <1>2, <1>3, <1>7, <2>1 DEF Saving
  <2>5. QED BY <1>3, <1>5, <1>7, <2>2, <2>3, <2>4, FirstBeside
<1>8. CASE room[r].status # "initial"
  <2>1. Serving(room[r]) BY <1>2, <1>8, BusyBeside
  <2>2. Serving(h) BY <1>2, <1>3, <2>1 DEF Serving
  <2>3. PICK w \in Nat : w = WrittenBy(room[r]) BY <2>1, ServingIs
  <2>4. w = WrittenBy(h) BY <1>2, <1>3, <2>3 DEF WrittenBy
  <2>5. FenceOf(h) = FenceOf(room[r]) /\ (HasWritten(h) => HasWritten(room[r]))
    BY <1>3, <2>1, <2>2, SameFence
  <2>6. /\ h.durable <= h.journaled /\ h.journaled <= h.seq
        /\ room[r].journaled <= h.journaled /\ room[r].seq <= h.seq /\ row.file \in files'
        /\ room[r].journaled \in Nat /\ room[r].seq \in Nat
    BY <1>2, <1>3, <1>4, <2>1, <2>3, ServingIs
  <2>7. /\ h.target > 0 /\ h.target <= h.journaled /\ Len(row.log) <= h.target /\ Last(r)
        /\ room[r].target > 0 /\ Len(row.log) = h.target
    BY <1>2, <1>3, <2>1, ServingIs DEF Saving
  <2>8. h.phase \notin {"acked", "update", "pruneFiles"} BY <1>3
  <2>9. QED
    BY <1>3, <1>5, <2>1, <2>2, <2>3, <2>4, <2>5, <2>6, <2>7, <2>8, BesideQuiet
<1>9. QED BY <1>7, <1>8
----------------------------------------------------------------------------
\* The packet at a number the fence guards is never pruned: it is the fence, or
\* lies beyond the checkpoint.
LEMMA FenceStays ==
  ASSUME IInv, BesideInv, NEW r \in Rooms, Serving(room[r]), room[r].phase = "pruneJournal",
         NEW gone, gone \in SUBSET Prunable(r), journal' = journal \ gone,
         NEW n, Stops(n, room[r]) \/ n = room[r].journaled + 1, Taken(n)
  PROVE  Taken(n)'
<1>1. PICK q \in journal : q.start = n BY DEF Taken
<1>2. q \in Packets /\ q.start <= q.end BY DEF IInv, StorageOK, BesideInv, Beside
<1>3. /\ room[r].journaled \in Nat /\ room[r].target \in Nat
      /\ room[r].target <= room[r].journaled
  BY ServingIs DEF Saving
<1>4. room[r].journaled + 1 <= n => q \in journal'
  <2> SUFFICES ASSUME room[r].journaled + 1 <= n PROVE ~(q.end <= room[r].target)
    BY DEF Prunable
  <2>1. n \in Nat /\ q.end \in Nat BY <1>1, <1>2 DEF Packets
  <2>2. QED BY <1>1, <1>2, <1>3, <2>1
<1>5. CASE n = room[r].journaled + 1 BY <1>1, <1>3, <1>4, <1>5 DEF Taken
<1>6. CASE Stops(n, room[r]) /\ room[r].first = 0
  <2>1. FenceOf(room[r]) = room[r].journaled + 1 BY <1>6 DEF FenceOf
  <2>2. QED BY <1>1, <1>4, <1>6, <2>1 DEF Taken, Stops
<1>7. CASE Stops(n, room[r]) /\ room[r].first # 0
  <2>1. n = room[r].first BY <1>7 DEF Stops, FenceOf, HasWritten
  <2>2. q \in journal' BY <1>1, <2>1 DEF Prunable
  <2>3. QED BY <1>1, <2>2 DEF Taken
<1>8. QED BY <1>5, <1>6, <1>7

\* The room opens once its first checkpoint is made.
LEMMA FirstOpensBeside ==
  ASSUME IInv, IInv', BesideInv, Grows, Recoverable' = Recoverable,
         NEW r \in Rooms, room[r].status = "initial", room[r].phase = "pruneJournal",
         NEW h \in HostedRooms, room' = [room EXCEPT ![r] = h],
         row' = row, files' = files, late' = late, journal' \subseteq journal,
         h.status = "open", h.phase = "idle", h.target = 0, h.file = NoFile,
         h.durable = room[r].seq, h.base = room[r].base, h.seq = room[r].seq,
         h.journaled = room[r].journaled
  PROVE  BesideInv'
<1>1. /\ First(r) /\ journal = {} /\ late = {} /\ row.meta
      /\ Agrees(r, room[r].seq) /\ Len(row.log) = room[r].seq /\ room[r].seq \in Nat
      /\ room[r].journaled = room[r].seq /\ room[r].status # "new" /\ ~Over(room[r])
      /\ Last(r) /\ \A s \in Rooms : s < r => Over(room[s])
      /\ RoomOK(room[r])
  BY FirstIs DEF First
<1>2. PICK w \in Nat : w = room[r].seq BY <1>1
<1>3. room'[r] = h BY DEF IInv
<1>4. Agrees(r, w)'
  <2>1. LogOf(r)' = LogOf(r) BY <1>3 DEF LogOf
  <2>2. QED BY <1>1, <1>2, <2>1 DEF Agrees
<1>5. Follows(w)'
  <2>1. journal' = {} BY <1>1
  <2>2. row'.log \in Logs /\ Len(row'.log) <= MaxSeq BY DEF IInv, StorageOK, Rows
  <2>3. End' = w BY <1>1, <1>2, <2>1, <2>2, AloneContent DEF End
  <2>4. QED BY <1>2, <2>3 DEF Follows
<1>6. Serving(h) /\ w = WrittenBy(h) BY <1>1, <1>2 DEF Serving, WrittenBy
<1>7. /\ \A s \in Rooms : s < r => ~Serving(room[s])
      /\ \A s \in Rooms : r < s => ~HasRead(room[s])
  BY <1>1 DEF Over, Serving, Last, HasRead
<1>8. /\ journal' = {} /\ late' = {} /\ row'.meta
      /\ \A s \in Rooms \ {r} :
           Serving(room[s]) /\ Taken(WrittenBy(room[s]) + 1)
             => Taken(WrittenBy(room[s]) + 1)'
      /\ \A p \in journal' : p \in journal \/ (p.by = r /\ p.start <= p.end)
      /\ \A p \in late' : Harmless(p)'
  BY <1>1 DEF Taken
<1>9. /\ h.durable <= h.journaled /\ h.journaled <= h.seq /\ Len(row'.log) <= h.journaled
  BY <1>1, <1>2
<1>10. Len(h.base) <= h.journaled BY <1>1 DEF RoomOK
<1>11. h.phase \notin Saving \cup {"update", "pruneFiles", "pruneJournal"} /\ ~(h.target > 0)
  BY DEF Saving
<1>12. QED
  BY <1>1, <1>4, <1>5, <1>6, <1>7, <1>8, <1>9, <1>10, <1>11, BesideServes

\* The packets the checkpoint covers go, except the fence.
LEMMA PruneJournalBeside ==
  ASSUME IInv, IInv', BesideInv, NEW r \in Rooms, PruneJournal(r)
  PROVE  BesideInv'
<1>1. PICK a, b : /\ a = (IF room[r].status = "initial" THEN room[r].seq ELSE room[r].durable)
                  /\ b = (IF room[r].status = "initial" THEN "open" ELSE room[r].status)
  OBVIOUS
<1>2. PICK g : g = [room[r] EXCEPT !.phase = "idle", !.target = 0, !.durable = a, !.status = b]
  OBVIOUS
<1>3. PICK gone \in SUBSET Prunable(r) : journal' = journal \ gone BY DEF PruneJournal
<1>4. /\ room' = [room EXCEPT ![r] = Settled(g)]
      /\ room[r].phase = "pruneJournal"
      /\ row' = row /\ files' = files /\ late' = late
      /\ journal' \subseteq journal
      /\ \A p \in journal \ journal' : p.end <= room[r].target
  BY <1>1, <1>2, <1>3 DEF PruneJournal, Prunable
<1>5. room[r] \in HostedRooms /\ RoomOK(room[r]) BY DEF IInv
<1>6. /\ g \in HostedRooms
      /\ g.phase = "idle" /\ g.target = 0 /\ g.file = room[r].file
      /\ g.status = b /\ g.durable = a /\ g.first = room[r].first
      /\ g.base = room[r].base /\ g.seq = room[r].seq /\ g.journaled = room[r].journaled
  <2>1. a \in Nat /\ b \in Statuses /\ "idle" \in Phases
    BY <1>1, <1>5 DEF HostedRooms, Statuses, Phases
  <2>2. g \in HostedRooms BY <1>2, <1>5, <2>1 DEF HostedRooms
  <2>3. /\ g.phase = "idle" /\ g.target = 0 /\ g.file = room[r].file
        /\ g.status = b /\ g.durable = a /\ g.first = room[r].first
        /\ g.base = room[r].base /\ g.seq = room[r].seq /\ g.journaled = room[r].journaled
    BY <1>2, <1>5 DEF HostedRooms
  <2>4. QED BY <2>2, <2>3
<1>7. room[r].file = NoFile BY <1>4 DEF BesideInv, Snapshots
<1>8. /\ row.meta /\ row.file \in files' /\ Len(row.log) = room[r].target
  <2>1. row.meta /\ Len(row.log) = room[r].target
    <3>1. CASE room[r].status = "initial" BY <1>4, <3>1, FirstIs DEF First
    <3>2. CASE room[r].status # "initial"
      <4>1. Serving(room[r]) BY <1>4, <3>2, BusyBeside
      <4>2. QED BY <1>4, <4>1, ServingIs
    <3>3. QED BY <3>1, <3>2
  <2>2. QED BY <1>4, <2>1 DEF BesideInv, Snapshots
<1>9. Sound /\ Content BY BesideSound
<1>10. Grows /\ Recoverable' = Recoverable
  <2>1. UNCHANGED row /\ \A p \in journal \ journal' : p.end <= Len(row.log)
    BY <1>4, <1>8
  <2>2. QED BY <1>4, <1>8, <1>9, <2>1, PacketsGo
<1>11. CASE room[r].status = "initial"
  <2>1. g.status = "open" /\ g.durable = room[r].seq BY <1>1, <1>6, <1>11
  <2>2. room' = [room EXCEPT ![r] = g] BY <1>4, <2>1 DEF Settled
  <2>3. QED
    BY <1>4, <1>6, <1>7, <1>10, <1>11, <2>1, <2>2, FirstOpensBeside
<1>12. CASE room[r].status # "initial"
  <2>1. Serving(room[r]) BY <1>4, <1>12, BusyBeside
  <2>2. /\ g.status = room[r].status /\ g.durable = room[r].durable
    BY <1>1, <1>6, <1>12
  <2>3. /\ Last(r) /\ room[r].target > 0 /\ room[r].target <= room[r].journaled
        /\ room[r].status # "new" /\ ~Over(room[r]) /\ ServesBeside(r)
        /\ HasRead(room[r])
    BY <1>4, <2>1, ServingIs DEF Saving, HasRead
  <2>4. \A n : (Stops(n, room[r]) \/ n = room[r].journaled + 1) /\ Taken(n) => Taken(n)'
    BY <1>3, <1>4, <2>1, FenceStays
  <2>5. \A p \in late : Stops(p.start, room[r])
    <3> TAKE p \in late
    <3>1. p.by \in Rooms /\ room[p.by].status # "new" /\ Over(room[p.by])
      BY DEF IInv, StorageOK, Packets, BesideInv, Beside
    <3>2. p.by # r /\ ~(r < p.by) BY <2>3, <3>1 DEF Last
    <3>3. p.by < r BY <3>1, <3>2, NRoomsAssumption DEF Rooms
    <3>4. QED BY <2>1, <2>3, <3>3 DEF BesideInv, Fenced
  <2>6. \A p \in late' : Harmless(p)'
    <3> TAKE p \in late'
    <3>1. p \in Packets /\ Harmless(p) BY <1>4 DEF IInv, StorageOK, BesideInv, Stored
    <3>2. Taken(p.start) => Taken(p.start)' BY <1>4, <2>4, <2>5
    <3>3. QED BY <1>8, <1>9, <1>10, <3>1, <3>2, HarmlessOn
  <2>7. \A s \in Rooms \ {r} :
          Serving(room[s]) /\ Taken(WrittenBy(room[s]) + 1)
            => Taken(WrittenBy(room[s]) + 1)'
    <3> SUFFICES ASSUME NEW s \in Rooms \ {r}, Serving(room[s]),
                        Taken(WrittenBy(room[s]) + 1)
                 PROVE  Taken(WrittenBy(room[s]) + 1)'
      OBVIOUS
    <3>1. ~(r < s) BY <2>3 DEF Last, Serving
    <3>2. s < r BY <3>1, NRoomsAssumption DEF Rooms
    <3>3. PICK n : n = WrittenBy(room[s]) + 1 OBVIOUS
    <3>4. Stops(n, room[r]) /\ Taken(n) BY <2>3, <3>2, <3>3 DEF BesideInv, Fenced
    <3>5. Taken(n)' BY <2>4, <3>4
    <3>6. room'[s] = room[s] BY <1>4 DEF IInv
    <3>7. n = WrittenBy(room'[s]) + 1 BY <3>3, <3>6
    <3>8. QED BY <3>5, <3>7 DEF Taken
  <2>8. CASE g.status = "closed"
    <3>1. Agrees(r, g.durable) /\ g.durable <= room[r].seq
      BY <2>2 DEF BesideInv, Stored
    <3>2. /\ row'.meta
          /\ \A p \in late' : p \in late \/ (/\ p = PacketOf(r) /\ room[r].phase = "append"
                                             /\ Serving(room[r]) /\ journal' = journal)
      BY <1>4, <1>8
    <3>3. QED
      BY <1>4, <1>6, <1>10, <2>3, <2>6, <2>7, <2>8, <3>1, <3>2, BesideEnds
  <2>9. CASE g.status # "closed"
    <3>1. room' = [room EXCEPT ![r] = g] BY <1>4, <2>9 DEF Settled
    <3>2. Serving(g) BY <2>1, <2>2, <2>9 DEF Serving
    <3>3. PICK w \in Nat : w = room[r].journaled /\ w = WrittenBy(room[r])
                           /\ Agrees(r, w) /\ Follows(w)
      <4>1. WrittenBy(room[r]) = room[r].journaled BY <1>4 DEF WrittenBy
      <4>2. QED BY <2>1, <4>1, ServingIs
    <3>4. w = WrittenBy(g) BY <1>6, <3>3 DEF WrittenBy
    <3>5. room'[r] = g BY <3>1 DEF IInv
    <3>6. LogOf(r)' = LogOf(r) BY <1>6, <3>5 DEF LogOf
    <3>7. Content' BY <1>10, ContentIsNext DEF IInv, Grows
    <3>8. Agrees(r, w)' BY <1>9, <1>10, <3>3, <3>6, <3>7, AgreesKept
    <3>9. Follows(w)' BY <1>8, <1>9, <1>10, <2>4, <3>3, FollowsOn
    <3>10. FenceOf(g) = FenceOf(room[r]) /\ (HasWritten(g) => HasWritten(room[r]))
      BY <1>6, <2>1, <3>2, SameFence
    <3>11. \A a1 \in Rooms : a1 < r /\ Serving(room[a1]) => Stops(WrittenBy(room[a1]) + 1, g)'
      <4> SUFFICES ASSUME NEW a1 \in Rooms, a1 < r, Serving(room[a1])
                   PROVE  Stops(WrittenBy(room[a1]) + 1, g)'
        OBVIOUS
      <4>1. PICK m : m = WrittenBy(room[a1]) + 1 OBVIOUS
      <4>2. Stops(m, room[r]) BY <2>3, <4>1 DEF BesideInv, Fenced
      <4>3. Stops(m, g)' BY <2>4, <3>10, <4>2, StopsStays
      <4>4. room'[a1] = room[a1]
        <5>1. a1 # r BY NRoomsAssumption DEF Rooms
        <5>2. QED BY <3>1, <5>1 DEF IInv
      <4>5. m = WrittenBy(room'[a1]) + 1 BY <4>1, <4>4
      <4>6. QED BY <4>3, <4>5 DEF Stops, FenceOf, HasWritten, Taken
    <3>12. \A s \in Rooms : r < s /\ HasRead(room[s]) => Stops(w + 1, room[s])'
      BY <2>3 DEF Last, HasRead, Serving
    <3>13. /\ g.durable <= g.journaled /\ g.journaled <= g.seq
           /\ Len(row'.log) <= g.journaled /\ Len(g.base) <= g.journaled
      BY <1>4, <1>6, <2>2, <2>3 DEF ServesBeside
    <3>14. /\ g.phase \notin Saving \cup {"update", "pruneFiles", "pruneJournal"}
           /\ ~(g.target > 0) /\ g.file = NoFile /\ row'.meta
           /\ \A p \in journal' : p \in journal \/ (p.by = r /\ p.start <= p.end)
      BY <1>4, <1>6, <1>7, <1>8 DEF Saving
    <3>15. QED
      BY <1>4, <1>6, <1>10, <2>3, <2>6, <2>7, <3>1, <3>2, <3>4, <3>8, <3>9, <3>11, <3>12,
         <3>13, <3>14, BesideServes
  <2>10. QED BY <2>8, <2>9
<1>13. QED BY <1>11, <1>12
----------------------------------------------------------------------------
(* Every step                                                              *)

LEMMA LateBeside ==
  ASSUME IInv, IInv', BesideInv, NEW p \in late, LateArrives(p) \/ LateLost(p)
  PROVE  BesideInv'
<1>1. /\ row' = row /\ files' = files /\ room' = room /\ late' \subseteq late
      /\ journal' = journal \/ (journal' = journal \cup {p} /\ ~IdTaken(p))
  BY DEF LateArrives, LateLost
<1>2. row.meta BY DEF BesideInv, Blank
<1>3. /\ p \in Packets /\ p.start <= p.end /\ p.end <= MaxSeq /\ Harmless(p)
  BY DEF IInv, StorageOK, BesideInv, Beside, Stored
<1>4. Sound /\ Content BY BesideSound
<1>5. Grows
  <2>1. CASE journal' = journal
    <3>1. UNCHANGED <<row, journal>> /\ row.file \in files' BY <1>1, <1>2, <1>4, <2>1 DEF Sound
    <3>2. QED BY <3>1, StillBeside
  <2>2. CASE journal' = journal \cup {p} /\ ~IdTaken(p)
    <3>1. UNCHANGED <<row, files>> BY <1>1
    <3>2. QED BY <1>2, <1>3, <1>4, <2>2, <3>1, PacketLands
  <2>3. QED BY <1>1, <2>1, <2>2
<1>6. Content' /\ journal \subseteq journal' BY <1>1, <1>5, ContentIsNext DEF IInv, Grows
<1>7. \A n : Taken(n) => Taken(n)' BY <1>6 DEF Taken
<1>8. Beside'
  <2>1. \A a, b \in Rooms : a < b /\ room'[b].status # "new" =>
          \/ Over(room'[a])
          \/ /\ b = a + 1 /\ Serving(room'[a]) /\ room'[a].target = 0
             /\ room'[b].status # "initial"
    BY <1>1 DEF BesideInv, Beside
  <2>2. \A p2 \in journal' \cup late' : room'[p2.by].status # "new" /\ p2.start <= p2.end
    BY <1>1 DEF BesideInv, Beside
  <2>3. \A p2 \in late' : Over(room'[p2.by]) BY <1>1 DEF BesideInv, Beside
  <2>4. QED BY <2>1, <2>2, <2>3 DEF Beside, Over, Serving, Rooms
<1>9. Blank' BY <1>1, <1>2 DEF Blank
<1>10. Snapshots' BY <1>1 DEF BesideInv, Snapshots, Rooms
<1>11. Stored'
  <2>1. row'.meta => Contiguous(row'.log, journal') BY <1>5 DEF Grows, Sound
  <2>2. \A p2 \in late' : Harmless(p2)' BY <1>1, <1>2, <1>5, <1>6, LateOn
  <2>3. ASSUME NEW r \in Rooms
        PROVE  room'[r].durable <= room'[r].seq /\ Agrees(r, room[r].durable)'
    <3>1. PICK n \in Nat : n = room[r].durable BY DEF IInv, HostedRooms
    <3>2. n <= room[r].seq /\ Agrees(r, n) BY <3>1 DEF BesideInv, Stored, Agrees
    <3>3. \A q \in 1..n : LogOf(r)'[q] = LogOf(r)[q] BY <1>1 DEF LogOf
    <3>4. Agrees(r, n)' BY <1>4, <1>5, <1>6, <3>2, <3>3, AgreesKept
    <3>5. QED BY <1>1, <3>1, <3>2, <3>4 DEF Agrees
  <2>4. QED BY <2>1, <2>2, <2>3 DEF Stored, Rooms, Agrees
<1>12. ASSUME NEW r \in Rooms PROVE Fenced(r)'
  <2> SUFFICES ASSUME HasRead(room'[r])
               PROVE  /\ \A a \in Rooms : a < r /\ Serving(room'[a]) =>
                           Stops(WrittenBy(room[a]) + 1, room[r])'
                      /\ Serving(room'[r]) /\ room'[r].target > 0 =>
                           \A p2 \in late' : p2.by < r => Stops(p2.start, room[r])'
    BY DEF Fenced, HasRead, Serving, Rooms
  <2>1. room'[r] = room[r] BY <1>1
  <2>2. \A n : Stops(n, room[r]) => Stops(n, room[r])'
    BY <1>7, <2>1 DEF Stops, FenceOf, HasWritten, Taken
  <2>3. ASSUME NEW a \in Rooms, a < r, Serving(room'[a])
        PROVE  Stops(WrittenBy(room[a]) + 1, room[r])'
    <3>1. PICK n : n = WrittenBy(room[a]) + 1 OBVIOUS
    <3>2. Stops(n, room[r]) BY <1>1, <2>1, <2>3, <3>1 DEF BesideInv, Fenced
    <3>3. Stops(n, room[r])' /\ n = WrittenBy(room'[a]) + 1 BY <1>1, <2>2, <3>1, <3>2
    <3>4. QED BY <3>3 DEF Stops, FenceOf, HasWritten, Taken
  <2>4. ASSUME Serving(room'[r]), room'[r].target > 0, NEW p2 \in late', p2.by < r
        PROVE  Stops(p2.start, room[r])'
    BY <1>1, <2>1, <2>2, <2>4 DEF BesideInv, Fenced
  <2>5. QED BY <2>3, <2>4
<1>13. ASSUME NEW r \in Rooms PROVE LiveBeside(r)'
  <2>1. room'[r] = room[r] /\ LiveBeside(r) BY <1>1 DEF BesideInv
  <2>2. room[r].status # "initial" BY <2>1 DEF LiveBeside, First
  <2>3. room[r].status \in {"reading", "document", "discarding"} => LoadsBeside(r)'
    BY <1>1, <1>5, <1>6, <2>1, LoadsStay
  <2>4. Serving(room[r]) => ServesBeside(r)'
    <3>1. Last(r)' => Last(r) BY <1>1 DEF Last, Rooms
    <3>2. Taken(WrittenBy(room[r]) + 1) => Taken(WrittenBy(room[r]) + 1)'
      BY <1>6, <2>1 DEF Taken
    <3>3. QED BY <1>1, <1>5, <2>1, <3>1, <3>2, ServesStay
  <2>5. (room[r].status = "new" => room[r] = NewRoom)' BY <2>1 DEF LiveBeside, NewRoom
  <2>6. QED BY <2>1, <2>2, <2>3, <2>4, <2>5 DEF LiveBeside
<1>14. QED BY <1>8, <1>9, <1>10, <1>11, <1>12, <1>13 DEF BesideInv, Rooms

LEMMA InitBeside == Init => BesideInv
<1> SUFFICES ASSUME Init PROVE BesideInv OBVIOUS
<1>1. DInv BY InitKeeps
<1>2. /\ journal = {} /\ late = {} /\ \A r \in Rooms : room[r] = NewRoom
      /\ NewRoom.status = "new"
  BY DEF Init, NewRoom
<1>3. Blank /\ Snapshots /\ Stored BY <1>1 DEF DInv
<1>4. Beside BY <1>2 DEF Beside
<1>5. \A r \in Rooms : Fenced(r) BY <1>2 DEF Fenced, HasRead, Serving
<1>6. \A r \in Rooms : LiveBeside(r) BY <1>2 DEF LiveBeside, Serving
<1>7. QED BY <1>3, <1>4, <1>5, <1>6 DEF BesideInv

LEMMA StutterBeside == BesideInv /\ UNCHANGED vars => BesideInv'
<1> SUFFICES ASSUME BesideInv, UNCHANGED vars PROVE BesideInv' OBVIOUS
<1>1. row' = row /\ files' = files /\ journal' = journal /\ late' = late /\ room' = room
  BY DEF vars
<1>2. Recoverable' = Recoverable /\ End' = End BY <1>1 DEF Recoverable, Readable, End
<1>3. ASSUME NEW r \in Rooms PROVE LogOf(r)' = LogOf(r) /\ LoadedLog(r)' = LoadedLog(r)
  BY <1>1 DEF LogOf, LoadedLog
<1>4. Beside' BY <1>1 DEF BesideInv, Beside, Rooms, Over, Serving
<1>5. Blank' BY <1>1 DEF BesideInv, Blank, Rooms, Serving
<1>6. Snapshots' BY <1>1 DEF BesideInv, Snapshots, Rooms
<1>7. Stored' BY <1>1, <1>2, <1>3 DEF BesideInv, Stored, Rooms, Agrees, Harmless, Taken
<1>8. ASSUME NEW r \in Rooms PROVE Fenced(r)'
  <2>1. Fenced(r) BY DEF BesideInv
  <2>2. QED
    BY <1>1, <2>1 DEF Fenced, HasRead, Serving, Stops, FenceOf, HasWritten, Taken, WrittenBy, Rooms
<1>9. ASSUME NEW r \in Rooms PROVE LiveBeside(r)'
  <2>1. LiveBeside(r) BY DEF BesideInv
  <2>2. LoadsBeside(r) => LoadsBeside(r)'
    BY <1>1, <1>2, <1>3 DEF LoadsBeside, Follows, Taken
  <2>3. First(r) => First(r)' BY <1>1, <1>2, <1>3 DEF First, Agrees, Rooms
  <2>4. ServesBeside(r) => ServesBeside(r)'
    BY <1>1, <1>2, <1>3 DEF ServesBeside, Agrees, Follows, Taken, WrittenBy, Last, Rooms
  <2>5. QED BY <1>1, <2>1, <2>2, <2>3, <2>4 DEF LiveBeside
<1>10. QED BY <1>4, <1>5, <1>6, <1>7, <1>8, <1>9 DEF BesideInv, Rooms

LEMMA StepBeside ==
  ASSUME IInv, IInv', BesideInv, Deployment, Current, Next
  PROVE  BesideInv'
<1>1. ASSUME NEW r \in Rooms, Load(r) PROVE BesideInv'
  <2>1. CASE LoadRow(r) BY <2>1, LoadRowBeside
  <2>2. CASE LoadSnapshot(r) BY <2>2, LoadSnapshotBeside
  <2>3. CASE LoadJournal(r) BY <2>3, LoadJournalBeside
  <2>4. CASE LoadOpen(r) BY <2>4, LoadOpenBeside
  <2>5. CASE LoadGivenUp(r) \/ LoadDiscardFailed(r) BY <2>5, LoadEndsBeside
  <2>6. CASE LoadDocument(r) BY <2>6, LoadDocumentBeside
  <2>7. CASE LoadDiscard(r) BY <2>7, LoadDiscardBeside
  <2>8. QED BY <1>1, <2>1, <2>2, <2>3, <2>4, <2>5, <2>6, <2>7 DEF Load
<1>2. ASSUME NEW r \in Rooms, Accept(r) PROVE BesideInv'
  BY <1>2, AcceptBeside
<1>3. ASSUME NEW r \in Rooms, Journalling(r) PROVE BesideInv'
  <2>1. CASE AppendStart(r) BY <2>1, AppendStartBeside
  <2>2. CASE AppendLand(r) BY <2>2, AppendLandBeside
  <2>3. CASE AppendAnswered(r) BY <2>3, AppendAnsweredBeside
  <2>4. CASE AppendRefused(r) BY <2>4, QuietEndBeside
  <2>5. CASE AppendFailed(r) BY <2>5, AppendFailedBeside
  <2>6. QED BY <1>3, <2>1, <2>2, <2>3, <2>4, <2>5 DEF Journalling
<1>4. ASSUME NEW r \in Rooms, Checkpointing(r) PROVE BesideInv'
  <2>1. CASE CheckpointStart(r) BY <2>1, CheckpointStartBeside
  <2>2. CASE Upload(r) BY <2>2, UploadBeside
  <2>3. CASE Update(r) BY <2>3, UpdateBeside
  <2>4. CASE CheckpointFailed(r) BY <2>4, CheckpointFailedBeside
  <2>5. CASE PruneFiles(r) BY <2>5, PruneFilesBeside
  <2>6. CASE PruneJournal(r) BY <2>6, PruneJournalBeside
  <2>7. QED BY <1>4, <2>1, <2>2, <2>3, <2>4, <2>5, <2>6 DEF Checkpointing
<1>5. ASSUME NEW r \in Rooms, Ending(r) PROVE BesideInv'
  <2>1. CASE Unload(r) BY <2>1, QuietEndBeside
  <2>2. CASE Shutdown(r) BY <2>2, InterruptedBeside
  <2>3. CASE ShutdownFlush(r) /\ room[r].seq > room[r].journaled BY <2>3, AppendStartBeside
  <2>4. CASE ShutdownFlush(r) /\ ~(room[r].seq > room[r].journaled) BY <2>4, QuietEndBeside
  <2>5. CASE Fail(r) /\ room[r].phase # "idle" BY <2>5, InterruptedBeside
  <2>6. CASE Fail(r) /\ room[r].phase = "idle" BY <2>6, QuietEndBeside
  <2>7. CASE Crash(r) BY <2>7, QuietEndBeside
  <2>8. QED BY <1>5, <2>1, <2>2, <2>3, <2>4, <2>5, <2>6, <2>7 DEF Ending
<1>6. ASSUME NEW p \in late, LateArrives(p) \/ LateLost(p) PROVE BesideInv'
  BY <1>6, LateBeside
<1>7. QED BY <1>1, <1>2, <1>3, <1>4, <1>5, <1>6 DEF Next

LEMMA AlwaysBeside == ASSUME Deployment PROVE Spec /\ []Current => []BesideInv
<1>1. IInv /\ IInv' /\ Current /\ BesideInv /\ [Next]_vars => BesideInv'
  BY StepBeside, StutterBeside
<1>2. QED BY <1>1, InitBeside, Invariance, PTL DEF Spec

\* All that either server announced durable is kept, the fence being held.
LEMMA BesideKeepsPromises == ASSUME IInv, BesideInv PROVE DurableKept
<1>1. JournalFollowsCheckpoint BY DEF BesideInv, Stored, JournalFollowsCheckpoint, Readable
<1>2. Len(Recoverable) \in Nat BY BesideSound DEF Content
<1>3. \A r \in Rooms : room[r].durable \in Nat /\ Agrees(r, room[r].durable)
  BY DEF BesideInv, Stored, IInv, HostedRooms
<1>4. QED BY <1>1, <1>2, <1>3 DEF DurableKept, Agrees
----------------------------------------------------------------------------
(* One deployment                                                          *)

\* A packet in the journal is one its room knows to be there, or its room is over.
Authors ==
  \A p \in journal :
    \/ Over(room[p.by])
    \/ Serving(room[p.by]) /\ p.end <= WrittenBy(room[p.by])

\* How a room goes on: it writes further, or ends for good.
LEMMA Onwards ==
  ASSUME IInv, IInv', NEW r \in Rooms, NEW h, room' = [room EXCEPT ![r] = h],
         ~Over(room[r]),
         Serving(room[r]) => Over(h) \/ (Serving(h) /\ WrittenBy(room[r]) <= WrittenBy(h)),
         Authors, NEW p \in journal
  PROVE  Over(room'[p.by]) \/ (Serving(room'[p.by]) /\ p.end <= WrittenBy(room'[p.by]))
<1>1. p.by \in Rooms /\ p.end \in Nat BY DEF IInv, StorageOK, Packets
<1>2. CASE p.by # r
  <2>1. room'[p.by] = room[p.by] BY <1>1, <1>2 DEF IInv
  <2>2. QED BY <2>1 DEF Authors
<1>3. CASE p.by = r
  <2>1. room'[r] = h /\ h \in HostedRooms /\ room[r] \in HostedRooms BY DEF IInv, Rooms
  <2>2. WrittenBy(room[r]) \in Nat /\ WrittenBy(h) \in Nat
    BY <2>1 DEF WrittenBy, HostedRooms
  <2>3. Serving(room[r]) /\ p.end <= WrittenBy(room[r]) BY <1>3 DEF Authors
  <2>4. QED BY <1>1, <1>3, <2>1, <2>2, <2>3
<1>4. QED BY <1>2, <1>3

LEMMA AuthorsKept ==
  ASSUME IInv, IInv', NEW r \in Rooms, NEW h, room' = [room EXCEPT ![r] = h],
         ~Over(room[r]),
         Serving(room[r]) => Over(h) \/ (Serving(h) /\ WrittenBy(room[r]) <= WrittenBy(h)),
         Authors, journal' \subseteq journal
  PROVE  Authors'
<1>1. \A p \in journal' :
        Over(room'[p.by]) \/ (Serving(room'[p.by]) /\ p.end <= WrittenBy(room'[p.by]))
  BY Onwards
<1>2. QED BY <1>1 DEF Authors, Over, Serving, WrittenBy

\* A room that has ended has left nothing to do.
LEMMA SettledIs ==
  ASSUME NEW g, g.status \in {"open", "closing", "stopping", "closed"}
  PROVE  IF g.status = "closed" /\ g.phase = "idle"
         THEN Over(Settled(g)) ELSE Serving(Settled(g)) /\ Settled(g) = g
BY DEF Settled, Over, Serving, NewRoom

LEMMA LoadAuthors ==
  ASSUME IInv, IInv', NEW r \in Rooms, Load(r), Authors
  PROVE  Authors'
<1>1. PICK h : h = room'[r] OBVIOUS
<1>2. room' = [room EXCEPT ![r] = h]
  BY <1>1 DEF Load, LoadRow, LoadSnapshot, LoadJournal, LoadOpen, LoadGivenUp,
              LoadDocument, LoadDiscard, LoadDiscardFailed, IInv
<1>3. room[r].status \in {"new", "reading", "document", "discarding"}
  BY DEF Load, LoadRow, LoadSnapshot, LoadJournal, LoadOpen, LoadGivenUp,
         LoadDocument, LoadDiscard, LoadDiscardFailed, Loaded
<1>4. journal' \subseteq journal
  BY DEF Load, LoadRow, LoadSnapshot, LoadJournal, LoadOpen, LoadGivenUp,
         LoadDocument, LoadDiscard, LoadDiscardFailed
<1>5. CASE ~Serving(room[r])
  <2>1. ~Over(room[r]) BY <1>3 DEF Over
  <2>2. QED BY <1>2, <1>4, <1>5, <2>1, AuthorsKept
<1>6. CASE Serving(room[r]) BY <1>3, <1>6 DEF Serving
<1>7. QED BY <1>5, <1>6
----------------------------------------------------------------------------
\* The steps of a room that serves, its packets apart.
LEMMA ServingAuthors ==
  ASSUME IInv, IInv', Deployment, NEW r \in Rooms, Authors,
         \/ Accept(r) \/ AppendStart(r) \/ AppendRefused(r) \/ AppendFailed(r)
         \/ CheckpointStart(r) \/ Upload(r) \/ Update(r) \/ CheckpointFailed(r)
         \/ PruneFiles(r) \/ Ending(r)
  PROVE  Authors'
<1>1. PICK h : h = room'[r] OBVIOUS
<1>2. room[r] \in HostedRooms /\ room[r].journaled <= room[r].journaled
  BY DEF IInv, HostedRooms
<1>3. journal' \subseteq journal /\ ~Over(room[r])
  BY DEF Accept, AppendStart, AppendRefused, AppendFailed, CheckpointStart, Upload, Update,
         CheckpointFailed, PruneFiles, Ending, Unload, Shutdown, ShutdownFlush, Fail, Crash,
         Over, Ended
<1>4. CASE Accept(r) \/ AppendStart(r) \/ CheckpointStart(r) \/ Upload(r) \/ Update(r)
             \/ PruneFiles(r) \/ Shutdown(r)
             \/ (ShutdownFlush(r) /\ room[r].seq > room[r].journaled)
  <2>1. /\ room' = [room EXCEPT ![r] = h]
        /\ h.status = room[r].status \/ h.status \in {"closing", "stopping"}
        /\ h.journaled = room[r].journaled
        /\ \/ h.phase = room[r].phase /\ h.upto = room[r].upto
           \/ /\ room[r].phase \in {"idle"} \cup Saving
              /\ h.phase \in {"append"} \cup Saving
    BY <1>1, <1>2, <1>4
    DEF Accept, AppendStart, CheckpointStart, FirstStep, Upload, Update, PruneFiles, Shutdown,
        ShutdownFlush, IInv, HostedRooms, Saving
  <2>2. WrittenBy(h) = WrittenBy(room[r]) BY <2>1 DEF WrittenBy, Saving
  <2>3. Serving(room[r]) => Serving(h) BY <2>1 DEF Serving, Saving
  <2>4. WrittenBy(room[r]) <= WrittenBy(h)
    BY <1>2, <2>2 DEF WrittenBy, HostedRooms
  <2>5. QED BY <1>3, <2>1, <2>3, <2>4, AuthorsKept
<1>5. CASE AppendRefused(r) \/ Unload(r) \/ Crash(r) \/ Fail(r)
             \/ (ShutdownFlush(r) /\ ~(room[r].seq > room[r].journaled))
  <2>1. PICK g : /\ room' = [room EXCEPT ![r] = Settled(g)] /\ g.status = "closed"
                 /\ g.phase = "idle" \/ (g.phase = room[r].phase /\ g.upto = room[r].upto
                                         /\ g.journaled = room[r].journaled)
    <3>1. PICK a : a = [room[r] EXCEPT !.status = "closed"] OBVIOUS
    <3>2. PICK b : b = [room[r] EXCEPT !.phase = "idle", !.status = "closed"] OBVIOUS
    <3>3. /\ a.status = "closed" /\ a.phase = room[r].phase /\ a.upto = room[r].upto
          /\ a.journaled = room[r].journaled /\ b.status = "closed" /\ b.phase = "idle"
      BY <1>2, <3>1, <3>2 DEF HostedRooms
    <3>4. b = [room[r] EXCEPT !.status = "closed", !.phase = "idle"]
      BY <1>2, <3>2 DEF HostedRooms
    <3>5. CASE Unload(r) \/ Fail(r) \/ (ShutdownFlush(r) /\ ~(room[r].seq > room[r].journaled))
      <4>1. room' = [room EXCEPT ![r] = Settled(a)]
        BY <3>1, <3>5 DEF Unload, Fail, ShutdownFlush
      <4>2. QED BY ONLY <3>3, <4>1
    <3>6. CASE AppendRefused(r)
      <4>1. room' = [room EXCEPT ![r] = Settled(b)] BY <3>2, <3>6 DEF AppendRefused
      <4>2. QED BY ONLY <3>3, <4>1
    <3>7. CASE Crash(r)
      <4>1. room' = [room EXCEPT ![r] = Settled(b)] BY <3>4, <3>7 DEF Crash
      <4>2. QED BY ONLY <3>3, <4>1
    <3>8. QED BY <1>5, <3>5, <3>6, <3>7
  <2>2. h = Settled(g) /\ room' = [room EXCEPT ![r] = h] BY <1>1, <2>1 DEF IInv
  <2>3. Over(h) \/ (Serving(h) /\ h = g) BY <2>1, <2>2, SettledIs
  <2>4. Serving(room[r]) => Over(h) \/ (Serving(h) /\ WrittenBy(room[r]) <= WrittenBy(h))
    <3>1. CASE Over(h) BY <3>1
    <3>2. CASE ~Over(h)
      <4>1. h = g /\ Serving(h) /\ g.phase # "idle" BY <2>1, <2>3, <3>2 DEF Serving
      <4>2. WrittenBy(h) = WrittenBy(room[r]) BY <2>1, <4>1 DEF WrittenBy
      <4>3. QED BY <1>2, <4>1, <4>2 DEF WrittenBy, HostedRooms
    <3>3. QED BY <3>1, <3>2
  <2>5. QED BY <1>3, <2>2, <2>4, AuthorsKept
<1>6. CASE AppendFailed(r) \/ CheckpointFailed(r)
  <2>1. PICK g : /\ room' = [room EXCEPT ![r] = Settled(g)] /\ g.phase = "idle"
                 /\ g.status = "closed" \/ g.status = room[r].status
                 /\ g.journaled = room[r].journaled
    <3>1. CASE AppendFailed(r)
      <4>1. PICK closes \in BOOLEAN :
              room' = [room EXCEPT ![r] = Settled([room[r] EXCEPT
                !.phase = "idle", !.target = 0, !.upto = 0,
                !.status = IF room[r].status = "stopping" \/ closes THEN "closed"
                           ELSE room[r].status])]
        BY <3>1 DEF AppendFailed
      <4>2. PICK d : d = IF room[r].status = "stopping" \/ closes THEN "closed"
                         ELSE room[r].status
        OBVIOUS
      <4>3. PICK g : g = [room[r] EXCEPT !.phase = "idle", !.target = 0, !.upto = 0,
                                         !.status = d]
        OBVIOUS
      <4>4. room' = [room EXCEPT ![r] = Settled(g)] BY <4>1, <4>2, <4>3
      <4>5. /\ g.phase = "idle"
            /\ g.status = "closed" \/ g.status = room[r].status
            /\ g.journaled = room[r].journaled
        BY <1>2, <4>2, <4>3 DEF HostedRooms
      <4>6. QED BY ONLY <4>4, <4>5
    <3>2. CASE CheckpointFailed(r)
      <4>1. PICK d : d = IF room[r].status = "initial" THEN "closed" ELSE room[r].status
        OBVIOUS
      <4>2. PICK g : g = [room[r] EXCEPT !.phase = "idle", !.target = 0, !.file = NoFile,
                                         !.status = d]
        OBVIOUS
      <4>3. room' = [room EXCEPT ![r] = Settled(g)] BY <3>2, <4>1, <4>2 DEF CheckpointFailed
      <4>4. /\ g.phase = "idle"
            /\ g.status = "closed" \/ g.status = room[r].status
            /\ g.journaled = room[r].journaled
        BY <1>2, <4>1, <4>2 DEF HostedRooms
      <4>5. QED BY ONLY <4>3, <4>4
    <3>3. QED BY <1>6, <3>1, <3>2
  <2>2. h = Settled(g) /\ room' = [room EXCEPT ![r] = h] BY <1>1, <2>1 DEF IInv
  <2>3. room[r].phase # "acked" BY <1>6 DEF AppendFailed, CheckpointFailed, Deployment
  <2>4. Serving(room[r]) => Over(h) \/ (Serving(h) /\ WrittenBy(room[r]) <= WrittenBy(h))
    <3> SUFFICES ASSUME Serving(room[r])
                 PROVE  Over(h) \/ (Serving(h) /\ WrittenBy(room[r]) <= WrittenBy(h))
      OBVIOUS
    <3>1. g.status \in {"open", "closing", "stopping", "closed"} BY <2>1 DEF Serving
    <3>2. Over(h) \/ (Serving(h) /\ h = g) BY <2>2, <3>1, SettledIs
    <3>3. WrittenBy(g) = WrittenBy(room[r]) /\ WrittenBy(room[r]) \in Nat
      BY <1>2, <2>1, <2>3 DEF WrittenBy, HostedRooms
    <3>4. WrittenBy(room[r]) <= WrittenBy(room[r]) BY <3>3
    <3>5. QED BY <3>2, <3>3, <3>4
  <2>5. QED BY <1>3, <2>2, <2>4, AuthorsKept
<1>7. QED BY <1>4, <1>5, <1>6 DEF Ending

LEMMA PruneAuthors ==
  ASSUME IInv, IInv', BesideInv, NEW r \in Rooms, Authors, PruneJournal(r)
  PROVE  Authors'
<1>1. PICK g : /\ room' = [room EXCEPT ![r] = Settled(g)] /\ g.phase = "idle"
               /\ g.status = "open" \/ g.status = room[r].status
               /\ g.journaled = room[r].journaled
  <2>1. PICK d, e : /\ d = (IF room[r].status = "initial" THEN room[r].seq
                            ELSE room[r].durable)
                    /\ e = (IF room[r].status = "initial" THEN "open" ELSE room[r].status)
    OBVIOUS
  <2>2. PICK g : g = [room[r] EXCEPT !.phase = "idle", !.target = 0, !.durable = d,
                                     !.status = e]
    OBVIOUS
  <2>3. room' = [room EXCEPT ![r] = Settled(g)] BY <2>1, <2>2 DEF PruneJournal
  <2>4. room[r] \in HostedRooms BY DEF IInv
  <2>5. /\ g.phase = "idle"
        /\ g.status = "open" \/ g.status = room[r].status
        /\ g.journaled = room[r].journaled
    BY <2>1, <2>2, <2>4 DEF HostedRooms
  <2>6. QED BY ONLY <2>3, <2>5
<1>2. PICK h : h = Settled(g) OBVIOUS
<1>3. room' = [room EXCEPT ![r] = h] /\ journal' \subseteq journal /\ ~Over(room[r])
      /\ room[r].phase = "pruneJournal" /\ room[r] \in HostedRooms
  BY <1>1, <1>2 DEF PruneJournal, Over, IInv
<1>4. Serving(room[r]) => Over(h) \/ (Serving(h) /\ WrittenBy(room[r]) <= WrittenBy(h))
  <2> SUFFICES ASSUME Serving(room[r])
               PROVE  Over(h) \/ (Serving(h) /\ WrittenBy(room[r]) <= WrittenBy(h))
    OBVIOUS
  <2>1. g.status \in {"open", "closing", "stopping", "closed"} BY <1>1 DEF Serving
  <2>2. Over(h) \/ (Serving(h) /\ h = g) BY <1>2, <2>1, SettledIs
  <2>3. WrittenBy(g) = WrittenBy(room[r]) /\ WrittenBy(room[r]) \in Nat
    BY <1>1, <1>3 DEF WrittenBy, HostedRooms
  <2>4. WrittenBy(room[r]) <= WrittenBy(room[r]) BY <2>3
  <2>5. QED BY <2>2, <2>3, <2>4
<1>5. QED BY <1>3, <1>4, AuthorsKept

LEMMA AppendAuthors ==
  ASSUME IInv, IInv', BesideInv, NEW r \in Rooms, Authors,
         AppendLand(r) \/ AppendAnswered(r)
  PROVE  Authors'
<1>1. room[r] \in HostedRooms /\ RoomOK(room[r]) /\ room[r].phase \in Writing
  BY DEF IInv, AppendLand, AppendAnswered, Writing
<1>2. Serving(room[r]) /\ ~Over(room[r])
  <2>1. room[r].status # "initial" /\ room[r].phase # "idle" BY <1>1 DEF RoomOK, Writing
  <2>2. Serving(room[r]) BY <2>1, BusyBeside
  <2>3. QED BY <2>1, <2>2 DEF Over
<1>3. room[r].journaled < room[r].upto /\ room[r].journaled \in Nat /\ room[r].upto \in Nat
  BY <1>1 DEF RoomOK, HostedRooms
<1>4. CASE AppendAnswered(r)
  <2>1. PICK g : /\ room' = [room EXCEPT ![r] = Settled(g)]
                 /\ g.phase \in {"idle", "upload"} /\ g.journaled = room[r].upto
                 /\ g.status = "closed" \/ g.status = room[r].status
    <3>1. PICK saving : saving = (room[r].target > 0 /\ room[r].status # "closed") OBVIOUS
    <3>2. PICK a, b, c, d :
            /\ a = (IF room[r].first = 0 THEN room[r].journaled + 1 ELSE room[r].first)
            /\ b = (IF saving THEN "upload" ELSE "idle")
            /\ c = (IF saving THEN room[r].target ELSE 0)
            /\ d = (IF room[r].status = "stopping" THEN "closed" ELSE room[r].status)
      OBVIOUS
    <3>3. PICK g : g = [room[r] EXCEPT
               !.journaled = room[r].upto, !.durable = room[r].upto, !.first = a, !.upto = 0,
               !.phase = b, !.target = c, !.status = d]
      OBVIOUS
    <3>4. room' = [room EXCEPT ![r] = Settled(g)]
      BY <1>4, <3>1, <3>2, <3>3 DEF AppendAnswered, NowDurable
    <3>5. g.phase = b /\ g.journaled = room[r].upto /\ g.status = d
      BY <1>1, <3>3 DEF HostedRooms
    <3>6. /\ g.phase \in {"idle", "upload"}
          /\ g.status = "closed" \/ g.status = room[r].status
      BY <3>2, <3>5
    <3>7. QED BY ONLY <3>4, <3>5, <3>6
  <2>2. PICK h : h = Settled(g) OBVIOUS
  <2>3. g.status \in {"open", "closing", "stopping", "closed"} BY <1>2, <2>1 DEF Serving
  <2>4. Over(h) \/ (Serving(h) /\ h = g) BY <2>2, <2>3, SettledIs
  <2>5. WrittenBy(g) = room[r].upto /\ WrittenBy(room[r]) = room[r].upto
    BY <1>4, <2>1 DEF WrittenBy, AppendAnswered
  <2>6. Over(h) \/ (Serving(h) /\ WrittenBy(room[r]) <= WrittenBy(h))
    BY <1>3, <2>4, <2>5
  <2>7. room' = [room EXCEPT ![r] = h] /\ journal' \subseteq journal
    BY <1>4, <2>1, <2>2 DEF AppendAnswered
  <2>8. QED BY <1>2, <2>6, <2>7, AuthorsKept
<1>5. CASE AppendLand(r)
  <2>1. PICK h : h = room'[r] OBVIOUS
  <2>2. PICK p : p = PacketOf(r) OBVIOUS
  <2>3. /\ room' = [room EXCEPT ![r] = h] /\ h.status = room[r].status
        /\ h.upto = room[r].upto /\ h.journaled = room[r].journaled
        /\ h.phase = (IF IdTaken(p) THEN "refused" ELSE "acked")
        /\ journal' = (IF IdTaken(p) THEN journal ELSE journal \cup {p})
        /\ room[r].phase = "append"
    BY <1>5, <2>1, <2>2 DEF AppendLand, IInv, HostedRooms
  <2>4. WrittenBy(room[r]) = room[r].journaled BY <2>3 DEF WrittenBy
  <2>5. Serving(h) BY <1>2, <2>3 DEF Serving
  <2>6. WrittenBy(room[r]) <= WrittenBy(h) BY <1>3, <2>3, <2>4 DEF WrittenBy
  <2>7. CASE IdTaken(p) BY <1>2, <2>3, <2>5, <2>6, <2>7, AuthorsKept
  <2>8. CASE ~IdTaken(p)
    <3>1. p.by = r /\ p.end <= WrittenBy(h)
      BY <1>3, <2>2, <2>3, <2>8 DEF PacketOf, WrittenBy
    <3>2. room'[p.by] = h BY <2>1, <3>1
    <3>3. \A p2 \in journal : Over(room'[p2.by])
                               \/ (Serving(room'[p2.by]) /\ p2.end <= WrittenBy(room'[p2.by]))
      BY <1>2, <2>3, <2>5, <2>6, Onwards
    <3>4. \A p2 \in journal' : Over(room'[p2.by])
                               \/ (Serving(room'[p2.by]) /\ p2.end <= WrittenBy(room'[p2.by]))
      BY <2>3, <2>5, <2>8, <3>1, <3>2, <3>3
    <3>5. QED BY <3>4 DEF Authors, Over, Serving, WrittenBy
  <2>9. QED BY <2>7, <2>8
<1>6. QED BY <1>4, <1>5

LEMMA StepAuthors ==
  ASSUME IInv, IInv', Deployment, BesideInv, Authors, Next
  PROVE  Authors'
<1>1. ASSUME NEW r \in Rooms, Load(r) PROVE Authors' BY <1>1, LoadAuthors
<1>2. ASSUME NEW r \in Rooms, Accept(r) \/ Journalling(r) \/ Checkpointing(r) \/ Ending(r)
      PROVE  Authors'
  <2>1. CASE AppendLand(r) \/ AppendAnswered(r) BY <2>1, AppendAuthors
  <2>2. CASE PruneJournal(r) BY <2>2, PruneAuthors
  <2>3. CASE \/ Accept(r) \/ AppendStart(r) \/ AppendRefused(r) \/ AppendFailed(r)
             \/ CheckpointStart(r) \/ Upload(r) \/ Update(r) \/ CheckpointFailed(r)
             \/ PruneFiles(r) \/ Ending(r)
    BY <2>3, ServingAuthors
  <2>4. QED BY <1>2, <2>1, <2>2, <2>3 DEF Journalling, Checkpointing
<1>3. ASSUME NEW p \in late, LateArrives(p) \/ LateLost(p) PROVE Authors'
  <2>1. Over(room[p.by]) BY DEF BesideInv, Beside
  <2>2. room' = room /\ \A p2 \in journal' : p2 \in journal \/ p2 = p
    BY <1>3 DEF LateArrives, LateLost
  <2>3. \A p2 \in journal' : \/ Over(room'[p2.by])
                             \/ Serving(room'[p2.by]) /\ p2.end <= WrittenBy(room'[p2.by])
    BY <2>1, <2>2 DEF Authors
  <2>4. QED BY <2>3 DEF Authors, Over, Serving, WrittenBy
<1>4. QED BY <1>1, <1>2, <1>3 DEF Next

\* With two lives, the second meets all that the first has written, and nothing
\* else: no packet of the first is on its way while it serves.
LEMMA TwoLives ==
  ASSUME IInv, BesideInv, Authors, NRooms <= 2
  PROVE  Current
<1> SUFFICES ASSUME NEW a \in Rooms, NEW r \in Rooms, r = a + 1, Serving(room[a]),
                    room[r].status = "reading"
             PROVE  Len(Recoverable) = WrittenBy(room[a])
  BY DEF Current
<1>1. a = 1 /\ r = 2 /\ \A s \in Rooms : s = a \/ s = r
  BY NRoomsAssumption DEF Rooms
<1>2. PICK w \in Nat : w = WrittenBy(room[a]) /\ Follows(w) BY ServingIs
<1>3. \A p \in journal : p.end <= w
  <2> TAKE p \in journal
  <2>1. p.by \in Rooms BY DEF IInv, StorageOK, Packets
  <2>2. ~Over(room[r]) /\ ~Serving(room[r])
    BY LoadingIs DEF Serving
  <2>3. ~Over(room[a]) BY DEF Over, Serving
  <2>4. p.by = a BY <1>1, <2>1, <2>2 DEF Authors
  <2>5. QED BY <1>2, <2>3, <2>4 DEF Authors
<1>4. ~Taken(w + 1)
  <2> SUFFICES ASSUME NEW q \in journal, q.start = w + 1 PROVE FALSE BY DEF Taken
  <2>1. q \in Packets /\ q.start <= q.end BY DEF IInv, StorageOK, BesideInv, Beside
  <2>2. QED BY <1>2, <1>3, <2>1 DEF Packets
<1>5. End = w BY <1>2, <1>4 DEF Follows
<1>6. QED BY <1>2, <1>5, BesideSound DEF Content

\* Whatever two servers that meet in a deployment announce durable (markDurable of
\* roomHost.ts) stays in the storage, and no load is refused for a hole or a
\* duplicate: the first packet of the new server stops the old one, whose packets
\* land late or not at all, and its checkpoints do not prune that packet
\* (createDocument and the pruning of appwriteStorage.ts).
THEOREM FenceKeepsPromises ==
  ASSUME Deployment, NRooms <= 2 PROVE Spec => []DurableKept
<1>1. Init => Authors BY DEF Init, Authors
<1>2. Authors /\ UNCHANGED vars => Authors'
  BY DEF Authors, vars, Over, Serving, WrittenBy
<1>3. IInv /\ BesideInv /\ Authors => Current BY TwoLives
<1>4. IInv /\ IInv' /\ BesideInv /\ Authors /\ [Next]_vars => BesideInv' /\ Authors'
  BY <1>2, <1>3, StepBeside, StutterBeside, StepAuthors
<1>5. IInv /\ BesideInv => DurableKept BY BesideKeepsPromises
<1>6. QED BY <1>1, <1>4, <1>5, InitBeside, Invariance, PTL DEF Spec

\* The same for any number of servers, one after the other, as long as each of
\* them reads the journal when the one it replaces has seen all that is in it
\* (readJournalAfter of appwriteStorage.ts): a third one that loads beside a
\* server whose fence is still to be written is what breaks it.
THEOREM FencesKeepPromises ==
  ASSUME Deployment PROVE Spec /\ []Current => []DurableKept
<1>1. IInv /\ BesideInv => DurableKept BY BesideKeepsPromises
<1>2. QED BY <1>1, AlwaysBeside, Invariance, PTL
=============================================================================
