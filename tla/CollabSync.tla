----------------------------- MODULE CollabSync -----------------------------
(***************************************************************************)
(* The editors of one project and its room: how local edits are numbered,  *)
(* sent, acknowledged, kept on the device and sent again                    *)
(* (src/features/collab/client: syncEngine.ts, collabClient.ts,             *)
(* connection.ts, session.ts; src/features/collab/room: room.ts).           *)
(*                                                                          *)
(* The server is seen through what RoomJournal guarantees of it: a log of   *)
(* accepted batches whose durable prefix survives a restart, and of which   *)
(* a restart may lose any part that was not announced durable.              *)
(***************************************************************************)
EXTENDS Integers, Sequences, FiniteSetsExt

CONSTANTS
  Clients,       \* clientIds, one per device session
  MaxEdits,      \* edits each client makes (bound)
  MaxFaults,     \* disconnections, restarts, closed and killed tabs (bound)
  CatchUpLimit,  \* batches kept for a reconnection (RoomOptions.catchUpLimit)
  FlushLimit,    \* MAX_BATCHES_PER_FLUSH
  Situations     \* what else may happen: see SituationKinds

\* "restart": the server restarts; "reject": the room may refuse a batch;
\* "close": tabs are closed, their copy written; "kill": tabs die before the
\* copy of the last 250 ms is written; "early": edits before the first welcome;
\* "stale": these too in a tab whose copy is older than what the server got.
SituationKinds == {"restart", "reject", "close", "kill", "early", "stale"}

ASSUME BoundsAssumption ==
  /\ MaxEdits \in Nat /\ MaxFaults \in Nat
  /\ CatchUpLimit \in Nat /\ FlushLimit \in Nat \ {0}
ASSUME SituationAssumption == Situations \subseteq SituationKinds

VARIABLES
  log,     \* batches the room accepted, in order
  durable, \* how many of them are announced durable
  loaded,  \* how many the current room was loaded with
  epoch,   \* identity of the current room (one per load)
  conn,    \* each client's connection: "off", "on", or "dead": the client
           \* has not noticed yet that the server is gone
  up,      \* batches on their way to the room
  down,    \* messages on their way to the client
  engine,  \* its SyncEngine
  tab,     \* "open" or "closed"
  copy,    \* the copy of its unwritten batches kept on the device
  made,    \* edits made so far
  waived,  \* those nothing is promised about: refused by the room, local
           \* only, or made in a tab that died before its copy was written
  faults   \* faults so far

server == <<log, durable, loaded, epoch>>
wires  == <<conn, up, down>>
device == <<tab, copy>>
vars   == <<server, wires, engine, device, made, waived, faults>>

Edits     == Clients \X (1..MaxEdits)
Sequenced == [seq : Nat, client : Clients, cseq : Nat, ops : Seq(Edits)]
Local     == [cseq : Nat, ops : Seq(Edits), transmitted : BOOLEAN,
              localOnly : BOOLEAN, seq : Nat]
Unsynced  == [cseq : Nat, ops : Seq(Edits)]
Engines   == [ready : BOOLEAN, epoch : Nat, conf : Seq(Sequenced),
              durable : Nat, queued : Seq(Edits), pending : SUBSET Local,
              undurable : SUBSET Local, next : Nat, sentUpTo : Nat]
Copies    == [next : Nat, batches : SUBSET Unsynced]

\* What the room sends, and the two answers to a batch that gets no number.
Welcome  == [type : {"welcome"}, epoch : Nat, seq : Nat, durable : Nat,
             cseq : Nat, snapshot : BOOLEAN, batches : Seq(Sequenced)]
Messages == Welcome \cup [type : {"batch"}, batch : Sequenced]
                    \cup [type : {"durable"}, seq : Nat]
                    \cup [type : {"duplicate", "reject"}, cseq : Nat]

TypeOK ==
  /\ log \in Seq(Sequenced) /\ \A q \in DOMAIN log : log[q].seq = q
  /\ durable \in 0..Len(log) /\ loaded \in 0..Len(log) /\ epoch \in Nat
  /\ conn \in [Clients -> {"off", "on", "dead"}]
  /\ up \in [Clients -> Seq(Unsynced)]
  /\ down \in [Clients -> Seq(Messages)]
  /\ \A c \in Clients : conn[c] = "off" => down[c] = <<>>
  /\ engine \in [Clients -> Engines]
  /\ tab \in [Clients -> {"open", "closed"}]
  /\ copy \in [Clients -> Copies]
  /\ made \in [Clients -> 0..MaxEdits]
  /\ waived \in [Clients -> SUBSET Edits]
  /\ faults \in 0..MaxFaults

----------------------------------------------------------------------------
(* The engine (SyncEngine): h is the engine of client c.  Its batches are    *)
(* arrays the code keeps in the order of their numbers: sets, here.          *)

Entries(s)       == {s[i] : i \in DOMAIN s}
EditsOf(batches) == UNION {Entries(b.ops) : b \in batches}

FreshEngine == [ready |-> FALSE, epoch |-> 0, conf |-> <<>>, durable |-> 0,
                queued |-> <<>>, pending |-> {}, undurable |-> {},
                next |-> 1, sentUpTo |-> 0]

NewBatch(n, ops) == [cseq |-> n, ops |-> ops, transmitted |-> FALSE,
                     localOnly |-> FALSE, seq |-> 0]

\* What leaves the engine of a batch, to the room or to the copy.
Bare(b) == [cseq |-> b.cseq, ops |-> b.ops]

NotLocal(batches) == {b \in batches : ~b.localOnly}

\* A set of batches as the array sorted by number.
InOrder(batches) ==
  {s \in [1..Cardinality(batches) -> batches] :
     /\ Entries(s) = batches
     /\ \A i, j \in DOMAIN s : i < j => s[i].cseq <= s[j].cseq}

\* seal: the queued edits become a batch with a number of its own.
Sealed(h) ==
  IF h.queued = <<>> THEN h
  ELSE [h EXCEPT !.pending = @ \cup {NewBatch(h.next, h.queued)},
                 !.next = @ + 1, !.queued = <<>>]

\* Offline the last batch may still grow, as long as no server can have seen it.
MayGrow(h, last) ==
  /\ \A b \in h.pending : b.cseq <= last.cseq
  /\ ~last.transmitted /\ ~last.localOnly /\ last.cseq > h.sentUpTo

Coalesced(h, last) ==
  [h EXCEPT !.pending = (@ \ {last}) \cup {[last EXCEPT !.ops = @ \o h.queued]},
            !.queued = <<>>]

\* unsyncedBatches, what a copy on the device holds (of a sealed engine).
CopyOf(h) ==
  LET kept == h.undurable \cup NotLocal(h.pending)
  IN  [next |-> IF kept = {} THEN 0 ELSE h.next,
       batches |-> {Bare(b) : b \in kept}]

NoCopy == [next |-> 0, batches |-> {}]

\* restoreUnsynced: perhaps received by the server already, never merged.
Restored(saved) ==
  [FreshEngine EXCEPT
     !.pending = {[NewBatch(b.cseq, b.ops) EXCEPT !.transmitted = TRUE] :
                    b \in saved.batches},
     !.next = saved.next]

Unsent(h) == {b \in NotLocal(h.pending) : b.cseq > h.sentUpTo}

HasUnsent(h) == h.queued # <<>> \/ Unsent(h) # {}

\* The batches of S that at most FlushLimit - 1 others of S precede.
FirstOf(S) == {b \in S : Cardinality({p \in S : p.cseq < b.cseq}) < FlushLimit}

\* (slip: a batch sent on an earlier connection is not sent again)
OutgoingOnce(h) == FirstOf({b \in Unsent(h) : ~b.transmitted})

\* outgoing: the next batches to send on this connection, in order.
Outgoing(h) == FirstOf(Unsent(h))

Sent(h) ==
  LET out == Outgoing(h)
  IN  IF out = {} THEN h
      ELSE [h EXCEPT
              !.sentUpTo = Max({b.cseq : b \in out}),
              !.pending = (@ \ out) \cup {[b EXCEPT !.transmitted = TRUE] : b \in out}]

Numbered(batches, q) == {[b EXCEPT !.seq = q] : b \in batches}

\* (slip: an acknowledged batch stays pending as well)
AppliedStillPending(h, c, batches) ==
  LET Acked(b) == {p \in h.pending : b.client = c /\ p.cseq = b.cseq}
  IN  [h EXCEPT
         !.conf = @ \o batches,
         !.undurable = @ \cup UNION {Numbered(Acked(b), b.seq) : b \in Entries(batches)}]

\* applyServerBatch, for batches that follow those confirmed: one's own batch
\* is its acknowledgement.
Applied(h, c, batches) ==
  LET Acked(b) == {p \in h.pending : b.client = c /\ p.cseq = b.cseq}
  IN  [h EXCEPT
         !.conf = @ \o batches,
         !.pending = @ \ UNION {Acked(b) : b \in Entries(batches)},
         !.undurable = @ \cup UNION {Numbered(Acked(b), b.seq) : b \in Entries(batches)}]

\* A batch already known is stale; a hole is a gap, on which the client
\* reconnects.
IsNext(h, b) == b.seq = Len(h.conf) + 1
Gap(h, b)    == b.seq > Len(h.conf) + 1

UpTo(batches, n)      == {b \in batches : b.cseq <= n}
Unwritten(batches, d) == {b \in batches : b.seq > d}

\* (slip: a batch acknowledged by a previous room is not looked at again)
FromSnapshotPendingOnly(h, m) ==
  LET done == UpTo(h.pending, m.cseq)
  IN  [h EXCEPT !.conf = m.batches,
                !.undurable = @ \cup Numbered(done, m.seq),
                !.pending = @ \ done]

\* welcome with the whole state: what the server counts as applied waits for
\* its journal, the rest is pending again and will be sent.
FromSnapshot(h, m) ==
  LET mine == h.undurable \cup h.pending
      done == UpTo(mine, m.cseq)
      same == {b \in done : m.epoch = h.epoch /\ b.seq # 0}
  IN  [h EXCEPT !.conf = m.batches,
                !.undurable = same \cup Numbered(done \ same, m.seq),
                !.pending = mine \ done]

\* welcome with the batches missed in the same room.
FromCatchUp(h, c, m) ==
  LET caught == Applied(h, c, m.batches)
      done   == UpTo(caught.pending, m.cseq)
  IN  [caught EXCEPT !.undurable = @ \cup Numbered(done, m.seq),
                     !.pending = @ \ done]

Welcomed(h, c, m) ==
  LET sealed == Sealed(h)
      first  == IF h.ready THEN sealed
                ELSE [sealed EXCEPT !.pending = NotLocal(@)]
      state  == IF m.snapshot THEN FromSnapshot(first, m)
                              ELSE FromCatchUp(first, c, m)
  IN  [state EXCEPT
         !.epoch = m.epoch, !.durable = m.durable, !.ready = TRUE,
         !.undurable = Unwritten(@, m.durable),
         !.next = Max({@, m.cseq + 1}),
         !.sentUpTo = m.cseq]

DurableTold(h, n) ==
  LET d == Max({n, h.durable})
  IN  [h EXCEPT !.durable = d, !.undurable = Unwritten(@, d)]

\* `duplicate' and `reject' both answer a pending batch that gets no number.
Answered(h, m) ==
  LET named == {b \in h.pending : b.cseq = m.cseq}
  IN  [h EXCEPT
         !.pending = @ \ named,
         !.undurable = IF m.type = "reject" THEN @
                       ELSE @ \cup Numbered(named, Len(h.conf))]

\* receive, but for `welcome'
Received(h, c, m) ==
  CASE m.type = "batch"   -> IF IsNext(h, m.batch) THEN Applied(h, c, <<m.batch>>) ELSE h
    [] m.type = "durable" -> DurableTold(h, m.seq)
    [] OTHER              -> Answered(h, m)

----------------------------------------------------------------------------
(* The two ends of a connection                                            *)

\* Messages follow the order of their connection; a client that has left
\* hears nothing, what it had sent may still be read until it comes back.
ToEveryone(m) ==
  down' = [c \in Clients |-> IF conn[c] = "on" THEN Append(down[c], m)
                                               ELSE down[c]]
ToOne(c, m) ==
  down' = [down EXCEPT ![c] = IF conn[c] = "on" THEN Append(@, m) ELSE @]

\* The client takes itself for connected once it has read `welcome', the
\* first message of a connection.
Online(c) ==
  /\ conn[c] # "off"
  /\ down[c] # <<>> => Head(down[c]).type # "welcome"

NumbersFrom(c, from) == {log[q].cseq : q \in {i \in from .. Len(log) : log[i].client = c}}

\* (slip: a checkpoint does not keep the clients' numbers)
LastSeqSinceLoad(c) == Max({0} \cup NumbersFrom(c, loaded + 1))

\* lastClientSeqOf
LastSeq(c) == Max({0} \cup NumbersFrom(c, 1))

\* disconnected
Hangup(c) ==
  /\ conn' = [conn EXCEPT ![c] = "off"]
  /\ down' = [down EXCEPT ![c] = <<>>]
  /\ engine' = [engine EXCEPT ![c].sentUpTo = 0]

Fault ==
  /\ faults < MaxFaults
  /\ faults' = faults + 1

Init ==
  /\ log = <<>> /\ durable = 0 /\ loaded = 0 /\ epoch = 1
  /\ conn = [c \in Clients |-> "off"]
  /\ up   = [c \in Clients |-> <<>>]
  /\ down = [c \in Clients |-> <<>>]
  /\ engine = [c \in Clients |-> FreshEngine]
  /\ tab  = [c \in Clients |-> "open"]
  /\ copy = [c \in Clients |-> NoCopy]
  /\ made = [c \in Clients |-> 0]
  /\ waived = [c \in Clients |-> {}]
  /\ faults = 0

----------------------------------------------------------------------------
(* The client                                                              *)

\* The server got, or will get, batches of this client that the copy its tab
\* adopted does not count.
CopyIsStale(c) ==
  \/ LastSeq(c) >= engine[c].next
  \/ \E i \in DOMAIN up[c] : up[c][i].cseq >= engine[c].next
  \/ \E m \in Entries(down[c]) : m.type = "welcome" /\ m.cseq >= engine[c].next

Early(c) ==
  /\ ~engine[c].ready /\ "early" \in Situations
  /\ CopyIsStale(c) => "stale" \in Situations

\* applyLocal, an edit of the user.
Edit(c) ==
  /\ tab[c] = "open" /\ made[c] < MaxEdits
  /\ engine[c].ready \/ Early(c)
  /\ made' = [made EXCEPT ![c] = @ + 1]
  /\ engine' = [engine EXCEPT ![c].queued = Append(@, <<c, made'[c]>>)]
  /\ UNCHANGED <<server, wires, device, waived, faults>>

\* applyLocal, a computed result before the first welcome: it stays local.
EditLocally(c) ==
  /\ tab[c] = "open" /\ made[c] < MaxEdits
  /\ Early(c)
  /\ made' = [made EXCEPT ![c] = @ + 1]
  /\ waived' = [waived EXCEPT ![c] = @ \cup {<<c, made'[c]>>}]
  /\ engine' = [engine EXCEPT ![c] =
       LET h == Sealed(@)
           b == [NewBatch(h.next, <<<<c, made'[c]>>>>) EXCEPT !.localOnly = TRUE]
       IN  [h EXCEPT !.pending = @ \cup {b}, !.next = @ + 1]]
  /\ UNCHANGED <<server, wires, device, faults>>

\* On a dead connection what is sent is lost.
Send(c, out) ==
  IF conn[c] = "on"
  THEN \E s \in InOrder({Bare(b) : b \in out}) : up' = [up EXCEPT ![c] = @ \o s]
  ELSE UNCHANGED up

\* flush while connected.
Flush(c) ==
  LET h == Sealed(engine[c])
  IN  /\ tab[c] = "open" /\ Online(c) /\ HasUnsent(engine[c])
      /\ engine' = [engine EXCEPT ![c] = Sent(h)]
      /\ Send(c, Outgoing(h))
      /\ UNCHANGED <<server, conn, down, device, made, waived, faults>>

\* flush while offline; a batch that is large, or carries segments of a
\* track, does not grow.
FlushOffline(c) ==
  /\ tab[c] = "open" /\ ~Online(c) /\ engine[c].queued # <<>>
  /\ \/ engine' = [engine EXCEPT ![c] = Sealed(@)]
     \/ \E last \in engine[c].pending :
          /\ MayGrow(engine[c], last)
          /\ engine' = [engine EXCEPT ![c] = Coalesced(@, last)]
  /\ UNCHANGED <<server, wires, device, made, waived, faults>>

\* `welcome' arrives, and a flush follows it.
ReceiveWelcome(c) ==
  /\ conn[c] # "off" /\ down[c] # <<>> /\ Head(down[c]).type = "welcome"
  /\ LET h == Welcomed(engine[c], c, Head(down[c]))
     IN  engine' = [engine EXCEPT ![c] = Sent(h)] /\ Send(c, Outgoing(h))
  /\ down' = [down EXCEPT ![c] = Tail(@)]
  /\ UNCHANGED <<server, conn, device, made, waived, faults>>

\* Another message arrives; after a gap comes a new connection (restart).
Receive(c) ==
  /\ conn[c] # "off" /\ down[c] # <<>> /\ Head(down[c]).type # "welcome"
  /\ LET m == Head(down[c])
     IN  IF m.type = "batch" /\ Gap(engine[c], m.batch) THEN Hangup(c)
         ELSE /\ engine' = [engine EXCEPT ![c] = Received(@, c, m)]
              /\ down' = [down EXCEPT ![c] = Tail(@)]
              /\ UNCHANGED conn
  /\ UNCHANGED <<server, up, device, made, waived, faults>>

\* The connection breaks, or the client gives it up (heartbeat, restart).
Disconnect(c) ==
  /\ tab[c] = "open"
  /\ \/ conn[c] = "on" /\ Fault
     \/ conn[c] = "dead" /\ UNCHANGED faults
  /\ Hangup(c)
  /\ UNCHANGED <<server, up, device, made, waived>>

\* persistNow: the copy is rewritten, or deleted when nothing is left in it.
Persist(c) ==
  /\ tab[c] = "open"
  /\ CopyOf(Sealed(engine[c])) # copy[c]
  /\ engine' = [engine EXCEPT ![c] = Sealed(@)]
  /\ copy' = [copy EXCEPT ![c] = CopyOf(Sealed(engine[c]))]
  /\ UNCHANGED <<server, wires, tab, made, waived, faults>>

Gone(c) ==
  /\ tab' = [tab EXCEPT ![c] = "closed"]
  /\ engine' = [engine EXCEPT ![c] = FreshEngine]
  /\ conn' = [conn EXCEPT ![c] = "off"]
  /\ down' = [down EXCEPT ![c] = <<>>]

\* stop, or the pagehide handler: the copy is up to date.
CloseTab(c) ==
  /\ "close" \in Situations
  /\ tab[c] = "open" /\ Fault
  /\ copy' = [copy EXCEPT ![c] = CopyOf(Sealed(engine[c]))]
  /\ Gone(c)
  /\ UNCHANGED <<server, up, made, waived>>

\* The browser kills the tab: the copy is the last one written.
KillTab(c) ==
  /\ "kill" \in Situations
  /\ tab[c] = "open" /\ Fault
  /\ waived' = [waived EXCEPT ![c] =
       @ \cup ({<<c, k>> : k \in 1..made[c]} \ EditsOf(copy[c].batches))]
  /\ Gone(c)
  /\ UNCHANGED <<server, up, copy, made>>

\* CollabSession.start adopts the copy, under the same clientId.
Reopen(c) ==
  /\ tab[c] = "closed" /\ copy[c] # NoCopy
  /\ tab' = [tab EXCEPT ![c] = "open"]
  /\ engine' = [engine EXCEPT ![c] = Restored(copy[c])]
  /\ UNCHANGED <<server, wires, copy, made, waived, faults>>

----------------------------------------------------------------------------
(* The room and its server                                                 *)

\* `recent' holds the last batches accepted by this room.
FirstRecent == Max({loaded, Len(log) - CatchUpLimit}) + 1

\* (slip: the numbers of another room are taken for those of this one)
CanCatchUpAnyRoom(h) ==
  /\ h.ready /\ Len(h.conf) <= Len(log)
  /\ Len(h.conf) = Len(log) \/ FirstRecent <= Len(h.conf) + 1

\* catchUpFor: the same room, and everything missed is still in `recent'.
CanCatchUp(h) ==
  /\ h.ready /\ h.epoch = epoch /\ Len(h.conf) <= Len(log)
  /\ Len(h.conf) = Len(log) \/ FirstRecent <= Len(h.conf) + 1

\* join, on a new connection: what an older one had left to read is dropped.
Join(c) ==
  /\ tab[c] = "open" /\ conn[c] = "off"
  /\ LET known == IF CanCatchUp(engine[c]) THEN Len(engine[c].conf) ELSE 0
     IN  down' = [down EXCEPT ![c] =
           <<[type |-> "welcome", epoch |-> epoch, seq |-> Len(log),
              durable |-> durable, cseq |-> LastSeq(c),
              snapshot |-> ~CanCatchUp(engine[c]),
              batches |-> SubSeq(log, known + 1, Len(log))]>>]
  /\ conn' = [conn EXCEPT ![c] = "on"]
  /\ up' = [up EXCEPT ![c] = <<>>]
  /\ UNCHANGED <<server, engine, device, made, waived, faults>>

\* handleBatch, a batch of a number already applied
HandleDuplicate(c) ==
  /\ Head(up[c]).cseq <= LastSeq(c)
  /\ ToOne(c, [type |-> "duplicate", cseq |-> Head(up[c]).cseq])
  /\ UNCHANGED <<server, waived>>

\* handleBatch, a batch checkBatch refuses
HandleRejected(c) ==
  /\ Head(up[c]).cseq > LastSeq(c) /\ "reject" \in Situations
  /\ ToOne(c, [type |-> "reject", cseq |-> Head(up[c]).cseq])
  /\ waived' = [waived EXCEPT ![c] = @ \cup Entries(Head(up[c]).ops)]
  /\ UNCHANGED server

\* handleBatch, a batch accepted and numbered
HandleApplied(c) ==
  LET b == [seq |-> Len(log) + 1, client |-> c,
            cseq |-> Head(up[c]).cseq, ops |-> Head(up[c]).ops]
  IN  /\ Head(up[c]).cseq > LastSeq(c)
      /\ log' = Append(log, b)
      /\ ToEveryone([type |-> "batch", batch |-> b])
      /\ UNCHANGED <<durable, loaded, epoch, waived>>

HandleBatch(c) ==
  /\ up[c] # <<>>
  /\ up' = [up EXCEPT ![c] = Tail(@)]
  /\ IF Head(up[c]).cseq <= LastSeq(c) THEN HandleDuplicate(c)
     ELSE HandleApplied(c) \/ HandleRejected(c)
  /\ UNCHANGED <<conn, engine, device, made, faults>>

\* markDurable, after a packet of the journal.
MarkDurable ==
  /\ \E n \in durable + 1 .. Len(log) :
       /\ durable' = n
       /\ ToEveryone([type |-> "durable", seq |-> n])
  /\ UNCHANGED <<log, loaded, epoch, conn, up, engine, device, made, waived, faults>>

\* The server restarts: batches not announced durable may be lost, and no
\* client has noticed yet.
Restart ==
  /\ "restart" \in Situations /\ Fault
  /\ \E n \in durable..Len(log) :
       /\ log' = SubSeq(log, 1, n)
       /\ durable' = n /\ loaded' = n
  /\ epoch' = epoch + 1
  /\ conn' = [c \in Clients |-> IF conn[c] = "on" THEN "dead" ELSE conn[c]]
  /\ up' = [c \in Clients |-> <<>>]
  /\ UNCHANGED <<down, engine, device, made, waived>>

Client(c) ==
  \/ Edit(c) \/ EditLocally(c) \/ Flush(c) \/ FlushOffline(c)
  \/ ReceiveWelcome(c) \/ Receive(c)
  \/ Disconnect(c) \/ Persist(c) \/ CloseTab(c) \/ KillTab(c) \/ Reopen(c)

Next ==
  \/ \E c \in Clients : Client(c) \/ Join(c) \/ HandleBatch(c)
  \/ MarkDurable \/ Restart

Spec == Init /\ [][Next]_vars

\* What runs without anybody: the journal of the server, the heartbeat that
\* notices a dead connection, the reconnections that are tried for ever, the
\* sockets that are read, the timers of flush.
Running ==
  \/ MarkDurable
  \/ \E c \in Clients :
       \/ conn[c] = "dead" /\ Disconnect(c)
       \/ Join(c) \/ HandleBatch(c) \/ ReceiveWelcome(c) \/ Receive(c)
       \/ Flush(c) \/ FlushOffline(c)

\* Nobody has to edit or to open a tab again, and nothing is asked of which
\* part runs first: only that they do not all stop.
Fairness == WF_vars(Running)

FairSpec == Spec /\ Fairness

----------------------------------------------------------------------------
(* Properties                                                              *)

\* No edit is applied twice, and the edits of an author are applied in the
\* order they were made: neither sending again after a restart, nor merging
\* offline batches, nor adopting an old copy repeats or reorders them.
AppliedOnceInOrder ==
  \A q, r \in DOMAIN log : \A i \in DOMAIN log[q].ops, j \in DOMAIN log[r].ops :
    LET e == log[q].ops[i]
        f == log[r].ops[j]
    IN  (q < r \/ (q = r /\ i < j)) /\ e[1] = f[1] => e[2] < f[2]

\* The batches numbered 1 to n by the room.
LogUpTo(n) == {log[q] : q \in 1..n}

Kept(c) ==
  IF tab[c] = "open"
  THEN EditsOf(engine[c].undurable \cup engine[c].pending)
         \cup Entries(engine[c].queued)
  ELSE EditsOf(copy[c].batches)

Promised(c) == {<<c, k>> : k \in 1..made[c]} \ waived[c]

\* An edit is forgotten by the engine or its copy (an acknowledgement, a
\* `durable', a welcome that counts it as applied) only once it is in the
\* part of the log that survives a restart of the server.
NothingLost ==
  \A c \in Clients : Promised(c) \subseteq EditsOf(LogUpTo(durable)) \cup Kept(c)

\* The parts of the document an editor shows: the confirmed batches, those
\* pending, the edits queued.
Shown(h) ==
  {<<"confirmed", q, h.conf[q].ops>> : q \in DOMAIN h.conf}
    \cup {<<"pending", b.cseq, b.ops>> : b \in h.pending}
    \cup {<<"queued", 0, h.queued>>}

\* The user keeps seeing each of his edits, once, while it goes from queued to
\* pending to acknowledged, and through reconnections and restarts.
EditsStayVisible ==
  \A c \in Clients : tab[c] = "open" /\ engine[c].ready =>
    /\ \A x, y \in Shown(engine[c]) : \A i \in DOMAIN x[3], j \in DOMAIN y[3] :
         x[3][i] = y[3][j] => x = y /\ i = j
    /\ Promised(c) \subseteq UNION {Entries(x[3]) : x \in Shown(engine[c])}

WelcomeWaits(c) == down[c] # <<>> /\ Head(down[c]).type = "welcome"

\* What c has confirmed, once it has read the welcome on its way to it.
Base(c) ==
  IF ~WelcomeWaits(c) THEN engine[c].conf
  ELSE IF Head(down[c]).snapshot THEN Head(down[c]).batches
  ELSE engine[c].conf \o Head(down[c]).batches

\* The batch of that number is answered by a message on its way to c.
AnswerComes(c, n) ==
  \E m \in Entries(down[c]) :
    \/ m.type \in {"duplicate", "reject"} /\ m.cseq = n
    \/ m.type = "batch" /\ m.batch.client = c /\ m.batch.cseq = n

\* A connection brings the client to the room's exact state: once it has read
\* what is on its way it holds the room's log.
DocumentsMeet(c) ==
  /\ Len(Base(c)) <= Len(log) /\ \A q \in DOMAIN Base(c) : Base(c)[q] = log[q]
  /\ \A q \in Len(Base(c)) + 1 .. Len(log) :
       \E i \in DOMAIN down[c] : down[c][i] = [type |-> "batch", batch |-> log[q]]
  /\ \A i, j \in DOMAIN down[c] :
       i < j /\ down[c][i].type = "batch" /\ down[c][j].type = "batch"
         => down[c][i].batch.seq < down[c][j].batch.seq

\* The batches it takes for sent, and has or will get no answer to, are those
\* still on their way to the room, in order; the room has none of them.
FlightsMeet(c) ==
  /\ \A i, j \in DOMAIN up[c] : i < j => up[c][i].cseq < up[c][j].cseq
  /\ \A b \in Entries(up[c]) : b.cseq > LastSeq(c)
  /\ IF WelcomeWaits(c) THEN up[c] = <<>>
     ELSE {b.cseq : b \in Entries(up[c])} =
            {b.cseq : b \in {p \in UpTo(NotLocal(engine[c].pending), engine[c].sentUpTo) :
                               ~AnswerComes(c, p.cseq)}}

ConnectionAgrees ==
  \A c \in Clients : conn[c] = "on" => DocumentsMeet(c) /\ FlightsMeet(c)

\* Whatever breaks a bounded number of times, every edit ends durable, unless
\* the room refused it or its tab is closed, and every open editor ends with
\* the same document, the server's.
Converge ==
  <>[](\A c \in Clients : tab[c] = "open" =>
         /\ engine[c].conf = log
         /\ engine[c].pending = {} /\ engine[c].queued = <<>>
         /\ \A k \in 1..made[c] : <<c, k>> \in waived[c] \cup EditsOf(LogUpTo(durable)))

\* Types, and the agreement of both ends of every connection.
StatesAgree == TypeOK /\ ConnectionAgrees
=============================================================================
