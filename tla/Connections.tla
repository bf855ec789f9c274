---------------------------- MODULE Connections ----------------------------
(***************************************************************************)
(* How editors enter and leave the room of a project, on one server        *)
(* (server/multiplayer/server.ts, connection.ts, auth.ts, and RoomHost and *)
(* the life of HostedRoom in roomHost.ts): rights read before a connection *)
(* is accepted, a room loaded once for all who wait, entered after awaits  *)
(* during which it may have closed, rights read again by a timer and on    *)
(* the signal of the sharing API, rooms unloaded, failed, purged with      *)
(* their project, and the stop of the server.  What a room writes is in    *)
(* RoomJournal; here, only how far it has written.                         *)
(***************************************************************************)
EXTENDS Integers, FiniteSets

CONSTANTS
  Users,        \* users, each with one tab: its client id stands for it
  Conns,        \* connections at one time
  Rooms,        \* instances of the room of the project
  PerUser,      \* limits.perUser (code: 16)
  MaxOpenings,  \* bound: connections opened
  MaxEvents     \* bound: edits, changes of rights, cuts, failures, stops

ASSUME ConnectionsAssumption ==
  /\ {MaxOpenings, MaxEvents} \subseteq Nat
  /\ PerUser \in Nat \ {0}
  /\ Rooms \subseteq Nat \ {0} /\ Conns \subseteq Nat \ {0}

VARIABLES
  row,       \* Appwrite: the row of the project
  members,   \* Appwrite: the users its team has
  data,      \* Appwrite: journal or checkpoints of its room are stored
  host,      \* stopping, the room in `rooms`, the load in `loading`
  room,      \* HostedRoom
  conn,      \* handleConnection, and its socket
  refusals,  \* verifications of rights that ended badly, to be acted on
  slots,     \* counts of takeUserSlot
  spent      \* how much of each bound is used

vars == <<row, members, data, host, room, conn, refusals, slots, spent>>

NoConn == 0
NoRoom == 0

\* A handleConnection that is over: `phase` with the upgrade before it; `open`
\* says what its hello waits for (its turn to call open, the load, its turn to
\* go on with `room`), after `tries` calls.
Gone == [at |-> "closed", tcp |-> "down", user |-> "none",
         room |-> NoRoom, open |-> "no", tries |-> 0]

\* `task` is what the queue of the room runs, up to the batch `mark`.
UnusedRoom == [status |-> "unused", peers |-> {}, member |-> [u \in Users |-> NoConn],
               closing |-> FALSE, seq |-> 0, journaled |-> 0, saved |-> 0,
               task |-> "none", mark |-> 0, purge |-> "no", why |-> "none"]

Event == spent.events < MaxEvents /\ spent' = [spent EXCEPT !.events = @ + 1]

Init ==
  /\ row = "there" /\ members = Users
  /\ data = {}
  /\ host = [stop |-> "no", room |-> NoRoom, load |-> "none"]
  /\ room = [r \in Rooms |-> UnusedRoom]
  /\ conn = [c \in Conns |-> Gone]
  /\ refusals = {}
  /\ slots = [u \in Users |-> 0]
  /\ spent = [openings |-> 0, events |-> 0]

-----------------------------------------------------------------------------
(* Closing *)

\* Nothing is left of a connection whose socket is closed and whose hello is
\* over.
Rest(k) == IF k.at = "closed" /\ k.tcp = "down" /\ k.open = "no" THEN Gone ELSE k

\* close of a connection, from any phase; its hello may still wait.
Closed(k) == Rest([k EXCEPT !.at = "closed",
                            !.room = IF k.open = "got" THEN @ ELSE NoRoom])
\* ...by hello, that ends.
Failed(k) == Closed([k EXCEPT !.open = "no"])

ClosedConns(cs) == [c \in Conns |-> IF c \in cs THEN Closed(conn[c]) ELSE conn[c]]

\* detach, and Room.leave, only of the current connection of a client.
Detached(rr, cs) ==
  [rr EXCEPT !.peers = @ \ cs,
             !.member = [u \in Users |-> IF @[u] \in cs THEN NoConn ELSE @[u]]]

CloseConns(cs) ==
  /\ conn' = ClosedConns(cs)
  /\ room' = [r \in Rooms |-> Detached(room[r], cs)]

\* HostedRoom.close, once; the host forgets the room.
CloseRoom(r, rr, why) ==
  /\ room' = [room EXCEPT ![r] =
       IF rr.status = "closed" THEN rr
       ELSE [Detached(rr, rr.peers) EXCEPT !.status = "closed", !.why = why]]
  /\ conn' = ClosedConns(rr.peers)
  /\ host' = [host EXCEPT !.room = IF @ = r THEN NoRoom ELSE @]

\* projectDeleted: a purge waits for the write under way.
ProjectDeleted(r, rr) ==
  CloseRoom(r, IF rr.status = "closed" THEN rr ELSE [rr EXCEPT !.purge = "queued"], "deleted")

-----------------------------------------------------------------------------
(* The upgrade of a connection *)

Rights(u) == IF row = "gone" THEN "not-found"
             ELSE IF u \in members THEN "ok" ELSE "forbidden"

FreeConn(c) == conn[c] = Gone /\ \A k \in refusals : k.conn # c

\* A client asks for a connection.
Upgrade(c, u) ==
  /\ spent.openings < MaxOpenings /\ spent' = [spent EXCEPT !.openings = @ + 1]
  /\ FreeConn(c) /\ \A d \in Conns : d < c => ~FreeConn(d)
  /\ host.stop = "no"
  /\ conn' = [conn EXCEPT ![c] = [Gone EXCEPT !.at = "auth", !.tcp = "up", !.user = u]]
  /\ UNCHANGED <<row, members, data, host, room, refusals, slots>>

\* Its token and its rights are read, without cache; Appwrite may not answer.
ReadRights(c) ==
  LET u == conn[c].user
  IN  /\ conn[c].at = "auth"
      /\ \/ /\ Rights(u) = "ok"
            /\ conn' = [conn EXCEPT ![c].at = "granted"]
            /\ UNCHANGED spent
         \/ /\ IF Rights(u) = "ok" THEN Event ELSE UNCHANGED spent
            /\ conn' = [conn EXCEPT ![c] = Gone]
      /\ UNCHANGED <<row, members, data, host, room, refusals, slots>>

\* open, for whoever waits: one load at a time, none while a room is open.
Loading == IF host.stop = "no" /\ host.load = "none" /\ host.room = NoRoom
           THEN "reading" ELSE host.load

\* (slip: the socket is not looked at again after the wait)
AcceptUnseen(c) ==
  LET u == conn[c].user
  IN  /\ conn[c].at = "granted"
      /\ host' = [host EXCEPT !.load = Loading]
      /\ slots' = [slots EXCEPT ![u] = @ + 1]
      /\ conn' = [conn EXCEPT ![c].at = IF host.stop = "no" THEN "hello" ELSE "closed"]
      /\ UNCHANGED <<row, members, data, room, refusals, spent>>

\* The connection is accepted on what was read, with a slot of its user, while
\* its room begins to load; its socket may be gone by then.
Accept(c) ==
  LET k == conn[c]
  IN  /\ k.at = "granted"
      /\ host' = IF k.tcp = "down" THEN host ELSE [host EXCEPT !.load = Loading]
      /\ IF k.tcp # "down" /\ slots[k.user] < PerUser
         THEN /\ slots' = [slots EXCEPT ![k.user] = @ + 1]
              /\ conn' = [conn EXCEPT ![c].at = IF host.stop = "no" THEN "hello" ELSE "closed"]
         ELSE conn' = [conn EXCEPT ![c] = Gone] /\ UNCHANGED slots
      /\ UNCHANGED <<row, members, data, room, refusals, spent>>

-----------------------------------------------------------------------------
(* hello: the room is opened, across awaits *)

Hello(c) ==
  /\ conn[c].at = "hello" /\ conn[c].tcp = "up"
  /\ conn' = [conn EXCEPT ![c].at = "joining", ![c].open = "ask"]
  /\ UNCHANGED <<row, members, data, host, room, refusals, slots, spent>>

HelloLate(c) ==
  /\ conn[c].at = "hello"
  /\ conn' = ClosedConns({c})
  /\ UNCHANGED <<row, members, data, host, room, refusals, slots, spent>>

\* open: the room that is open, or the load to wait for.
Open(c) ==
  /\ conn[c].open = "ask"
  /\ host' = [host EXCEPT !.load = Loading]
  /\ conn' = IF host.stop # "no"
             THEN [conn EXCEPT ![c] = Failed(@)]
             ELSE [conn EXCEPT ![c].open = IF host.room # NoRoom THEN "got" ELSE "wait",
                               ![c].room = host.room, ![c].tries = @ + 1]
  /\ UNCHANGED <<row, members, data, room, refusals, slots, spent>>

Waiting == {c \in Conns : conn[c].open = "wait"}

\* The load gives its room to those who wait, or fails them.
Resolved(r) == [c \in Conns |-> IF c \in Waiting THEN [conn[c] EXCEPT !.open = "got", !.room = r]
                            ELSE conn[c]]
Unresolved == [c \in Conns |-> IF c \in Waiting THEN Failed(conn[c])
                               ELSE conn[c]]

\* Nothing is left of an instance, whose name stands for another.
Free(r) ==
  \/ room[r].status = "unused"
  \/ /\ room[r].status = "closed" /\ room[r].task = "none" /\ room[r].purge # "queued"
     /\ \A c \in Conns : conn[c].room # r
     /\ \A k \in refusals : k.room # r

\* loadRoom: no project; a room with its checkpoint; or a room that writes one
\* first.
LoadEnds ==
  /\ host.load = "reading"
  /\ \/ /\ row = "gone"
        /\ host' = [host EXCEPT !.load = "none"]
        /\ conn' = Unresolved
        /\ UNCHANGED room
     \/ /\ row # "gone"
        /\ \E r \in Rooms :
             /\ Free(r) /\ \A s \in Rooms : s < r => ~Free(s)
             /\ IF "checkpoint" \in data
                THEN /\ room' = [room EXCEPT ![r] = [UnusedRoom EXCEPT
                                   !.status = "open",
                                   !.saved = IF "journal" \in data THEN -1 ELSE 0]]
                     /\ host' = [host EXCEPT !.load = "none", !.room = r]
                     /\ conn' = Resolved(r)
                ELSE /\ room' = [room EXCEPT ![r] = [UnusedRoom EXCEPT !.status = "first", !.saved = -1]]
                     /\ host' = [host EXCEPT !.load = "first"]
                     /\ UNCHANGED conn
  /\ UNCHANGED <<row, members, data, refusals, slots, spent>>

LoadFails ==
  /\ Event
  /\ host.load = "reading"
  /\ host' = [host EXCEPT !.load = "none"]
  /\ conn' = Unresolved
  /\ UNCHANGED <<row, members, data, room, refusals, slots>>

\* initialCheckpoint, then the room is set; else the load is aborted.
FirstEnds(r) ==
  /\ room[r].status = "first"
  /\ \/ /\ row # "gone"
        /\ data' = data \union {"checkpoint"}
        /\ room' = [room EXCEPT ![r].status = "open", ![r].saved = 0]
        /\ host' = [host EXCEPT !.load = "none", !.room = r]
        /\ conn' = Resolved(r)
        /\ UNCHANGED spent
     \/ /\ IF row = "gone" THEN UNCHANGED spent ELSE Event
        /\ room' = [room EXCEPT ![r].status = "closed", ![r].why = "load",
                                ![r].purge = IF row = "gone" THEN "queued" ELSE "no"]
        /\ host' = [host EXCEPT !.load = "none"]
        /\ conn' = Unresolved
        /\ UNCHANGED data
  /\ UNCHANGED <<row, members, refusals, slots>>

\* attach: the other connections of the client are closed first.
Attach(c, r) ==
  LET u == conn[c].user
      others == {d \in room[r].peers : conn[d].user = u}
  IN  /\ room' = [room EXCEPT ![r] =
                    [Detached(room[r], others) EXCEPT !.peers = @ \union {c},
                                                      !.member = [@ EXCEPT ![u] = c]]]
      /\ conn' = [ClosedConns(others) EXCEPT
                    ![c] = [@ EXCEPT !.at = "joined", !.room = r, !.open = "no"]]

\* (slip: a connection that closed while it waited is attached)
ContinueClosed(c) ==
  LET r == conn[c].room
  IN  /\ conn[c].open = "got"
      /\ IF room[r].status = "closed" THEN conn' = [conn EXCEPT ![c] = Failed(@)] /\ UNCHANGED room
         ELSE Attach(c, r)
      /\ UNCHANGED <<row, members, data, host, refusals, slots, spent>>

\* hello goes on with the room it got: asked for again once if it closed
\* meanwhile; left alone if the connection did.
Continue(c) ==
  LET r == conn[c].room
  IN  /\ conn[c].open = "got"
      /\ \/ /\ room[r].status = "closed"
            /\ conn' = IF conn[c].tries < 2 THEN [conn EXCEPT ![c].open = "ask", ![c].room = NoRoom]
                       ELSE [conn EXCEPT ![c] = Failed(@)]
            /\ UNCHANGED room
         \/ /\ room[r].status # "closed" /\ conn[c].at # "joining"
            /\ conn' = [conn EXCEPT ![c] = Failed(@)]
            /\ UNCHANGED room
         \/ /\ room[r].status # "closed" /\ conn[c].at = "joining"
            /\ Attach(c, r)
      /\ UNCHANGED <<row, members, data, host, refusals, slots, spent>>

-----------------------------------------------------------------------------
(* In the room *)

Edit(c) ==
  LET r == conn[c].room
  IN  /\ Event
      /\ conn[c].at = "joined" /\ conn[c].tcp = "up"
      /\ ~room[r].closing
      /\ room' = [room EXCEPT ![r].seq = @ + 1]
      /\ UNCHANGED <<row, members, data, host, conn, refusals, slots>>

\* (slip: only the project is looked at again)
VerifyProject(c) ==
  /\ conn[c].at = "joined" /\ row = "gone"
  /\ refusals' = refusals \union {[conn |-> c, room |-> conn[c].room, got |-> "not-found"]}
  /\ refusals' # refusals
  /\ UNCHANGED <<row, members, data, host, room, conn, slots, spent>>

\* verify, by its timer or on the signal of the sharing API, reads the rights,
\* or finds them in caches of 10 s: one that is refused will close something.
Verify(c) ==
  /\ conn[c].at = "joined" /\ Rights(conn[c].user) # "ok"
  /\ refusals' = refusals \union {[conn |-> c, room |-> conn[c].room, got |-> Rights(conn[c].user)]}
  /\ refusals' # refusals
  /\ UNCHANGED <<row, members, data, host, room, conn, slots, spent>>

\* The connection, or the whole room of a project that is gone, even when the
\* connection has closed.
Refuse(k) ==
  /\ k \in refusals /\ refusals' = refusals \ {k}
  /\ IF k.got = "forbidden" THEN CloseConns({k.conn}) /\ UNCHANGED host
     ELSE ProjectDeleted(k.room, room[k.room])
  /\ UNCHANGED <<row, members, data, slots, spent>>

-----------------------------------------------------------------------------
(* Sockets *)

\* The socket is closed: its connection closes, its slot is given back.  An
\* upgrade under way finds it destroyed.
Down(c) ==
  LET k == conn[c]
  IN  /\ room' = [r \in Rooms |-> Detached(room[r], {c})]
      /\ conn' = [conn EXCEPT ![c] = IF k.at \in {"auth", "granted"} THEN [k EXCEPT !.tcp = "down"]
                                     ELSE Closed([k EXCEPT !.tcp = "down"])]
      /\ slots' = IF k.at \in {"auth", "granted"} THEN slots ELSE [slots EXCEPT ![k.user] = @ - 1]
      /\ UNCHANGED <<row, members, data, host, refusals>>

ClientLeaves(c) == Event /\ conn[c].tcp = "up" /\ Down(c)

\* The network is cut and nobody is told.
Cut(c) ==
  /\ Event
  /\ conn[c].tcp = "up"
  /\ conn' = [conn EXCEPT ![c].tcp = "cut"]
  /\ UNCHANGED <<row, members, data, host, room, refusals, slots>>

\* The closing handshake ends; the heartbeat terminates a cut connection; the
\* server that stopped closes every socket.
SocketEnds(c) ==
  /\ conn[c].at \notin {"auth", "granted"} /\ conn[c].tcp # "down"
  /\ conn[c].at = "closed" \/ conn[c].tcp = "cut" \/ host.stop = "stopped"
  /\ Down(c) /\ UNCHANGED spent

\* Too many messages, a slow reader, a message that cannot be read.
ServerCloses(c) ==
  /\ Event
  /\ conn[c].at \in {"hello", "joining", "joined"}
  /\ CloseConns({c})
  /\ UNCHANGED <<row, members, data, host, refusals, slots>>

-----------------------------------------------------------------------------
(* The queue of a room *)

Task(r, task) ==
  /\ room' = [room EXCEPT ![r].task = task, ![r].mark = room[r].seq]
  /\ UNCHANGED <<row, members, data, host, conn, refusals, slots, spent>>

Idle(r) == room[r].status = "open" /\ room[r].task = "none"

Flush(r) == Idle(r) /\ room[r].journaled < room[r].seq /\ Task(r, "journal")

\* maintain: a checkpoint is due, or nobody is left in the room.
Maintain(r) ==
  /\ Idle(r) /\ ~room[r].closing
  /\ room[r].peers = {} \/ room[r].saved < room[r].seq
  /\ Task(r, IF room[r].peers = {} THEN "unload" ELSE "checkpoint")

\* shutdown of a room: its journal, then its end.
ShutDown(r) == Idle(r) /\ room[r].closing /\ Task(r, "stop")

Done(rr) == [rr EXCEPT !.task = "none", !.mark = 0]

\* A journal write lands, whatever became of the room.
JournalLands(r) ==
  LET rr == [room[r] EXCEPT !.journaled = room[r].mark]
  IN  /\ room[r].task # "none" /\ room[r].journaled < room[r].mark
      /\ data' = data \union {"journal"}
      /\ room' = [room EXCEPT ![r] = IF rr.task = "journal" THEN Done(rr) ELSE rr]
      /\ UNCHANGED <<row, members, host, conn, refusals, slots, spent>>

\* ...or it failed, or another server wrote it: the room is closed.
JournalFails(r) ==
  /\ Event
  /\ room[r].task # "none" /\ room[r].journaled < room[r].mark
  /\ \/ CloseRoom(r, Done(room[r]), "moved")
     \/ /\ room' = [room EXCEPT ![r] = IF room[r].task = "stop"
                                       THEN [@ EXCEPT !.mark = room[r].journaled] ELSE Done(@)]
        /\ UNCHANGED <<conn, host>>
  /\ UNCHANGED <<row, members, data, refusals, slots>>

StopEnds(r) ==
  /\ room[r].task = "stop" /\ room[r].mark <= room[r].journaled
  /\ CloseRoom(r, Done(room[r]), "stop")
  /\ UNCHANGED <<row, members, data, refusals, slots, spent>>

\* (slip: only looks whether somebody came back)
UnloadedEmpty(r, rr) ==
  IF rr.peers = {} THEN CloseRoom(r, rr, "idle")
  ELSE room' = [room EXCEPT ![r] = rr] /\ UNCHANGED <<conn, host>>

\* The checkpoint is of the room as it was when it began.
Saved(rr) == [Done(rr) EXCEPT !.saved = rr.mark]

\* unloadIfIdle: nobody, and nothing left to write.
Unloaded(r, rr) ==
  IF rr.peers = {} /\ rr.journaled = rr.seq
  THEN CloseRoom(r, rr, "idle")
  ELSE room' = [room EXCEPT ![r] = rr] /\ UNCHANGED <<conn, host>>

\* The end of a checkpoint: of a closed room, which may have been writing it;
\* of a project that is gone; written; or failed.
CheckpointEnds(r) ==
  LET old == room[r]
      due == old.saved < old.mark
      After(rr) == IF old.task = "unload" THEN Unloaded(r, rr)
                   ELSE room' = [room EXCEPT ![r] = rr] /\ UNCHANGED <<conn, host>>
  IN  /\ old.task \in {"checkpoint", "unload"} /\ old.mark <= old.journaled
      /\ \/ /\ old.status = "closed"
            /\ room' = [room EXCEPT ![r] = Done(@)]
            /\ data' \in {data} \union (IF due /\ row # "gone" THEN {data \union {"checkpoint"}} ELSE {})
            /\ UNCHANGED <<conn, host, spent>>
         \/ /\ old.status # "closed" /\ due /\ row = "gone"
            /\ ProjectDeleted(r, Done(old))
            /\ UNCHANGED <<data, spent>>
         \/ /\ old.status # "closed" /\ (due => row # "gone")
            /\ After(IF due THEN Saved(old) ELSE Done(old))
            /\ data' = IF due THEN data \union {"checkpoint"} ELSE data
            /\ UNCHANGED spent
         \/ /\ Event
            /\ old.status # "closed" /\ due
            /\ After(Done(old))
            /\ UNCHANGED data
      /\ UNCHANGED <<row, members, refusals, slots>>

\* (slip: the purge does not wait for its turn)
PurgeAtOnce(r) ==
  /\ room[r].purge = "queued"
  /\ data' = {} /\ room' = [room EXCEPT ![r].purge = "done"]
  /\ UNCHANGED <<row, members, host, conn, refusals, slots, spent>>

\* purgeRoom, in its turn; incomplete when it fails.
Purge(r) ==
  /\ room[r].purge = "queued" /\ room[r].task = "none"
  /\ \/ data' = {} /\ UNCHANGED spent
     \/ Event /\ UNCHANGED data
  /\ room' = [room EXCEPT ![r].purge = IF data' = {} THEN "done" ELSE "failed"]
  /\ UNCHANGED <<row, members, host, conn, refusals, slots>>

\* An exception in the room.
RoomFails(r) ==
  /\ Event
  /\ room[r].status = "open"
  /\ CloseRoom(r, room[r], "internal")
  /\ UNCHANGED <<row, members, data, refusals, slots>>

-----------------------------------------------------------------------------
(* The stop of the server, and the sharing API *)

Stop ==
  /\ Event
  /\ host.stop = "no"
  /\ host' = [host EXCEPT !.stop = "closing"]
  /\ room' = [r \in Rooms |-> IF r = host.room THEN [room[r] EXCEPT !.closing = TRUE] ELSE room[r]]
  /\ UNCHANGED <<row, members, data, conn, refusals, slots>>

\* The rooms it had are closed: then its sockets.
Stopped ==
  /\ host.stop = "closing"
  /\ \A r \in Rooms : room[r].closing => room[r].status = "closed"
  /\ host' = [host EXCEPT !.stop = "stopped"]
  /\ UNCHANGED <<row, members, data, room, conn, refusals, slots, spent>>

\* removeLocked: an editor is removed.
Remove(u) ==
  /\ Event
  /\ row = "there" /\ u \in members
  /\ members' = members \ {u}
  /\ UNCHANGED <<row, data, host, room, conn, refusals, slots>>

\* deleteLocked: purgeCollabData first, the row at the end.
DeleteData ==
  /\ Event
  /\ row = "there"
  /\ row' = "leaving" /\ data' = {}
  /\ UNCHANGED <<members, host, room, conn, refusals, slots>>

DeleteRow ==
  /\ row = "leaving"
  /\ row' = "gone"
  /\ UNCHANGED <<members, data, host, room, conn, refusals, slots, spent>>

-----------------------------------------------------------------------------
Connection(c) ==
  \/ \E u \in Users : Upgrade(c, u)
  \/ ReadRights(c) \/ Accept(c) \/ Hello(c) \/ HelloLate(c) \/ Open(c) \/ Continue(c)
  \/ Edit(c) \/ Verify(c)
  \/ ClientLeaves(c) \/ Cut(c) \/ SocketEnds(c) \/ ServerCloses(c)

Hosted(r) ==
  \/ FirstEnds(r) \/ Flush(r) \/ Maintain(r) \/ ShutDown(r)
  \/ JournalLands(r) \/ JournalFails(r) \/ StopEnds(r) \/ CheckpointEnds(r)
  \/ Purge(r) \/ RoomFails(r)

Next ==
  \/ \E c \in Conns : Connection(c)
  \/ \E r \in Rooms : Hosted(r)
  \/ \E k \in refusals : Refuse(k)
  \/ LoadEnds \/ LoadFails
  \/ Stop \/ Stopped \/ (\E u \in Users : Remove(u)) \/ DeleteData \/ DeleteRow

Spec == Init /\ [][Next]_vars

\* Timers fire, calls end, queues run, handshakes and heartbeats end; nothing
\* is asked of the clients.
FairSpec ==
  /\ Spec
  /\ \A c \in Conns :
       /\ WF_vars(ReadRights(c) \/ Accept(c)) /\ WF_vars(HelloLate(c))
       /\ WF_vars(Open(c)) /\ WF_vars(Continue(c)) /\ WF_vars(Verify(c))
       /\ WF_vars(\E k \in refusals : k.conn = c /\ Refuse(k))
       /\ WF_vars(SocketEnds(c))
  /\ \A r \in Rooms :
       WF_vars(FirstEnds(r) \/ ShutDown(r) \/ JournalLands(r) \/ StopEnds(r)
               \/ CheckpointEnds(r) \/ Purge(r))
  /\ WF_vars(LoadEnds) /\ WF_vars(Stopped)

-----------------------------------------------------------------------------
\* The variables have the shape the code gives them.
TypeOK ==
  /\ row \in {"there", "leaving", "gone"} /\ members \subseteq Users
  /\ data \subseteq {"checkpoint", "journal"}
  /\ host \in [stop : {"no", "closing", "stopped"}, room : Rooms \union {NoRoom},
               load : {"none", "reading", "first"}]
  /\ \A r \in Rooms :
       /\ room[r].status \in {"unused", "first", "open", "closed"}
       /\ room[r].peers \subseteq Conns
       /\ -1 <= room[r].saved /\ room[r].saved <= room[r].journaled
       /\ room[r].journaled <= room[r].seq /\ room[r].mark <= room[r].seq
       /\ room[r].closing => room[r].status \in {"open", "closed"}
  /\ \A c \in Conns :
       /\ conn[c].at \in {"auth", "granted", "hello", "joining", "joined", "closed"}
       /\ conn[c].tcp \in {"up", "cut", "down"} /\ conn[c].user \in Users \union {"none"}
       /\ conn[c].tries \in 0..2
       /\ conn[c].at = "joined" => conn[c].room \in Rooms
  /\ refusals \subseteq [conn : Conns, room : Rooms, got : {"forbidden", "not-found"}]

\* At most one instance of the room takes edits, and the host finds it: two
\* of them would give the same numbers to different batches.
OneRoom ==
  \A r \in Rooms : /\ room[r].status = "open" <=> host.room = r
                   /\ room[r].status = "first" => host.load = "first" /\ host.room = NoRoom

\* The peers of a room are the connections that joined it, one per client and
\* the current one of the client, whose sockets are not closed; nobody is in a
\* room that closed.
PeersAreJoined ==
  \A r \in Rooms :
    /\ room[r].peers = {c \in Conns : conn[c].at = "joined" /\ conn[c].room = r}
    /\ \A u \in Users : {c \in room[r].peers : conn[c].user = u}
                        = (IF room[r].member[u] = NoConn THEN {} ELSE {room[r].member[u]})
    /\ \A c \in room[r].peers : conn[c].tcp # "down"
    /\ room[r].status # "open" => room[r].peers = {}

\* A user has as many slots taken as sockets open: a slot that is never given
\* back ends by refusing the user.
SlotsMatchSockets ==
  \A u \in Users :
    slots[u] = Cardinality({c \in Conns : conn[c].user = u /\ conn[c].at \notin {"auth", "granted"}
                                           /\ conn[c].tcp # "down"})

\* A room unloaded because nobody was left had written all it accepted, even
\* what came while its checkpoint was being written.
IdleLosesNothing ==
  \A r \in Rooms : room[r].why = "idle" => room[r].journaled = room[r].seq

\* A room purges its deleted project after everything it was writing, and
\* writes nothing after.
PurgeIsLast == \A r \in Rooms : room[r].purge = "done" => room[r].task = "none"

\* Nobody stays where it should not: entering without an answer, connected
\* without a client behind, in a room without the rights to it (even when it
\* entered with rights read before they were lost), or connected to a server
\* that stops.
Lingers(c) ==
  \/ conn[c].at \in {"auth", "granted", "hello", "joining"}
  \/ conn[c].tcp = "cut"
  \/ conn[c].at = "joined" /\ Rights(conn[c].user) # "ok"
  \/ conn[c].tcp # "down" /\ host.stop # "no"
NobodyLingers == \A c \in Conns : []<>~Lingers(c)

\* Types, one room for the project, and its peers are its joined connections.
RoomsAgree == TypeOK /\ OneRoom /\ PeersAreJoined
=============================================================================
