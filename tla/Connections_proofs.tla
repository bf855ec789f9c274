------------------------- MODULE Connections_proofs -------------------------
(***************************************************************************)
(* Proofs about Connections, for any users, connections, instances of the  *)
(* room, and any number of events.                                          *)
(*                                                                          *)
(* A connection goes on after an await with the instance of the room it was *)
(* given: what keeps the rooms right is that such an instance is open, or   *)
(* closed for good, and that one load at a time makes the next one.  The    *)
(* slots of a user count his sockets since nothing but an acceptance and    *)
(* the end of a socket changes either.                                      *)
(***************************************************************************)
EXTENDS Connections, FiniteSetTheorems, TLAPS

RoomType ==
  [status : {"unused", "first", "open", "closed"}, peers : SUBSET Conns,
   member : [Users -> Conns \cup {NoConn}], closing : BOOLEAN,
   seq : Nat, journaled : Nat, saved : Int,
   task : {"none", "journal", "checkpoint", "unload", "stop"}, mark : Nat,
   purge : {"no", "queued", "done", "failed"},
   why : {"none", "deleted", "moved", "stop", "idle", "load", "internal"}]

ConnType ==
  [at : {"auth", "granted", "hello", "joining", "joined", "closed"},
   tcp : {"up", "cut", "down"}, user : Users \cup {"none"},
   room : Rooms \cup {NoRoom}, open : {"no", "ask", "wait", "got"}, tries : 0..2]

HostType == [stop : {"no", "closing", "stopped"}, room : Rooms \cup {NoRoom},
             load : {"none", "reading", "first"}]

\* What an instance of the room is, without its peers.
Numbered(rr) ==
  -1 <= rr.saved /\ rr.saved <= rr.journaled /\ rr.journaled <= rr.seq /\ rr.mark <= rr.seq
RoomSound(rr) ==
  /\ Numbered(rr)
  /\ rr.closing \/ rr.task # "none" => rr.status \in {"open", "closed"}
  /\ rr.purge # "no" => rr.status = "closed"
  /\ rr.purge = "done" => rr.task = "none"
  /\ rr.why = "idle" => rr.status = "closed" /\ rr.task = "none" /\ rr.journaled = rr.seq

\* What a connection is, on its own.
ConnSound(k) ==
  /\ k.at # "closed" => k.user \in Users
  /\ k.at \in {"hello", "joining", "joined"} => k.tcp # "down"
  /\ k.at \in {"auth", "granted", "hello"} => k.tries = 0
  /\ k.open # "no" => k.at \in {"joining", "closed"}
  /\ k.open = "ask" => k.tries <= 1
  /\ k.at = "joined" \/ k.open = "got" => k.room \in Rooms

\* An instance somebody was given.
Given(r) == room[r].status \in {"open", "closed"}

IInv ==
  /\ row \in {"there", "leaving", "gone"} /\ members \subseteq Users
  /\ data \subseteq {"checkpoint", "journal"}
  /\ host \in HostType /\ room \in [Rooms -> RoomType] /\ conn \in [Conns -> ConnType]
  /\ refusals \subseteq [conn : Conns, room : Rooms, got : {"forbidden", "not-found"}]
  /\ \A r \in Rooms : RoomSound(room[r])
  /\ \A c \in Conns : ConnSound(conn[c])
  /\ OneRoom /\ PeersAreJoined
  /\ host.load # "none" => host.room = NoRoom
  /\ \A r, s \in Rooms : room[r].status = "first" /\ room[s].status = "first" => r = s
  /\ \A k \in refusals : Given(k.room)
  /\ \A c \in Conns : conn[c].open = "got" => Given(conn[c].room)
-----------------------------------------------------------------------------
(* What closing leaves                                                     *)

LEMMA NotConn == NoConn \notin Conns /\ NoRoom \notin Rooms
BY ConnectionsAssumption DEF NoConn, NoRoom

LEMMA GoneIs == Gone \in ConnType /\ ConnSound(Gone)
BY DEF Gone, ConnType, ConnSound

LEMMA ClosedIs ==
  ASSUME NEW k \in ConnType, ConnSound(k)
  PROVE  /\ Closed(k) \in ConnType /\ ConnSound(Closed(k)) /\ Closed(k).at = "closed"
         /\ Closed(k).open = "got" => k.open = "got" /\ Closed(k).room = k.room
<1> DEFINE x == [k EXCEPT !.at = "closed", !.room = IF k.open = "got" THEN @ ELSE NoRoom]
<1>1. /\ x \in ConnType /\ x.at = "closed" /\ x.open = k.open /\ x.tries = k.tries
      /\ k.open = "got" => x.room = k.room
  BY DEF ConnType
<1>2. ConnSound(x) BY <1>1 DEF ConnSound
<1>3. Closed(k) = Rest(x) BY DEF Closed
<1>4. Rest(x) \in {x, Gone} BY DEF Rest
<1>5. Gone.at = "closed" /\ Gone.open = "no" BY DEF Gone
<1>6. QED BY <1>1, <1>2, <1>3, <1>4, <1>5, GoneIs

LEMMA FailedIs ==
  ASSUME NEW k \in ConnType, ConnSound(k)
  PROVE  /\ Failed(k) \in ConnType /\ ConnSound(Failed(k)) /\ Failed(k).at = "closed"
         /\ Failed(k).open # "got"
<1> DEFINE x == [k EXCEPT !.open = "no"]
<1>1. x \in ConnType /\ ConnSound(x) /\ x.open = "no"
  BY DEF ConnType, ConnSound
<1>2. QED BY <1>1, ClosedIs DEF Failed

LEMMA ClosedConnsIs ==
  ASSUME IInv, NEW cs
  PROVE  /\ ClosedConns(cs) \in [Conns -> ConnType]
         /\ \A c \in Conns : ConnSound(ClosedConns(cs)[c])
         /\ \A c \in cs \cap Conns : ClosedConns(cs)[c].at = "closed"
         /\ \A c \in Conns \ cs : ClosedConns(cs)[c] = conn[c]
         /\ \A c \in Conns : ClosedConns(cs)[c].open = "got" => Given(ClosedConns(cs)[c].room)
<1>1. ASSUME NEW c \in Conns
      PROVE  /\ ClosedConns(cs)[c] \in ConnType /\ ConnSound(ClosedConns(cs)[c])
             /\ c \in cs => ClosedConns(cs)[c].at = "closed"
             /\ c \notin cs => ClosedConns(cs)[c] = conn[c]
             /\ ClosedConns(cs)[c].open = "got" => Given(ClosedConns(cs)[c].room)
  <2>1. conn[c] \in ConnType /\ ConnSound(conn[c]) /\ (conn[c].open = "got" => Given(conn[c].room))
    BY DEF IInv
  <2>2. ClosedConns(cs)[c] = IF c \in cs THEN Closed(conn[c]) ELSE conn[c]
    BY DEF ClosedConns
  <2>3. CASE c \in cs BY <2>1, <2>2, <2>3, ClosedIs
  <2>4. CASE c \notin cs BY <2>1, <2>2, <2>4
  <2>5. QED BY <2>3, <2>4
<1>2. ClosedConns(cs) \in [Conns -> ConnType]
  BY <1>1 DEF ClosedConns
<1>3. QED BY <1>1, <1>2

-----------------------------------------------------------------------------
(* Steps that leave the peers of every room                                *)

SameShared ==
  /\ row' \in {"there", "leaving", "gone"} /\ members' \subseteq Users
  /\ data' \subseteq {"checkpoint", "journal"}

\* A step of connections outside the rooms, or of the load.
LEMMA OutsideStep ==
  ASSUME IInv, SameShared, room' = room,
         refusals' \subseteq [conn : Conns, room : Rooms, got : {"forbidden", "not-found"}],
         \A k \in refusals' : Given(k.room),
         host' \in HostType, host'.room = host.room,
         host'.load # "none" => host.room = NoRoom,
         host.load = "first" => host'.load = "first",
         conn' \in [Conns -> ConnType],
         \A c \in Conns : ConnSound(conn'[c]),
         \A c \in Conns : (conn'[c].at = "joined") = (conn[c].at = "joined"),
         \A c \in Conns : conn[c].at = "joined" => conn'[c].room = conn[c].room,
         \A c \in Conns : conn[c].at = "joined" => conn'[c].user = conn[c].user,
         \A c \in Conns : conn'[c].open = "got" => Given(conn'[c].room)
  PROVE  IInv'
<1>1. OneRoom'
  BY DEF IInv, OneRoom
<1>2. PeersAreJoined'
  <2>1. ASSUME NEW r \in Rooms
        PROVE  room[r].peers = {c \in Conns : conn'[c].at = "joined" /\ conn'[c].room = r}
    <3>1. room[r].peers = {c \in Conns : conn[c].at = "joined" /\ conn[c].room = r}
      BY DEF IInv, PeersAreJoined
    <3>2. QED BY <3>1
  <2>2. ASSUME NEW r \in Rooms, NEW u \in Users
        PROVE  {c \in room[r].peers : conn'[c].user = u}
                 = (IF room[r].member[u] = NoConn THEN {} ELSE {room[r].member[u]})
    <3>1. {c \in room[r].peers : conn[c].user = u}
             = (IF room[r].member[u] = NoConn THEN {} ELSE {room[r].member[u]})
      BY DEF IInv, PeersAreJoined
    <3>2. \A c \in room[r].peers : conn'[c].user = conn[c].user
      BY <2>1
    <3>3. {c \in room[r].peers : conn'[c].user = u} = {c \in room[r].peers : conn[c].user = u}
      BY <3>2
    <3>4. QED BY <3>1, <3>3
  <2>3. ASSUME NEW r \in Rooms, NEW c \in room[r].peers PROVE conn'[c].tcp # "down"
    BY <2>1 DEF ConnSound
  <2>4. \A r \in Rooms : room[r].status # "open" => room[r].peers = {}
    BY DEF IInv, PeersAreJoined
  <2>5. QED BY <2>1, <2>2, <2>3, <2>4 DEF PeersAreJoined
<1>3. \A c \in Conns : conn'[c].open = "got" => room'[conn'[c].room].status \in {"open", "closed"}
  BY DEF Given
<1>4. \A k \in refusals' : Given(k.room)'
  BY DEF Given
<1>5. QED BY <1>1, <1>2, <1>3, <1>4 DEF IInv, SameShared, Given

\* A step of the queue of a room, or of its counters.
LEMMA InsideStep ==
  ASSUME IInv, SameShared, conn' = conn, refusals' \subseteq refusals,
         host' \in HostType, host'.room = host.room, host'.load = host.load,
         NEW r \in Rooms, NEW rr \in RoomType, RoomSound(rr),
         rr.status = room[r].status, rr.peers = room[r].peers, rr.member = room[r].member,
         room' = [room EXCEPT ![r] = rr]
  PROVE  IInv'
<1>1. room' \in [Rooms -> RoomType]
  BY DEF IInv
<1>2. \A s \in Rooms : /\ room'[s].status = room[s].status /\ room'[s].peers = room[s].peers
                      /\ room'[s].member = room[s].member /\ RoomSound(room'[s])
  BY DEF IInv
<1>3. OneRoom'
  BY <1>2 DEF IInv, OneRoom
<1>4. PeersAreJoined'
  BY <1>2 DEF IInv, PeersAreJoined
<1>5. \A s \in Rooms : Given(s)' <=> Given(s)
  BY <1>2 DEF Given
<1>6. \A k \in refusals' : Given(k.room)'
  BY <1>5 DEF IInv
<1>7. \A c \in Conns : conn'[c].open = "got" => room'[conn'[c].room].status \in {"open", "closed"}
  BY <1>2 DEF IInv, ConnSound, Given
<1>8. QED BY <1>1, <1>2, <1>3, <1>4, <1>6, <1>7 DEF IInv, SameShared, Given
-----------------------------------------------------------------------------
(* The steps of a connection that is in no room, and of the load           *)

LEMMA OneConn ==
  ASSUME IInv, SameShared, room' = room, refusals' = refusals,
         host' \in HostType, host'.room = host.room,
         host'.load # "none" => host.room = NoRoom,
         host.load = "first" => host'.load = "first",
         NEW c \in Conns, NEW x \in ConnType, ConnSound(x),
         (x.at = "joined") = (conn[c].at = "joined"),
         x.at = "joined" => x.room = conn[c].room /\ x.user = conn[c].user,
         x.open = "got" => Given(x.room),
         conn' = [conn EXCEPT ![c] = x]
  PROVE  IInv'
<1>1. conn' \in [Conns -> ConnType] /\ \A d \in Conns : conn'[d] = IF d = c THEN x ELSE conn[d]
  BY DEF IInv
<1>2. /\ \A d \in Conns : ConnSound(conn'[d])
      /\ \A d \in Conns : (conn'[d].at = "joined") = (conn[d].at = "joined")
      /\ \A d \in Conns : conn[d].at = "joined" => conn'[d].room = conn[d].room
      /\ \A d \in Conns : conn[d].at = "joined" => conn'[d].user = conn[d].user
      /\ \A d \in Conns : conn'[d].open = "got" => Given(conn'[d].room)
  BY <1>1 DEF IInv
<1>3. /\ refusals' \subseteq [conn : Conns, room : Rooms, got : {"forbidden", "not-found"}]
      /\ \A k \in refusals' : Given(k.room)
  BY DEF IInv
<1>4. QED BY <1>1, <1>2, <1>3, OutsideStep

LEMMA LoadingIs ==
  ASSUME IInv, host' = [host EXCEPT !.load = Loading]
  PROVE  /\ host' \in HostType /\ host'.room = host.room
         /\ host'.load # "none" => host.room = NoRoom
         /\ host.load = "first" => host'.load = "first"
BY DEF IInv, HostType, Loading

LEMMA SameHost ==
  ASSUME IInv, host' = host
  PROVE  /\ host' \in HostType /\ host'.room = host.room
         /\ host'.load # "none" => host.room = NoRoom
         /\ host.load = "first" => host'.load = "first"
BY DEF IInv

LEMMA UpgradeStep ==
  ASSUME IInv, NEW c \in Conns, NEW u \in Users, Upgrade(c, u)
  PROVE  IInv'
<1> DEFINE x == [Gone EXCEPT !.at = "auth", !.tcp = "up", !.user = u]
<1>a. Gone.tries = 0 /\ Gone.open = "no" /\ Gone.room = NoRoom
  BY DEF Gone
<1>b. x \in ConnType /\ x.at = "auth" /\ x.tcp = "up" /\ x.user = u /\ x.open = "no" /\ x.tries = 0
  BY <1>a, GoneIs DEF ConnType
<1>1. x \in ConnType /\ ConnSound(x) /\ x.at = "auth" /\ x.open = "no"
  BY <1>b DEF ConnSound
<1>2. conn[c].at = "closed" /\ conn' = [conn EXCEPT ![c] = x]
  BY DEF Upgrade, FreeConn, Gone
<1>3. room' = room /\ refusals' = refusals /\ host' = host /\ SameShared
  BY DEF Upgrade, SameShared, IInv
<1>4. QED BY <1>1, <1>2, <1>3, SameHost, OneConn

LEMMA ReadRightsStep ==
  ASSUME IInv, NEW c \in Conns, ReadRights(c)
  PROVE  IInv'
<1> DEFINE x == [conn[c] EXCEPT !.at = "granted"]
<1>1. conn[c] \in ConnType /\ ConnSound(conn[c]) /\ conn[c].at = "auth"
      /\ (conn[c].open = "got" => Given(conn[c].room))
  BY DEF ReadRights, IInv
<1>2. x \in ConnType /\ ConnSound(x) /\ x.at = "granted" /\ x.open = conn[c].open
      /\ x.room = conn[c].room
  BY <1>1 DEF ConnType, ConnSound
<1>3. conn' = [conn EXCEPT ![c] = x] \/ conn' = [conn EXCEPT ![c] = Gone]
  BY DEF ReadRights
<1>4. room' = room /\ refusals' = refusals /\ host' = host /\ SameShared
  BY DEF ReadRights, SameShared, IInv
<1>5. Gone.at = "closed" /\ Gone.open = "no" BY DEF Gone
<1>6. QED BY <1>1, <1>2, <1>3, <1>4, <1>5, GoneIs, SameHost, OneConn

LEMMA AcceptStep ==
  ASSUME IInv, NEW c \in Conns, Accept(c)
  PROVE  IInv'
<1> DEFINE at == IF host.stop = "no" THEN "hello" ELSE "closed"
           x == [conn[c] EXCEPT !.at = at]
<1>1. conn[c] \in ConnType /\ ConnSound(conn[c]) /\ conn[c].at = "granted"
      /\ (conn[c].open = "got" => Given(conn[c].room))
  BY DEF Accept, IInv
<1>2. x \in ConnType /\ x.at \in {"hello", "closed"} /\ x.open = conn[c].open /\ x.room = conn[c].room
      /\ (conn[c].tcp # "down" => ConnSound(x))
  BY <1>1 DEF ConnType, ConnSound
<1>3. \/ conn[c].tcp # "down" /\ conn' = [conn EXCEPT ![c] = x]
      \/ conn' = [conn EXCEPT ![c] = Gone]
  BY <1>2 DEF Accept, ConnType
<1>4. room' = room /\ refusals' = refusals /\ SameShared
      /\ (host' = host \/ host' = [host EXCEPT !.load = Loading])
  BY DEF Accept, SameShared, IInv
<1>5. Gone.at = "closed" /\ Gone.open = "no" BY DEF Gone
<1>6. /\ host' \in HostType /\ host'.room = host.room
      /\ host'.load # "none" => host.room = NoRoom
      /\ host.load = "first" => host'.load = "first"
  BY <1>4, SameHost, LoadingIs
<1>7. CASE conn[c].tcp # "down" /\ conn' = [conn EXCEPT ![c] = x]
  BY <1>1, <1>2, <1>4, <1>6, <1>7, OneConn
<1>8. CASE conn' = [conn EXCEPT ![c] = Gone]
  BY <1>1, <1>4, <1>5, <1>6, <1>8, GoneIs, OneConn
<1>9. QED BY <1>3, <1>7, <1>8

LEMMA HelloStep ==
  ASSUME IInv, NEW c \in Conns, Hello(c)
  PROVE  IInv'
<1> DEFINE x == [conn[c] EXCEPT !.at = "joining", !.open = "ask"]
<1>1. conn[c] \in ConnType /\ ConnSound(conn[c]) /\ conn[c].at = "hello"
  BY DEF Hello, IInv
<1>2. x \in ConnType /\ x.at = "joining" /\ x.open = "ask" /\ x.tries = conn[c].tries
      /\ x.user = conn[c].user /\ x.tcp = conn[c].tcp
  BY <1>1 DEF ConnType
<1>2b. ConnSound(x)
  BY <1>1, <1>2 DEF ConnSound
<1>3. conn' = [conn EXCEPT ![c] = x]
  BY DEF Hello
<1>4. room' = room /\ refusals' = refusals /\ host' = host /\ SameShared
  BY DEF Hello, SameShared, IInv
<1>5. QED BY <1>1, <1>2, <1>2b, <1>3, <1>4, SameHost, OneConn

LEMMA HelloLateStep ==
  ASSUME IInv, NEW c \in Conns, HelloLate(c)
  PROVE  IInv'
<1> DEFINE x == Closed(conn[c])
<1>1. conn[c] \in ConnType /\ ConnSound(conn[c]) /\ conn[c].at = "hello"
      /\ (conn[c].open = "got" => Given(conn[c].room))
  BY DEF HelloLate, IInv
<1>2. conn' = [conn EXCEPT ![c] = x]
  BY DEF HelloLate, ClosedConns, IInv
<1>3. room' = room /\ refusals' = refusals /\ host' = host /\ SameShared
  BY DEF HelloLate, SameShared, IInv
<1>4. QED BY <1>1, <1>2, <1>3, ClosedIs, SameHost, OneConn

LEMMA OpenStep ==
  ASSUME IInv, NEW c \in Conns, Open(c)
  PROVE  IInv'
<1> DEFINE x == [conn[c] EXCEPT !.open = IF host.room # NoRoom THEN "got" ELSE "wait",
                                !.room = host.room, !.tries = @ + 1]
<1>1. conn[c] \in ConnType /\ ConnSound(conn[c]) /\ conn[c].open = "ask" /\ host \in HostType
  BY DEF Open, IInv
<1>2. room' = room /\ refusals' = refusals /\ host' = [host EXCEPT !.load = Loading] /\ SameShared
  BY DEF Open, SameShared, IInv
<1>3. /\ host' \in HostType /\ host'.room = host.room
      /\ host'.load # "none" => host.room = NoRoom
      /\ host.load = "first" => host'.load = "first"
  BY <1>2, LoadingIs
<1>4. CASE host.stop # "no"
  <2>1. conn' = [conn EXCEPT ![c] = Failed(conn[c])] BY <1>4 DEF Open
  <2>2. conn[c].at # "joined" BY <1>1 DEF ConnSound
  <2>3. QED BY <1>1, <1>2, <1>3, <2>1, <2>2, FailedIs, OneConn
<1>5. CASE host.stop = "no"
  <2>1. conn' = [conn EXCEPT ![c] = x] BY <1>5 DEF Open
  <2>0. conn[c].tries + 1 \in 0..2
    BY <1>1 DEF ConnType, ConnSound
  <2>2. /\ x \in ConnType /\ x.at = conn[c].at /\ x.room = host.room /\ x.user = conn[c].user
        /\ x.tcp = conn[c].tcp /\ x.tries = conn[c].tries + 1
        /\ x.open = "got" => host.room # NoRoom
        /\ x.open # "ask"
    BY <1>1, <2>0 DEF ConnType, HostType
  <2>3. conn[c].at \notin {"joined", "auth", "granted", "hello"} BY <1>1 DEF ConnSound
  <2>4. ConnSound(x)
    BY <1>1, <2>2, <2>3 DEF ConnSound, HostType
  <2>5. x.open = "got" => Given(x.room)
    BY <1>1, <2>2 DEF Given, IInv, OneRoom, HostType
  <2>6. QED BY <1>1, <1>2, <1>3, <2>1, <2>2, <2>3, <2>4, <2>5, OneConn
<1>6. QED BY <1>4, <1>5
LEMMA CutStep ==
  ASSUME IInv, NEW c \in Conns, Cut(c)
  PROVE  IInv'
<1> DEFINE x == [conn[c] EXCEPT !.tcp = "cut"]
<1>1. conn[c] \in ConnType /\ ConnSound(conn[c]) /\ conn[c].tcp = "up"
      /\ (conn[c].open = "got" => Given(conn[c].room))
  BY DEF Cut, IInv
<1>2. /\ x \in ConnType /\ x.at = conn[c].at /\ x.user = conn[c].user /\ x.room = conn[c].room
      /\ x.open = conn[c].open /\ x.tries = conn[c].tries /\ x.tcp = "cut"
  BY <1>1 DEF ConnType
<1>3. ConnSound(x)
  BY <1>1, <1>2 DEF ConnSound
<1>4. conn' = [conn EXCEPT ![c] = x]
  BY DEF Cut
<1>5. room' = room /\ refusals' = refusals /\ host' = host /\ SameShared
  BY DEF Cut, SameShared, IInv
<1>6. QED BY <1>1, <1>2, <1>3, <1>4, <1>5, SameHost, OneConn

\* A connection that closed while it waited, or whose room did.
LEMMA TurnedAway ==
  ASSUME IInv, NEW c \in Conns, Continue(c), room' = room
  PROVE  IInv' \/ \E r \in Rooms : conn[c].open = "got" /\ conn[c].at = "joining"
                                 /\ room[r].status # "closed" /\ r = conn[c].room /\ Attach(c, r)
<1> DEFINE x == [conn[c] EXCEPT !.open = "ask", !.room = NoRoom]
<1>1. conn[c] \in ConnType /\ ConnSound(conn[c]) /\ conn[c].open = "got"
      /\ conn[c].room \in Rooms
  BY DEF Continue, IInv, ConnSound
<1>2. refusals' = refusals /\ host' = host /\ SameShared
  BY DEF Continue, SameShared, IInv
<1>3. CASE conn' = [conn EXCEPT ![c] = Failed(conn[c])] /\ conn[c].at # "joined"
  BY <1>1, <1>2, <1>3, FailedIs, SameHost, OneConn
<1>4. CASE conn[c].tries < 2 /\ conn' = [conn EXCEPT ![c] = x] /\ conn[c].at \in {"joining", "closed"}
  <2>1. /\ x \in ConnType /\ x.at = conn[c].at /\ x.user = conn[c].user /\ x.tcp = conn[c].tcp
        /\ x.open = "ask" /\ x.tries = conn[c].tries
    BY <1>1 DEF ConnType
  <2>2. conn[c].tries <= 1
    BY <1>1, <1>4 DEF ConnType
  <2>3. ConnSound(x)
    BY <1>1, <1>4, <2>1, <2>2 DEF ConnSound
  <2>4. QED BY <1>1, <1>2, <1>4, <2>1, <2>3, SameHost, OneConn
<1>5. conn[c].at \in {"joining", "closed"}
  BY <1>1 DEF ConnSound, ConnType
<1>6. QED BY <1>1, <1>3, <1>4, <1>5 DEF Continue

\* Those who wait for a load that ends without a room.
LEMMA UnresolvedIs ==
  ASSUME IInv, conn' = Unresolved
  PROVE  /\ conn' \in [Conns -> ConnType]
         /\ \A c \in Conns : ConnSound(conn'[c])
         /\ \A c \in Conns : (conn'[c].at = "joined") = (conn[c].at = "joined")
         /\ \A c \in Conns : conn[c].at = "joined" => conn'[c].room = conn[c].room
         /\ \A c \in Conns : conn[c].at = "joined" => conn'[c].user = conn[c].user
         /\ \A c \in Conns : conn'[c].open = "got" =>
              conn[c].open = "got" /\ conn'[c].room = conn[c].room
<1>1. ASSUME NEW d \in Conns
      PROVE  /\ conn'[d] \in ConnType /\ ConnSound(conn'[d])
             /\ (conn'[d].at = "joined") = (conn[d].at = "joined")
             /\ conn[d].at = "joined" => conn'[d] = conn[d]
             /\ conn'[d].open = "got" => conn'[d] = conn[d]
  <2>1. conn[d] \in ConnType /\ ConnSound(conn[d])
    BY DEF IInv
  <2>2. CASE conn[d].open = "wait"
    <3>1. conn'[d] = Failed(conn[d]) BY <2>2 DEF Unresolved, Waiting
    <3>2. conn[d].at # "joined" BY <2>1, <2>2 DEF ConnSound
    <3>3. QED BY <2>1, <3>1, <3>2, FailedIs
  <2>3. CASE conn[d].open # "wait"
    <3>1. conn'[d] = conn[d] BY <2>3 DEF Unresolved, Waiting
    <3>2. QED BY <2>1, <3>1
  <2>4. QED BY <2>2, <2>3
<1>2. conn' \in [Conns -> ConnType]
  BY <1>1 DEF Unresolved
<1>3. QED BY <1>1, <1>2

LEMMA UnresolvedStep ==
  ASSUME IInv, SameShared, room' = room, refusals' = refusals, conn' = Unresolved,
         host' \in HostType, host'.room = host.room, host'.load = "none", host.load # "first"
  PROVE  IInv'
<1>1. \A c \in Conns : conn'[c].open = "got" => Given(conn'[c].room)
  BY UnresolvedIs DEF IInv
<1>2. /\ refusals' \subseteq [conn : Conns, room : Rooms, got : {"forbidden", "not-found"}]
      /\ \A k \in refusals' : Given(k.room)
  BY DEF IInv
<1>3. QED BY <1>1, <1>2, UnresolvedIs, OutsideStep

LEMMA LoadFailsStep ==
  ASSUME IInv,
         \/ LoadFails
         \/ /\ host.load = "reading" /\ host' = [host EXCEPT !.load = "none"] /\ conn' = Unresolved
            /\ UNCHANGED <<row, members, data, refusals, slots, room>>
  PROVE  IInv'
<1>1. /\ room' = room /\ refusals' = refusals /\ SameShared /\ conn' = Unresolved
      /\ host.load = "reading" /\ host' = [host EXCEPT !.load = "none"]
  BY DEF LoadFails, SameShared, IInv
<1>2. host' \in HostType /\ host'.room = host.room /\ host'.load = "none"
  BY <1>1 DEF IInv, HostType
<1>3. QED BY <1>1, <1>2, UnresolvedStep

LEMMA SharingStep ==
  ASSUME IInv, Stopped \/ (\E u \in Users : Remove(u)) \/ DeleteData \/ DeleteRow
               \/ \E c \in Conns : Verify(c)
  PROVE  IInv'
<1>1. room' = room /\ conn' = conn /\ SameShared
  BY DEF Stopped, Remove, DeleteData, DeleteRow, Verify, SameShared, IInv
<1>2. /\ host' \in HostType /\ host'.room = host.room /\ host'.load = host.load
  BY DEF Stopped, Remove, DeleteData, DeleteRow, Verify, HostType, IInv
<1>3. /\ refusals' \subseteq [conn : Conns, room : Rooms, got : {"forbidden", "not-found"}]
      /\ \A k \in refusals' : Given(k.room)
  <2>1. CASE \E c \in Conns : Verify(c)
    <3>1. PICK c \in Conns : Verify(c) BY <2>1
    <3>2. /\ refusals' = refusals \cup {[conn |-> c, room |-> conn[c].room, got |-> Rights(conn[c].user)]}
          /\ conn[c].at = "joined" /\ Rights(conn[c].user) # "ok"
      BY <3>1 DEF Verify
    <3>3. Rights(conn[c].user) \in {"forbidden", "not-found"}
      BY <3>2 DEF Rights
    <3>4. conn[c].room \in Rooms /\ Given(conn[c].room)
      <4>1. conn[c].room \in Rooms BY <3>2 DEF IInv, ConnSound
      <4>2. c \in room[conn[c].room].peers BY <3>2, <4>1 DEF IInv, PeersAreJoined
      <4>3. QED BY <4>1, <4>2 DEF IInv, PeersAreJoined, Given
    <3>5. QED BY <3>2, <3>3, <3>4 DEF IInv
  <2>2. CASE refusals' = refusals
    BY <2>2 DEF IInv
  <2>3. QED BY <2>1, <2>2 DEF Stopped, Remove, DeleteData, DeleteRow
<1>4. /\ host'.load # "none" => host.room = NoRoom
      /\ host.load = "first" => host'.load = "first"
  BY <1>2 DEF IInv
<1>5. /\ conn' \in [Conns -> ConnType] /\ \A c \in Conns : ConnSound(conn'[c])
      /\ \A c \in Conns : conn'[c].open = "got" => Given(conn'[c].room)
  BY <1>1 DEF IInv
<1>6. QED BY <1>1, <1>2, <1>3, <1>4, <1>5, OutsideStep

-----------------------------------------------------------------------------
(* The queue of a room and its counters                                    *)

LEMMA EditStep ==
  ASSUME IInv, NEW c \in Conns, Edit(c)
  PROVE  IInv'
<1> DEFINE r == conn[c].room
           x == [room[r] EXCEPT !.seq = @ + 1]
<1>1. /\ r \in Rooms /\ room[r] \in RoomType /\ RoomSound(room[r]) /\ room[r].status = "open"
  <2>1. r \in Rooms BY DEF Edit, IInv, ConnSound
  <2>2. c \in room[r].peers BY <2>1 DEF Edit, IInv, PeersAreJoined
  <2>3. QED BY <2>1, <2>2 DEF IInv, PeersAreJoined
<1>2. /\ x \in RoomType /\ x.seq = room[r].seq + 1 /\ x.status = room[r].status
      /\ x.peers = room[r].peers /\ x.member = room[r].member /\ x.why = room[r].why
      /\ x.closing = room[r].closing /\ x.journaled = room[r].journaled
      /\ x.saved = room[r].saved /\ x.mark = room[r].mark /\ x.task = room[r].task
      /\ x.purge = room[r].purge
  BY <1>1 DEF RoomType
<1>3. RoomSound(x)
  BY <1>1, <1>2, SMTT(30) DEF RoomSound, Numbered, RoomType
<1>4. room' = [room EXCEPT ![r] = x] /\ conn' = conn /\ refusals' = refusals /\ SameShared
      /\ host' = host
  BY DEF Edit, SameShared, IInv
<1>5. QED BY <1>1, <1>2, <1>3, <1>4, SameHost, InsideStep

\* The queue takes a task.
LEMMA TaskStep ==
  ASSUME IInv, NEW r \in Rooms, Flush(r) \/ Maintain(r) \/ ShutDown(r)
  PROVE  IInv'
<1>1. PICK t \in {"journal", "checkpoint", "unload", "stop"} : Task(r, t)
  BY DEF Flush, Maintain, ShutDown
<1> DEFINE x == [room[r] EXCEPT !.task = t, !.mark = room[r].seq]
<1>2. room[r] \in RoomType /\ RoomSound(room[r]) /\ room[r].status = "open"
  BY DEF Flush, Maintain, ShutDown, Idle, IInv
<1>3. /\ x \in RoomType /\ x.seq = room[r].seq /\ x.status = room[r].status
      /\ x.peers = room[r].peers /\ x.member = room[r].member /\ x.why = room[r].why
      /\ x.closing = room[r].closing /\ x.journaled = room[r].journaled
      /\ x.saved = room[r].saved /\ x.mark = room[r].seq /\ x.task = t
      /\ x.purge = room[r].purge
  BY <1>2 DEF RoomType
<1>4. RoomSound(x)
  BY <1>2, <1>3 DEF RoomSound, Numbered, RoomType
<1>5. room' = [room EXCEPT ![r] = x] /\ conn' = conn /\ refusals' = refusals /\ SameShared
      /\ host' = host
  BY <1>1 DEF Task, SameShared, IInv
<1>6. QED BY <1>2, <1>3, <1>4, <1>5, SameHost, InsideStep

LEMMA DoneIs ==
  ASSUME NEW rr \in RoomType
  PROVE  /\ Done(rr) \in RoomType /\ Done(rr).task = "none" /\ Done(rr).mark = 0
         /\ Done(rr).seq = rr.seq /\ Done(rr).journaled = rr.journaled
         /\ Done(rr).saved = rr.saved /\ Done(rr).status = rr.status
         /\ Done(rr).peers = rr.peers /\ Done(rr).member = rr.member
         /\ Done(rr).why = rr.why /\ Done(rr).closing = rr.closing /\ Done(rr).purge = rr.purge
BY DEF Done, RoomType

LEMMA DoneSound ==
  ASSUME NEW rr \in RoomType, RoomSound(rr)
  PROVE  RoomSound(Done(rr))
BY DoneIs DEF RoomSound, Numbered, RoomType

LEMMA SavedIs ==
  ASSUME NEW rr \in RoomType, RoomSound(rr), rr.mark <= rr.journaled
  PROVE  /\ Saved(rr) \in RoomType /\ RoomSound(Saved(rr)) /\ Saved(rr).task = "none"
         /\ Saved(rr).seq = rr.seq /\ Saved(rr).journaled = rr.journaled
         /\ Saved(rr).status = rr.status
         /\ Saved(rr).peers = rr.peers /\ Saved(rr).member = rr.member
<1> DEFINE x == Saved(rr)
<1>1. /\ x \in RoomType /\ x.task = "none" /\ x.mark = 0 /\ x.saved = rr.mark
      /\ x.seq = rr.seq /\ x.journaled = rr.journaled /\ x.status = rr.status
      /\ x.peers = rr.peers /\ x.member = rr.member /\ x.why = rr.why
      /\ x.closing = rr.closing /\ x.purge = rr.purge
  BY DoneIs DEF Saved, RoomType
<1>2. RoomSound(x)
  BY <1>1 DEF RoomSound, Numbered, RoomType
<1>3. QED BY <1>1, <1>2

LEMMA JournalLandsStep ==
  ASSUME IInv, NEW r \in Rooms, JournalLands(r)
  PROVE  IInv'
<1> DEFINE x == [room[r] EXCEPT !.journaled = room[r].mark]
           y == IF x.task = "journal" THEN Done(x) ELSE x
<1>1. room[r] \in RoomType /\ RoomSound(room[r]) /\ room[r].task # "none"
      /\ room[r].journaled < room[r].mark
  BY DEF JournalLands, IInv
<1>2. /\ x \in RoomType /\ x.seq = room[r].seq /\ x.status = room[r].status
      /\ x.peers = room[r].peers /\ x.member = room[r].member /\ x.why = room[r].why
      /\ x.closing = room[r].closing /\ x.journaled = room[r].mark
      /\ x.saved = room[r].saved /\ x.mark = room[r].mark /\ x.task = room[r].task
      /\ x.purge = room[r].purge
  BY <1>1 DEF RoomType
<1>3. RoomSound(x)
  BY <1>1, <1>2 DEF RoomSound, Numbered, RoomType
<1>4. y \in RoomType /\ RoomSound(y) /\ y.status = room[r].status /\ y.peers = room[r].peers
      /\ y.member = room[r].member
  BY <1>2, <1>3, DoneIs, DoneSound
<1>5. room' = [room EXCEPT ![r] = y] /\ conn' = conn /\ refusals' = refusals /\ SameShared
      /\ host' = host
  BY DEF JournalLands, SameShared, IInv
<1>6. QED BY <1>4, <1>5, SameHost, InsideStep

\* A write that failed: the room goes on.
LEMMA JournalRetried ==
  ASSUME IInv, NEW r \in Rooms, SameShared, conn' = conn, refusals' = refusals, host' = host,
         NEW x \in {Done(room[r]), [room[r] EXCEPT !.mark = room[r].journaled]},
         room' = [room EXCEPT ![r] = x]
  PROVE  IInv'
<1>1. room[r] \in RoomType /\ RoomSound(room[r])
  BY DEF IInv
<1>2. CASE x = Done(room[r])
  BY <1>1, <1>2, DoneIs, DoneSound, SameHost, InsideStep
<1>3. CASE x = [room[r] EXCEPT !.mark = room[r].journaled]
  <2>1. /\ x \in RoomType /\ x.seq = room[r].seq /\ x.status = room[r].status
        /\ x.peers = room[r].peers /\ x.member = room[r].member /\ x.why = room[r].why
        /\ x.closing = room[r].closing /\ x.journaled = room[r].journaled
        /\ x.saved = room[r].saved /\ x.mark = room[r].journaled /\ x.task = room[r].task
        /\ x.purge = room[r].purge
    BY <1>1, <1>3 DEF RoomType
  <2>2. RoomSound(x)
    BY <1>1, <2>1 DEF RoomSound, Numbered, RoomType
  <2>3. QED BY <2>1, <2>2, SameHost, InsideStep
<1>4. QED BY <1>2, <1>3

LEMMA PurgeStep ==
  ASSUME IInv, NEW r \in Rooms, Purge(r)
  PROVE  IInv'
<1>1. room[r] \in RoomType /\ RoomSound(room[r]) /\ room[r].purge = "queued" /\ room[r].task = "none"
  BY DEF Purge, IInv
<1>2. PICK p \in {"done", "failed"} : room' = [room EXCEPT ![r].purge = p]
  BY DEF Purge
<1> DEFINE x == [room[r] EXCEPT !.purge = p]
<1>3. /\ x \in RoomType /\ x.seq = room[r].seq /\ x.status = room[r].status
      /\ x.peers = room[r].peers /\ x.member = room[r].member /\ x.why = room[r].why
      /\ x.closing = room[r].closing /\ x.journaled = room[r].journaled
      /\ x.saved = room[r].saved /\ x.mark = room[r].mark /\ x.task = room[r].task
      /\ x.purge = p
  BY <1>1 DEF RoomType
<1>4. RoomSound(x)
  BY <1>1, <1>3 DEF RoomSound, Numbered
<1>5. room' = [room EXCEPT ![r] = x] /\ conn' = conn /\ refusals' = refusals /\ host' = host
  BY <1>2 DEF Purge
<1>6. SameShared
  BY DEF Purge, SameShared, IInv
<1>7. QED BY <1>3, <1>4, <1>5, <1>6, SameHost, InsideStep

LEMMA StopStep ==
  ASSUME IInv, Stop
  PROVE  IInv'
<1>1. /\ conn' = conn /\ refusals' = refusals /\ SameShared
      /\ host' = [host EXCEPT !.stop = "closing"]
      /\ room' = [r \in Rooms |-> IF r = host.room THEN [room[r] EXCEPT !.closing = TRUE] ELSE room[r]]
  BY DEF Stop, SameShared, IInv
<1>2. host' \in HostType /\ host'.room = host.room /\ host'.load = host.load
  BY <1>1 DEF IInv, HostType
<1>3. CASE host.room = NoRoom
  <2>1. room' = room
    BY <1>1, <1>3, NotConn DEF IInv
  <2>2. /\ refusals' \subseteq [conn : Conns, room : Rooms, got : {"forbidden", "not-found"}]
        /\ \A k \in refusals' : Given(k.room)
        /\ host'.load # "none" => host.room = NoRoom
        /\ host.load = "first" => host'.load = "first"
        /\ conn' \in [Conns -> ConnType] /\ \A c \in Conns : ConnSound(conn'[c])
        /\ \A c \in Conns : conn'[c].open = "got" => Given(conn'[c].room)
    BY <1>1, <1>2 DEF IInv
  <2>3. QED BY <1>1, <1>2, <2>1, <2>2, OutsideStep
<1>4. CASE host.room # NoRoom
  <2> DEFINE r == host.room
             x == [room[r] EXCEPT !.closing = TRUE]
  <2>1. r \in Rooms BY <1>4 DEF IInv, HostType
  <2>2. room[r] \in RoomType /\ RoomSound(room[r]) /\ room[r].status = "open"
    BY <2>1 DEF IInv, OneRoom
  <2>3. /\ x \in RoomType /\ x.seq = room[r].seq /\ x.status = room[r].status
        /\ x.peers = room[r].peers /\ x.member = room[r].member /\ x.why = room[r].why
        /\ x.closing /\ x.journaled = room[r].journaled
        /\ x.saved = room[r].saved /\ x.mark = room[r].mark /\ x.task = room[r].task
        /\ x.purge = room[r].purge
    BY <2>2 DEF RoomType
  <2>4. RoomSound(x)
    BY <2>2, <2>3 DEF RoomSound, Numbered
  <2>5. room' = [room EXCEPT ![r] = x]
    BY <1>1, <2>1 DEF IInv
  <2>6. QED BY <1>1, <1>2, <2>1, <2>3, <2>4, <2>5, InsideStep
<1>5. QED BY <1>3, <1>4
-----------------------------------------------------------------------------
(* A connection leaves                                                     *)

LEMMA DetachedIs ==
  ASSUME NEW rr \in RoomType, NEW cs
  PROVE  /\ Detached(rr, cs) \in RoomType
         /\ Detached(rr, cs).peers = rr.peers \ cs
         /\ \A u \in Users : Detached(rr, cs).member[u] = IF rr.member[u] \in cs THEN NoConn ELSE rr.member[u]
         /\ Detached(rr, cs).status = rr.status /\ Detached(rr, cs).closing = rr.closing
         /\ Detached(rr, cs).seq = rr.seq /\ Detached(rr, cs).journaled = rr.journaled
         /\ Detached(rr, cs).saved = rr.saved /\ Detached(rr, cs).mark = rr.mark
         /\ Detached(rr, cs).task = rr.task /\ Detached(rr, cs).purge = rr.purge
         /\ Detached(rr, cs).why = rr.why
<1> DEFINE m == [u \in Users |-> IF rr.member[u] \in cs THEN NoConn ELSE rr.member[u]]
<1>1. m \in [Users -> Conns \cup {NoConn}] /\ rr.peers \ cs \in SUBSET Conns
  BY DEF RoomType
<1>2. Detached(rr, cs) = [rr EXCEPT !.peers = rr.peers \ cs, !.member = m]
  BY DEF Detached, RoomType
<1> HIDE DEF m
<1>3. /\ [rr EXCEPT !.peers = rr.peers \ cs, !.member = m] \in RoomType
      /\ Detached(rr, cs).peers = rr.peers \ cs /\ Detached(rr, cs).member = m
      /\ Detached(rr, cs).status = rr.status /\ Detached(rr, cs).closing = rr.closing
      /\ Detached(rr, cs).seq = rr.seq /\ Detached(rr, cs).journaled = rr.journaled
      /\ Detached(rr, cs).saved = rr.saved /\ Detached(rr, cs).mark = rr.mark
      /\ Detached(rr, cs).task = rr.task /\ Detached(rr, cs).purge = rr.purge
      /\ Detached(rr, cs).why = rr.why
  BY <1>1, <1>2 DEF RoomType
<1>4. QED BY <1>2, <1>3 DEF m

LEMMA DetachedSound ==
  ASSUME NEW rr \in RoomType, NEW cs, RoomSound(rr)
  PROVE  RoomSound(Detached(rr, cs))
BY DetachedIs DEF RoomSound, Numbered

LEMMA LeavingStep ==
  ASSUME IInv, SameShared, host' = host, refusals' \subseteq refusals,
         NEW c \in Conns, NEW x \in ConnType, ConnSound(x), x.at # "joined",
         x.open = "got" => Given(x.room),
         conn' = [conn EXCEPT ![c] = x],
         room' = [r \in Rooms |-> Detached(room[r], {c})]
  PROVE  IInv'
<1>1. conn' \in [Conns -> ConnType] /\ \A d \in Conns : conn'[d] = IF d = c THEN x ELSE conn[d]
  BY DEF IInv
<1>2. ASSUME NEW r \in Rooms
      PROVE  /\ room'[r] \in RoomType /\ RoomSound(room'[r]) /\ room'[r].status = room[r].status
             /\ room'[r].peers = room[r].peers \ {c}
             /\ \A u \in Users : room'[r].member[u] = IF room[r].member[u] = c THEN NoConn ELSE room[r].member[u]
  <2>1. room'[r] = Detached(room[r], {c}) /\ room[r] \in RoomType /\ RoomSound(room[r])
    BY DEF IInv
  <2>2. QED BY <2>1, DetachedIs, DetachedSound
<1>3. room' \in [Rooms -> RoomType]
  BY <1>2
<1>a. \A r \in Rooms : room'[r].status = room[r].status
  BY <1>2
<1>b. \A r \in Rooms : room'[r].peers = room[r].peers \ {c} /\ room[r].peers \subseteq Conns
  BY <1>2 DEF IInv, RoomType
<1>c. OneRoom /\ PeersAreJoined
  BY DEF IInv
<1>4. OneRoom'
  BY <1>a, <1>c DEF OneRoom
<1>5. PeersAreJoined'
  <2>1. ASSUME NEW r \in Rooms
        PROVE  room'[r].peers = {d \in Conns : conn'[d].at = "joined" /\ conn'[d].room = r}
    <3>1. room[r].peers = {d \in Conns : conn[d].at = "joined" /\ conn[d].room = r}
      BY <1>c DEF PeersAreJoined
    <3>2. \A d \in Conns : d # c => conn'[d] = conn[d]
      BY <1>1
    <3>3. conn'[c].at # "joined"
      BY <1>1
    <3>4. QED BY <1>b, <3>1, <3>2, <3>3
  <2>2. ASSUME NEW r \in Rooms, NEW u \in Users
        PROVE  {d \in room'[r].peers : conn'[d].user = u}
                 = (IF room'[r].member[u] = NoConn THEN {} ELSE {room'[r].member[u]})
    <3>1. {d \in room[r].peers : conn[d].user = u}
             = (IF room[r].member[u] = NoConn THEN {} ELSE {room[r].member[u]})
      BY DEF IInv, PeersAreJoined
    <3>3. {d \in room'[r].peers : conn'[d].user = u} = {d \in room[r].peers : conn[d].user = u} \ {c}
      BY <1>1, <1>b
    <3>4. CASE room[r].member[u] = c BY <1>2, <3>1, <3>3, <3>4
    <3>5. CASE room[r].member[u] # c BY <1>2, <3>1, <3>3, <3>5
    <3>6. QED BY <3>4, <3>5
  <2>3. ASSUME NEW r \in Rooms, NEW d \in room'[r].peers PROVE conn'[d].tcp # "down"
    <3>1. d \in room[r].peers /\ d # c /\ d \in Conns
      BY <1>b
    <3>2. conn'[d] = conn[d] /\ conn[d].tcp # "down"
      BY <1>1, <1>c, <3>1 DEF PeersAreJoined
    <3>3. QED BY <3>2
  <2>4. \A r \in Rooms : room'[r].status # "open" => room'[r].peers = {}
    BY <1>a, <1>b, <1>c DEF PeersAreJoined
  <2>5. QED BY <2>1, <2>2, <2>3, <2>4 DEF PeersAreJoined
<1>6. \A d \in Conns : conn'[d].open = "got" => room'[conn'[d].room].status \in {"open", "closed"}
  BY <1>1, <1>a DEF IInv, Given, ConnSound
<1>7. \A k \in refusals' : Given(k.room)'
  BY <1>a DEF IInv, Given
<1>8. \A d \in Conns : ConnSound(conn'[d])
  BY <1>1 DEF IInv
<1>9. /\ \A r \in Rooms : RoomSound(room'[r])
      /\ \A r, s \in Rooms : room'[r].status = "first" /\ room'[s].status = "first" => r = s
  <2>1. \A r \in Rooms : RoomSound(room'[r])
    BY <1>2
  <2>2. \A r, s \in Rooms : room'[r].status = "first" /\ room'[s].status = "first" => r = s
    BY <1>a DEF IInv
  <2>3. QED BY <2>1, <2>2
<1>10. conn' \in [Conns -> ConnType] /\ host' \in HostType
       /\ (host'.load # "none" => host'.room = NoRoom)
       /\ refusals' \subseteq [conn : Conns, room : Rooms, got : {"forbidden", "not-found"}]
  BY <1>1 DEF IInv
<1>11. QED BY <1>3, <1>4, <1>5, <1>6, <1>7, <1>8, <1>9, <1>10 DEF IInv, SameShared, Given

\* A connection closed by the server, or whose rights are refused.
LEMMA CloseConnStep ==
  ASSUME IInv, SameShared, host' = host, refusals' \subseteq refusals, NEW c \in Conns,
         CloseConns({c})
  PROVE  IInv'
<1>1. conn' = [conn EXCEPT ![c] = Closed(conn[c])]
  BY DEF CloseConns, ClosedConns, IInv
<1>2. conn[c] \in ConnType /\ ConnSound(conn[c]) /\ (conn[c].open = "got" => Given(conn[c].room))
  BY DEF IInv
<1>3. room' = [r \in Rooms |-> Detached(room[r], {c})]
  BY DEF CloseConns
<1>4. QED BY <1>1, <1>2, <1>3, ClosedIs, LeavingStep

LEMMA DownStep ==
  ASSUME IInv, NEW c \in Conns, Down(c)
  PROVE  IInv'
<1> DEFINE y == [conn[c] EXCEPT !.tcp = "down"]
<1>1. conn[c] \in ConnType /\ ConnSound(conn[c]) /\ (conn[c].open = "got" => Given(conn[c].room))
  BY DEF IInv
<1>2. /\ host' = host /\ refusals' = refusals /\ SameShared
      /\ room' = [r \in Rooms |-> Detached(room[r], {c})]
  BY DEF Down, SameShared, IInv
<1>3. /\ y \in ConnType /\ y.at = conn[c].at /\ y.user = conn[c].user /\ y.room = conn[c].room
      /\ y.open = conn[c].open /\ y.tries = conn[c].tries /\ y.tcp = "down"
  BY <1>1 DEF ConnType
<1>4. CASE conn[c].at \in {"auth", "granted"}
  <2>1. ConnSound(y) BY <1>1, <1>3, <1>4 DEF ConnSound
  <2>2. conn' = [conn EXCEPT ![c] = y] BY <1>4 DEF Down
  <2>3. QED BY <1>1, <1>2, <1>3, <1>4, <2>1, <2>2, LeavingStep
<1>5. CASE conn[c].at \notin {"auth", "granted"}
  <2> DEFINE z == [y EXCEPT !.at = "closed", !.room = IF y.open = "got" THEN @ ELSE NoRoom]
  <2>1. conn' = [conn EXCEPT ![c] = Closed(y)] BY <1>5 DEF Down
  <2>2. /\ z \in ConnType /\ z.at = "closed" /\ z.open = conn[c].open /\ z.tries = conn[c].tries
        /\ conn[c].open = "got" => z.room = conn[c].room
    BY <1>3 DEF ConnType
  <2>3. ConnSound(z) BY <1>1, <2>2 DEF ConnSound
  <2>4. Closed(y) \in {z, Gone} BY DEF Closed, Rest
  <2>5. Gone.at = "closed" /\ Gone.open = "no" BY DEF Gone
  <2>6. /\ Closed(y) \in ConnType /\ ConnSound(Closed(y)) /\ Closed(y).at # "joined"
        /\ Closed(y).open = "got" => Given(Closed(y).room)
    BY <1>1, <2>2, <2>3, <2>4, <2>5, GoneIs
  <2>7. QED BY <1>2, <2>1, <2>6, LeavingStep
<1>6. QED BY <1>4, <1>5
-----------------------------------------------------------------------------
(* A room closes                                                           *)

Whys == {"none", "deleted", "moved", "stop", "idle", "load", "internal"}

LEMMA ClosingStep ==
  ASSUME IInv, SameShared, refusals' \subseteq refusals,
         NEW r \in Rooms, NEW rr \in RoomType, NEW why \in Whys, CloseRoom(r, rr, why),
         Given(r), rr.status = room[r].status, rr.peers = room[r].peers, rr.member = room[r].member,
         Numbered(rr),
         rr.status = "closed" => RoomSound(rr),
         rr.purge # "done" \/ rr.task = "none",
         why = "idle" => rr.task = "none" /\ rr.journaled = rr.seq
  PROVE  IInv'
<1>1. CASE rr.status = "closed"
  <2>1. room' = [room EXCEPT ![r] = rr] /\ RoomSound(rr)
    BY <1>1 DEF CloseRoom
  <2>2. rr.peers = {} /\ host.room # r
    BY <1>1 DEF IInv, PeersAreJoined, OneRoom
  <2>3. conn' = conn
    BY <2>2 DEF CloseRoom, ClosedConns, IInv
  <2>4. host' = host
    BY <2>2 DEF CloseRoom, IInv, HostType
  <2>5. QED BY <2>1, <2>3, <2>4, SameHost, InsideStep
<1>2. CASE rr.status # "closed"
  <2> DEFINE d == Detached(rr, rr.peers)
             x == [d EXCEPT !.status = "closed", !.why = why]
  <2>1. room[r].status = "open" /\ host.room = r
    BY <1>2 DEF Given, IInv, OneRoom
  <2>2. /\ d \in RoomType /\ d.peers = {} /\ \A u \in Users : d.member[u] = NoConn
        /\ d.closing = rr.closing /\ d.seq = rr.seq /\ d.journaled = rr.journaled
        /\ d.saved = rr.saved /\ d.mark = rr.mark /\ d.task = rr.task /\ d.purge = rr.purge
    <3>1. \A u \in Users : rr.member[u] # NoConn => rr.member[u] \in rr.peers
      <4>1. ASSUME NEW u \in Users, room[r].member[u] # NoConn PROVE room[r].member[u] \in room[r].peers
        <5>1. {c \in room[r].peers : conn[c].user = u} = {room[r].member[u]}
          BY <4>1 DEF IInv, PeersAreJoined
        <5>2. QED BY <5>1
      <4>2. QED BY <4>1
    <3>2. QED BY <3>1, DetachedIs
  <2>3. /\ x \in RoomType /\ x.status = "closed" /\ x.why = why
        /\ x.peers = {} /\ \A u \in Users : x.member[u] = NoConn
        /\ x.closing = rr.closing /\ x.seq = rr.seq /\ x.journaled = rr.journaled
        /\ x.saved = rr.saved /\ x.mark = rr.mark /\ x.task = rr.task /\ x.purge = rr.purge
    <3> HIDE DEF d
    <3>1. QED BY <2>2 DEF RoomType, Whys
  <2>4. RoomSound(x)
    BY <2>3 DEF RoomSound, Numbered
  <2>5. room' = [room EXCEPT ![r] = x]
    BY <1>2 DEF CloseRoom
  <2>6. /\ conn' = ClosedConns(rr.peers)
        /\ host' = [host EXCEPT !.room = NoRoom]
    BY <2>1 DEF CloseRoom, IInv, HostType
  <2> HIDE DEF x, d
  <2>7. room' \in [Rooms -> RoomType] /\ \A s \in Rooms : room'[s] = IF s = r THEN x ELSE room[s]
    BY <2>3, <2>5 DEF IInv
  <2>8. host' \in HostType /\ host'.room = NoRoom /\ host'.load = host.load
    BY <2>6 DEF IInv, HostType
  <2>9. OneRoom'
    BY <2>1, <2>3, <2>7, <2>8, NotConn DEF IInv, OneRoom
  <2>10. PeersAreJoined'
    <3>0. PeersAreJoined
      BY DEF IInv
    <3>1. /\ \A c \in rr.peers \cap Conns : conn'[c].at = "closed"
          /\ \A c \in Conns \ rr.peers : conn'[c] = conn[c]
      BY <2>6, ClosedConnsIs
    <3>2. ASSUME NEW s \in Rooms
          PROVE  room'[s].peers = {c \in Conns : conn'[c].at = "joined" /\ conn'[c].room = s}
      <4>1. /\ room[s].peers = {c \in Conns : conn[c].at = "joined" /\ conn[c].room = s}
            /\ rr.peers = {c \in Conns : conn[c].at = "joined" /\ conn[c].room = r}
        BY <3>0 DEF PeersAreJoined
      <4>2. CASE s = r
        BY <2>3, <2>7, <3>1, <4>1, <4>2
      <4>3. CASE s # r
        BY <2>7, <3>1, <4>1, <4>3
      <4>4. QED BY <4>2, <4>3
    <3>3. ASSUME NEW s \in Rooms, s # r, NEW c \in room[s].peers
          PROVE  conn'[c] = conn[c]
      BY <3>0, <3>1, <3>3 DEF PeersAreJoined
    <3>4. ASSUME NEW s \in Rooms, NEW u \in Users
          PROVE  {c \in room'[s].peers : conn'[c].user = u}
                   = (IF room'[s].member[u] = NoConn THEN {} ELSE {room'[s].member[u]})
      <4>1. CASE s = r
        BY <2>3, <2>7, <4>1
      <4>2. CASE s # r
        <5>1. {c \in room[s].peers : conn[c].user = u}
                = (IF room[s].member[u] = NoConn THEN {} ELSE {room[s].member[u]})
          BY <3>0 DEF PeersAreJoined
        <5>2. {c \in room[s].peers : conn'[c].user = u} = {c \in room[s].peers : conn[c].user = u}
          BY <3>3, <4>2
        <5>3. room'[s] = room[s] BY <2>7, <4>2
        <5>4. QED BY <5>1, <5>2, <5>3
      <4>3. QED BY <4>1, <4>2
    <3>5. ASSUME NEW s \in Rooms, NEW c \in room'[s].peers PROVE conn'[c].tcp # "down"
      <4>1. CASE s = r BY <2>3, <2>7, <4>1
      <4>2. CASE s # r
        <5>1. c \in room[s].peers BY <2>7, <4>2
        <5>2. conn'[c] = conn[c] BY <3>3, <4>2, <5>1
        <5>3. QED BY <3>0, <5>1, <5>2 DEF PeersAreJoined
      <4>3. QED BY <4>1, <4>2
    <3>6. \A s \in Rooms : room'[s].status # "open" => room'[s].peers = {}
      BY <2>3, <2>7, <3>0 DEF PeersAreJoined
    <3>7. QED BY <3>2, <3>4, <3>5, <3>6 DEF PeersAreJoined
  <2>11. /\ \A s \in Rooms : Given(s) => room'[s].status \in {"open", "closed"}
         /\ \A s \in Rooms : RoomSound(room'[s])
    BY <2>3, <2>4, <2>7 DEF Given, IInv
  <2>12. \A s, q \in Rooms : room'[s].status = "first" /\ room'[q].status = "first" => s = q
    BY <2>3, <2>7 DEF IInv
  <2>13. /\ conn' \in [Conns -> ConnType] /\ \A c \in Conns : ConnSound(conn'[c])
         /\ \A c \in Conns : conn'[c].open = "got" => Given(conn'[c].room)
    BY <2>6, ClosedConnsIs
  <2>14. \A c \in Conns : conn'[c].open = "got" => room'[conn'[c].room].status \in {"open", "closed"}
    BY <2>11, <2>13 DEF ConnSound
  <2>15. \A k \in refusals' : room'[k.room].status \in {"open", "closed"}
    BY <2>11 DEF IInv
  <2>16. refusals' \subseteq [conn : Conns, room : Rooms, got : {"forbidden", "not-found"}]
         /\ (host'.load # "none" => host'.room = NoRoom)
    BY <2>8 DEF IInv
  <2>17. QED BY <2>7, <2>8, <2>9, <2>10, <2>11, <2>12, <2>13, <2>14, <2>15, <2>16
             DEF IInv, SameShared, Given
<1>3. QED BY <1>1, <1>2
LEMMA DeletedStep ==
  ASSUME IInv, SameShared, refusals' \subseteq refusals,
         NEW r \in Rooms, NEW rr \in RoomType, ProjectDeleted(r, rr), Given(r),
         rr.status = room[r].status, rr.peers = room[r].peers, rr.member = room[r].member,
         RoomSound(rr)
  PROVE  IInv'
<1> DEFINE x == IF rr.status = "closed" THEN rr ELSE [rr EXCEPT !.purge = "queued"]
<1>1. CloseRoom(r, x, "deleted")
  BY DEF ProjectDeleted
<1>2. /\ x \in RoomType /\ x.status = rr.status /\ x.peers = rr.peers /\ x.member = rr.member
      /\ x.seq = rr.seq /\ x.journaled = rr.journaled /\ x.saved = rr.saved /\ x.mark = rr.mark
      /\ x.task = rr.task
      /\ rr.status = "closed" => x = rr
      /\ rr.status # "closed" => x.purge = "queued"
  BY DEF RoomType
<1>3. /\ Numbered(x)
      /\ x.status = "closed" => RoomSound(x)
      /\ x.purge # "done" \/ x.task = "none"
  BY <1>2 DEF RoomSound, Numbered
<1>4. "deleted" \in Whys BY DEF Whys
<1>5. QED BY <1>1, <1>2, <1>3, <1>4, ClosingStep

\* A room goes on, or is unloaded when nobody is left.
LEMMA GoesOnStep ==
  ASSUME IInv, SameShared, refusals' = refusals,
         NEW r \in Rooms, NEW rr \in RoomType, Given(r),
         rr.status = room[r].status, rr.peers = room[r].peers, rr.member = room[r].member,
         RoomSound(rr), rr.task = "none",
         \/ Unloaded(r, rr)
         \/ room' = [room EXCEPT ![r] = rr] /\ UNCHANGED <<conn, host>>
  PROVE  IInv'
<1>1. CASE room' = [room EXCEPT ![r] = rr] /\ UNCHANGED <<conn, host>>
  BY <1>1, SameHost, InsideStep
<1>2. CASE CloseRoom(r, rr, "idle") /\ rr.journaled = rr.seq
  <2>1. "idle" \in Whys /\ Numbered(rr) BY DEF Whys, RoomSound
  <2>2. QED BY <1>2, <2>1, ClosingStep
<1>3. QED BY <1>1, <1>2 DEF Unloaded

LEMMA RefuseStep ==
  ASSUME IInv, NEW k \in refusals, Refuse(k)
  PROVE  IInv'
<1>1. k.conn \in Conns /\ k.room \in Rooms /\ Given(k.room)
      /\ room[k.room] \in RoomType /\ RoomSound(room[k.room])
  BY DEF IInv
<1>2. SameShared /\ refusals' \subseteq refusals
  BY DEF Refuse, SameShared, IInv
<1>3. CASE CloseConns({k.conn}) /\ UNCHANGED host
  BY <1>1, <1>2, <1>3, CloseConnStep
<1>4. CASE ProjectDeleted(k.room, room[k.room])
  BY <1>1, <1>2, <1>4, DeletedStep
<1>5. QED BY <1>3, <1>4 DEF Refuse

LEMMA EndsStep ==
  ASSUME IInv, NEW r \in Rooms, StopEnds(r) \/ JournalFails(r) \/ RoomFails(r)
  PROVE  IInv'
<1>1. /\ room[r] \in RoomType /\ RoomSound(room[r]) /\ Given(r)
      /\ SameShared /\ refusals' = refusals
  BY DEF StopEnds, JournalFails, RoomFails, SameShared, IInv, RoomSound, Given
<1>2. /\ Done(room[r]) \in RoomType /\ RoomSound(Done(room[r])) /\ Numbered(Done(room[r]))
      /\ Done(room[r]).task = "none" /\ Numbered(room[r])
      /\ Done(room[r]).status = room[r].status /\ Done(room[r]).peers = room[r].peers
      /\ Done(room[r]).member = room[r].member
  BY <1>1, DoneIs, DoneSound DEF RoomSound
<1>3. {"stop", "moved", "internal"} \subseteq Whys
  BY DEF Whys
<1>4. CASE CloseRoom(r, Done(room[r]), "stop") \/ CloseRoom(r, Done(room[r]), "moved")
  BY <1>1, <1>2, <1>3, <1>4, ClosingStep
<1>5. CASE RoomFails(r)
  <2>1. CloseRoom(r, room[r], "internal") /\ room[r].status = "open"
    BY <1>5 DEF RoomFails
  <2>2. room[r].purge # "done"
    BY <1>1, <2>1 DEF RoomSound
  <2>3. QED BY <1>1, <1>2, <1>3, <2>1, <2>2, ClosingStep
<1>6. CASE JournalFails(r) /\ ~CloseRoom(r, Done(room[r]), "moved")
  <2> DEFINE x == IF room[r].task = "stop" THEN [room[r] EXCEPT !.mark = room[r].journaled]
                  ELSE Done(room[r])
  <2>1. room' = [room EXCEPT ![r] = x] /\ conn' = conn /\ host' = host
    BY <1>6 DEF JournalFails
  <2>2. x \in {Done(room[r]), [room[r] EXCEPT !.mark = room[r].journaled]}
    OBVIOUS
  <2>3. QED BY <1>1, <2>1, <2>2, JournalRetried
<1>7. QED BY <1>4, <1>5, <1>6 DEF StopEnds

LEMMA CheckpointEndsStep ==
  ASSUME IInv, NEW r \in Rooms, CheckpointEnds(r)
  PROVE  IInv'
<1>1. /\ room[r] \in RoomType /\ RoomSound(room[r]) /\ Given(r)
      /\ SameShared /\ refusals' = refusals /\ room[r].mark <= room[r].journaled
  <2>1. room[r].task \in {"checkpoint", "unload"} /\ room[r].mark <= room[r].journaled
        /\ UNCHANGED <<row, members, refusals>> /\ data' \subseteq data \cup {"checkpoint"}
    BY DEF CheckpointEnds
  <2>2. QED BY <2>1 DEF SameShared, IInv, RoomSound, Given
<1>2. /\ Done(room[r]) \in RoomType /\ RoomSound(Done(room[r])) /\ Done(room[r]).task = "none"
      /\ Done(room[r]).status = room[r].status /\ Done(room[r]).peers = room[r].peers
      /\ Done(room[r]).member = room[r].member
  BY <1>1, DoneIs, DoneSound
<1>3. /\ Saved(room[r]) \in RoomType /\ RoomSound(Saved(room[r])) /\ Saved(room[r]).task = "none"
      /\ Saved(room[r]).status = room[r].status /\ Saved(room[r]).peers = room[r].peers
      /\ Saved(room[r]).member = room[r].member
  BY <1>1, SavedIs
<1>4. CASE ProjectDeleted(r, Done(room[r]))
  BY <1>1, <1>2, <1>4, DeletedStep
<1>5. ASSUME NEW x \in {Done(room[r]), Saved(room[r])},
             \/ Unloaded(r, x)
             \/ room' = [room EXCEPT ![r] = x] /\ UNCHANGED <<conn, host>>
      PROVE  IInv'
  BY <1>1, <1>2, <1>3, <1>5, GoesOnStep
<1>6. QED
  <2>1. \/ ProjectDeleted(r, Done(room[r]))
        \/ Unloaded(r, Done(room[r]))
        \/ Unloaded(r, Saved(room[r]))
        \/ room' = [room EXCEPT ![r] = Done(room[r])] /\ UNCHANGED <<conn, host>>
        \/ room' = [room EXCEPT ![r] = Saved(room[r])] /\ UNCHANGED <<conn, host>>
    BY DEF CheckpointEnds
  <2>2. QED BY <1>4, <1>5, <2>1
-----------------------------------------------------------------------------
(* A room is loaded                                                        *)

LEMMA LoadedStep ==
  ASSUME IInv, SameShared, refusals' = refusals, host.room = NoRoom,
         NEW r \in Rooms, NEW y \in RoomType, RoomSound(y),
         \A s \in Rooms : room[s].status = "first" => s = r,
         \A c \in Conns : conn[c].open = "got" => conn[c].room # r,
         \A k \in refusals : k.room # r,
         y.peers = {}, \A u \in Users : y.member[u] = NoConn,
         room' = [room EXCEPT ![r] = y],
         host' \in HostType, host'.room \in {r, NoRoom},
         y.status = "open" <=> host'.room = r,
         y.status = "first" => host'.load = "first",
         host'.load # "none" => host'.room = NoRoom,
         conn' \in [Conns -> ConnType],
         \A c \in Conns : ConnSound(conn'[c]),
         \A c \in Conns : (conn'[c].at = "joined") = (conn[c].at = "joined"),
         \A c \in Conns : conn[c].at = "joined" => conn'[c].room = conn[c].room,
         \A c \in Conns : conn[c].at = "joined" => conn'[c].user = conn[c].user,
         \A c \in Conns : conn'[c].open = "got" =>
           \/ conn'[c].room = r /\ y.status = "open"
           \/ conn[c].open = "got" /\ conn'[c].room = conn[c].room
  PROVE  IInv'
<1>1. room' \in [Rooms -> RoomType] /\ \A s \in Rooms : room'[s] = IF s = r THEN y ELSE room[s]
  BY DEF IInv
<1>2. OneRoom /\ PeersAreJoined
  BY DEF IInv
<1>3. \A s \in Rooms : room[s].status # "open" /\ room[s].peers = {}
  BY <1>2, NotConn DEF OneRoom, PeersAreJoined
<1>4. OneRoom'
  BY <1>1, <1>3, NotConn DEF OneRoom
<1>5. PeersAreJoined'
  <2>1. \A c \in Conns : conn[c].at # "joined"
    BY <1>2, <1>3 DEF IInv, ConnSound, PeersAreJoined
  <2>2. \A s \in Rooms : room'[s].peers = {}
    BY <1>1, <1>3
  <2>3. ASSUME NEW s \in Rooms, NEW u \in Users PROVE room'[s].member[u] = NoConn
    <3>1. CASE s = r BY <1>1, <3>1
    <3>2. CASE s # r
      <4>1. {c \in room[s].peers : conn[c].user = u}
              = (IF room[s].member[u] = NoConn THEN {} ELSE {room[s].member[u]})
        BY <1>2 DEF PeersAreJoined
      <4>2. room[s].member[u] = NoConn BY <1>3, <4>1
      <4>3. QED BY <1>1, <3>2, <4>2
    <3>3. QED BY <3>1, <3>2
  <2>4. QED BY <2>1, <2>2, <2>3 DEF PeersAreJoined
<1>6. \A s, q \in Rooms : room'[s].status = "first" /\ room'[q].status = "first" => s = q
  BY <1>1
<1>7. \A s \in Rooms : RoomSound(room'[s])
  BY <1>1 DEF IInv
<1>8. ASSUME NEW c \in Conns, conn'[c].open = "got"
      PROVE  room'[conn'[c].room].status \in {"open", "closed"}
  <2>1. CASE conn'[c].room = r /\ y.status = "open"
    BY <1>1, <2>1
  <2>2. CASE conn[c].open = "got" /\ conn'[c].room = conn[c].room
    <3>1. conn[c].room # r /\ conn[c].room \in Rooms /\ Given(conn[c].room)
      BY <2>2 DEF IInv, ConnSound
    <3>2. QED BY <1>1, <2>2, <3>1 DEF Given
  <2>3. QED BY <1>8, <2>1, <2>2
<1>9. \A k \in refusals' : room'[k.room].status \in {"open", "closed"}
  BY <1>1 DEF IInv, Given
<1>10. refusals' \subseteq [conn : Conns, room : Rooms, got : {"forbidden", "not-found"}]
  BY DEF IInv
<1>11. QED BY <1>1, <1>4, <1>5, <1>6, <1>7, <1>8, <1>9, <1>10 DEF IInv, SameShared, Given

LEMMA ResolvedIs ==
  ASSUME IInv, NEW r \in Rooms, conn' = Resolved(r)
  PROVE  /\ conn' \in [Conns -> ConnType]
         /\ \A c \in Conns : ConnSound(conn'[c])
         /\ \A c \in Conns : (conn'[c].at = "joined") = (conn[c].at = "joined")
         /\ \A c \in Conns : conn[c].at = "joined" => conn'[c].room = conn[c].room
         /\ \A c \in Conns : conn[c].at = "joined" => conn'[c].user = conn[c].user
         /\ \A c \in Conns : conn'[c].open = "got" =>
              conn'[c].room = r \/ (conn[c].open = "got" /\ conn'[c].room = conn[c].room)
<1>1. ASSUME NEW c \in Conns
      PROVE  /\ conn'[c] \in ConnType /\ ConnSound(conn'[c])
             /\ (conn'[c].at = "joined") = (conn[c].at = "joined")
             /\ conn[c].at = "joined" => conn'[c] = conn[c]
             /\ conn'[c].open = "got" =>
                  conn'[c].room = r \/ (conn[c].open = "got" /\ conn'[c].room = conn[c].room)
  <2>1. conn[c] \in ConnType /\ ConnSound(conn[c])
    BY DEF IInv
  <2>2. CASE conn[c].open = "wait"
    <3> DEFINE x == [conn[c] EXCEPT !.open = "got", !.room = r]
    <3>1. conn'[c] = x BY <2>2 DEF Resolved, Waiting
    <3>2. /\ x \in ConnType /\ x.at = conn[c].at /\ x.user = conn[c].user /\ x.tcp = conn[c].tcp
          /\ x.open = "got" /\ x.room = r /\ x.tries = conn[c].tries
      BY <2>1 DEF ConnType
    <3>3. conn[c].at # "joined" /\ ConnSound(x) BY <2>1, <2>2, <3>2 DEF ConnSound
    <3>4. QED BY <3>1, <3>2, <3>3
  <2>3. CASE conn[c].open # "wait"
    <3>1. conn'[c] = conn[c] BY <2>3 DEF Resolved, Waiting
    <3>2. QED BY <2>1, <3>1
  <2>4. QED BY <2>2, <2>3
<1>2. conn' \in [Conns -> ConnType]
  BY <1>1 DEF Resolved
<1>3. QED BY <1>1, <1>2

LEMMA UnusedIs ==
  /\ UnusedRoom \in RoomType /\ RoomSound(UnusedRoom)
  /\ UnusedRoom.peers = {} /\ \A u \in Users : UnusedRoom.member[u] = NoConn
  /\ UnusedRoom.closing = FALSE /\ UnusedRoom.seq = 0 /\ UnusedRoom.journaled = 0
  /\ UnusedRoom.mark = 0 /\ UnusedRoom.task = "none" /\ UnusedRoom.purge = "no"
  /\ UnusedRoom.why = "none"
<1> DEFINE m == [u \in Users |-> NoConn]
<1>1. m \in [Users -> Conns \cup {NoConn}]
  OBVIOUS
<1>2. UnusedRoom = [status |-> "unused", peers |-> {}, member |-> m,
               closing |-> FALSE, seq |-> 0, journaled |-> 0, saved |-> 0,
               task |-> "none", mark |-> 0, purge |-> "no", why |-> "none"]
  BY DEF UnusedRoom
<1> HIDE DEF m
<1>3. UnusedRoom \in RoomType /\ RoomSound(UnusedRoom)
  BY <1>1, <1>2 DEF RoomType, RoomSound, Numbered
<1>4. QED BY <1>2, <1>3 DEF m
LEMMA SameConn ==
  ASSUME IInv, conn' = conn
  PROVE  /\ conn' \in [Conns -> ConnType]
         /\ \A c \in Conns : ConnSound(conn'[c])
         /\ \A c \in Conns : (conn'[c].at = "joined") = (conn[c].at = "joined")
         /\ \A c \in Conns : conn[c].at = "joined" => conn'[c].room = conn[c].room
         /\ \A c \in Conns : conn[c].at = "joined" => conn'[c].user = conn[c].user
         /\ \A c \in Conns : conn'[c].open = "got" =>
              conn[c].open = "got" /\ conn'[c].room = conn[c].room
BY DEF IInv

LEMMA LoadEndsStep ==
  ASSUME IInv, LoadEnds
  PROVE  IInv'
<1>1. host \in HostType /\ host.load = "reading" /\ host.room = NoRoom
      /\ refusals' = refusals /\ SameShared
      /\ \A s \in Rooms : room[s].status # "first"
  BY DEF LoadEnds, SameShared, IInv, OneRoom
<1>2. CASE /\ host' = [host EXCEPT !.load = "none"] /\ conn' = Unresolved /\ room' = room
  <2>1. host' \in HostType /\ host'.room = host.room /\ host'.load = "none"
    BY <1>1, <1>2 DEF HostType
  <2>2. QED BY <1>1, <1>2, <2>1, UnresolvedStep
<1>3. CASE \E r \in Rooms :
             /\ Free(r)
             /\ room' = [room EXCEPT ![r] = [UnusedRoom EXCEPT
                          !.status = "open", !.saved = IF "journal" \in data THEN -1 ELSE 0]]
             /\ host' = [host EXCEPT !.load = "none", !.room = r]
             /\ conn' = Resolved(r)
  <2>1. PICK r \in Rooms :
             /\ Free(r)
             /\ room' = [room EXCEPT ![r] = [UnusedRoom EXCEPT
                          !.status = "open", !.saved = IF "journal" \in data THEN -1 ELSE 0]]
             /\ host' = [host EXCEPT !.load = "none", !.room = r]
             /\ conn' = Resolved(r)
    BY <1>3
  <2> DEFINE n == IF "journal" \in data THEN -1 ELSE 0
             y == [UnusedRoom EXCEPT !.status = "open", !.saved = n]
  <2>2. n \in Int /\ -1 <= n /\ n <= 0
    OBVIOUS
  <2> HIDE DEF n
  <2>3. /\ y \in RoomType /\ y.status = "open" /\ y.saved = n /\ y.peers = {}
        /\ \A u \in Users : y.member[u] = NoConn
        /\ y.closing = FALSE /\ y.seq = 0 /\ y.journaled = 0 /\ y.mark = 0 /\ y.task = "none"
        /\ y.purge = "no" /\ y.why = "none"
    BY <2>2, UnusedIs DEF RoomType
  <2>4. RoomSound(y)
    BY <2>2, <2>3 DEF RoomSound, Numbered
  <2>5. room' = [room EXCEPT ![r] = y]
    BY <2>1 DEF n
  <2>6. host' \in HostType /\ host'.room = r /\ host'.load = "none"
    BY <1>1, <2>1 DEF HostType
  <2>7. /\ \A c \in Conns : conn[c].open = "got" => conn[c].room # r
        /\ \A k \in refusals : k.room # r
    BY <2>1 DEF Free, IInv, Given
  <2> HIDE DEF y
  <2>8. conn' = Resolved(r) BY <2>1
  <2>9. QED BY <1>1, <2>3, <2>4, <2>5, <2>6, <2>7, <2>8, ResolvedIs, LoadedStep
<1>4. CASE \E r \in Rooms :
             /\ Free(r)
             /\ room' = [room EXCEPT ![r] = [UnusedRoom EXCEPT !.status = "first", !.saved = -1]]
             /\ host' = [host EXCEPT !.load = "first"]
             /\ conn' = conn
  <2>1. PICK r \in Rooms :
             /\ Free(r)
             /\ room' = [room EXCEPT ![r] = [UnusedRoom EXCEPT !.status = "first", !.saved = -1]]
             /\ host' = [host EXCEPT !.load = "first"]
             /\ conn' = conn
    BY <1>4
  <2> DEFINE n == -1
             y == [UnusedRoom EXCEPT !.status = "first", !.saved = n]
  <2>2. n \in Int /\ n = -1
    OBVIOUS
  <2> HIDE DEF n
  <2>3. /\ y \in RoomType /\ y.status = "first" /\ y.saved = n /\ y.peers = {}
        /\ \A u \in Users : y.member[u] = NoConn
        /\ y.closing = FALSE /\ y.seq = 0 /\ y.journaled = 0 /\ y.mark = 0 /\ y.task = "none"
        /\ y.purge = "no" /\ y.why = "none"
    BY <2>2, UnusedIs DEF RoomType
  <2>4. RoomSound(y)
    BY <2>2, <2>3 DEF RoomSound, Numbered
  <2>5. room' = [room EXCEPT ![r] = y]
    BY <2>1 DEF n
  <2>6. host' \in HostType /\ host'.room = NoRoom /\ host'.load = "first"
    BY <1>1, <2>1 DEF HostType
  <2>7. /\ \A c \in Conns : conn[c].open = "got" => conn[c].room # r
        /\ \A k \in refusals : k.room # r
    BY <2>1 DEF Free, IInv, Given
  <2> HIDE DEF y
  <2>8. conn' = conn /\ r # NoRoom BY <2>1, NotConn
  <2>9. QED BY <1>1, <2>3, <2>4, <2>5, <2>6, <2>7, <2>8, SameConn, LoadedStep
<1>5. QED BY <1>2, <1>3, <1>4 DEF LoadEnds

LEMMA FirstEndsStep ==
  ASSUME IInv, NEW r \in Rooms, FirstEnds(r)
  PROVE  IInv'
<1>1. /\ room[r] \in RoomType /\ RoomSound(room[r]) /\ room[r].status = "first"
      /\ host \in HostType /\ host.load = "first" /\ host.room = NoRoom
      /\ refusals' = refusals /\ SameShared
  BY DEF FirstEnds, SameShared, IInv, OneRoom
<1>2. /\ \A s \in Rooms : room[s].status = "first" => s = r
      /\ \A c \in Conns : conn[c].open = "got" => conn[c].room # r
      /\ \A k \in refusals : k.room # r
      /\ room[r].peers = {}
  BY <1>1 DEF IInv, Given, PeersAreJoined
<1>3. ASSUME NEW u \in Users PROVE room[r].member[u] = NoConn
  <2>1. {c \in room[r].peers : conn[c].user = u}
          = (IF room[r].member[u] = NoConn THEN {} ELSE {room[r].member[u]})
    BY DEF IInv, PeersAreJoined
  <2>2. QED BY <1>2, <2>1
<1>4. CASE /\ room' = [room EXCEPT ![r].status = "open", ![r].saved = 0]
           /\ host' = [host EXCEPT !.load = "none", !.room = r]
           /\ conn' = Resolved(r)
  <2> DEFINE n == 0
             y == [room[r] EXCEPT !.status = "open", !.saved = n]
  <2>0. n \in Int /\ n = 0
    OBVIOUS
  <2> HIDE DEF n
  <2>1. /\ y \in RoomType /\ y.status = "open" /\ y.saved = n /\ y.peers = {}
        /\ \A u \in Users : y.member[u] = NoConn
        /\ y.seq = room[r].seq /\ y.journaled = room[r].journaled /\ y.mark = room[r].mark
        /\ y.task = room[r].task /\ y.purge = room[r].purge /\ y.why = room[r].why
        /\ y.closing = room[r].closing
    BY <1>1, <1>2, <1>3, <2>0 DEF RoomType
  <2>2. RoomSound(y)
    BY <1>1, <2>0, <2>1 DEF RoomSound, Numbered, RoomType
  <2>3. room' = [room EXCEPT ![r] = y]
    BY <1>4 DEF IInv, n
  <2>4. host' \in HostType /\ host'.room = r /\ host'.load = "none"
    BY <1>1, <1>4 DEF HostType
  <2> HIDE DEF y
  <2>5. QED BY <1>1, <1>2, <1>4, <2>1, <2>2, <2>3, <2>4, ResolvedIs, LoadedStep
<1>5. ASSUME NEW p \in {"queued", "no"},
             room' = [room EXCEPT ![r].status = "closed", ![r].why = "load", ![r].purge = p],
             host' = [host EXCEPT !.load = "none"], conn' = Unresolved
      PROVE  IInv'
  <2> DEFINE y == [room[r] EXCEPT !.status = "closed", !.why = "load", !.purge = p]
  <2>1. /\ y \in RoomType /\ y.status = "closed" /\ y.saved = room[r].saved /\ y.peers = {}
        /\ \A u \in Users : y.member[u] = NoConn
        /\ y.seq = room[r].seq /\ y.journaled = room[r].journaled /\ y.mark = room[r].mark
        /\ y.task = room[r].task /\ y.purge = p /\ y.why = "load"
        /\ y.closing = room[r].closing
    BY <1>1, <1>2, <1>3 DEF RoomType
  <2>2. RoomSound(y)
    BY <1>1, <2>1 DEF RoomSound, Numbered
  <2>3. room' = [room EXCEPT ![r] = y]
    BY <1>5 DEF IInv
  <2>4. host' \in HostType /\ host'.room = NoRoom /\ host'.load = "none" /\ r # NoRoom
    BY <1>1, <1>5, NotConn DEF HostType
  <2> HIDE DEF y
  <2>5. QED BY <1>1, <1>2, <1>5, <2>1, <2>2, <2>3, <2>4, UnresolvedIs, LoadedStep
<1>6. QED BY <1>4, <1>5 DEF FirstEnds
-----------------------------------------------------------------------------
(* A connection enters a room, and the others of its client leave it       *)

LEMMA AttachStep ==
  ASSUME IInv, SameShared, refusals' = refusals, host' = host,
         NEW c \in Conns, NEW r \in Rooms, Attach(c, r),
         conn[c].open = "got", conn[c].at = "joining", conn[c].room = r, room[r].status # "closed"
  PROVE  IInv'
<1> DEFINE u      == conn[c].user
           others == {d \in room[r].peers : conn[d].user = u}
           d0     == Detached(room[r], others)
           ps     == d0.peers \cup {c}
           m      == [d0.member EXCEPT ![u] = c]
           y      == [d0 EXCEPT !.peers = ps, !.member = m]
           k      == ClosedConns(others)[c]
           x      == [k EXCEPT !.at = "joined", !.room = r, !.open = "no"]
<1>1. /\ conn[c] \in ConnType /\ ConnSound(conn[c]) /\ u \in Users /\ conn[c].tcp # "down"
      /\ room[r] \in RoomType /\ RoomSound(room[r]) /\ room[r].status = "open"
      /\ OneRoom /\ PeersAreJoined
  BY DEF IInv, ConnSound, Given
<1>2. c \notin room[r].peers /\ others \subseteq room[r].peers /\ room[r].peers \subseteq Conns
  BY <1>1 DEF PeersAreJoined
<1>3. conn' = [ClosedConns(others) EXCEPT ![c] = x]
  BY DEF Attach
<1>4. /\ d0 \in RoomType /\ RoomSound(d0) /\ d0.peers = room[r].peers \ others /\ d0.status = "open"
      /\ \A v \in Users : d0.member[v] = IF room[r].member[v] \in others THEN NoConn ELSE room[r].member[v]
  BY <1>1, DetachedIs, DetachedSound
<1>3a. room' = [room EXCEPT ![r] = y]
  BY DEF Attach
<1>5. k = conn[c]
  BY <1>2, ClosedConnsIs
<1> HIDE DEF d0, k
<1>6. ps \in SUBSET Conns /\ m \in [Users -> Conns \cup {NoConn}]
      /\ \A v \in Users : m[v] = IF v = u THEN c ELSE d0.member[v]
  BY <1>1, <1>4 DEF RoomType
<1> HIDE DEF ps, m
<1>7. /\ y \in RoomType /\ y.peers = ps /\ y.member = m /\ y.status = d0.status
      /\ y.closing = d0.closing /\ y.seq = d0.seq /\ y.journaled = d0.journaled
      /\ y.saved = d0.saved /\ y.mark = d0.mark /\ y.task = d0.task /\ y.purge = d0.purge
      /\ y.why = d0.why
  BY <1>4, <1>6 DEF RoomType
<1>8. RoomSound(y)
  BY <1>4, <1>7 DEF RoomSound, Numbered
<1>9. /\ x \in ConnType /\ x.at = "joined" /\ x.room = r /\ x.open = "no"
      /\ x.user = u /\ x.tcp = conn[c].tcp /\ x.tries = conn[c].tries
  BY <1>1, <1>5 DEF ConnType
<1>10. ConnSound(x)
  BY <1>1, <1>9 DEF ConnSound
<1> HIDE DEF x, y
<1>11. /\ room' \in [Rooms -> RoomType] /\ \A s \in Rooms : room'[s] = IF s = r THEN y ELSE room[s]
  BY <1>3a, <1>7 DEF IInv
<1>12. /\ conn' \in [Conns -> ConnType] /\ conn'[c] = x
       /\ \A d \in Conns : d # c => conn'[d] = ClosedConns(others)[d]
  BY <1>3, <1>9, ClosedConnsIs
<1>13. /\ \A d \in Conns : ConnSound(conn'[d])
       /\ \A d \in others : conn'[d].at = "closed"
       /\ \A d \in Conns : d # c /\ d \notin others => conn'[d] = conn[d]
       /\ \A d \in Conns : conn'[d].open = "got" => Given(conn'[d].room)
  <2> DEFINE cc == ClosedConns(others)
  <2>1. /\ \A d \in Conns : ConnSound(cc[d])
        /\ \A d \in others \cap Conns : cc[d].at = "closed"
        /\ \A d \in Conns \ others : cc[d] = conn[d]
        /\ \A d \in Conns : cc[d].open = "got" => Given(cc[d].room)
    BY ClosedConnsIs
  <2> HIDE DEF cc, others
  <2>2. \A d \in Conns : conn'[d] = IF d = c THEN x ELSE cc[d]
    BY <1>12 DEF cc
  <2>3. \A d \in Conns : ConnSound(conn'[d])
    BY <1>10, <2>1, <2>2
  <2>4. \A d \in others : conn'[d].at = "closed"
    BY <1>2, <2>1, <2>2
  <2>5. \A d \in Conns : d # c /\ d \notin others => conn'[d] = conn[d]
    BY <2>1, <2>2
  <2>6. \A d \in Conns : conn'[d].open = "got" => Given(conn'[d].room)
    BY <1>9, <2>1, <2>2
  <2>7. QED BY <2>3, <2>4, <2>5, <2>6
<1> HIDE DEF others
<1>14. OneRoom'
  BY <1>1, <1>4, <1>7, <1>11 DEF OneRoom
<1>15. \A s \in Rooms : room[s].peers = {d \in Conns : conn[d].at = "joined" /\ conn[d].room = s}
  BY <1>1 DEF PeersAreJoined
<1>16. ps = (room[r].peers \ others) \cup {c}
  BY <1>4 DEF ps
<1>17. ASSUME NEW s \in Rooms
       PROVE  room'[s].peers = {d \in Conns : conn'[d].at = "joined" /\ conn'[d].room = s}
  <2>1. CASE s = r
    BY <1>2, <1>7, <1>9, <1>11, <1>12, <1>13, <1>15, <1>16, <2>1
  <2>2. CASE s # r
    <3>1. \A d \in others : conn[d].room = r /\ d \in Conns
      BY <1>2, <1>15
    <3>2. conn[c].at # "joined" OBVIOUS
    <3>3. room'[s].peers = room[s].peers BY <1>11, <2>2
    <3>4. ASSUME NEW d \in Conns
          PROVE  (conn'[d].at = "joined" /\ conn'[d].room = s) <=> (conn[d].at = "joined" /\ conn[d].room = s)
      <4>1. CASE d = c BY <1>9, <1>12, <2>2, <3>2, <4>1
      <4>2. CASE d # c /\ d \in others BY <1>13, <2>2, <3>1, <4>2
      <4>3. CASE d # c /\ d \notin others BY <1>13, <4>3
      <4>4. QED BY <4>1, <4>2, <4>3
    <3>5. QED BY <1>15, <3>3, <3>4
  <2>3. QED BY <2>1, <2>2
<1>18. ASSUME NEW s \in Rooms, NEW v \in Users
       PROVE  {d \in room'[s].peers : conn'[d].user = v}
                = (IF room'[s].member[v] = NoConn THEN {} ELSE {room'[s].member[v]})
  <2>0. {d \in room[s].peers : conn[d].user = v}
          = (IF room[s].member[v] = NoConn THEN {} ELSE {room[s].member[v]})
    BY <1>1 DEF PeersAreJoined
  <2>1. CASE s # r
    <3>1. room'[s] = room[s] BY <1>11, <2>1
    <3>2. \A d \in room[s].peers : conn'[d] = conn[d]
      BY <1>2, <1>13, <1>15, <2>1
    <3>3. {d \in room[s].peers : conn'[d].user = v} = {d \in room[s].peers : conn[d].user = v}
      BY <3>2
    <3>4. QED BY <2>0, <3>1, <3>3
  <2>2. CASE s = r /\ v = u
    <3>1. {d \in ps : conn'[d].user = u} = {c}
      <4>1. conn'[c].user = u BY <1>9, <1>12
      <4>2. \A d \in room[r].peers \ others : conn'[d].user # u
        BY <1>2, <1>13 DEF others
      <4>3. QED BY <1>16, <4>1, <4>2
    <3>2. room'[s].member[v] = c BY <1>6, <1>7, <1>11, <2>2
    <3>3. QED BY <1>7, <1>11, <2>2, <3>1, <3>2, NotConn
  <2>3. CASE s = r /\ v # u
    <3>1. {d \in ps : conn'[d].user = v} = {d \in room[r].peers : conn[d].user = v}
      <4>1. conn'[c].user # v BY <1>9, <1>12, <2>3
      <4>2. \A d \in room[r].peers \ others : conn'[d] = conn[d]
        BY <1>2, <1>13
      <4>3. \A d \in room[r].peers : conn[d].user = v => d \notin others
        BY <2>3 DEF others
      <4>4. QED BY <1>16, <4>1, <4>2, <4>3
    <3>2. room'[s].member[v] = room[r].member[v]
      <4>1. room[r].member[v] \notin others
        <5>1. CASE room[r].member[v] = NoConn BY <1>2, <5>1, NotConn
        <5>2. CASE room[r].member[v] # NoConn
          <6>1. conn[room[r].member[v]].user = v BY <2>0, <2>3, <5>2
          <6>2. QED BY <2>3, <6>1 DEF others
        <5>3. QED BY <5>1, <5>2
      <4>2. QED BY <1>4, <1>6, <1>7, <1>11, <2>3, <4>1
    <3>3. QED BY <1>7, <1>11, <2>0, <2>3, <3>1, <3>2
  <2>4. QED BY <2>1, <2>2, <2>3
<1>19. /\ \A s \in Rooms : \A d \in room'[s].peers : conn'[d].tcp # "down"
       /\ \A s \in Rooms : room'[s].status # "open" => room'[s].peers = {}
  <2>1. ASSUME NEW s \in Rooms, NEW d \in room'[s].peers PROVE conn'[d].tcp # "down"
    <3>1. d \in Conns /\ conn'[d].at = "joined" BY <1>17
    <3>2. QED BY <1>13, <3>1 DEF ConnSound
  <2>2. \A s \in Rooms : room'[s].status # "open" => room'[s].peers = {}
    BY <1>1, <1>4, <1>7, <1>11 DEF PeersAreJoined
  <2>3. QED BY <2>1, <2>2
<1>20. PeersAreJoined'
  BY <1>17, <1>18, <1>19 DEF PeersAreJoined
<1>21. \A s \in Rooms : room'[s].status = room[s].status
  BY <1>1, <1>4, <1>7, <1>11
<1>22. /\ \A s \in Rooms : RoomSound(room'[s])
       /\ \A s, q \in Rooms : room'[s].status = "first" /\ room'[q].status = "first" => s = q
  BY <1>8, <1>11, <1>21 DEF IInv
<1>23. \A d \in Conns : conn'[d].open = "got" => room'[conn'[d].room].status \in {"open", "closed"}
  BY <1>13, <1>21 DEF ConnSound, Given
<1>24. \A q \in refusals' : room'[q.room].status \in {"open", "closed"}
  BY <1>21 DEF IInv, Given
<1>25. host' \in HostType /\ (host'.load # "none" => host'.room = NoRoom)
       /\ refusals' \subseteq [conn : Conns, room : Rooms, got : {"forbidden", "not-found"}]
  BY DEF IInv
<1>26. QED BY <1>11, <1>12, <1>13, <1>14, <1>20, <1>22, <1>23, <1>24, <1>25 DEF IInv, SameShared, Given

\* hello goes on: it is turned away, or its connection enters.
LEMMA ContinueStep ==
  ASSUME IInv, NEW c \in Conns, Continue(c)
  PROVE  IInv'
<1>1. /\ conn[c].room \in Rooms /\ conn[c].open = "got"
      /\ refusals' = refusals /\ host' = host /\ SameShared
  BY DEF Continue, IInv, ConnSound, SameShared
<1>2. CASE room' = room
  <2>1. CASE IInv' BY <2>1
  <2>2. CASE \E r \in Rooms : conn[c].open = "got" /\ conn[c].at = "joining"
                            /\ room[r].status # "closed" /\ r = conn[c].room /\ Attach(c, r)
    BY <1>1, <2>2, AttachStep
  <2>3. QED BY <1>2, <2>1, <2>2, TurnedAway
<1>3. CASE /\ room[conn[c].room].status # "closed" /\ conn[c].at = "joining"
           /\ Attach(c, conn[c].room)
  BY <1>1, <1>3, AttachStep
<1>4. QED BY <1>2, <1>3 DEF Continue
-----------------------------------------------------------------------------
(* The invariant                                                           *)

LEMMA InitIInv == Init => IInv
<1> SUFFICES ASSUME Init PROVE IInv
  OBVIOUS
<1>1. /\ row = "there" /\ members \subseteq Users /\ data = {} /\ refusals = {}
      /\ host \in HostType /\ host.room = NoRoom /\ host.load = "none"
  BY DEF Init, HostType
<1>2. /\ room \in [Rooms -> RoomType] /\ conn \in [Conns -> ConnType]
      /\ \A r \in Rooms : room[r] = UnusedRoom
      /\ \A c \in Conns : conn[c] = Gone
  BY UnusedIs, GoneIs DEF Init
<1>3. /\ Gone.at = "closed" /\ Gone.open = "no" /\ UnusedRoom.status = "unused"
      /\ UnusedRoom.peers = {} /\ \A u \in Users : UnusedRoom.member[u] = NoConn
  BY DEF Gone, UnusedRoom
<1>4. RoomSound(UnusedRoom)
  BY DEF RoomSound, Numbered, UnusedRoom
<1>5. OneRoom
  BY <1>1, <1>2, <1>3, NotConn DEF OneRoom
<1>6. PeersAreJoined
  BY <1>2, <1>3 DEF PeersAreJoined
<1>7. QED BY <1>1, <1>2, <1>3, <1>4, <1>5, <1>6, GoneIs DEF IInv

LEMMA NextIInv == IInv /\ [Next]_vars => IInv'
<1> SUFFICES ASSUME IInv, [Next]_vars PROVE IInv'
  OBVIOUS
<1>1. ASSUME NEW c \in Conns, Connection(c) PROVE IInv'
  <2>1. CASE \E u \in Users : Upgrade(c, u) BY <2>1, UpgradeStep
  <2>2. CASE ReadRights(c) BY <2>2, ReadRightsStep
  <2>3. CASE Accept(c) BY <2>3, AcceptStep
  <2>4. CASE Hello(c) BY <2>4, HelloStep
  <2>5. CASE HelloLate(c) BY <2>5, HelloLateStep
  <2>6. CASE Open(c) BY <2>6, OpenStep
  <2>7. CASE Continue(c) BY <2>7, ContinueStep
  <2>8. CASE Edit(c) BY <2>8, EditStep
  <2>9. CASE Verify(c) BY <2>9, SharingStep
  <2>10. CASE ClientLeaves(c) BY <2>10, DownStep DEF ClientLeaves
  <2>11. CASE Cut(c) BY <2>11, CutStep
  <2>12. CASE SocketEnds(c) BY <2>12, DownStep DEF SocketEnds
  <2>13. CASE ServerCloses(c)
    <3>1. /\ CloseConns({c}) /\ host' = host /\ refusals' = refusals /\ SameShared
      BY <2>13 DEF ServerCloses, SameShared, IInv
    <3>2. QED BY <3>1, CloseConnStep
  <2>14. QED BY <1>1, <2>1, <2>2, <2>3, <2>4, <2>5, <2>6, <2>7, <2>8, <2>9, <2>10, <2>11,
              <2>12, <2>13 DEF Connection
<1>2. ASSUME NEW r \in Rooms, Hosted(r) PROVE IInv'
  <2>1. CASE FirstEnds(r) BY <2>1, FirstEndsStep
  <2>2. CASE Flush(r) \/ Maintain(r) \/ ShutDown(r) BY <2>2, TaskStep
  <2>3. CASE JournalLands(r) BY <2>3, JournalLandsStep
  <2>4. CASE JournalFails(r) \/ StopEnds(r) \/ RoomFails(r) BY <2>4, EndsStep
  <2>5. CASE CheckpointEnds(r) BY <2>5, CheckpointEndsStep
  <2>6. CASE Purge(r) BY <2>6, PurgeStep
  <2>7. QED BY <1>2, <2>1, <2>2, <2>3, <2>4, <2>5, <2>6 DEF Hosted
<1>3. CASE \E k \in refusals : Refuse(k) BY <1>3, RefuseStep
<1>4. CASE LoadEnds BY <1>4, LoadEndsStep
<1>5. CASE LoadFails BY <1>5, LoadFailsStep
<1>6. CASE Stop BY <1>6, StopStep
<1>7. CASE Stopped \/ (\E u \in Users : Remove(u)) \/ DeleteData \/ DeleteRow
  BY <1>7, SharingStep
<1>8. CASE UNCHANGED vars
  BY <1>8 DEF vars, IInv, OneRoom, PeersAreJoined, Given
<1>9. QED BY <1>1, <1>2, <1>3, <1>4, <1>5, <1>6, <1>7, <1>8 DEF Next

LEMMA AlwaysIInv == Spec => []IInv
BY InitIInv, NextIInv, PTL DEF Spec
-----------------------------------------------------------------------------
(* What follows                                                            *)

LEMMA AgreeFollows == IInv => RoomsAgree
<1> SUFFICES ASSUME IInv PROVE RoomsAgree
  OBVIOUS
<1>1. ASSUME NEW r \in Rooms
      PROVE  /\ room[r].status \in {"unused", "first", "open", "closed"}
             /\ room[r].peers \subseteq Conns
             /\ -1 <= room[r].saved /\ room[r].saved <= room[r].journaled
             /\ room[r].journaled <= room[r].seq /\ room[r].mark <= room[r].seq
             /\ room[r].closing => room[r].status \in {"open", "closed"}
  <2>1. room[r] \in RoomType /\ RoomSound(room[r]) BY DEF IInv
  <2>2. QED BY <2>1 DEF RoomType, RoomSound, Numbered
<1>2. ASSUME NEW c \in Conns
      PROVE  /\ conn[c].at \in {"auth", "granted", "hello", "joining", "joined", "closed"}
             /\ conn[c].tcp \in {"up", "cut", "down"} /\ conn[c].user \in Users \union {"none"}
             /\ conn[c].tries \in 0..2
             /\ conn[c].at = "joined" => conn[c].room \in Rooms
  <2>1. conn[c] \in ConnType /\ ConnSound(conn[c]) BY DEF IInv
  <2>2. QED BY <2>1 DEF ConnType, ConnSound
<1>3. TypeOK
  BY <1>1, <1>2 DEF IInv, TypeOK, HostType
<1>4. QED BY <1>3 DEF IInv, RoomsAgree

\* The variables keep their types, at most one instance of the room is open
\* and the host finds it, and the peers of a room are the connections that
\* joined it, one per client, whatever is awaited when rooms and connections
\* close (attach, detach, close and open of
\* roomHost.ts:168-189 and 541-573, hello of connection.ts:329-361).
THEOREM RoomsAlwaysAgree == Spec => []RoomsAgree
<1>1. IInv => RoomsAgree BY AgreeFollows
<1>2. QED BY <1>1, AlwaysIInv, PTL

\* The purge of a deleted project comes after everything its room was writing,
\* and nothing is written after it (projectDeleted,
\* roomHost.ts:226-239, and the queue its purge waits in).
THEOREM PurgeAlwaysLast == Spec => []PurgeIsLast
<1>1. IInv => PurgeIsLast BY DEF IInv, RoomSound, PurgeIsLast
<1>2. QED BY <1>1, AlwaysIInv, PTL

\* A room unloaded because nobody is left has written every batch it accepted
\* (unloadIfIdle, roomHost.ts:417).
THEOREM IdleNeverLoses == Spec => []IdleLosesNothing
<1>1. IInv => IdleLosesNothing BY DEF IInv, RoomSound, IdleLosesNothing
<1>2. QED BY <1>1, AlwaysIInv, PTL
-----------------------------------------------------------------------------
(* Slots                                                                   *)

Settled(k) == k.at \notin {"auth", "granted"}

\* A socket that holds a slot of its user.
Counts(k, u) == k.user = u /\ Settled(k) /\ k.tcp # "down"
Sockets(u) == {c \in Conns : Counts(conn[c], u)}

SInv ==
  /\ slots \in [Users -> Int]
  /\ \A u \in Users : IsFiniteSet(Sockets(u)) /\ slots[u] = Cardinality(Sockets(u))
  /\ \A c \in Conns : conn[c].tcp # "down" => conn[c].user \in Users
  /\ \A k \in refusals : Settled(conn[k.conn])

\* What becomes of a connection without its socket ending or being accepted.
Same(k, x) ==
  /\ \A u \in Users : Counts(x, u) <=> Counts(k, u)
  /\ Settled(k) => Settled(x)
  /\ x.tcp # "down" => k.tcp # "down" /\ x.user = k.user

LEMMA ClosedSame ==
  ASSUME NEW k \in ConnType, Settled(k)
  PROVE  Same(k, Closed(k)) /\ Same(k, Failed(k))
<1>1. ASSUME NEW y \in ConnType, y.tcp = k.tcp, y.user = k.user
      PROVE  Same(k, Closed(y))
  <2> DEFINE x == [y EXCEPT !.at = "closed", !.room = IF y.open = "got" THEN @ ELSE NoRoom]
  <2>1. x.at = "closed" /\ x.tcp = k.tcp /\ x.user = k.user
    BY <1>1 DEF ConnType
  <2>2. Closed(y) = Rest(x) BY DEF Closed
  <2> HIDE DEF x
  <2>3. CASE Closed(y) = x
    BY <2>1, <2>3 DEF Same, Counts, Settled
  <2>4. CASE Closed(y) = Gone /\ x.tcp = "down"
    <3>1. Gone.at = "closed" /\ Gone.tcp = "down" BY DEF Gone
    <3>2. QED BY <2>1, <2>4, <3>1 DEF Same, Counts, Settled
  <2>5. QED BY <2>2, <2>3, <2>4 DEF Rest
<1> DEFINE z == [k EXCEPT !.open = "no"]
<1>2. z \in ConnType /\ z.tcp = k.tcp /\ z.user = k.user
  BY DEF ConnType
<1>3. Same(k, Closed(z)) /\ Same(k, Closed(k))
  BY <1>1, <1>2
<1>4. QED BY <1>3 DEF Failed

LEMMA ClosedConnsSame ==
  ASSUME IInv, NEW cs, \A c \in cs \cap Conns : Settled(conn[c])
  PROVE  \A c \in Conns : Same(conn[c], ClosedConns(cs)[c])
<1>1. ASSUME NEW c \in Conns PROVE Same(conn[c], ClosedConns(cs)[c])
  <2>1. conn[c] \in ConnType BY DEF IInv
  <2>2. CASE c \in cs
    <3>1. ClosedConns(cs)[c] = Closed(conn[c]) BY <2>2 DEF ClosedConns
    <3>2. QED BY <2>1, <2>2, <3>1, ClosedSame
  <2>3. CASE c \notin cs
    <3>1. ClosedConns(cs)[c] = conn[c] BY <2>3 DEF ClosedConns
    <3>2. QED BY <3>1 DEF Same
  <2>4. QED BY <2>2, <2>3
<1>2. QED BY <1>1

LEMMA PeersSettled ==
  ASSUME IInv, NEW r \in Rooms
  PROVE  \A c \in room[r].peers : c \in Conns /\ Settled(conn[c])
BY DEF IInv, PeersAreJoined, Settled

\* A step without acceptance or end of a socket.
LEMMA QuietStep ==
  ASSUME IInv, SInv, slots' = slots, refusals' \subseteq refusals,
         \/ conn' = conn
         \/ \A c \in Conns : Same(conn[c], conn'[c])
  PROVE  SInv'
<1>1. ASSUME NEW c \in Conns PROVE Same(conn[c], conn'[c])
  BY DEF Same
<1>2. ASSUME NEW u \in Users PROVE Sockets(u)' = Sockets(u)
  <2>1. \A c \in Conns : Counts(conn'[c], u) <=> Counts(conn[c], u)
    BY <1>1 DEF Same
  <2>2. Sockets(u)' = {c \in Conns : Counts(conn'[c], u)}
    BY DEF Sockets, Counts, Settled
  <2>3. QED BY <2>1, <2>2 DEF Sockets
<1>3. \A u \in Users : IsFiniteSet(Sockets(u)') /\ slots'[u] = Cardinality(Sockets(u)')
  BY <1>2 DEF SInv
<1>4. \A c \in Conns : conn'[c].tcp # "down" => conn'[c].user \in Users
  BY <1>1 DEF Same, SInv
<1>5. \A k \in refusals' : Settled(conn'[k.conn])
  BY <1>1 DEF IInv, SInv, Same
<1>6. QED BY <1>3, <1>4, <1>5 DEF SInv, Settled

\* A step of one connection.
LEMMA OneQuiet ==
  ASSUME IInv, SInv, slots' = slots, refusals' \subseteq refusals,
         NEW c \in Conns, NEW x, conn' = [conn EXCEPT ![c] = x], Same(conn[c], x)
  PROVE  SInv'
<1>1. \A d \in Conns : Same(conn[d], conn'[d])
  BY DEF IInv, Same
<1>2. QED BY <1>1, QuietStep

\* A room that closes, or is left as it is.
LEMMA RoomQuiet ==
  ASSUME IInv, SInv, slots' = slots, refusals' \subseteq refusals, NEW r \in Rooms,
         conn' = conn \/ conn' = ClosedConns(room[r].peers)
  PROVE  SInv'
<1>1. CASE conn' = ClosedConns(room[r].peers)
  <2>1. \A c \in Conns : Same(conn[c], conn'[c])
    BY <1>1, PeersSettled, ClosedConnsSame
  <2>2. QED BY <2>1, QuietStep
<1>2. QED BY <1>1, QuietStep

\* A slot is taken, or given back, with its socket.
LEMMA SlotStep ==
  ASSUME IInv, SInv, refusals' = refusals, NEW c \in Conns, NEW x, NEW u \in Users,
         conn' = [conn EXCEPT ![c] = x], Settled(conn[c]) => Settled(x),
         x.tcp # "down" => x.user \in Users,
         \A v \in Users \ {u} : Counts(x, v) <=> Counts(conn[c], v),
         \/ ~Counts(conn[c], u) /\ Counts(x, u) /\ slots' = [slots EXCEPT ![u] = @ + 1]
         \/ Counts(conn[c], u) /\ ~Counts(x, u) /\ slots' = [slots EXCEPT ![u] = @ - 1]
  PROVE  SInv'
<1>1. conn'[c] = x /\ \A d \in Conns \ {c} : conn'[d] = conn[d]
  BY DEF IInv
<1>2. ASSUME NEW v \in Users
      PROVE  Sockets(v)' = {d \in Conns : Counts(conn'[d], v)}
  BY DEF Sockets, Counts, Settled
<1>3. ASSUME NEW v \in Users \ {u}
      PROVE  Sockets(v)' = Sockets(v) /\ slots'[v] = slots[v]
  <2>1. \A d \in Conns : Counts(conn'[d], v) <=> Counts(conn[d], v)
    BY <1>1
  <2>2. Sockets(v)' = Sockets(v) BY <1>2, <2>1 DEF Sockets
  <2>3. QED BY <2>2 DEF SInv
<1>4. IsFiniteSet(Sockets(u)) /\ slots[u] = Cardinality(Sockets(u)) /\ slots[u] \in Int
      /\ slots' \in [Users -> Int]
  BY DEF SInv
<1>5. IsFiniteSet(Sockets(u)') /\ slots'[u] = Cardinality(Sockets(u)')
  <2>1. CASE ~Counts(conn[c], u) /\ Counts(x, u) /\ slots' = [slots EXCEPT ![u] = @ + 1]
    <3>1. Sockets(u)' = Sockets(u) \cup {c} /\ c \notin Sockets(u)
      BY <1>1, <1>2, <2>1 DEF Sockets
    <3>2. /\ IsFiniteSet(Sockets(u) \cup {c})
          /\ Cardinality(Sockets(u) \cup {c}) = Cardinality(Sockets(u)) + 1
      BY <1>4, <3>1, FS_AddElement
    <3>3. slots'[u] = slots[u] + 1 BY <2>1 DEF SInv
    <3>4. QED BY <1>4, <3>1, <3>2, <3>3
  <2>2. CASE Counts(conn[c], u) /\ ~Counts(x, u) /\ slots' = [slots EXCEPT ![u] = @ - 1]
    <3>1. Sockets(u)' = Sockets(u) \ {c} /\ c \in Sockets(u)
      BY <1>1, <1>2, <2>2 DEF Sockets
    <3>2. /\ IsFiniteSet(Sockets(u) \ {c})
          /\ Cardinality(Sockets(u) \ {c}) = Cardinality(Sockets(u)) - 1
      BY <1>4, <3>1, FS_RemoveElement
    <3>3. slots'[u] = slots[u] - 1 BY <2>2 DEF SInv
    <3>4. QED BY <1>4, <3>1, <3>2, <3>3
  <2>3. QED BY <2>1, <2>2
<1>6. \A v \in Users : IsFiniteSet(Sockets(v)') /\ slots'[v] = Cardinality(Sockets(v)')
  <2>1. ASSUME NEW v \in Users \ {u}
        PROVE  IsFiniteSet(Sockets(v)') /\ slots'[v] = Cardinality(Sockets(v)')
    BY <1>3 DEF SInv
  <2>2. QED BY <1>5, <2>1
<1>7. \A d \in Conns : conn'[d].tcp # "down" => conn'[d].user \in Users
  BY <1>1 DEF SInv
<1>8. \A k \in refusals' : Settled(conn'[k.conn])
  BY <1>1 DEF IInv, SInv
<1>9. QED BY <1>4, <1>6, <1>7, <1>8 DEF SInv, Settled

LEMMA UpgradeSlots ==
  ASSUME IInv, SInv, NEW c \in Conns, NEW u \in Users, Upgrade(c, u)
  PROVE  SInv'
<1> DEFINE x == [Gone EXCEPT !.at = "auth", !.tcp = "up", !.user = u]
<1>1. /\ slots' = slots /\ refusals' = refusals /\ conn' = [conn EXCEPT ![c] = x]
      /\ conn[c] = Gone /\ \A k \in refusals : k.conn # c
  BY DEF Upgrade, FreeConn
<1>2. x.at = "auth" /\ x.user = u /\ Gone.tcp = "down"
  BY DEF Gone
<1> HIDE DEF x
<1>3. conn'[c] = x /\ \A d \in Conns \ {c} : conn'[d] = conn[d]
  BY <1>1 DEF IInv
<1>4. ASSUME NEW v \in Users PROVE Sockets(v)' = Sockets(v)
  <2>1. ~Counts(x, v) /\ ~Counts(conn[c], v)
    BY <1>1, <1>2 DEF Counts, Settled
  <2>2. \A d \in Conns : Counts(conn'[d], v) <=> Counts(conn[d], v)
    BY <1>3, <2>1
  <2>3. Sockets(v)' = {d \in Conns : Counts(conn'[d], v)}
    BY DEF Sockets, Counts, Settled
  <2>4. QED BY <2>2, <2>3 DEF Sockets
<1>5. \A v \in Users : IsFiniteSet(Sockets(v)') /\ slots'[v] = Cardinality(Sockets(v)')
  BY <1>1, <1>4 DEF SInv
<1>6. \A d \in Conns : conn'[d].tcp # "down" => conn'[d].user \in Users
  BY <1>2, <1>3 DEF SInv
<1>7. \A k \in refusals' : Settled(conn'[k.conn])
  BY <1>1, <1>3 DEF IInv, SInv
<1>8. QED BY <1>1, <1>5, <1>6, <1>7 DEF SInv, Settled

LEMMA AcceptSlots ==
  ASSUME IInv, SInv, NEW c \in Conns, Accept(c)
  PROVE  SInv'
<1> DEFINE u == conn[c].user
           at == IF host.stop = "no" THEN "hello" ELSE "closed"
           x == [conn[c] EXCEPT !.at = at]
<1>1. /\ conn[c] \in ConnType /\ ConnSound(conn[c]) /\ conn[c].at = "granted"
      /\ refusals' = refusals /\ u \in Users
  BY DEF Accept, IInv, ConnSound
<1>2. CASE /\ conn[c].tcp # "down"
           /\ slots' = [slots EXCEPT ![u] = @ + 1]
           /\ conn' = [conn EXCEPT ![c].at = at]
  <2>1. at \in {"hello", "closed"} OBVIOUS
  <2> HIDE DEF at
  <2>2. conn' = [conn EXCEPT ![c] = x] BY <1>2
  <2>3. x.at = at /\ x.user = u /\ x.tcp = conn[c].tcp BY <1>1, <2>1 DEF ConnType
  <2> HIDE DEF x
  <2>4. /\ Settled(x) /\ ~Counts(conn[c], u) /\ Counts(x, u)
        /\ \A v \in Users \ {u} : Counts(x, v) <=> Counts(conn[c], v)
    BY <1>1, <1>2, <2>1, <2>3 DEF Settled, Counts
  <2>5. x.user \in Users BY <1>1, <2>3
  <2>6. QED BY <1>1, <1>2, <2>2, <2>4, <2>5, SlotStep
<1>3. CASE conn' = [conn EXCEPT ![c] = Gone] /\ UNCHANGED slots
  <2>1. Gone.tcp = "down" /\ Gone.at = "closed" BY DEF Gone
  <2>2. Same(conn[c], Gone) BY <1>1, <2>1 DEF Same, Counts, Settled
  <2>3. QED BY <1>1, <1>3, <2>2, OneQuiet
<1>4. QED BY <1>2, <1>3 DEF Accept

LEMMA DownSlots ==
  ASSUME IInv, SInv, NEW c \in Conns, Down(c), conn[c].tcp # "down"
  PROVE  SInv'
<1> DEFINE u == conn[c].user
           y == [conn[c] EXCEPT !.tcp = "down"]
<1>1. conn[c] \in ConnType /\ u \in Users /\ refusals' = refusals
  BY DEF Down, IInv, SInv
<1>2. y \in ConnType /\ y.tcp = "down" /\ y.user = u /\ y.at = conn[c].at
  BY <1>1 DEF ConnType
<1>3. CASE conn[c].at \in {"auth", "granted"}
  <2>1. conn' = [conn EXCEPT ![c] = y] /\ slots' = slots BY <1>3 DEF Down
  <2>2. Same(conn[c], y) BY <1>2, <1>3 DEF Same, Counts, Settled
  <2>3. QED BY <1>1, <2>1, <2>2, OneQuiet
<1>4. CASE conn[c].at \notin {"auth", "granted"}
  <2>1. conn' = [conn EXCEPT ![c] = Closed(y)] /\ slots' = [slots EXCEPT ![u] = @ - 1]
    BY <1>4 DEF Down
  <2>2. Same(y, Closed(y)) BY <1>2, <1>4, ClosedSame DEF Settled
  <2>3. \A v \in Users : ~Counts(Closed(y), v) BY <1>2, <2>2 DEF Same, Counts
  <2>4. Counts(conn[c], u) /\ Settled(Closed(y)) /\ Closed(y).tcp = "down"
    BY <1>2, <1>4, <2>2 DEF Same, Counts, Settled
  <2>5. \A v \in Users \ {u} : ~Counts(conn[c], v) BY DEF Counts
  <2>6. QED BY <1>1, <2>1, <2>3, <2>4, <2>5, SlotStep
<1>5. QED BY <1>3, <1>4
\* What a connection does without its socket.
LEMMA HelloSlots ==
  ASSUME IInv, SInv, NEW c \in Conns,
         ReadRights(c) \/ Hello(c) \/ HelloLate(c) \/ Open(c) \/ Cut(c) \/ ServerCloses(c)
  PROVE  SInv'
<1>1. /\ conn[c] \in ConnType /\ ConnSound(conn[c]) /\ slots' = slots /\ refusals' = refusals
  BY DEF ReadRights, Hello, HelloLate, Open, Cut, ServerCloses, IInv
<1>2. CASE ReadRights(c)
  <2> DEFINE x == [conn[c] EXCEPT !.at = "granted"]
  <2>1. conn[c].at = "auth" /\ (conn' = [conn EXCEPT ![c] = x] \/ conn' = [conn EXCEPT ![c] = Gone])
    BY <1>2 DEF ReadRights
  <2>2. x.at = "granted" /\ x.tcp = conn[c].tcp /\ x.user = conn[c].user /\ Gone.tcp = "down"
    BY <1>1 DEF ConnType, Gone
  <2>3. Same(conn[c], x) /\ Same(conn[c], Gone)
    BY <2>1, <2>2 DEF Same, Counts, Settled
  <2>4. QED BY <1>1, <2>1, <2>3, OneQuiet
<1>3. CASE Hello(c)
  <2> DEFINE x == [conn[c] EXCEPT !.at = "joining", !.open = "ask"]
  <2>1. conn' = [conn EXCEPT ![c] = x] /\ conn[c].at = "hello"
    BY <1>3 DEF Hello, IInv
  <2>2. x.at = "joining" /\ x.tcp = conn[c].tcp /\ x.user = conn[c].user
    BY <1>1 DEF ConnType
  <2>3. Same(conn[c], x) BY <2>1, <2>2 DEF Same, Counts, Settled
  <2>4. QED BY <1>1, <2>1, <2>3, OneQuiet
<1>4. CASE HelloLate(c) \/ ServerCloses(c)
  <2>1. conn' = ClosedConns({c}) /\ Settled(conn[c])
    BY <1>4 DEF HelloLate, ServerCloses, CloseConns, Settled
  <2>2. \A d \in Conns : Same(conn[d], conn'[d]) BY <2>1, ClosedConnsSame
  <2>3. QED BY <1>1, <2>2, QuietStep
<1>5. CASE Open(c)
  <2>1. Settled(conn[c]) BY <1>1, <1>5 DEF Open, ConnSound, Settled
  <2>2. CASE conn' = [conn EXCEPT ![c] = Failed(conn[c])]
    BY <1>1, <2>1, <2>2, ClosedSame, OneQuiet
  <2>3. CASE conn' = [conn EXCEPT ![c].open = IF host.room # NoRoom THEN "got" ELSE "wait",
                                  ![c].room = host.room, ![c].tries = @ + 1]
    <3> DEFINE x == [conn[c] EXCEPT !.open = IF host.room # NoRoom THEN "got" ELSE "wait",
                                    !.room = host.room, !.tries = @ + 1]
    <3>1. conn' = [conn EXCEPT ![c] = x] BY <2>3 DEF IInv
    <3>2. x.at = conn[c].at /\ x.tcp = conn[c].tcp /\ x.user = conn[c].user
      BY <1>1 DEF ConnType
    <3> HIDE DEF x
    <3>3. Same(conn[c], x) BY <3>2 DEF Same, Counts, Settled
    <3>4. QED BY <1>1, <3>1, <3>3, OneQuiet
  <2>4. QED BY <1>5, <2>2, <2>3 DEF Open
<1>6. CASE Cut(c)
  <2> DEFINE x == [conn[c] EXCEPT !.tcp = "cut"]
  <2>1. conn' = [conn EXCEPT ![c] = x] /\ conn[c].tcp = "up" BY <1>6 DEF Cut
  <2>2. x.at = conn[c].at /\ x.tcp = "cut" /\ x.user = conn[c].user BY <1>1 DEF ConnType
  <2>3. Same(conn[c], x) BY <2>1, <2>2 DEF Same, Counts, Settled
  <2>4. QED BY <1>1, <2>1, <2>3, OneQuiet
<1>7. QED BY <1>2, <1>3, <1>4, <1>5, <1>6

LEMMA ContinueSlots ==
  ASSUME IInv, SInv, NEW c \in Conns, Continue(c)
  PROVE  SInv'
<1>1. /\ conn[c] \in ConnType /\ ConnSound(conn[c]) /\ slots' = slots /\ refusals' = refusals
      /\ Settled(conn[c]) /\ conn[c].room \in Rooms
  BY DEF Continue, IInv, ConnSound, Settled
<1>2. CASE conn' = [conn EXCEPT ![c] = Failed(conn[c])]
  BY <1>1, <1>2, ClosedSame, OneQuiet
<1>3. CASE conn' = [conn EXCEPT ![c].open = "ask", ![c].room = NoRoom]
  <2> DEFINE x == [conn[c] EXCEPT !.open = "ask", !.room = NoRoom]
  <2>1. conn' = [conn EXCEPT ![c] = x] BY <1>3 DEF IInv
  <2>2. x.at = conn[c].at /\ x.tcp = conn[c].tcp /\ x.user = conn[c].user
    BY <1>1 DEF ConnType
  <2> HIDE DEF x
  <2>3. Same(conn[c], x) BY <2>2 DEF Same, Counts, Settled
  <2>4. QED BY <1>1, <2>1, <2>3, OneQuiet
<1>4. CASE conn[c].at = "joining" /\ Attach(c, conn[c].room)
  <2> DEFINE r == conn[c].room
             others == {d \in room[r].peers : conn[d].user = conn[c].user}
             k == ClosedConns(others)[c]
             x == [k EXCEPT !.at = "joined", !.room = r, !.open = "no"]
  <2>1. conn' = [ClosedConns(others) EXCEPT ![c] = x] BY <1>4 DEF Attach
  <2>2. c \notin others /\ others \subseteq room[r].peers
    BY <1>1, <1>4 DEF IInv, PeersAreJoined
  <2>3. \A d \in Conns : Same(conn[d], ClosedConns(others)[d])
    BY <1>1, <2>2, PeersSettled, ClosedConnsSame
  <2>4. k = conn[c] BY <2>2, ClosedConnsIs
  <2> HIDE DEF k
  <2>5. x.at = "joined" /\ x.tcp = conn[c].tcp /\ x.user = conn[c].user
    BY <1>1, <2>4 DEF ConnType
  <2> HIDE DEF x
  <2>6. Same(conn[c], x) BY <1>1, <2>5 DEF Same, Counts, Settled
  <2>7. ClosedConns(others) \in [Conns -> ConnType] BY ClosedConnsIs
  <2> HIDE DEF others
  <2>8. ASSUME NEW d \in Conns PROVE Same(conn[d], conn'[d])
    BY <2>1, <2>3, <2>6, <2>7
  <2>9. QED BY <1>1, <2>8, QuietStep
<1>5. QED BY <1>2, <1>3, <1>4 DEF Continue

LEMMA VerifySlots ==
  ASSUME IInv, SInv, NEW c \in Conns, Verify(c)
  PROVE  SInv'
<1>1. /\ conn' = conn /\ slots' = slots /\ conn[c].at = "joined"
      /\ refusals' = refusals \cup {[conn |-> c, room |-> conn[c].room, got |-> Rights(conn[c].user)]}
  BY DEF Verify
<1>2. \A u \in Users : Sockets(u)' = Sockets(u)
  BY <1>1 DEF Sockets, Counts, Settled
<1>3. \A k \in refusals' : Settled(conn[k.conn])
  BY <1>1 DEF SInv, Settled
<1>4. QED BY <1>1, <1>2, <1>3 DEF SInv, Settled
\* Those who wait for a load are answered.
LEMMA LoadSlots ==
  ASSUME IInv, SInv, slots' = slots, refusals' = refusals,
         conn' = conn \/ conn' = Unresolved \/ \E r \in Rooms : conn' = Resolved(r)
  PROVE  SInv'
<1>1. ASSUME NEW c \in Conns
      PROVE  /\ Same(conn[c], Unresolved[c])
             /\ \A r \in Rooms : Same(conn[c], Resolved(r)[c])
  <2>1. conn[c] \in ConnType /\ ConnSound(conn[c]) BY DEF IInv
  <2>2. CASE conn[c].open = "wait"
    <3>1. Settled(conn[c]) BY <2>1, <2>2 DEF ConnSound, Settled
    <3>2. Unresolved[c] = Failed(conn[c]) BY <2>2 DEF Unresolved, Waiting
    <3>3. ASSUME NEW r \in Rooms PROVE Same(conn[c], Resolved(r)[c])
      <4> DEFINE x == [conn[c] EXCEPT !.open = "got", !.room = r]
      <4>1. Resolved(r)[c] = x BY <2>2 DEF Resolved, Waiting
      <4>2. x.at = conn[c].at /\ x.tcp = conn[c].tcp /\ x.user = conn[c].user
        BY <2>1 DEF ConnType
      <4> HIDE DEF x
      <4>3. QED BY <4>1, <4>2 DEF Same, Counts, Settled
    <3>4. QED BY <2>1, <3>1, <3>2, <3>3, ClosedSame
  <2>3. CASE conn[c].open # "wait"
    <3>1. Unresolved[c] = conn[c] /\ \A r \in Rooms : Resolved(r)[c] = conn[c]
      BY <2>3 DEF Unresolved, Resolved, Waiting
    <3>2. QED BY <3>1 DEF Same
  <2>4. QED BY <2>2, <2>3
<1>2. QED BY <1>1, QuietStep

\* A room that its queue or a failure closes.
LEMMA HostedSlots ==
  ASSUME IInv, SInv, NEW r \in Rooms, Hosted(r)
  PROVE  SInv'
<1>1. /\ slots' = slots /\ refusals' = refusals
      /\ room[r] \in RoomType /\ Done(room[r]).peers = room[r].peers
  BY DoneIs DEF Hosted, FirstEnds, Flush, Maintain, ShutDown, Task, JournalLands, JournalFails,
                StopEnds, CheckpointEnds, Purge, RoomFails, IInv
<1>2. CASE FirstEnds(r) BY <1>1, <1>2, LoadSlots DEF FirstEnds
<1>3. CASE Flush(r) \/ Maintain(r) \/ ShutDown(r) \/ JournalLands(r) \/ Purge(r)
  <2>1. conn' = conn BY <1>3 DEF Flush, Maintain, ShutDown, Task, JournalLands, Purge
  <2>2. QED BY <1>1, <2>1, QuietStep
<1>4. CASE JournalFails(r) \/ StopEnds(r) \/ RoomFails(r)
  <2>1. conn' = conn \/ conn' = ClosedConns(room[r].peers)
    BY <1>1, <1>4 DEF JournalFails, StopEnds, RoomFails, CloseRoom
  <2>2. QED BY <1>1, <2>1, RoomQuiet
<1>5. CASE CheckpointEnds(r)
  <2>1. Saved(room[r]).peers = room[r].peers
    <3>1. Done(room[r]) \in RoomType BY <1>1, DoneIs
    <3>2. QED BY <1>1, <3>1 DEF Saved, RoomType
  <2>2. \/ ProjectDeleted(r, Done(room[r]))
        \/ Unloaded(r, Done(room[r])) \/ Unloaded(r, Saved(room[r]))
        \/ conn' = conn
    BY <1>5 DEF CheckpointEnds
  <2>3. ASSUME NEW x \in {Done(room[r]), Saved(room[r])}, Unloaded(r, x)
        PROVE  conn' = conn \/ conn' = ClosedConns(room[r].peers)
    BY <1>1, <2>1, <2>3 DEF Unloaded, CloseRoom
  <2>4. ASSUME ProjectDeleted(r, Done(room[r])) PROVE conn' = ClosedConns(room[r].peers)
    <3> DEFINE y == Done(room[r])
               z == IF y.status = "closed" THEN y ELSE [y EXCEPT !.purge = "queued"]
    <3>1. y \in RoomType BY <1>1, DoneIs
    <3>2. z.peers = y.peers BY <3>1 DEF RoomType
    <3>3. CloseRoom(r, z, "deleted") BY <2>4 DEF ProjectDeleted
    <3>4. QED BY <1>1, <3>2, <3>3 DEF CloseRoom
  <2>5. conn' = conn \/ conn' = ClosedConns(room[r].peers)
    BY <2>2, <2>3, <2>4
  <2>6. QED BY <1>1, <2>5, RoomQuiet
<1>6. QED BY <1>2, <1>3, <1>4, <1>5 DEF Hosted

LEMMA RefuseSlots ==
  ASSUME IInv, SInv, NEW k \in refusals, Refuse(k)
  PROVE  SInv'
<1>1. /\ slots' = slots /\ refusals' \subseteq refusals /\ Settled(conn[k.conn])
      /\ k.room \in Rooms /\ room[k.room] \in RoomType
  BY DEF Refuse, SInv, IInv
<1>2. CASE CloseConns({k.conn})
  <2>1. conn' = ClosedConns({k.conn}) BY <1>2 DEF CloseConns
  <2>2. \A c \in Conns : Same(conn[c], conn'[c]) BY <1>1, <2>1, ClosedConnsSame
  <2>3. QED BY <1>1, <2>2, QuietStep
<1>3. CASE ProjectDeleted(k.room, room[k.room])
  <2> DEFINE y == room[k.room]
             z == IF y.status = "closed" THEN y ELSE [y EXCEPT !.purge = "queued"]
  <2>1. z.peers = y.peers BY <1>1 DEF RoomType
  <2>2. CloseRoom(k.room, z, "deleted") BY <1>3 DEF ProjectDeleted
  <2>3. conn' = ClosedConns(room[k.room].peers) BY <2>1, <2>2 DEF CloseRoom
  <2>4. QED BY <1>1, <2>3, RoomQuiet
<1>4. QED BY <1>2, <1>3 DEF Refuse

LEMMA InitSlots == Init => SInv
<1> SUFFICES ASSUME Init PROVE SInv
  OBVIOUS
<1>1. /\ slots = [u \in Users |-> 0] /\ refusals = {} /\ \A c \in Conns : conn[c].tcp = "down"
  BY DEF Init, Gone
<1>2. \A u \in Users : Sockets(u) = {}
  BY <1>1 DEF Sockets, Counts
<1>3. IsFiniteSet({}) /\ Cardinality({}) = 0
  BY FS_EmptySet
<1>4. QED BY <1>1, <1>2, <1>3 DEF SInv

LEMMA NextSlots == IInv /\ SInv /\ [Next]_vars => SInv'
<1> SUFFICES ASSUME IInv, SInv, [Next]_vars PROVE SInv'
  OBVIOUS
<1>1. ASSUME NEW c \in Conns, Connection(c) PROVE SInv'
  <2>1. CASE \E u \in Users : Upgrade(c, u) BY <2>1, UpgradeSlots
  <2>2. CASE ReadRights(c) \/ Hello(c) \/ HelloLate(c) \/ Open(c) \/ Cut(c) \/ ServerCloses(c)
    BY <2>2, HelloSlots
  <2>3. CASE Accept(c) BY <2>3, AcceptSlots
  <2>4. CASE Continue(c) BY <2>4, ContinueSlots
  <2>5. CASE Edit(c) BY <2>5, QuietStep DEF Edit
  <2>6. CASE Verify(c) BY <2>6, VerifySlots
  <2>7. CASE ClientLeaves(c) BY <2>7, DownSlots DEF ClientLeaves
  <2>8. CASE SocketEnds(c) BY <2>8, DownSlots DEF SocketEnds
  <2>9. QED BY <1>1, <2>1, <2>2, <2>3, <2>4, <2>5, <2>6, <2>7, <2>8 DEF Connection
<1>2. CASE \E r \in Rooms : Hosted(r) BY <1>2, HostedSlots
<1>3. CASE \E k \in refusals : Refuse(k) BY <1>3, RefuseSlots
<1>4. CASE LoadEnds \/ LoadFails
  <2>1. /\ slots' = slots /\ refusals' = refusals
        /\ conn' = conn \/ conn' = Unresolved \/ \E r \in Rooms : conn' = Resolved(r)
    BY <1>4 DEF LoadEnds, LoadFails
  <2>2. QED BY <2>1, LoadSlots
<1>5. CASE Stop \/ Stopped \/ (\E u \in Users : Remove(u)) \/ DeleteData \/ DeleteRow
           \/ UNCHANGED vars
  <2>1. slots' = slots /\ refusals' = refusals /\ conn' = conn
    BY <1>5 DEF Stop, Stopped, Remove, DeleteData, DeleteRow, vars
  <2>2. QED BY <2>1, QuietStep
<1>6. QED BY <1>1, <1>2, <1>3, <1>4, <1>5 DEF Next

\* A user has as many slots taken as sockets open, however upgrades, refusals,
\* failures and closures meet (takeUserSlot, server.ts:392, and the close of
\* its socket).
THEOREM SlotsAlwaysMatch == Spec => []SlotsMatchSockets
<1>1. SInv => SlotsMatchSockets
  BY DEF SInv, Sockets, Counts, Settled, SlotsMatchSockets
<1>2. QED BY <1>1, AlwaysIInv, InitSlots, NextSlots, PTL DEF Spec
=============================================================================
