----------------------------- MODULE LeaseGates -----------------------------
(***************************************************************************)
(* The gates of the clients around the room's leases: what each editor      *)
(* believes of the table, what it asks, and the messages in between         *)
(* (src/features/collab/client/leaseGate.ts; handleLease, join, leave and   *)
(* broadcastLeases of src/features/collab/room/room.ts).                    *)
(*                                                                          *)
(* Time is left out.  The timers of a gate (a renewal each third of the      *)
(* lease, two seconds before an unused lease is given back, ten before a     *)
(* request is repeated) may fire as soon as they are set, and a request or   *)
(* a renewal has any of the answers LeaseTable may give it at some time:     *)
(* LeaseHolders says which, and LeaseTable implements it.                     *)
(***************************************************************************)
EXTENDS LeaseKeys, Integers, Sequences

CONSTANTS
  MaxRuns,     \* computations a client runs at once for a key (bound)
  MaxSent,     \* messages on their way to the room (bound)
  MaxUnread    \* messages on their way to a client (bound)

ASSUME FlightAssumption ==
  MaxRuns \in Nat /\ MaxSent \in Nat /\ MaxUnread \in Nat

VARIABLES
  holder,     \* of each key, in the room: see LeaseHolders
  conn,       \* each client's connection: "off", "joining" or "on"
  up, down,   \* messages on their way to the room, and to the client
  told,       \* holder of each key, for the gate (leases)
  requested,  \* keys it has asked for
  unused,     \* keys with a timer of releaseIfUnused
  running     \* computations in progress

Table == INSTANCE LeaseHolders

room  == <<members, live, holder>>
gate  == <<told, requested, unused, running>>
wires == <<conn, up, down>>
gatesVars == <<room, gate, wires>>

Nobody  == [k \in Keys |-> NoOne]
Beliefs == [Keys -> Clients \cup {NoOne}]

GatesTypeOK ==
  /\ members \subseteq Clients /\ live \subseteq Itineraries
  /\ holder \in Beliefs
  /\ conn \in [Clients -> {"off", "joining", "on"}]
  /\ told \in [Clients -> Beliefs]
  /\ requested \in [Clients -> SUBSET Keys]
  /\ unused \in [Clients -> SUBSET Keys]
  /\ running \in [Clients -> [Keys -> 0..MaxRuns]]
  /\ \A c \in Clients :
       /\ Len(up[c]) <= MaxSent
       /\ conn[c] # "on" => told[c] = Nobody /\ requested[c] = {}
       /\ conn[c] = "joining" => Head(down[c]).type = "welcome"

----------------------------------------------------------------------------
(* Messages                                                                *)

\* isOnline
Online(c) == conn[c] = "on"

Send(c, action, k) ==
  /\ Len(up[c]) < MaxSent
  /\ up' = [up EXCEPT ![c] = Append(@, [action |-> action, key |-> k])]

LeaseList(type) == [type |-> type, holders |-> holder']

CanHear(d) == d \in members' /\ conn[d] # "off"

\* broadcastLeases: to every member, with the table as it is now.
Broadcast ==
  /\ \A d \in Clients : Len(down[d]) < MaxUnread
  /\ down' = [d \in Clients |-> IF CanHear(d) THEN Append(down[d], LeaseList("leases"))
                                              ELSE down[d]]

BroadcastIfChanged == IF holder' = holder THEN UNCHANGED down ELSE Broadcast

ToPeer(c, m) ==
  /\ Len(down[c]) < MaxUnread
  /\ down' = IF CanHear(c) THEN [down EXCEPT ![c] = Append(@, m)] ELSE down

Denied(k) == [type |-> "denied", key |-> k]

----------------------------------------------------------------------------
(* The gate                                                                *)

Holds(c, k) == told[c][k] = c

\* shouldCompute without a known lease: it is asked for, again if the first
\* request has had no answer for long.
Ask(c, k) ==
  /\ Online(c) /\ told[c][k] = NoOne
  /\ Send(c, "request", k)
  /\ requested' = [requested EXCEPT ![c] = @ \cup {k}]
  /\ UNCHANGED <<room, conn, down, told, unused, running>>

\* beginCompute, after a `yes' of shouldCompute or an action of the user.
Begin(c, k) ==
  /\ running[c][k] < MaxRuns
  /\ running' = [running EXCEPT ![c][k] = @ + 1]
  /\ IF Online(c) /\ told[c][k] = NoOne /\ k \notin requested[c]
     THEN /\ Send(c, "request", k)
          /\ requested' = [requested EXCEPT ![c] = @ \cup {k}]
     ELSE UNCHANGED <<up, requested>>
  /\ UNCHANGED <<room, conn, down, told, unused>>

\* The end beginCompute returned: the last one gives the lease back.
End(c, k) ==
  /\ running[c][k] > 0
  /\ running' = [running EXCEPT ![c][k] = @ - 1]
  /\ IF running[c][k] = 1 /\ Holds(c, k) /\ Online(c)
     THEN Send(c, "release", k) ELSE UNCHANGED up
  /\ UNCHANGED <<room, conn, down, told, requested, unused>>

RenewTimer(c, k) ==
  /\ running[c][k] > 0 /\ Holds(c, k) /\ Online(c)
  /\ Send(c, "renew", k)
  /\ UNCHANGED <<room, conn, down, gate>>

\* Timers of one key add up; the last one leaves none.
UnusedTimer(c, k) ==
  /\ k \in unused[c]
  /\ unused' \in {unused, [unused EXCEPT ![c] = @ \ {k}]}
  /\ IF Holds(c, k) /\ running[c][k] = 0 /\ Online(c)
     THEN Send(c, "release", k) ELSE UNCHANGED up
  /\ UNCHANGED <<room, conn, down, told, requested, running>>

\* (slip: a lease that came after the end of its computation is kept)
SetLeasesKeeping(c, holders) ==
  /\ told' = [told EXCEPT ![c] = holders]
  /\ requested' = [requested EXCEPT ![c] = {k \in @ : holders[k] = NoOne}]
  /\ UNCHANGED unused

SetLeases(c, holders) ==
  /\ told' = [told EXCEPT ![c] = holders]
  /\ requested' = [requested EXCEPT ![c] = {k \in @ : holders[k] = NoOne}]
  /\ unused' = [unused EXCEPT ![c] = @ \cup
       {k \in Keys : holders[k] = c /\ running[c][k] = 0}]

\* denied: it may ask again later.
SetDenied(c, k) ==
  /\ requested' = [requested EXCEPT ![c] = @ \ {k}]
  /\ UNCHANGED <<told, unused>>

\* A message of the room; `welcome' makes the client online first.
Receive(c) ==
  /\ conn[c] # "off" /\ down[c] # <<>>
  /\ down' = [down EXCEPT ![c] = Tail(@)]
  /\ LET m == Head(down[c])
     IN  /\ conn' = [conn EXCEPT ![c] = "on"]
         /\ IF m.type = "denied" THEN SetDenied(c, m.key)
                                 ELSE SetLeases(c, m.holders)
  /\ UNCHANGED <<room, up, running>>

\* connectionChanged(false): the gate forgets; its timers and computations
\* go on, and the room has not noticed yet.
Disconnect(c) ==
  /\ conn[c] # "off"
  /\ conn' = [conn EXCEPT ![c] = "off"]
  /\ down' = [down EXCEPT ![c] = <<>>]
  /\ told' = [told EXCEPT ![c] = Nobody]
  /\ requested' = [requested EXCEPT ![c] = {}]
  /\ UNCHANGED <<room, up, unused, running>>

----------------------------------------------------------------------------
(* The room                                                                *)

\* join, the earlier connection being gone (see LeaveRoom).
JoinRoom(c) ==
  /\ conn[c] = "off" /\ c \notin members
  /\ Table!Join(c)
  /\ conn' = [conn EXCEPT ![c] = "joining"]
  /\ up' = [up EXCEPT ![c] = <<>>]
  /\ down' = [down EXCEPT ![c] = <<LeaseList("welcome")>>]
  /\ UNCHANGED gate

\* leave: what the client had sent is not read any more.
LeaveRoom(c) ==
  /\ c \in members
  /\ Table!Leave(c)
  /\ up' = [up EXCEPT ![c] = <<>>]
  /\ BroadcastIfChanged
  /\ UNCHANGED <<conn, gate>>

\* (slip: a grant is told to the client that asked, and to no other)
HandleRequestQuietly(k, c) ==
  \/ (Table!Granted(k, c) \/ Table!Extended(k, c)) /\ ToPeer(c, LeaseList("leases"))
  \/ Table!Refused(k) /\ ToPeer(c, Denied(k))

\* handleLease, request: granted to a new holder, extended, or denied.
HandleRequest(k, c) ==
  \/ Table!Granted(k, c) /\ Broadcast
  \/ Table!Extended(k, c) /\ ToPeer(c, LeaseList("leases"))
  \/ Table!Refused(k) /\ ToPeer(c, Denied(k))

HandleRenew(k, c) ==
  \/ Table!Renewed(k, c) /\ UNCHANGED down
  \/ Table!NotRenewed(k) /\ ToPeer(c, LeaseList("leases"))

HandleRelease(k, c) ==
  IF holder[k] = c THEN Table!Release(k, c) /\ Broadcast
                   ELSE UNCHANGED <<holder, down>>

\* (slip: nothing is answered about an itinerary that was deleted)
HandleDeletedSilently(k, c) == UNCHANGED <<holder, down>>

HandleDeleted(k, c) == UNCHANGED holder /\ ToPeer(c, Denied(k))

\* handleLease
Handle(c) ==
  /\ c \in members /\ up[c] # <<>>
  /\ UNCHANGED <<members, live, conn, gate>>
  /\ up' = [up EXCEPT ![c] = Tail(@)]
  /\ LET m == Head(up[c])
     IN  IF m.key[2] \notin live THEN HandleDeleted(m.key, c)
         ELSE CASE m.action = "request" -> HandleRequest(m.key, c)
                [] m.action = "renew"   -> HandleRenew(m.key, c)
                [] m.action = "release" -> HandleRelease(m.key, c)

\* tick
ExpireLeases ==
  /\ Table!Expire /\ holder' # holder
  /\ Broadcast
  /\ UNCHANGED <<conn, up, gate>>

\* handleBatch: an itinerary is deleted (dropLeasesOfDeletedItineraries).
DeleteItinerary(i) ==
  /\ i \in live /\ members # {}
  /\ Table!Delete(i)
  /\ BroadcastIfChanged
  /\ UNCHANGED <<conn, up, gate>>

----------------------------------------------------------------------------

GatesInit ==
  /\ Table!Init
  /\ conn = [c \in Clients |-> "off"]
  /\ up   = [c \in Clients |-> <<>>]
  /\ down = [c \in Clients |-> <<>>]
  /\ told = [c \in Clients |-> Nobody]
  /\ requested = [c \in Clients |-> {}]
  /\ unused = [c \in Clients |-> {}]
  /\ running = [c \in Clients |-> [k \in Keys |-> 0]]

Computing(c, k) ==
  Ask(c, k) \/ Begin(c, k) \/ End(c, k) \/ RenewTimer(c, k) \/ UnusedTimer(c, k)

GatesNext ==
  \/ ExpireLeases
  \/ \E c \in Clients :
       \/ Receive(c) \/ Disconnect(c) \/ JoinRoom(c) \/ LeaveRoom(c) \/ Handle(c)
       \/ \E k \in Keys : Computing(c, k)
  \/ \E i \in Itineraries : DeleteItinerary(i)

GatesSpec == GatesInit /\ [][GatesNext]_gatesVars

----------------------------------------------------------------------------
(* Properties                                                              *)

\* Places of the lists of leases among messages, and the last of them.
Lists(s)    == {i \in DOMAIN s : s[i].type # "denied"}
LastList(s) == CHOOSE i \in Lists(s) : \A j \in Lists(s) : j <= i

\* What the gate of c will believe once it has read what is on its way.
Believes(h, s) == IF Lists(s) = {} THEN h ELSE s[LastList(s)].holders
Believed(c)    == Believes(told[c], down[c])

\* No editor takes a lease that is held for a free one or for its own: every
\* list of leases on its way brings its gate to the room's table, whatever
\* was granted, given back, expired or lost in between.
HolderIsKnown ==
  \A c \in members : conn[c] # "off" =>
    \A k \in Keys : holder[k] # NoOne => Believed(c)[k] = holder[k]

\* A lease is never left with a connected editor that does nothing with it:
\* its computation runs, or the timer that gives it back is set, or its
\* release is on its way, however late the grant came.
LeaseIsUsed ==
  \A c \in members : conn[c] = "on" /\ down[c] = <<>> =>
    \A k \in Keys : holder[k] = c =>
      \/ running[c][k] > 0 \/ k \in unused[c]
      \/ \E i \in DOMAIN up[c] : up[c][i] = [action |-> "release", key |-> k]

Answers(m, k) ==
  IF m.type = "denied" THEN m.key = k ELSE m.holders[k] # NoOne

\* Every request is answered on its own connection: a gate that waits has its
\* request or the answer on the way, so the ten seconds after which it may
\* repeat itself only ever cover a lost connection.
RequestIsAnswered ==
  \A c \in members : conn[c] = "on" =>
    \A k \in requested[c] :
      \/ \E i \in DOMAIN up[c] : up[c][i] = [action |-> "request", key |-> k]
      \/ \E i \in DOMAIN down[c] : Answers(down[c][i], k)

\* Types, and no gate that has read its messages misses the holder of a lease.
GatesAgree == GatesTypeOK /\ HolderIsKnown
=============================================================================
