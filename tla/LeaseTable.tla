----------------------------- MODULE LeaseTable -----------------------------
(***************************************************************************)
(* The leases a room gives on derived results, so that one editor computes  *)
(* a stale result while the others wait for it                              *)
(* (src/features/collab/room/leases.ts, and the calls room.ts makes to it). *)
(*                                                                          *)
(* A key is a kind of result and an itinerary.  The table is written as     *)
(* operators on its state; LeaseHolders is what the clients see of it.       *)
(***************************************************************************)
EXTENDS LeaseKeys, Integers

CONSTANTS
  TTL,             \* LEASE_TTL_MS
  AuthorPriority,  \* AUTHOR_PRIORITY_MS
  MaxHold,         \* LEASE_MAX_HOLD_MS
  Penalty,         \* LEASE_PENALTY_MS
  MaxTime          \* how long the clock runs (bound)

ASSUME DurationsAssumption ==
  /\ TTL \in Nat \ {0} /\ AuthorPriority \in Nat /\ MaxTime \in Nat
  /\ MaxHold \in Nat \ {0} /\ Penalty \in Nat \ {0}

VARIABLES
  now,      \* the room's clock
  author,   \* of each key, the last author of its inputs, and when
  lease,    \* of each key, its holder, until when, and since when
  penalty   \* of each client and key, when it may ask again

table == <<lease, penalty>>
vars  == <<now, members, live, author, lease, penalty>>

Leases  == [client : Clients \cup {NoOne}, until : Nat, since : Nat]
Authors == [client : Clients \cup {NoOne}, at : Nat]
NoLease == [client |-> NoOne, until |-> 0, since |-> 0]

TypeOK ==
  /\ now \in Nat
  /\ members \subseteq Clients
  /\ live \subseteq Itineraries
  /\ author \in [Keys -> Authors]
  /\ lease \in [Keys -> Leases]
  /\ penalty \in [Clients \X Keys -> Nat]

----------------------------------------------------------------------------
(* The table                                                               *)

Held(k)   == lease[k].client # NoOne
Holder(k) == lease[k].client

\* revokeOverheld, the guard
Overheld(k) == Held(k) /\ now - lease[k].since >= MaxHold

\* (slip: the holder is penalised and keeps the lease)
LeaseLeftThere(k) == lease[k]

\* What revokeOverheld(k) leaves of the lease, and of the penalties.
LeaseLeft(k) == IF Overheld(k) THEN NoLease ELSE lease[k]

\* (slip: the wait is counted backwards)
PenaltyBackwards(k) ==
  IF Overheld(k) THEN [penalty EXCEPT ![<<Holder(k), k>>] = now - Penalty]
                 ELSE penalty

PenaltyLeft(k) ==
  IF Overheld(k) THEN [penalty EXCEPT ![<<Holder(k), k>>] = now + Penalty]
                 ELSE penalty

Penalised(k, c) == PenaltyLeft(k)[<<c, k>>] > now

\* Somebody holds what is left of the lease, and is still there.
Current(k) ==
  /\ LeaseLeft(k).client # NoOne
  /\ LeaseLeft(k).until > now
  /\ LeaseLeft(k).client \in members

\* The last author of the inputs, other than c, is given a moment.
AuthorFirst(k, c) ==
  LET a == author[k]
  IN  /\ a.client \notin {NoOne, c} /\ a.client \in members
      /\ now - a.at < AuthorPriority

\* (slip: the author takes the lease of whoever holds it)
GrantedToAuthor(k, c) ==
  ~Penalised(k, c) /\ ~AuthorFirst(k, c) /\ (Current(k) => author[k].client = c)

\* request: granted, to the holder again or as a new lease ...
Extended(k, c) ==
  ~Penalised(k, c) /\ Current(k) /\ LeaseLeft(k).client = c

Granted(k, c) ==
  ~Penalised(k, c) /\ ~Current(k) /\ ~AuthorFirst(k, c)

\* ... and what the table is then.
LeaseAsked(k, c) ==
  CASE Extended(k, c) -> [LeaseLeft(k) EXCEPT !.until = now + TTL]
    [] Granted(k, c)  -> [client |-> c, until |-> now + TTL, since |-> now]
    [] OTHER          -> LeaseLeft(k)

PenaltyAsked(k, c) ==
  IF Penalised(k, c) THEN PenaltyLeft(k)
  ELSE [PenaltyLeft(k) EXCEPT ![<<c, k>>] = 0]

\* renew: granted to its holder
Renewed(k, c) == LeaseLeft(k).client = c /\ LeaseLeft(k).until > now

\* releaseClient
WithoutClient(c) ==
  [k \in Keys |-> IF Holder(k) = c THEN NoLease ELSE lease[k]]

\* dropItinerary
WithoutItinerary(i) ==
  [k \in Keys |-> IF k[2] = i THEN NoLease ELSE lease[k]]

Expired(k) == Held(k) /\ lease[k].until <= now

----------------------------------------------------------------------------
(* The room's calls                                                        *)

Init ==
  /\ now = 0
  /\ members = {}
  /\ live = Itineraries
  /\ author = [k \in Keys |-> [client |-> NoOne, at |-> 0]]
  /\ lease = [k \in Keys |-> NoLease]
  /\ penalty = [ck \in Clients \X Keys |-> 0]

Tick ==
  /\ now < MaxTime
  /\ now' = now + 1
  /\ UNCHANGED <<members, live, author, table>>

Join(c) ==
  /\ c \notin members
  /\ members' = members \cup {c}
  /\ UNCHANGED <<now, live, author, table>>

\* (slip: the leases are left to expire)
LeaveWithLeases(c) ==
  /\ c \in members
  /\ members' = members \ {c}
  /\ UNCHANGED <<now, live, author, table>>

\* leave gives back every lease of the client.
Leave(c) ==
  /\ c \in members
  /\ members' = members \ {c}
  /\ lease' = WithoutClient(c)
  /\ UNCHANGED <<now, live, author, penalty>>

\* handleBatch: an input of the result k changes (recordAuthors).
Change(k, c) ==
  /\ c \in members /\ k[2] \in live
  /\ author' = [author EXCEPT ![k] = [client |-> c, at |-> now]]
  /\ UNCHANGED <<now, members, live, table>>

\* handleBatch: an itinerary is deleted (forgetDeletedItineraries,
\* dropLeasesOfDeletedItineraries).
Delete(i, c) ==
  /\ c \in members /\ i \in live
  /\ live' = live \ {i}
  /\ author' = [k \in Keys |->
       IF k[2] = i THEN [client |-> NoOne, at |-> 0] ELSE author[k]]
  /\ lease' = WithoutItinerary(i)
  /\ UNCHANGED <<now, members, penalty>>

Request(k, c) ==
  /\ c \in members /\ k[2] \in live
  /\ lease' = [lease EXCEPT ![k] = LeaseAsked(k, c)]
  /\ penalty' = PenaltyAsked(k, c)
  /\ UNCHANGED <<now, members, live, author>>

\* (slip: the hold is not limited when the lease is renewed)
RenewForEver(k, c) ==
  /\ c \in members /\ k[2] \in live
  /\ Holder(k) = c /\ lease[k].until > now
  /\ lease' = [lease EXCEPT ![k].until = now + TTL]
  /\ UNCHANGED <<now, members, live, author, penalty>>

Renew(k, c) ==
  /\ c \in members /\ k[2] \in live
  /\ lease' = [lease EXCEPT ![k] =
       IF Renewed(k, c) THEN [LeaseLeft(k) EXCEPT !.until = now + TTL]
                        ELSE LeaseLeft(k)]
  /\ penalty' = PenaltyLeft(k)
  /\ UNCHANGED <<now, members, live, author>>

Release(k, c) ==
  /\ c \in members /\ k[2] \in live /\ Holder(k) = c
  /\ lease' = [lease EXCEPT ![k] = NoLease]
  /\ UNCHANGED <<now, members, live, author, penalty>>

\* expire, from the room's tick: the whole table at once.
Expire ==
  /\ \E k \in Keys : Overheld(k) \/ Expired(k)
  /\ lease' = [k \in Keys |->
       IF Overheld(k) \/ Expired(k) THEN NoLease ELSE lease[k]]
  /\ penalty' = [ck \in Clients \X Keys |->
       IF Overheld(ck[2]) /\ Holder(ck[2]) = ck[1] THEN now + Penalty
                                                  ELSE penalty[ck]]
  /\ UNCHANGED <<now, members, live, author>>

Asks(k, c) == Request(k, c) \/ Renew(k, c) \/ Release(k, c) \/ Change(k, c)

Next ==
  \/ Tick \/ Expire
  \/ \E c \in Clients :
       \/ Join(c) \/ Leave(c)
       \/ \E k \in Keys : Asks(k, c)
       \/ \E i \in Itineraries : Delete(i, c)

Spec == Init /\ [][Next]_vars

----------------------------------------------------------------------------
(* Properties                                                              *)

\* A lease belongs to a connected client and to an itinerary that exists: no
\* order of departures, deletions and late requests leaves one to a client
\* that can neither compute nor give it back.
HeldByTheConnected ==
  \A k \in Keys : Held(k) => Holder(k) \in members /\ k[2] \in live

\* However it is renewed, asked for again or left to expire, a lease that is
\* still valid is never older than the longest hold plus one renewal, even
\* if the room's tick is late.
HoldIsBounded ==
  \A k \in Keys : Held(k) =>
    /\ lease[k].since <= now /\ lease[k].until <= now + TTL
    /\ lease[k].until < lease[k].since + MaxHold + TTL

\* A client whose lease was taken back for being held too long does not get
\* it before its wait is over, whoever noticed and whatever it does meanwhile
\* (leaving and coming back, asking twice, an author's priority).
PenaltyServed ==
  \A k \in Keys : \A c \in Clients : penalty[<<c, k>>] > now => Holder(k) # c

\* A lease passes from a client to another one only when its time was over:
\* two editors never have a valid lease for the same result.
TakenOnlyWhenOver ==
  [][\A k \in Keys :
       Held(k) /\ Held(k)' /\ Holder(k)' # Holder(k)
         => lease[k].until <= now \/ now - lease[k].since >= MaxHold]_vars

\* Seen without the clock, the table does what LeaseGates assumes of it: every
\* call changes the holders as its untimed form allows, whatever had run out,
\* been held too long or been dropped with its client or itinerary.
Holders == INSTANCE LeaseHolders WITH holder <- [k \in Keys |-> Holder(k)]

ImplementsHolders == Holders!Spec
=============================================================================
