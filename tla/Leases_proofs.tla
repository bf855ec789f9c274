---------------------------- MODULE Leases_proofs ----------------------------
(***************************************************************************)
(* What is proved of the leases, for any clients, kinds, itineraries and    *)
(* durations: of the table of the room (LeaseTable), then of the gates of   *)
(* the clients around it (LeaseGates), for any computations and messages on  *)
(* their way.                                                               *)
(*                                                                          *)
(* The invariants of the table hold together, key by key: TableInv says      *)
(* that every lease is Sound.  A request or a renewal changes one key, and   *)
(* what it grants is sound because revokeOverheld comes first: a lease that  *)
(* is left is within the longest hold, and a new one goes to a client whose  *)
(* wait is over.                                                            *)
(***************************************************************************)
EXTENDS LeaseTable, LeaseGates, WellFoundedInduction, SequenceTheorems, TLAPS
-----------------------------------------------------------------------------
(* The table                                                               *)


\* What a lease must be when the penalties are p.
Sound(l, k, p) ==
  l.client # NoOne =>
    /\ l.client \in members /\ k[2] \in live
    /\ l.since <= now /\ l.until <= now + TTL
    /\ l.until < l.since + MaxHold + TTL
    /\ p[<<l.client, k>>] <= now

TableInv == TypeOK /\ \A k \in Keys : Sound(lease[k], k, penalty)

----------------------------------------------------------------------------
(* What the table's operators return                                       *)

\* revokeOverheld leaves a lease and penalties of the right kind.
LEMMA LeftType ==
  ASSUME TypeOK, NEW k \in Keys
  PROVE  /\ LeaseLeft(k) \in Leases
         /\ PenaltyLeft(k) \in [Clients \X Keys -> Nat]
BY DurationsAssumption, NoOneAssumption
   DEF TypeOK, LeaseLeft, PenaltyLeft, NoLease, Leases, Held, Holder, Overheld

\* So does request, granted or not.
LEMMA AskedType ==
  ASSUME TypeOK, NEW k \in Keys, NEW c \in Clients
  PROVE  /\ LeaseAsked(k, c) \in Leases
         /\ PenaltyAsked(k, c) \in [Clients \X Keys -> Nat]
<1>1. /\ LeaseLeft(k) \in Leases
      /\ PenaltyLeft(k) \in [Clients \X Keys -> Nat]
  BY LeftType
<1>2. now + TTL \in Nat /\ now \in Nat
  BY DurationsAssumption DEF TypeOK
<1>3. LeaseAsked(k, c) \in Leases
  <2>1. CASE Extended(k, c)
    BY <1>1, <1>2, <2>1 DEF LeaseAsked, Leases
  <2>2. CASE ~Extended(k, c) /\ Granted(k, c)
    BY <1>2, <2>2 DEF LeaseAsked, Leases
  <2>3. CASE ~Extended(k, c) /\ ~Granted(k, c)
    BY <1>1, <2>3 DEF LeaseAsked
  <2>4. QED BY <2>1, <2>2, <2>3
<1>4. PenaltyAsked(k, c) \in [Clients \X Keys -> Nat]
  BY <1>1 DEF PenaltyAsked
<1>5. QED BY <1>3, <1>4

\* After revokeOverheld nobody holds the lease and is penalised for it; what
\* is left of the lease is within the longest hold.
LEMMA LeftSound ==
  ASSUME TableInv, NEW k \in Keys, LeaseLeft(k).client # NoOne
  PROVE  /\ LeaseLeft(k) = lease[k]
         /\ now < lease[k].since + MaxHold
         /\ PenaltyLeft(k) = penalty
<1>1. LeaseLeft(k) = lease[k] /\ ~Overheld(k)
  BY DEF LeaseLeft, NoLease
<1>2. lease[k].client # NoOne
  BY <1>1
<1>3. now - lease[k].since < MaxHold
  BY <1>1, <1>2, DurationsAssumption
     DEF Overheld, Held, TableInv, TypeOK, Leases
<1>4. QED
  BY <1>1, <1>3, DurationsAssumption DEF PenaltyLeft, TableInv, TypeOK, Leases

\* revokeOverheld penalises nobody for another key.
LEMMA OtherPenalties ==
  ASSUME TypeOK, NEW k \in Keys, NEW j \in Keys, j # k, NEW c \in Clients
  PROVE  PenaltyLeft(k)[<<c, j>>] = penalty[<<c, j>>]
BY DEF PenaltyLeft, TypeOK

----------------------------------------------------------------------------
(* One key                                                                 *)

\* A request or a renewal leaves the other keys as they are.
LEMMA OneKey ==
  ASSUME TableInv, NEW k \in Keys, NEW l \in Leases,
         NEW p \in [Clients \X Keys -> Nat], Sound(l, k, p),
         \A j \in Keys \ {k} : \A c \in Clients : p[<<c, j>>] = penalty[<<c, j>>],
         lease' = [lease EXCEPT ![k] = l], penalty' = p,
         UNCHANGED <<now, members, live, author>>
  PROVE  TableInv'
<1>1. TypeOK'
  BY DEF TableInv, TypeOK
<1>2. ASSUME NEW j \in Keys PROVE Sound(lease[j], j, p)' 
  <2>1. CASE j = k
    BY <2>1 DEF TableInv, TypeOK, Sound
  <2>2. CASE j # k
    <3>1. lease'[j] = lease[j]
      BY <2>2 DEF TableInv, TypeOK
    <3>2. lease[j].client # NoOne => lease[j].client \in Clients
      BY DEF TableInv, TypeOK, Leases
    <3>3. QED
      BY <2>2, <3>1, <3>2 DEF TableInv, Sound
  <2>3. QED
    BY <2>1, <2>2
<1>3. QED
  BY <1>1, <1>2 DEF TableInv, Sound

\* What renew leaves is sound.
LEMMA RenewSound ==
  ASSUME TableInv, NEW k \in Keys
  PROVE  /\ Sound(LeaseLeft(k), k, PenaltyLeft(k))
         /\ LeaseLeft(k).client # NoOne =>
              Sound([LeaseLeft(k) EXCEPT !.until = now + TTL], k, PenaltyLeft(k))
<1>1. CASE LeaseLeft(k).client = NoOne
  BY <1>1 DEF Sound
<1>2. CASE LeaseLeft(k).client # NoOne
  <2>1. /\ LeaseLeft(k) = lease[k] /\ PenaltyLeft(k) = penalty
        /\ now < lease[k].since + MaxHold
    BY <1>2, LeftSound
  <2>2. Sound(lease[k], k, penalty) /\ lease[k] \in Leases /\ now \in Nat
    BY DEF TableInv, TypeOK
  <2>3. Sound([lease[k] EXCEPT !.until = now + TTL], k, penalty)
    BY <2>1, <2>2, DurationsAssumption DEF Sound, Leases
  <2>4. QED
    BY <2>1, <2>2, <2>3
<1>3. QED
  BY <1>1, <1>2

\* What a request of a connected client leaves is sound.
LEMMA RequestSound ==
  ASSUME TableInv, NEW k \in Keys, NEW c \in members, k[2] \in live
  PROVE  Sound(LeaseAsked(k, c), k, PenaltyAsked(k, c))
<1>1. /\ c \in Clients /\ now \in Nat
      /\ LeaseLeft(k) \in Leases
      /\ PenaltyLeft(k) \in [Clients \X Keys -> Nat]
  BY LeftType DEF TableInv, TypeOK
<1>2. Sound(LeaseLeft(k), k, PenaltyLeft(k))
  BY RenewSound
<1>3. \A l : Sound(l, k, PenaltyLeft(k)) /\ l.client \in Clients
              => Sound(l, k, PenaltyAsked(k, c))
  BY <1>1 DEF Sound, PenaltyAsked
<1>4. CASE Extended(k, c)
  <2>0. ~Granted(k, c)
    BY <1>4 DEF Extended, Granted
  <2>1. LeaseAsked(k, c) = [LeaseLeft(k) EXCEPT !.until = now + TTL]
    BY <1>4, <2>0 DEF LeaseAsked
  <2>2. LeaseLeft(k).client # NoOne
    BY <1>4 DEF Extended, Current
  <2>3. LeaseLeft(k).client \in Clients
    BY <1>1, <2>2 DEF Leases
  <2>4. QED
    BY <1>1, <1>3, <2>1, <2>2, <2>3, RenewSound DEF Leases
<1>5. CASE ~Extended(k, c) /\ Granted(k, c)
  <2>1. LeaseAsked(k, c) = [client |-> c, until |-> now + TTL, since |-> now]
    BY <1>5 DEF LeaseAsked
  <2>2. PenaltyAsked(k, c)[<<c, k>>] = 0
    BY <1>1, <1>5 DEF PenaltyAsked, Granted
  <2>3. QED
    BY <1>1, <2>1, <2>2, DurationsAssumption DEF Sound
<1>6. CASE ~Extended(k, c) /\ ~Granted(k, c)
  <2>1. LeaseAsked(k, c) = LeaseLeft(k)
    BY <1>6 DEF LeaseAsked
  <2>2. CASE LeaseLeft(k).client = NoOne
    BY <2>1, <2>2 DEF Sound
  <2>3. CASE LeaseLeft(k).client # NoOne
    BY <1>1, <1>2, <1>3, <2>1, <2>3 DEF Leases
  <2>4. QED
    BY <2>2, <2>3
<1>7. QED
  BY <1>4, <1>5, <1>6

----------------------------------------------------------------------------
(* Every step                                                              *)

\* A room that was just loaded has given no lease.
LEMMA InvInit == Init => TableInv
BY NoOneAssumption DEF Init, TableInv, TypeOK, Sound, NoLease, Leases, Authors, Keys

\* Every call of the room, every tick and every change of the document keeps
\* the leases sound.
LEMMA InvNext == TableInv /\ [Next]_vars => TableInv'
<1> SUFFICES ASSUME TableInv, [Next]_vars PROVE TableInv'
  OBVIOUS
<1> USE DEF TableInv, TypeOK
<1>1. CASE Tick
  BY <1>1, DurationsAssumption DEF Tick, table, Sound, Leases
<1>2. ASSUME NEW c \in Clients, Join(c) PROVE TableInv'
  BY <1>2 DEF Join, table, Sound
<1>3. ASSUME NEW c \in Clients, Leave(c) PROVE TableInv'
  BY <1>3, NoOneAssumption
     DEF Leave, WithoutClient, Holder, NoLease, Leases, Sound
<1>4. ASSUME NEW c \in Clients, NEW k \in Keys, Change(k, c) PROVE TableInv'
  BY <1>4 DEF Change, table, Sound, Authors
<1>5. ASSUME NEW c \in Clients, NEW i \in Itineraries, Delete(i, c) PROVE TableInv'
  BY <1>5, NoOneAssumption
     DEF Delete, WithoutItinerary, NoLease, Leases, Authors, Sound
<1>6. ASSUME NEW c \in Clients, NEW k \in Keys, Request(k, c) PROVE TableInv'
  <2>1. \A j \in Keys \ {k} : \A d \in Clients :
           PenaltyAsked(k, c)[<<d, j>>] = penalty[<<d, j>>]
    BY OtherPenalties, LeftType DEF PenaltyAsked
  <2>2. c \in members /\ k[2] \in live
    BY <1>6 DEF Request
  <2>3. Sound(LeaseAsked(k, c), k, PenaltyAsked(k, c))
    BY <2>2, RequestSound
  <2>4. /\ LeaseAsked(k, c) \in Leases
        /\ PenaltyAsked(k, c) \in [Clients \X Keys -> Nat]
    BY AskedType
  <2>5. QED
    BY <1>6, <2>1, <2>3, <2>4, OneKey DEF Request
<1>7. ASSUME NEW c \in Clients, NEW k \in Keys, Renew(k, c) PROVE TableInv'
  <2>1. \A j \in Keys \ {k} : \A d \in Clients :
           PenaltyLeft(k)[<<d, j>>] = penalty[<<d, j>>]
    BY OtherPenalties
  <2>2. [LeaseLeft(k) EXCEPT !.until = now + TTL] \in Leases
    BY LeftType, DurationsAssumption DEF Leases
  <2>3. Renewed(k, c) => LeaseLeft(k).client # NoOne
    BY NoOneAssumption DEF Renewed
  <2>4. CASE Renewed(k, c)
    BY <1>7, <2>1, <2>2, <2>3, <2>4, LeftType, RenewSound, OneKey DEF Renew
  <2>5. CASE ~Renewed(k, c)
    BY <1>7, <2>1, <2>5, LeftType, RenewSound, OneKey DEF Renew
  <2>6. QED
    BY <2>4, <2>5
<1>8. ASSUME NEW c \in Clients, NEW k \in Keys, Release(k, c) PROVE TableInv'
  BY <1>8 DEF Release, NoLease, Leases, Sound
<1>9. CASE Expire
  BY <1>9, DurationsAssumption, NoOneAssumption
     DEF Expire, Overheld, Expired, Held, Holder, NoLease, Leases, Sound
<1>10. CASE UNCHANGED vars
  BY <1>10 DEF vars, table, Sound
<1>11. QED
  BY <1>1, <1>2, <1>3, <1>4, <1>5, <1>6, <1>7, <1>8, <1>9, <1>10
     DEF Next, Asks

\* The leases of a room are always sound.
LEMMA InvAlways == Spec => []TableInv
BY InvInit, InvNext, PTL DEF Spec

----------------------------------------------------------------------------
(* The properties                                                          *)

\* Sound leases are what the invariants of LeaseTable ask for.
LEMMA InvImplies ==
  TableInv => HeldByTheConnected /\ HoldIsBounded /\ PenaltyServed
<1> SUFFICES ASSUME TableInv
             PROVE  HeldByTheConnected /\ HoldIsBounded /\ PenaltyServed
  OBVIOUS
<1>1. HeldByTheConnected /\ HoldIsBounded
  BY DEF TableInv, Sound, HeldByTheConnected, HoldIsBounded, Held, Holder
<1>2. ASSUME NEW k \in Keys, NEW c \in Clients, penalty[<<c, k>>] > now,
             Holder(k) = c
      PROVE  FALSE
  BY <1>2, NoOneAssumption DEF TableInv, TypeOK, Sound, Holder
<1>3. PenaltyServed
  BY <1>2 DEF PenaltyServed
<1>4. QED
  BY <1>1, <1>3

\* The table always holds leases and penalties of the right kind, whoever
\* asks, leaves or lets time pass (leases.ts).
THEOREM TypeCorrect == Spec => []TypeOK
BY InvAlways, PTL DEF TableInv

\* A lease always belongs to a connected client and an existing itinerary:
\* leave and dropItinerary leave none behind, and request, which looks at
\* neither the table's other keys nor the document, cannot bring one back.
THEOREM AlwaysHeldByTheConnected == Spec => []HeldByTheConnected
BY InvAlways, InvImplies, PTL

\* No sequence of renewals and requests makes a lease valid beyond the longest
\* hold plus one renewal (LEASE_MAX_HOLD_MS, LEASE_TTL_MS), tick or no tick.
THEOREM HoldAlwaysBounded == Spec => []HoldIsBounded
BY InvAlways, InvImplies, PTL

\* A client that held a lease too long never holds it again before the end of
\* its wait (LEASE_PENALTY_MS).
THEOREM PenaltyAlwaysServed == Spec => []PenaltyServed
BY InvAlways, InvImplies, PTL

\* No valid lease passes to another client: request gives a held key away
\* only once its time, or the longest hold, is over.
THEOREM NeverTakenEarly == Spec => TakenOnlyWhenOver
<1>1. ASSUME TableInv, [Next]_vars
      PROVE  [\A k \in Keys :
                Held(k) /\ Held(k)' /\ Holder(k)' # Holder(k)
                  => lease[k].until <= now \/ now - lease[k].since >= MaxHold]_vars
  <2> SUFFICES ASSUME NEW j \in Keys, Held(j), Held(j)', Holder(j)' # Holder(j)
               PROVE  lease[j].until <= now \/ now - lease[j].since >= MaxHold
    OBVIOUS
  <2> USE <1>1
  <2>1. ASSUME NEW c \in Clients, NEW k \in Keys, Request(k, c)
        PROVE  lease[j].until <= now \/ now - lease[j].since >= MaxHold
    <3>1. j = k
      BY <2>1 DEF Request, TableInv, TypeOK, Holder
    <3>2. lease'[j] = LeaseAsked(j, c)
      BY <2>1, <3>1 DEF Request, TableInv, TypeOK
    <3>3. CASE Overheld(j)
      BY <3>3 DEF Overheld
    <3>4. CASE ~Overheld(j)
      <4>1. LeaseLeft(j) = lease[j]
        BY <3>4 DEF LeaseLeft
      <4>2. ~Extended(j, c) /\ Granted(j, c)
        BY <3>2, <4>1 DEF LeaseAsked, Holder, Extended
      <4>3. ~Current(j)
        BY <4>2 DEF Granted
      <4>4. lease[j].client \in members
        BY DEF TableInv, Sound, Held
      <4>5. ~(lease[j].until > now)
        BY <4>1, <4>3, <4>4 DEF Current, Held
      <4>6. QED
        BY <4>5 DEF TableInv, TypeOK, Leases
    <3>5. QED
      BY <3>3, <3>4
  <2>2. ASSUME NEW c \in Clients, NEW k \in Keys, Renew(k, c)
        PROVE  FALSE
    BY <2>2 DEF Renew, LeaseLeft, NoLease, TableInv, TypeOK, Leases, Held, Holder
  <2>3. ASSUME NEW c \in Clients, NEW k \in Keys, Release(k, c)
        PROVE  FALSE
    BY <2>3 DEF Release, NoLease, TableInv, TypeOK, Held, Holder
  <2>4. CASE Expire
    BY <2>4 DEF Expire, NoLease, TableInv, TypeOK, Held, Holder
  <2>5. ASSUME NEW c \in Clients, Leave(c)
        PROVE  FALSE
    BY <2>5 DEF Leave, WithoutClient, NoLease, TableInv, TypeOK, Held, Holder
  <2>6. ASSUME NEW c \in Clients, NEW i \in Itineraries, Delete(i, c)
        PROVE  FALSE
    BY <2>6 DEF Delete, WithoutItinerary, NoLease, TableInv, TypeOK, Held, Holder
  <2>7. CASE UNCHANGED lease
    BY <2>7 DEF Holder
  <2>8. QED
    BY <2>1, <2>2, <2>3, <2>4, <2>5, <2>6, <2>7
       DEF Next, Asks, Tick, Join, Change, table, vars
<1>2. QED
  BY <1>1, InvAlways, PTL DEF Spec, TakenOnlyWhenOver

----------------------------------------------------------------------------
(* The table as the clients see it                                         *)

\* The holder of each key, as LeaseTable maps it.
HolderOf == [k \in Keys |-> Holder(k)]

\* Every call made to the table is one its untimed form allows.
LEMMA StepsMap ==
  ASSUME TypeOK, [Next]_vars
  PROVE  [Holders!Next]_(Holders!vars)
<1> USE DEF Holders!vars, Holders!Free, Holders!Keys, Keys, HolderOf, Holder
<1>1. ASSUME NEW k \in Keys, NEW c \in Clients, Request(k, c)
      PROVE  Holders!Asks(k, c)
  <2>1. /\ c \in members /\ k[2] \in live
        /\ lease' = [lease EXCEPT ![k] = LeaseAsked(k, c)]
        /\ UNCHANGED <<members, live>>
    BY <1>1 DEF Request
  <2>2. CASE Extended(k, c)
    <3>1. LeaseAsked(k, c).client \in {Holder(k), NoOne}
      BY <2>2 DEF LeaseAsked, LeaseLeft, NoLease, Holder, Extended
    <3>2. QED
      BY <2>1, <3>1 DEF TypeOK, Holders!Asks, Holders!Request, Holders!Refused
  <2>3. CASE ~Extended(k, c) /\ Granted(k, c)
    <3>1. LeaseAsked(k, c).client = c
      BY <2>3 DEF LeaseAsked
    <3>2. QED
      BY <2>1, <3>1 DEF TypeOK, Holders!Asks, Holders!Request, Holders!Granted
  <2>4. CASE ~Extended(k, c) /\ ~Granted(k, c)
    <3>1. LeaseAsked(k, c).client \in {Holder(k), NoOne}
      BY <2>4 DEF LeaseAsked, LeaseLeft, NoLease, Holder
    <3>2. QED
      BY <2>1, <3>1 DEF TypeOK, Holders!Asks, Holders!Request, Holders!Refused
  <2>5. QED
    BY <2>2, <2>3, <2>4
<1>2. ASSUME NEW k \in Keys, NEW c \in Clients, Renew(k, c)
      PROVE  Holders!Asks(k, c)
  <2> DEFINE l == IF Renewed(k, c) THEN [LeaseLeft(k) EXCEPT !.until = now + TTL]
                                   ELSE LeaseLeft(k)
  <2>1. /\ c \in members /\ k[2] \in live /\ lease' = [lease EXCEPT ![k] = l]
        /\ UNCHANGED <<members, live>>
    BY <1>2 DEF Renew
  <2>2. LeaseLeft(k) \in Leases
    BY LeftType
  <2>3. l.client \in {Holder(k), NoOne}
    BY <2>2 DEF LeaseLeft, NoLease, Holder, Leases
  <2> HIDE DEF l
  <2>4. QED
    BY <2>1, <2>3 DEF TypeOK, Holders!Asks, Holders!Renew, Holders!NotRenewed
<1>3. ASSUME NEW k \in Keys, NEW c \in Clients, Release(k, c)
      PROVE  Holders!Asks(k, c)
  BY <1>3 DEF TypeOK, Release, NoLease, Holders!Asks, Holders!Release
<1>4. CASE Expire
  <2> DEFINE gone == {k \in Keys : Overheld(k) \/ Expired(k)}
  <2>1. HolderOf' = [k \in Keys |-> IF k \in gone THEN NoOne ELSE HolderOf[k]]
    BY <1>4 DEF Expire, Holder, NoLease
  <2>2. UNCHANGED <<members, live>> /\ gone \in SUBSET Keys
    BY <1>4 DEF Expire
  <2> HIDE DEF gone
  <2>3. QED
    BY <2>1, <2>2 DEF Holders!Next, Holders!Expire
<1>5. ASSUME NEW c \in Clients, Join(c) PROVE Holders!Join(c)
  BY <1>5 DEF Join, table, Holder, Holders!Join
<1>6. ASSUME NEW c \in Clients, Leave(c) PROVE Holders!Leave(c)
  BY <1>6 DEF Leave, WithoutClient, NoLease, Holder, Holders!Leave
<1>7. ASSUME NEW i \in Itineraries, NEW c \in Clients, Delete(i, c)
      PROVE  Holders!Delete(i)
  BY <1>7 DEF Delete, WithoutItinerary, NoLease, Holder, Holders!Delete
<1>8. ASSUME UNCHANGED <<members, live, lease>> PROVE UNCHANGED Holders!vars
  BY <1>8 DEF Holder
<1>9. QED
  BY <1>1, <1>2, <1>3, <1>4, <1>5, <1>6, <1>7, <1>8
     DEF Next, Asks, Tick, Change, table, vars, Holders!Next

\* Whatever the durations are, the clients see nothing but the untimed table
\* of LeaseHolders: what LeaseGates checks around it holds around this one.
THEOREM TableImplementsHolders == Spec => ImplementsHolders
<1>1. Init => Holders!Init
  BY DEF Init, Holders!Init, Holders!Keys, Keys, NoLease, Holder
<1>2. TypeOK /\ [Next]_vars => [Holders!Next]_(Holders!vars)
  BY StepsMap
<1>3. QED
  BY <1>1, <1>2, TypeCorrect, PTL DEF Spec, ImplementsHolders, Holders!Spec
-----------------------------------------------------------------------------
(* The gates                                                               *)
(* The inductive invariant                                                 *)

Asked   == [action : {"request", "renew", "release"}, key : Keys]
Listed  == [type : {"leases", "welcome"}, holders : Beliefs]
Denials == [type : {"denied"}, key : Keys]
Heard   == Listed \cup Denials

Types ==
  /\ members \subseteq Clients /\ live \subseteq Itineraries
  /\ holder \in Beliefs
  /\ \A k \in Keys : k[2] \notin live => holder[k] = NoOne
  /\ conn \in [Clients -> {"off", "joining", "on"}]
  /\ up \in [Clients -> Seq(Asked)] /\ down \in [Clients -> Seq(Heard)]
  /\ told \in [Clients -> Beliefs]
  /\ requested \in [Clients -> SUBSET Keys]
  /\ unused \in [Clients -> SUBSET Keys]
  /\ running \in [Clients -> [Keys -> 0..MaxRuns]]

\* What a gate keeps of its connection: nothing before the welcome.
Connected(c) ==
  /\ Len(up[c]) <= MaxSent
  /\ conn[c] # "on" => told[c] = Nobody /\ requested[c] = {}
  /\ conn[c] = "joining" => down[c] # <<>> /\ Head(down[c]).type = "welcome"

\* The last list on its way, or the belief, has every lease that is held.
Knows(c) == \A k \in Keys : holder[k] # NoOne => Believed(c)[k] = holder[k]

Releasing(c, k) ==
  \E i \in DOMAIN up[c] : up[c][i] = [action |-> "release", key |-> k]

\* A lease is used, or a list that will say so is on its way.
Uses(c) ==
  \A k \in Keys : holder[k] = c =>
    running[c][k] > 0 \/ k \in unused[c] \/ Releasing(c, k) \/ Lists(down[c]) # {}

Requesting(c, k) ==
  \E i \in DOMAIN up[c] : up[c][i] = [action |-> "request", key |-> k]

Answered(c) ==
  \A k \in requested[c] :
    Requesting(c, k) \/ \E i \in DOMAIN down[c] : Answers(down[c][i], k)

Gate(c) ==
  /\ Connected(c)
  /\ c \in members /\ conn[c] # "off" => Knows(c) /\ Uses(c) /\ Answered(c)

IInv == Types /\ \A c \in Clients : Gate(c)
-----------------------------------------------------------------------------
(* Lists among messages                                                    *)

\* A non-empty set of places has a last one.
LEMMA LastExists ==
  ASSUME NEW n \in Nat, NEW S \in SUBSET (1..n), S # {}
  PROVE  \E i \in S : \A j \in S : j <= i
<1> DEFINE T == {n - i : i \in S}
<1>1. T \subseteq Nat /\ T # {}
  <2>1. PICK i \in S : TRUE OBVIOUS
  <2>2. n - i \in T BY <2>1
  <2>3. QED BY <2>2
<1>2. PICK x \in T : \A y \in T : ~ (<<y, x>> \in OpToRel(<, Nat))
  <2> HIDE DEF T
  <2>1. QED BY <1>1, NatLessThanWellFounded, WFMin
<1>3. \A y \in T : ~(y < x) BY <1>1, <1>2 DEF OpToRel
<1>4. PICK i \in S : x = n - i BY <1>2
<1>5. \A j \in S : j <= i
  <2> TAKE j \in S
  <2>1. ~(n - j < x) BY <1>3
  <2>2. QED BY <2>1, <1>4
<1>6. QED BY <1>5

\* What is believed after a place that is the last list.
LEMMA BelievesAt ==
  ASSUME NEW h, NEW s, DOMAIN s \subseteq Nat, NEW i \in Lists(s), \A j \in Lists(s) : j <= i
  PROVE  Believes(h, s) = s[i].holders
<1>1. LastList(s) \in Lists(s) /\ \A j \in Lists(s) : j <= LastList(s) BY DEF LastList
<1>2. LastList(s) = i
  <2>1. Lists(s) \subseteq Nat BY DEF Lists
  <2>2. QED BY <1>1, <2>1
<1>3. QED BY <1>2 DEF Believes

LEMMA HeardTypes ==
  /\ \A m \in Listed : m.type # "denied" /\ m.holders \in Beliefs
  /\ \A m \in Denials : m.type = "denied" /\ m.key \in Keys
BY DEF Listed, Denials

\* A list sent now says what will be believed.
LEMMA ListComes ==
  ASSUME NEW s \in Seq(Heard), NEW m \in Listed, NEW h
  PROVE  /\ Append(s, m) \in Seq(Heard) /\ Append(s, m) # <<>>
         /\ Lists(Append(s, m)) # {}
         /\ Believes(h, Append(s, m)) = m.holders
         /\ \A i \in DOMAIN s : i \in DOMAIN Append(s, m) /\ Append(s, m)[i] = s[i]
<1> DEFINE t == Append(s, m)
           n == Len(s) + 1
<1>1. /\ t \in Seq(Heard) /\ Len(t) = n /\ DOMAIN t = 1..n /\ Len(s) \in Nat
      /\ DOMAIN s = 1..Len(s)
      /\ t[n] = m /\ \A i \in 1..Len(s) : t[i] = s[i]
  BY DEF Heard
<1> HIDE DEF t
<1>2. n \in Lists(t) /\ \A j \in Lists(t) : j <= n BY <1>1, HeardTypes DEF Lists
<1>3. Believes(h, t) = m.holders BY <1>1, <1>2, BelievesAt
<1>4. t # <<>> BY <1>1
<1>5. QED BY <1>1, <1>2, <1>3, <1>4 DEF t

\* A refusal changes nothing of what will be believed.
LEMMA DenialComes ==
  ASSUME NEW s \in Seq(Heard), NEW m \in Denials, NEW h
  PROVE  /\ Append(s, m) \in Seq(Heard) /\ Append(s, m) # <<>>
         /\ Lists(Append(s, m)) = Lists(s)
         /\ Believes(h, Append(s, m)) = Believes(h, s)
         /\ \A i \in DOMAIN s : i \in DOMAIN Append(s, m) /\ Append(s, m)[i] = s[i]
         /\ Len(s) + 1 \in DOMAIN Append(s, m) /\ Append(s, m)[Len(s) + 1] = m
<1> DEFINE t == Append(s, m)
           n == Len(s) + 1
<1>1. /\ t \in Seq(Heard) /\ Len(t) = n /\ DOMAIN t = 1..n /\ Len(s) \in Nat
      /\ DOMAIN s = 1..Len(s)
      /\ t[n] = m /\ \A i \in 1..Len(s) : t[i] = s[i]
  BY DEF Heard
<1> HIDE DEF t
<1>2. Lists(t) = Lists(s) BY <1>1, HeardTypes DEF Lists
<1>3. Believes(h, t) = Believes(h, s)
  <2>1. CASE Lists(s) = {} BY <1>2, <2>1 DEF Believes
  <2>2. CASE Lists(s) # {}
    <3>1. Lists(s) \in SUBSET (1..Len(s)) BY <1>1 DEF Lists
    <3>2. PICK i \in Lists(s) : \A j \in Lists(s) : j <= i BY <1>1, <2>2, <3>1, LastExists
    <3>3. Believes(h, s) = s[i].holders BY <1>1, <3>2, BelievesAt
    <3>4. Believes(h, t) = t[i].holders BY <1>1, <1>2, <3>2, BelievesAt
    <3>5. QED BY <1>1, <3>1, <3>2, <3>3, <3>4
  <2>3. QED BY <2>1, <2>2
<1>4. t # <<>> BY <1>1
<1>5. QED BY <1>1, <1>2, <1>3, <1>4 DEF t

\* Reading the first message brings the belief one list further.
LEMMA HeadIsRead ==
  ASSUME NEW s \in Seq(Heard), s # <<>>, NEW h
  PROVE  /\ Tail(s) \in Seq(Heard) /\ Head(s) \in Heard
         /\ Believes(h, s)
              = Believes(IF Head(s).type = "denied" THEN h ELSE Head(s).holders, Tail(s))
         /\ Head(s).type = "denied" => (Lists(s) = {}) = (Lists(Tail(s)) = {})
         /\ \A i \in DOMAIN s : s[i] = Head(s) \/ \E j \in DOMAIN Tail(s) : Tail(s)[j] = s[i]
<1> DEFINE t == Tail(s)
<1>1. /\ t \in Seq(Heard) /\ Len(s) \in Nat /\ Len(s) > 0 /\ DOMAIN s = 1..Len(s)
      /\ DOMAIN t = 1..(Len(s) - 1) /\ Head(s) = s[1] /\ s[1] \in Heard
      /\ \A i \in 1..(Len(s) - 1) : t[i] = s[i + 1]
  OBVIOUS
<1> HIDE DEF t
<1>2. \A i \in 2..Len(s) : i - 1 \in DOMAIN t /\ t[i - 1] = s[i] BY <1>1
<1>3. \A i \in DOMAIN s : s[i] = Head(s) \/ \E j \in DOMAIN t : t[j] = s[i] BY <1>1, <1>2
<1>4. /\ \A i \in Lists(t) : i + 1 \in Lists(s)
      /\ \A i \in Lists(s) : i = 1 \/ i - 1 \in Lists(t)
      /\ 1 \in Lists(s) <=> Head(s).type # "denied"
      /\ Lists(s) \subseteq 1..Len(s) /\ Lists(t) \subseteq 1..(Len(s) - 1)
  BY <1>1, <1>2 DEF Lists
<1>5. Head(s).type = "denied" => (Lists(s) = {}) = (Lists(t) = {}) BY <1>4
<1>6. ASSUME NEW g, g = IF Head(s).type = "denied" THEN h ELSE Head(s).holders
      PROVE  Believes(h, s) = Believes(g, t)
  <2>1. CASE Lists(t) = {} /\ Head(s).type = "denied"
    BY <1>4, <1>5, <1>6, <2>1 DEF Believes
  <2>2. CASE Lists(t) = {} /\ Head(s).type # "denied"
    <3>1. 1 \in Lists(s) /\ \A j \in Lists(s) : j <= 1 BY <1>4, <2>2
    <3>2. Believes(h, s) = s[1].holders BY <1>1, <3>1, BelievesAt
    <3>3. QED BY <1>1, <1>6, <2>2, <3>2 DEF Believes
  <2>3. CASE Lists(t) # {}
    <3>1. Len(s) - 1 \in Nat BY <1>1
    <3>2. PICK i \in Lists(t) : \A j \in Lists(t) : j <= i BY <1>4, <2>3, <3>1, LastExists
    <3>3. Believes(g, t) = t[i].holders BY <1>1, <3>2, BelievesAt
    <3>4. i + 1 \in Lists(s) /\ \A j \in Lists(s) : j <= i + 1 BY <1>1, <1>4, <3>2
    <3>5. Believes(h, s) = s[i + 1].holders BY <1>1, <3>4, BelievesAt
    <3>6. QED BY <1>1, <1>4, <3>2, <3>3, <3>5
  <2>4. QED BY <2>1, <2>2, <2>3
<1>7. QED BY <1>1, <1>3, <1>5, <1>6 DEF t
-----------------------------------------------------------------------------
(* One gate                                                                *)

Same(d) ==
  /\ conn'[d] = conn[d] /\ told'[d] = told[d] /\ requested'[d] = requested[d]
  /\ unused'[d] = unused[d] /\ running'[d] = running[d]

Freed == \A k \in Keys : holder'[k] # NoOne => holder'[k] = holder[k]

\* A gate nothing comes to, while leases may be freed.
LEMMA Untouched ==
  ASSUME NEW d \in Clients, Gate(d), Same(d), up'[d] = up[d], down'[d] = down[d],
         d \in members' => d \in members, Freed
  PROVE  Gate(d)'
<1>1. Connected(d)' BY DEF Gate, Connected, Same, Nobody, Keys
<1>2. ASSUME d \in members', conn'[d] # "off" PROVE (Knows(d) /\ Uses(d) /\ Answered(d))'
  <2>1. Knows(d) /\ Uses(d) /\ Answered(d) BY <1>2 DEF Gate, Same
  <2>2. Believed(d)' = Believed(d) BY DEF Same, Believed, Believes, Lists, LastList
  <2>3. Knows(d)' BY <2>1, <2>2 DEF Knows, Freed, Keys
  <2>4. Uses(d)'
    <3>1. Lists(down'[d]) = Lists(down[d]) OBVIOUS
    <3>2. \A k : Releasing(d, k)' <=> Releasing(d, k) BY DEF Releasing
    <3>3. \A k \in Keys : holder'[k] = d => holder[k] = d BY NoOneAssumption DEF Freed
    <3>4. QED BY <2>1, <3>1, <3>2, <3>3 DEF Uses, Same, Keys
  <2>5. Answered(d)' BY <2>1 DEF Answered, Same, Requesting, Answers
  <2>6. QED BY <2>3, <2>4, <2>5
<1>3. QED BY <1>1, <1>2 DEF Gate

\* A list of the table as it is comes.
LEMMA HearsList ==
  ASSUME Types, NEW d \in Clients, Gate(d), Same(d), Len(up'[d]) <= MaxSent,
         conn[d] # "off", d \in members,
         NEW m \in Listed, m.holders = holder', down'[d] = Append(down[d], m),
         \A k \in requested[d] :
           Requesting(d, k) => Requesting(d, k)' \/ holder'[k] # NoOne
  PROVE  Gate(d)'
<1> PICK s \in Seq(Heard) : s = down[d] BY DEF Types
<1>1. /\ Append(s, m) # <<>> /\ Lists(Append(s, m)) # {}
      /\ \A h : Believes(h, Append(s, m)) = m.holders
      /\ \A i \in DOMAIN s : i \in DOMAIN Append(s, m) /\ Append(s, m)[i] = s[i]
  <2>1. ASSUME NEW h PROVE Believes(h, Append(s, m)) = m.holders BY ListComes
  <2>2. /\ Append(s, m) # <<>> /\ Lists(Append(s, m)) # {}
        /\ \A i \in DOMAIN s : i \in DOMAIN Append(s, m) /\ Append(s, m)[i] = s[i]
    BY ListComes
  <2>3. QED BY <2>1, <2>2
<1>2. PICK t : t = down'[d] /\ t = Append(s, m) OBVIOUS
<1>3. s # <<>> => Head(t) = Head(s)
  <2> SUFFICES ASSUME s # <<>> PROVE Head(t) = Head(s) OBVIOUS
  <2>1. Len(s) \in Nat /\ Len(s) > 0 /\ DOMAIN s = 1..Len(s) OBVIOUS
  <2>2. t[1] = s[1] BY <1>1, <1>2, <2>1
  <2>3. QED BY <1>2, <2>2
<1>4. Connected(d)'
  BY <1>1, <1>2, <1>3 DEF Gate, Connected, Same, Nobody, Keys
<1>5. Knows(d)' BY <1>1, <1>2 DEF Knows, Believed
<1>6. Uses(d)' BY <1>1, <1>2 DEF Uses
<1>7. Answered(d)'
  <2> SUFFICES ASSUME NEW k \in requested'[d]
               PROVE  Requesting(d, k)' \/ \E i \in DOMAIN t : Answers(t[i], k)
    BY <1>2 DEF Answered
  <2>1. k \in requested[d] /\ k \in Keys BY DEF Same, Types
  <2>2. CASE holder'[k] # NoOne
    <3>1. Answers(m, k) BY <2>2, HeardTypes DEF Answers
    <3>2. Len(s) + 1 \in DOMAIN t /\ t[Len(s) + 1] = m BY <1>2 DEF Heard
    <3>3. QED BY <3>1, <3>2
  <2>3. CASE \E i \in DOMAIN s : Answers(s[i], k) BY <1>1, <1>2, <2>3
  <2>4. CASE Requesting(d, k) /\ holder'[k] = NoOne BY <2>1, <2>4
  <2>5. QED BY <2>1, <2>2, <2>3, <2>4 DEF Gate, Answered
<1>8. QED BY <1>4, <1>5, <1>6, <1>7 DEF Gate

\* A refusal comes, and the lease it is about may be freed.
LEMMA HearsDenial ==
  ASSUME Types, NEW d \in Clients, Gate(d), Same(d), Len(up'[d]) <= MaxSent, Freed,
         conn[d] # "off", d \in members,
         NEW k0 \in Keys, down'[d] = Append(down[d], Denied(k0)),
         \A k \in Keys : Requesting(d, k) => Requesting(d, k)' \/ k = k0,
         \A k \in Keys : holder'[k] = d /\ Releasing(d, k) => Releasing(d, k)'
  PROVE  Gate(d)'
<1>0. PICK m \in Denials : m = Denied(k0) /\ m.key = k0 BY DEF Denied, Denials
<1> PICK s \in Seq(Heard) : s = down[d] BY DEF Types
<1>1. /\ Append(s, m) # <<>> /\ Lists(Append(s, m)) = Lists(s)
      /\ \A h : Believes(h, Append(s, m)) = Believes(h, s)
      /\ \A i \in DOMAIN s : i \in DOMAIN Append(s, m) /\ Append(s, m)[i] = s[i]
      /\ Len(s) + 1 \in DOMAIN Append(s, m) /\ Append(s, m)[Len(s) + 1] = m
  <2>1. ASSUME NEW h PROVE Believes(h, Append(s, m)) = Believes(h, s)
    BY DenialComes
  <2>2. /\ Append(s, m) # <<>> /\ Lists(Append(s, m)) = Lists(s)
        /\ \A i \in DOMAIN s : i \in DOMAIN Append(s, m) /\ Append(s, m)[i] = s[i]
        /\ Len(s) + 1 \in DOMAIN Append(s, m) /\ Append(s, m)[Len(s) + 1] = m
    BY DenialComes
  <2>3. QED BY <2>1, <2>2
<1>2. PICK t : t = down'[d] /\ t = Append(s, m) BY <1>0
<1>3. s # <<>> => Head(t) = Head(s)
  <2> SUFFICES ASSUME s # <<>> PROVE Head(t) = Head(s) OBVIOUS
  <2>1. Len(s) \in Nat /\ Len(s) > 0 /\ DOMAIN s = 1..Len(s) OBVIOUS
  <2>2. t[1] = s[1] BY <1>1, <1>2, <2>1
  <2>3. QED BY <1>2, <2>2
<1>4. Connected(d)'
  BY <1>1, <1>2, <1>3 DEF Gate, Connected, Same, Nobody, Keys
<1>5. Knows(d) /\ Uses(d) /\ Answered(d) BY DEF Gate
<1>6. Knows(d)'
  <2>1. Believed(d)' = Believed(d) BY <1>1, <1>2 DEF Believed, Same
  <2>2. QED BY <1>5, <2>1 DEF Knows, Freed, Keys
<1>7. Uses(d)'
  <2> SUFFICES ASSUME NEW k \in Keys, holder'[k] = d
               PROVE  running'[d][k] > 0 \/ k \in unused'[d] \/ Releasing(d, k)'
                        \/ Lists(t) # {}
    BY <1>2 DEF Uses, Keys
  <2>1. holder[k] = d BY NoOneAssumption DEF Freed
  <2>2. running[d][k] > 0 \/ k \in unused[d] \/ Releasing(d, k) \/ Lists(s) # {}
    BY <1>5, <2>1 DEF Uses
  <2>3. QED BY <1>1, <1>2, <2>2 DEF Same
<1>8. Answered(d)'
  <2> SUFFICES ASSUME NEW k \in requested'[d]
               PROVE  Requesting(d, k)' \/ \E i \in DOMAIN t : Answers(t[i], k)
    BY <1>2 DEF Answered
  <2>1. k \in requested[d] /\ k \in Keys BY DEF Same, Types
  <2>2. CASE k = k0
    <3>1. Answers(m, k) BY <1>0, <2>2, HeardTypes DEF Answers
    <3>2. QED BY <1>1, <1>2, <3>1
  <2>3. CASE \E i \in DOMAIN s : Answers(s[i], k) BY <1>1, <1>2, <2>3
  <2>4. CASE Requesting(d, k) /\ k # k0 BY <2>1, <2>4
  <2>5. QED BY <1>5, <2>1, <2>2, <2>3, <2>4 DEF Answered
<1>9. QED BY <1>4, <1>6, <1>7, <1>8 DEF Gate

\* A gate that is not online, or whose client the room does not know.
LEMMA Outside ==
  ASSUME NEW d \in Clients, Gate(d), Same(d), down'[d] = down[d], Len(up'[d]) <= MaxSent,
         conn[d] = "off" \/ d \notin members'
  PROVE  Gate(d)'
BY DEF Gate, Connected, Same, Nobody, Keys

\* The table is sent to every member.
LEMMA BroadcastKeeps ==
  ASSUME Types, Broadcast, holder' \in Beliefs, members' \subseteq members,
         NEW d \in Clients, Gate(d), Same(d), Len(up'[d]) <= MaxSent,
         \A k \in requested[d] :
           Requesting(d, k) => Requesting(d, k)' \/ holder'[k] # NoOne
  PROVE  Gate(d)'
<1>1. PICK m : m = LeaseList("leases") OBVIOUS
<1>2. m \in Listed /\ m.holders = holder' BY <1>1 DEF LeaseList, Listed
<1>3. down'[d] = IF d \in members' /\ conn[d] # "off" THEN Append(down[d], m) ELSE down[d]
  BY <1>1 DEF Broadcast, CanHear
<1>4. CASE d \in members' /\ conn[d] # "off"
  <2>1. d \in members /\ down'[d] = Append(down[d], m) BY <1>3, <1>4
  <2>2. QED BY <1>2, <1>4, <2>1, HearsList
<1>5. CASE ~(d \in members' /\ conn[d] # "off")
  <2>1. down'[d] = down[d] BY <1>3, <1>5
  <2>2. QED BY <1>5, <2>1, Outside
<1>6. QED BY <1>4, <1>5

LEMMA BroadcastTypes ==
  ASSUME Types, Broadcast, holder' \in Beliefs
  PROVE  down' \in [Clients -> Seq(Heard)]
<1>1. PICK m : m = LeaseList("leases") OBVIOUS
<1>2. m \in Heard BY <1>1 DEF LeaseList, Listed, Heard
<1>3. down' = [d \in Clients |-> IF d \in members' /\ conn[d] # "off"
                                 THEN Append(down[d], m) ELSE down[d]]
  BY <1>1 DEF Broadcast, CanHear
<1>4. ASSUME NEW d \in Clients PROVE down'[d] \in Seq(Heard)
  <2>1. down[d] \in Seq(Heard) BY DEF Types
  <2>2. Append(down[d], m) \in Seq(Heard) BY <1>2, <2>1
  <2>3. QED BY <1>3, <2>1, <2>2
<1>5. QED BY <1>3, <1>4
-----------------------------------------------------------------------------
(* Computations and timers                                                 *)

\* A message is sent to the room.
LEMMA SendIs ==
  ASSUME Types, NEW c \in Clients, NEW k \in Keys,
         NEW action \in {"request", "renew", "release"}, Send(c, action, k)
  PROVE  /\ up' \in [Clients -> Seq(Asked)] /\ Len(up'[c]) <= MaxSent
         /\ \A d \in Clients \ {c} : up'[d] = up[d]
         /\ \A k2 : Requesting(c, k2) => Requesting(c, k2)'
         /\ \A k2 : Releasing(c, k2) => Releasing(c, k2)'
         /\ action = "request" => Requesting(c, k)'
         /\ action = "release" => Releasing(c, k)'
<1>1. PICK m \in Asked : m = [action |-> action, key |-> k] BY DEF Asked
<1>2. PICK s \in Seq(Asked) : s = up[c] BY DEF Types
<1>3. Len(s) < MaxSent /\ up' = [up EXCEPT ![c] = Append(s, m)]
  BY <1>1, <1>2 DEF Send
<1>4. /\ Append(s, m) \in Seq(Asked) /\ Len(Append(s, m)) = Len(s) + 1 /\ Len(s) \in Nat
      /\ \A i \in DOMAIN s : i \in DOMAIN Append(s, m) /\ Append(s, m)[i] = s[i]
      /\ Len(s) + 1 \in DOMAIN Append(s, m) /\ Append(s, m)[Len(s) + 1] = m
  OBVIOUS
<1>5. up'[c] = Append(s, m) /\ \A d \in Clients \ {c} : up'[d] = up[d]
  BY <1>3 DEF Types
<1>6. up' \in [Clients -> Seq(Asked)] BY <1>3, <1>4 DEF Types
<1>7. Len(up'[c]) <= MaxSent BY <1>3, <1>4, <1>5, FlightAssumption
<1>8. \A k2 : Requesting(c, k2) => Requesting(c, k2)'
  BY <1>2, <1>4, <1>5 DEF Requesting
<1>9. \A k2 : Releasing(c, k2) => Releasing(c, k2)'
  BY <1>2, <1>4, <1>5 DEF Releasing
<1>10. /\ action = "request" => Requesting(c, k)'
       /\ action = "release" => Releasing(c, k)'
  BY <1>1, <1>4, <1>5 DEF Requesting, Releasing
<1>11. QED BY <1>5, <1>6, <1>7, <1>8, <1>9, <1>10

\* A gate with no list on its way knows the leases of its client.
LEMMA NothingOnItsWay ==
  ASSUME Types, NEW c \in Clients, Gate(c), c \in members, conn[c] # "off",
         Lists(down[c]) = {}
  PROVE  /\ conn[c] = "on"
         /\ \A k \in Keys : holder[k] # NoOne => told[c][k] = holder[k]
<1>1. down[c] \in Seq(Heard) BY DEF Types
<1>2. down[c] # <<>> => Head(down[c]).type = "denied"
  <2> SUFFICES ASSUME down[c] # <<>> PROVE Head(down[c]).type = "denied" OBVIOUS
  <2>1. 1 \in DOMAIN down[c] /\ Head(down[c]) = down[c][1] BY <1>1
  <2>2. QED BY <2>1 DEF Lists
<1>3. conn[c] = "on" BY <1>2 DEF Gate, Connected, Types
<1>4. QED BY <1>3 DEF Gate, Knows, Believed, Believes

\* One client's computations, timers and requests go on.
LEMMA OwnStep ==
  ASSUME IInv, NEW c \in Clients, UNCHANGED <<room, conn, down, told>>,
         up' \in [Clients -> Seq(Asked)], Len(up'[c]) <= MaxSent,
         requested' \in [Clients -> SUBSET Keys], unused' \in [Clients -> SUBSET Keys],
         running' \in [Clients -> [Keys -> 0..MaxRuns]],
         \A d \in Clients \ {c} :
           /\ up'[d] = up[d] /\ requested'[d] = requested[d]
           /\ unused'[d] = unused[d] /\ running'[d] = running[d],
         conn[c] # "on" => requested'[c] = requested[c],
         \A k : Requesting(c, k) => Requesting(c, k)',
         \A k \in requested'[c] : k \in requested[c] \/ Requesting(c, k)',
         \A k \in Keys :
           /\ told[c][k] = c /\ conn[c] = "on"
           /\ running[c][k] > 0 \/ k \in unused[c] \/ Releasing(c, k)
           => running'[c][k] > 0 \/ k \in unused'[c] \/ Releasing(c, k)'
  PROVE  IInv'
<1>1. Types /\ \A d \in Clients : Gate(d) BY DEF IInv
<1>2. /\ members' = members /\ live' = live /\ holder' = holder /\ conn' = conn
      /\ down' = down /\ told' = told
  BY DEF room
<1>3. Types' BY <1>1, <1>2 DEF Types, Asked, Heard, Listed, Denials, Beliefs, Keys
<1>4. ASSUME NEW d \in Clients \ {c} PROVE Gate(d)'
  <2>1. Same(d) /\ Freed BY <1>2 DEF Same, Freed
  <2>2. QED BY <1>1, <1>2, <2>1, Untouched
<1>5. Gate(c)'
  <2>1. Connected(c)' BY <1>1, <1>2 DEF Gate, Connected, Nobody, Keys
  <2>2. ASSUME c \in members, conn[c] # "off"
        PROVE  (Knows(c) /\ Uses(c) /\ Answered(c))'
    <3>1. Knows(c) /\ Uses(c) /\ Answered(c) BY <1>1, <2>2 DEF Gate
    <3>2. Knows(c)'
      <4>1. Believed(c)' = Believed(c) BY <1>2 DEF Believed
      <4>2. QED BY <1>2, <3>1, <4>1 DEF Knows, Keys
    <3>3. Uses(c)'
      <4>0. Lists(down'[c]) = Lists(down[c]) BY <1>2
      <4> SUFFICES ASSUME NEW k \in Keys, holder[k] = c, Lists(down[c]) = {}
                   PROVE  running'[c][k] > 0 \/ k \in unused'[c] \/ Releasing(c, k)'
        BY <1>2, <4>0 DEF Uses, Keys
      <4>1. told[c][k] = c /\ conn[c] = "on"
        BY <1>1, <2>2, NothingOnItsWay, NoOneAssumption
      <4>2. running[c][k] > 0 \/ k \in unused[c] \/ Releasing(c, k) BY <3>1 DEF Uses
      <4>3. QED BY <4>1, <4>2
    <3>4. Answered(c)'
      <4> SUFFICES ASSUME NEW k \in requested'[c]
                   PROVE  Requesting(c, k)' \/ \E i \in DOMAIN down[c] : Answers(down[c][i], k)
        BY <1>2 DEF Answered
      <4>1. QED BY <3>1 DEF Answered
    <3>5. QED BY <3>2, <3>3, <3>4
  <2>3. QED BY <1>2, <2>1, <2>2 DEF Gate
<1>6. QED BY <1>3, <1>4, <1>5 DEF IInv

\* shouldCompute, beginCompute, its end, and the timers of a gate.
LEMMA ComputingKeeps ==
  ASSUME IInv, NEW c \in Clients, NEW k \in Keys, Computing(c, k)
  PROVE  IInv'
<1>1. Types /\ Gate(c) BY DEF IInv
<1>2. /\ Len(up[c]) <= MaxSent /\ up \in [Clients -> Seq(Asked)]
      /\ requested \in [Clients -> SUBSET Keys] /\ unused \in [Clients -> SUBSET Keys]
      /\ running \in [Clients -> [Keys -> 0..MaxRuns]] /\ running[c][k] \in 0..MaxRuns
      /\ MaxRuns \in Nat
  BY <1>1, FlightAssumption DEF Types, Gate, Connected
<1>3. CASE Ask(c, k)
  <2>1. Send(c, "request", k) /\ conn[c] = "on" BY <1>3 DEF Ask, Online
  <2>2. /\ UNCHANGED <<room, conn, down, told>> /\ unused' = unused /\ running' = running
        /\ requested' = [requested EXCEPT ![c] = @ \cup {k}]
    BY <1>3 DEF Ask
  <2>3. requested' \in [Clients -> SUBSET Keys] BY <1>2, <2>2
  <2>4. /\ requested'[c] = requested[c] \cup {k}
        /\ \A d \in Clients \ {c} : requested'[d] = requested[d]
    BY <1>2, <2>2
  <2>5. /\ up' \in [Clients -> Seq(Asked)] /\ Len(up'[c]) <= MaxSent
        /\ \A d \in Clients \ {c} : up'[d] = up[d]
        /\ \A k2 : Requesting(c, k2) => Requesting(c, k2)'
        /\ \A k2 : Releasing(c, k2) => Releasing(c, k2)'
        /\ Requesting(c, k)'
    BY <1>1, <2>1, SendIs
  <2>6. /\ \A k2 \in requested'[c] : k2 \in requested[c] \/ Requesting(c, k2)'
        /\ \A k2 \in Keys :
             running[c][k2] > 0 \/ k2 \in unused[c] \/ Releasing(c, k2)
             => running'[c][k2] > 0 \/ k2 \in unused'[c] \/ Releasing(c, k2)'
    BY <2>2, <2>4, <2>5
  <2>7. /\ \A d \in Clients \ {c} : up'[d] = up[d] /\ requested'[d] = requested[d]
                                    /\ unused'[d] = unused[d]
                                    /\ running'[d] = running[d]
        /\ unused' \in [Clients -> SUBSET Keys]
        /\ running' \in [Clients -> [Keys -> 0..MaxRuns]]
        /\ UNCHANGED <<room, conn, down, told>>
    BY <1>2, <2>2, <2>4, <2>5
  <2>8. QED BY ONLY IInv, <2>1, <2>3, <2>5, <2>6, <2>7, OwnStep
<1>4. CASE Begin(c, k)
  <2>1. /\ UNCHANGED <<room, conn, down, told>> /\ unused' = unused
        /\ running[c][k] < MaxRuns
        /\ running' = [running EXCEPT ![c][k] = @ + 1]
    BY <1>4 DEF Begin
  <2>2. /\ running' \in [Clients -> [Keys -> 0..MaxRuns]]
        /\ \A d \in Clients \ {c} : running'[d] = running[d]
        /\ \A k2 \in Keys : running[c][k2] > 0 => running'[c][k2] > 0
    BY <1>2, <2>1
  <2>3. CASE up' = up /\ requested' = requested
    <3>1. /\ \A k2 : Requesting(c, k2) => Requesting(c, k2)'
          /\ \A k2 : Releasing(c, k2) => Releasing(c, k2)'
      BY <2>3 DEF Requesting, Releasing
    <3>2. /\ up' \in [Clients -> Seq(Asked)] /\ Len(up'[c]) <= MaxSent
          /\ requested' \in [Clients -> SUBSET Keys]
          /\ unused' \in [Clients -> SUBSET Keys]
          /\ requested'[c] = requested[c]
          /\ \A d \in Clients \ {c} : up'[d] = up[d] /\ requested'[d] = requested[d]
                                      /\ unused'[d] = unused[d]
                                      /\ running'[d] = running[d]
      BY <1>2, <2>1, <2>2, <2>3
    <3>3. /\ \A k2 \in requested'[c] : k2 \in requested[c] \/ Requesting(c, k2)'
          /\ \A k2 \in Keys :
               running[c][k2] > 0 \/ k2 \in unused[c] \/ Releasing(c, k2)
               => running'[c][k2] > 0 \/ k2 \in unused'[c] \/ Releasing(c, k2)'
      BY <2>1, <2>2, <3>1, <3>2
    <3>4. UNCHANGED <<room, conn, down, told>> BY <2>1
    <3>5. running' \in [Clients -> [Keys -> 0..MaxRuns]] BY <2>2
    <3>6. QED BY ONLY IInv, <3>1, <3>2, <3>3, <3>4, <3>5, OwnStep
  <2>4. CASE /\ conn[c] = "on" /\ Send(c, "request", k)
             /\ requested' = [requested EXCEPT ![c] = @ \cup {k}]
    <3>1. requested' \in [Clients -> SUBSET Keys] BY <1>2, <2>4
    <3>2. /\ requested'[c] = requested[c] \cup {k}
          /\ \A d \in Clients \ {c} : requested'[d] = requested[d]
      BY <1>2, <2>4
    <3>3. /\ up' \in [Clients -> Seq(Asked)] /\ Len(up'[c]) <= MaxSent
          /\ \A d \in Clients \ {c} : up'[d] = up[d]
          /\ \A k2 : Requesting(c, k2) => Requesting(c, k2)'
          /\ \A k2 : Releasing(c, k2) => Releasing(c, k2)'
          /\ Requesting(c, k)'
      BY <1>1, <2>4, SendIs
    <3>4. /\ \A k2 \in requested'[c] : k2 \in requested[c] \/ Requesting(c, k2)'
          /\ \A k2 \in Keys :
               running[c][k2] > 0 \/ k2 \in unused[c] \/ Releasing(c, k2)
               => running'[c][k2] > 0 \/ k2 \in unused'[c] \/ Releasing(c, k2)'
      BY <2>1, <2>2, <3>2, <3>3
    <3>5. /\ \A d \in Clients \ {c} : up'[d] = up[d] /\ requested'[d] = requested[d]
                                      /\ unused'[d] = unused[d]
                                      /\ running'[d] = running[d]
          /\ unused' \in [Clients -> SUBSET Keys]
          /\ running' \in [Clients -> [Keys -> 0..MaxRuns]]
          /\ UNCHANGED <<room, conn, down, told>>
      BY <1>2, <2>1, <2>2, <3>2, <3>3
    <3>6. QED BY ONLY IInv, <2>4, <3>1, <3>3, <3>4, <3>5, OwnStep
  <2>5. QED BY <1>4, <2>3, <2>4 DEF Begin, Online
<1>5. CASE End(c, k)
  <2>1. /\ UNCHANGED <<room, conn, down, told>> /\ unused' = unused
        /\ requested' = requested /\ running[c][k] > 0
        /\ running' = [running EXCEPT ![c][k] = @ - 1]
    BY <1>5 DEF End
  <2>2. /\ running' \in [Clients -> [Keys -> 0..MaxRuns]]
        /\ \A d \in Clients \ {c} : running'[d] = running[d]
        /\ \A k2 \in Keys : running[c][k2] > 0 =>
             running'[c][k2] > 0 \/ (k2 = k /\ running[c][k] = 1)
    BY <1>2, <2>1
  <2>3. CASE running[c][k] = 1 /\ Holds(c, k) /\ Online(c)
    <3>1. Send(c, "release", k) BY <1>5, <2>3 DEF End
    <3>2. /\ up' \in [Clients -> Seq(Asked)] /\ Len(up'[c]) <= MaxSent
          /\ \A d \in Clients \ {c} : up'[d] = up[d]
          /\ \A k2 : Requesting(c, k2) => Requesting(c, k2)'
          /\ \A k2 : Releasing(c, k2) => Releasing(c, k2)'
          /\ Releasing(c, k)'
      BY <1>1, <3>1, SendIs
    <3>3. \A k2 \in Keys : running[c][k2] > 0 => running'[c][k2] > 0 \/ Releasing(c, k2)'
      BY <2>2, <3>2
    <3>4. QED BY <1>2, <2>1, <2>2, <3>2, <3>3, OwnStep
  <2>4. CASE ~(running[c][k] = 1 /\ Holds(c, k) /\ Online(c))
    <3>1. up' = up BY <1>5, <2>4 DEF End
    <3>2. /\ \A k2 : Requesting(c, k2) => Requesting(c, k2)'
          /\ \A k2 : Releasing(c, k2) => Releasing(c, k2)'
      BY <3>1 DEF Requesting, Releasing
    <3>3. \A k2 \in Keys : told[c][k2] = c /\ conn[c] = "on" /\ running[c][k2] > 0 =>
            running'[c][k2] > 0
      BY <2>2, <2>4 DEF Holds, Online
    <3>4. QED BY <1>2, <2>1, <2>2, <3>1, <3>2, <3>3, OwnStep
  <2>5. QED BY <2>3, <2>4
<1>6. CASE RenewTimer(c, k)
  <2>1. /\ UNCHANGED <<room, conn, down, told>> /\ unused' = unused
        /\ requested' = requested /\ running' = running /\ Send(c, "renew", k)
    BY <1>6 DEF RenewTimer, gate
  <2>2. /\ up' \in [Clients -> Seq(Asked)] /\ Len(up'[c]) <= MaxSent
        /\ \A d \in Clients \ {c} : up'[d] = up[d]
        /\ \A k2 : Requesting(c, k2) => Requesting(c, k2)'
        /\ \A k2 : Releasing(c, k2) => Releasing(c, k2)'
    BY <1>1, <2>1, SendIs
  <2>3. QED BY <1>2, <2>1, <2>2, OwnStep
<1>7. CASE UnusedTimer(c, k)
  <2>1. /\ UNCHANGED <<room, conn, down, told>> /\ requested' = requested
        /\ running' = running
        /\ unused' \in {unused, [unused EXCEPT ![c] = @ \ {k}]}
    BY <1>7 DEF UnusedTimer
  <2>2. /\ unused' \in [Clients -> SUBSET Keys]
        /\ \A d \in Clients \ {c} : unused'[d] = unused[d]
        /\ \A k2 \in unused[c] : k2 \in unused'[c] \/ k2 = k
    BY <1>2, <2>1
  <2>3. CASE Holds(c, k) /\ running[c][k] = 0 /\ Online(c)
    <3>1. Send(c, "release", k) BY <1>7, <2>3 DEF UnusedTimer
    <3>2. /\ up' \in [Clients -> Seq(Asked)] /\ Len(up'[c]) <= MaxSent
          /\ \A d \in Clients \ {c} : up'[d] = up[d]
          /\ \A k2 : Requesting(c, k2) => Requesting(c, k2)'
          /\ \A k2 : Releasing(c, k2) => Releasing(c, k2)'
          /\ Releasing(c, k)'
      BY <1>1, <3>1, SendIs
    <3>3. QED BY <1>2, <2>1, <2>2, <3>2, OwnStep
  <2>4. CASE ~(Holds(c, k) /\ running[c][k] = 0 /\ Online(c))
    <3>1. up' = up BY <1>7, <2>4 DEF UnusedTimer
    <3>2. /\ \A k2 : Requesting(c, k2) => Requesting(c, k2)'
          /\ \A k2 : Releasing(c, k2) => Releasing(c, k2)'
      BY <3>1 DEF Requesting, Releasing
    <3>3. \A k2 \in Keys : told[c][k2] = c /\ conn[c] = "on" /\ k2 \in unused[c] =>
            running[c][k2] > 0 \/ k2 \in unused'[c]
      BY <1>2, <2>2, <2>4 DEF Holds, Online
    <3>4. QED BY <1>2, <2>1, <2>2, <3>1, <3>2, <3>3, OwnStep
  <2>5. QED BY <2>3, <2>4
<1>8. QED BY <1>3, <1>4, <1>5, <1>6, <1>7 DEF Computing
-----------------------------------------------------------------------------
(* Connections and messages                                                *)

\* A message of the room is read.
LEMMA ReceiveKeeps ==
  ASSUME IInv, NEW c \in Clients, Receive(c)
  PROVE  IInv'
<1>1. Types /\ \A d \in Clients : Gate(d) BY DEF IInv
<1>2. PICK s \in Seq(Heard) : s = down[c] BY <1>1 DEF Types
<1>3. PICK m : m = Head(s) OBVIOUS
<1>4. PICK denied : denied = (m.type = "denied") OBVIOUS
<1>5. /\ conn[c] # "off" /\ s # <<>> /\ down' = [down EXCEPT ![c] = Tail(s)]
      /\ conn' = [conn EXCEPT ![c] = "on"]
      /\ members' = members /\ live' = live /\ holder' = holder
      /\ up' = up /\ running' = running
      /\ IF denied THEN SetDenied(c, m.key) ELSE SetLeases(c, m.holders)
  BY <1>2, <1>3, <1>4 DEF Receive, room
<1>6. /\ Tail(s) \in Seq(Heard) /\ m \in Heard
      /\ \A h : Believes(h, s) = Believes(IF denied THEN h ELSE m.holders, Tail(s))
      /\ denied => (Lists(s) = {}) = (Lists(Tail(s)) = {})
      /\ \A i \in DOMAIN s : s[i] = m \/ \E j \in DOMAIN Tail(s) : Tail(s)[j] = s[i]
  BY <1>3, <1>4, <1>5, HeadIsRead
<1>7. IF denied THEN m.key \in Keys ELSE m.holders \in Beliefs
  BY <1>4, <1>6, HeardTypes DEF Heard
<1>8. /\ told' = [told EXCEPT ![c] = IF denied THEN told[c] ELSE m.holders]
      /\ requested' = [requested EXCEPT ![c] =
            IF denied THEN requested[c] \ {m.key}
                      ELSE {k \in requested[c] : m.holders[k] = NoOne}]
      /\ unused' = [unused EXCEPT ![c] =
            IF denied THEN unused[c]
            ELSE unused[c] \cup {k \in Keys : m.holders[k] = c /\ running[c][k] = 0}]
  <2>1. CASE denied
    <3>1. SetDenied(c, m.key) BY <1>5, <2>1
    <3>2. told' = told /\ unused' = unused
          /\ requested' = [requested EXCEPT ![c] = requested[c] \ {m.key}]
      BY <3>1 DEF SetDenied
    <3>3. QED BY <1>1, <2>1, <3>2 DEF Types
  <2>2. CASE ~denied
    <3>1. SetLeases(c, m.holders) BY <1>5, <2>2
    <3>2. QED BY <2>2, <3>1 DEF SetLeases
  <2>3. QED BY <1>4, <2>1, <2>2
<1>9. Types'
  <2>1. conn' \in [Clients -> {"off", "joining", "on"}] BY <1>1, <1>5 DEF Types
  <2>2. down' \in [Clients -> Seq(Heard)] BY <1>1, <1>5, <1>6 DEF Types
  <2>3. told' \in [Clients -> Beliefs] BY <1>1, <1>7, <1>8 DEF Types
  <2>4. requested' \in [Clients -> SUBSET Keys] BY <1>1, <1>8 DEF Types
  <2>5. unused' \in [Clients -> SUBSET Keys] BY <1>1, <1>8 DEF Types
  <2>6. QED
    BY <1>1, <1>5, <2>1, <2>2, <2>3, <2>4, <2>5
    DEF Types, Keys, Beliefs, Asked, Heard, Listed, Denials
<1>10. ASSUME NEW d \in Clients \ {c} PROVE Gate(d)'
  <2>1. Same(d) /\ down'[d] = down[d] /\ Freed
    BY <1>1, <1>5, <1>8 DEF Same, Freed, Types
  <2>2. QED BY <1>1, <1>5, <2>1, Untouched
<1>11. /\ conn'[c] = "on" /\ down'[c] = Tail(s)
       /\ told'[c] = IF denied THEN told[c] ELSE m.holders
       /\ requested'[c] = IF denied THEN requested[c] \ {m.key}
                                    ELSE {k \in requested[c] : m.holders[k] = NoOne}
       /\ unused'[c] = IF denied THEN unused[c]
            ELSE unused[c] \cup {k \in Keys : m.holders[k] = c /\ running[c][k] = 0}
  BY <1>1, <1>5, <1>8 DEF Types
<1>12. Gate(c)'
  <2>1. Connected(c)' BY <1>1, <1>5, <1>11 DEF Gate, Connected
  <2>2. ASSUME c \in members PROVE (Knows(c) /\ Uses(c) /\ Answered(c))'
    <3>1. Knows(c) /\ Uses(c) /\ Answered(c) BY <1>1, <1>5, <2>2 DEF Gate
    <3>2. Believed(c)' = Believed(c) BY <1>2, <1>6, <1>11 DEF Believed
    <3>3. Knows(c)' BY <1>5, <3>1, <3>2 DEF Knows, Keys
    <3>4. Uses(c)'
      <4> SUFFICES ASSUME NEW k \in Keys, holder[k] = c, Lists(Tail(s)) = {}
                   PROVE  running[c][k] > 0 \/ k \in unused'[c] \/ Releasing(c, k)'
        BY <1>5, <1>11 DEF Uses, Keys
      <4>1. Releasing(c, k)' <=> Releasing(c, k) BY <1>5 DEF Releasing
      <4>2. CASE denied
        <5>1. Lists(s) = {} BY <1>6, <4>2
        <5>2. QED BY <1>2, <1>11, <3>1, <4>1, <4>2, <5>1 DEF Uses
      <4>3. CASE ~denied
        <5>1. Believed(c) = m.holders BY <1>2, <1>6, <4>3 DEF Believed, Believes
        <5>2. m.holders[k] = c BY <3>1, <5>1, NoOneAssumption DEF Knows
        <5>3. running[c][k] \in Nat BY <1>1, FlightAssumption DEF Types
        <5>4. QED BY <1>11, <4>3, <5>2, <5>3
      <4>4. QED BY <1>4, <4>2, <4>3
    <3>5. Answered(c)'
      <4> SUFFICES ASSUME NEW k \in requested'[c]
                   PROVE  Requesting(c, k)' \/ \E i \in DOMAIN Tail(s) : Answers(Tail(s)[i], k)
        BY <1>11 DEF Answered
      <4>1. k \in requested[c] /\ ~Answers(m, k) BY <1>4, <1>11 DEF Answers
      <4>2. Requesting(c, k)' <=> Requesting(c, k) BY <1>5 DEF Requesting
      <4>3. Requesting(c, k) \/ \E i \in DOMAIN s : Answers(s[i], k)
        BY <1>2, <3>1, <4>1 DEF Answered
      <4>4. CASE Requesting(c, k) BY <4>2, <4>4
      <4>5. CASE \E i \in DOMAIN s : Answers(s[i], k)
        <5>1. PICK i \in DOMAIN s : Answers(s[i], k) BY <4>5
        <5>2. s[i] # m BY <4>1, <5>1
        <5>3. QED BY <1>6, <5>1, <5>2
      <4>6. QED BY <4>3, <4>4, <4>5
    <3>6. QED BY <3>3, <3>4, <3>5
  <2>3. QED BY <1>5, <2>1, <2>2 DEF Gate
<1>13. QED BY <1>9, <1>10, <1>12 DEF IInv

\* A connection is lost before the room notices.
LEMMA DisconnectKeeps ==
  ASSUME IInv, NEW c \in Clients, Disconnect(c)
  PROVE  IInv'
<1>1. Types /\ \A d \in Clients : Gate(d) BY DEF IInv
<1>2. /\ conn' = [conn EXCEPT ![c] = "off"] /\ down' = [down EXCEPT ![c] = <<>>]
      /\ told' = [told EXCEPT ![c] = Nobody] /\ requested' = [requested EXCEPT ![c] = {}]
      /\ members' = members /\ live' = live /\ holder' = holder
      /\ up' = up /\ unused' = unused /\ running' = running
  BY DEF Disconnect, room
<1>3. Types'
  <2>1. conn' \in [Clients -> {"off", "joining", "on"}] BY <1>1, <1>2 DEF Types
  <2>2. down' \in [Clients -> Seq(Heard)]
    <3>1. <<>> \in Seq(Heard) BY EmptySeq
    <3>2. QED BY <1>1, <1>2, <3>1 DEF Types
  <2>3. told' \in [Clients -> Beliefs] BY <1>1, <1>2 DEF Types, Nobody, Beliefs
  <2>4. requested' \in [Clients -> SUBSET Keys] BY <1>1, <1>2 DEF Types
  <2>5. QED
    BY <1>1, <1>2, <2>1, <2>2, <2>3, <2>4
    DEF Types, Keys, Beliefs, Asked, Heard, Listed, Denials
<1>4. ASSUME NEW d \in Clients \ {c} PROVE Gate(d)'
  <2>1. Same(d) /\ down'[d] = down[d] /\ Freed BY <1>1, <1>2 DEF Same, Freed, Types
  <2>2. QED BY <1>1, <1>2, <2>1, Untouched
<1>5. Gate(c)'
  <2>1. conn'[c] = "off" /\ told'[c] = Nobody /\ requested'[c] = {}
    BY <1>1, <1>2 DEF Types
  <2>2. QED BY <1>1, <1>2, <2>1 DEF Gate, Connected, Nobody, Keys
<1>6. QED BY <1>3, <1>4, <1>5 DEF IInv

\* The client is welcomed with the table.
LEMMA JoinKeeps ==
  ASSUME IInv, NEW c \in Clients, JoinRoom(c)
  PROVE  IInv'
<1>1. Types /\ \A d \in Clients : Gate(d) BY DEF IInv
<1>2. PICK m : m = LeaseList("welcome") OBVIOUS
<1>3. /\ conn' = [conn EXCEPT ![c] = "joining"] /\ down' = [down EXCEPT ![c] = <<m>>]
      /\ up' = [up EXCEPT ![c] = <<>>] /\ conn[c] = "off"
      /\ members' = members \cup {c} /\ live' = live /\ holder' = holder
      /\ told' = told /\ requested' = requested /\ unused' = unused /\ running' = running
  BY <1>2 DEF JoinRoom, Table!Join, gate
<1>4. m \in Listed /\ m.holders = holder /\ m.type = "welcome"
  BY <1>1, <1>2, <1>3 DEF LeaseList, Listed, Types
<1>5. /\ <<m>> \in Seq(Heard) /\ <<m>> # <<>> /\ Head(<<m>>) = m
      /\ Lists(<<m>>) # {} /\ \A h : Believes(h, <<m>>) = holder
  <2>1. <<m>> = Append(<<>>, m) /\ <<>> \in Seq(Heard) BY EmptySeq
  <2>2. /\ Append(<<>>, m) \in Seq(Heard) /\ Append(<<>>, m) # <<>>
        /\ Lists(Append(<<>>, m)) # {} /\ \A h : Believes(h, Append(<<>>, m)) = m.holders
    BY <1>4, <2>1, ListComes
  <2>3. Head(<<m>>) = m OBVIOUS
  <2>4. QED BY <1>4, <2>1, <2>2, <2>3
<1>6. Types'
  <2>1. conn' \in [Clients -> {"off", "joining", "on"}] BY <1>1, <1>3 DEF Types
  <2>2. down' \in [Clients -> Seq(Heard)] BY <1>1, <1>3, <1>5 DEF Types
  <2>3. up' \in [Clients -> Seq(Asked)]
    <3>1. <<>> \in Seq(Asked) BY EmptySeq
    <3>2. QED BY <1>1, <1>3, <3>1 DEF Types
  <2>4. members' \subseteq Clients BY <1>1, <1>3 DEF Types
  <2>5. QED
    BY <1>1, <1>3, <2>1, <2>2, <2>3, <2>4
    DEF Types, Keys, Beliefs, Asked, Heard, Listed, Denials
<1>7. ASSUME NEW d \in Clients \ {c} PROVE Gate(d)'
  <2>1. Same(d) /\ up'[d] = up[d] /\ down'[d] = down[d] /\ Freed
    BY <1>1, <1>3 DEF Same, Freed, Types
  <2>2. d \in members' => d \in members BY <1>3
  <2>3. QED BY <1>1, <2>1, <2>2, Untouched
<1>8. Gate(c)'
  <2>1. /\ conn'[c] = "joining" /\ up'[c] = <<>> /\ down'[c] = <<m>>
    BY <1>1, <1>3 DEF Types
  <2>2. told[c] = Nobody /\ requested[c] = {} BY <1>1, <1>3 DEF Gate, Connected
  <2>3. Len(<<>>) <= MaxSent BY FlightAssumption, EmptySeq
  <2>4. Connected(c)'
    BY <1>3, <1>4, <1>5, <2>1, <2>2, <2>3 DEF Connected, Nobody, Keys
  <2>5. Knows(c)' BY <1>3, <1>5, <2>1 DEF Knows, Believed
  <2>6. Uses(c)' BY <1>5, <2>1 DEF Uses
  <2>7. Answered(c)' BY <1>3, <2>2 DEF Answered
  <2>8. QED BY <2>4, <2>5, <2>6, <2>7 DEF Gate
<1>9. QED BY <1>6, <1>7, <1>8 DEF IInv
-----------------------------------------------------------------------------
(* The room                                                                *)

\* The table changes and every member is told, or it stays as it was.
LEMMA TableStep ==
  ASSUME IInv, holder' \in Beliefs, live' \subseteq live, members' \subseteq members,
         \A k \in Keys : k[2] \notin live' => holder'[k] = NoOne,
         UNCHANGED <<conn, gate>>, BroadcastIfChanged,
         up' \in [Clients -> Seq(Asked)],
         \A d \in Clients : Len(up'[d]) <= MaxSent /\ (d \in members' => up'[d] = up[d])
  PROVE  IInv'
<1>1. Types /\ \A d \in Clients : Gate(d) BY DEF IInv
<1>2. /\ conn' = conn /\ told' = told /\ requested' = requested
      /\ unused' = unused /\ running' = running
  BY DEF gate
<1>3. \A d \in Clients : Same(d) BY <1>2 DEF Same
<1>4. CASE Broadcast
  <2>1. down' \in [Clients -> Seq(Heard)] BY <1>1, <1>4, BroadcastTypes
  <2>2. Types'
    BY <1>1, <1>2, <2>1 DEF Types, Keys, Beliefs, Asked, Heard, Listed, Denials
  <2>3. ASSUME NEW d \in Clients PROVE Gate(d)'
    <3>1. CASE d \in members'
      <4>1. \A k \in requested[d] : Requesting(d, k) => Requesting(d, k)'
        BY <3>1 DEF Requesting
      <4>2. QED BY <1>1, <1>3, <1>4, <2>3, <4>1, BroadcastKeeps
    <3>2. CASE d \notin members'
      <4>1. down'[d] = down[d] BY <1>4, <3>2 DEF Broadcast, CanHear
      <4>2. QED BY <1>1, <1>3, <3>2, <4>1, Outside
    <3>3. QED BY <3>1, <3>2
  <2>4. QED BY <2>2, <2>3 DEF IInv
<1>5. CASE holder' = holder /\ down' = down
  <2>1. Types'
    BY <1>1, <1>2, <1>5 DEF Types, Keys, Beliefs, Asked, Heard, Listed, Denials
  <2>2. ASSUME NEW d \in Clients PROVE Gate(d)'
    <3>1. CASE d \in members'
      <4>1. up'[d] = up[d] /\ down'[d] = down[d] /\ d \in members /\ Freed
        BY <1>5, <3>1 DEF Freed
      <4>2. QED BY <1>1, <1>3, <4>1, Untouched
    <3>2. CASE d \notin members'
      <4>1. down'[d] = down[d] BY <1>5
      <4>2. QED BY <1>1, <1>3, <3>2, <4>1, Outside
    <3>3. QED BY <3>1, <3>2
  <2>3. QED BY <2>1, <2>2 DEF IInv
<1>6. QED BY <1>4, <1>5 DEF BroadcastIfChanged

\* leave, the tick, and the deletion of an itinerary.
LEMMA TableKeeps ==
  ASSUME IInv,
         ExpireLeases \/ (\E c \in Clients : LeaveRoom(c)) \/ (\E i \in Itineraries : DeleteItinerary(i))
  PROVE  IInv'
<1>1. Types /\ \A d \in Clients : Gate(d) BY DEF IInv
<1>2. \A d \in Clients : Len(up[d]) <= MaxSent BY <1>1 DEF Gate, Connected
<1>3. ASSUME NEW c \in Clients, LeaveRoom(c) PROVE IInv'
  <2>1. /\ holder' = [k \in Keys |-> IF holder[k] = c THEN NoOne ELSE holder[k]]
        /\ members' = members \ {c} /\ live' = live
        /\ up' = [up EXCEPT ![c] = <<>>] /\ UNCHANGED <<conn, gate>>
        /\ BroadcastIfChanged
    BY <1>3 DEF LeaveRoom, Table!Leave, Table!Keys, Keys
  <2>2. holder' \in Beliefs BY <1>1, <2>1 DEF Types, Beliefs
  <2>3. \A k \in Keys : k[2] \notin live' => holder'[k] = NoOne BY <1>1, <2>1 DEF Types
  <2>4. <<>> \in Seq(Asked) /\ Len(<<>>) <= MaxSent BY EmptySeq, FlightAssumption
  <2>5. /\ up' \in [Clients -> Seq(Asked)] /\ up'[c] = <<>>
        /\ \A d \in Clients \ {c} : up'[d] = up[d]
    BY <1>1, <2>1, <2>4 DEF Types
  <2>6. \A d \in Clients : Len(up'[d]) <= MaxSent /\ (d \in members' => up'[d] = up[d])
    <3> TAKE d \in Clients
    <3>1. CASE d = c BY <2>1, <2>4, <2>5, <3>1
    <3>2. CASE d # c BY <1>2, <2>5, <3>2
    <3>3. QED BY <3>1, <3>2
  <2>7. QED BY <2>1, <2>2, <2>3, <2>5, <2>6, TableStep
<1>4. ASSUME ExpireLeases PROVE IInv'
  <2>1. PICK gone \in SUBSET Keys :
          holder' = [k \in Keys |-> IF k \in gone THEN NoOne ELSE holder[k]]
    BY <1>4 DEF ExpireLeases, Table!Expire, Table!Keys, Keys
  <2>2. /\ members' = members /\ live' = live /\ up' = up /\ UNCHANGED <<conn, gate>>
        /\ BroadcastIfChanged
    BY <1>4 DEF ExpireLeases, Table!Expire, BroadcastIfChanged
  <2>3. holder' \in Beliefs BY <1>1, <2>1 DEF Types, Beliefs
  <2>4. \A k \in Keys : k[2] \notin live' => holder'[k] = NoOne
    BY <1>1, <2>1, <2>2 DEF Types
  <2>5. /\ up' \in [Clients -> Seq(Asked)]
        /\ \A d \in Clients : Len(up'[d]) <= MaxSent /\ (d \in members' => up'[d] = up[d])
    BY <1>1, <1>2, <2>2 DEF Types
  <2>6. QED BY <2>2, <2>3, <2>4, <2>5, TableStep
<1>5. ASSUME NEW i \in Itineraries, DeleteItinerary(i) PROVE IInv'
  <2>1. /\ holder' = [k \in Keys |-> IF k[2] = i THEN NoOne ELSE holder[k]]
        /\ members' = members /\ live' = live \ {i}
        /\ up' = up /\ UNCHANGED <<conn, gate>> /\ BroadcastIfChanged
    BY <1>5 DEF DeleteItinerary, Table!Delete, Table!Keys, Keys
  <2>2. holder' \in Beliefs BY <1>1, <2>1 DEF Types, Beliefs
  <2>3. \A k \in Keys : k[2] \notin live' => holder'[k] = NoOne BY <1>1, <2>1 DEF Types
  <2>4. /\ up' \in [Clients -> Seq(Asked)]
        /\ \A d \in Clients : Len(up'[d]) <= MaxSent /\ (d \in members' => up'[d] = up[d])
    BY <1>1, <1>2, <2>1 DEF Types
  <2>5. QED BY <2>1, <2>2, <2>3, <2>4, TableStep
<1>6. QED BY <1>3, <1>4, <1>5

\* A message that changes nothing the gate waits for.
LEMMA Consumed ==
  ASSUME NEW d \in Clients, Gate(d), Same(d), down'[d] = down[d], Len(up'[d]) <= MaxSent,
         members' = members, holder' = holder,
         \A k : Requesting(d, k) => Requesting(d, k)',
         \A k \in Keys : holder[k] = d /\ Releasing(d, k) => Releasing(d, k)'
  PROVE  Gate(d)'
<1>1. Connected(d)' BY DEF Gate, Connected, Same, Nobody, Keys
<1>2. ASSUME d \in members', conn'[d] # "off" PROVE (Knows(d) /\ Uses(d) /\ Answered(d))'
  <2>1. Knows(d) /\ Uses(d) /\ Answered(d) BY <1>2 DEF Gate, Same
  <2>2. Believed(d)' = Believed(d) BY DEF Same, Believed
  <2>3. Lists(down'[d]) = Lists(down[d]) OBVIOUS
  <2>4. Knows(d)' BY <2>1, <2>2 DEF Knows, Keys
  <2>5. Uses(d)' BY <2>1, <2>3 DEF Uses, Same, Keys
  <2>6. Answered(d)'
    <3> SUFFICES ASSUME NEW k \in requested'[d]
                 PROVE  Requesting(d, k)' \/ \E i \in DOMAIN down[d] : Answers(down[d][i], k)
      BY DEF Answered
    <3>1. k \in requested[d] BY DEF Same
    <3>2. QED BY <2>1, <3>1 DEF Answered
  <2>7. QED BY <2>4, <2>5, <2>6
<1>3. QED BY <1>1, <1>2 DEF Gate

\* The room takes the first message of a client.
LEMMA HeadIsTaken ==
  ASSUME Types, NEW c \in Clients, Len(up[c]) <= MaxSent, up[c] # <<>>,
         up' = [up EXCEPT ![c] = Tail(@)], NEW m, m = Head(up[c])
  PROVE  /\ m \in Asked
         /\ up' \in [Clients -> Seq(Asked)] /\ Len(up'[c]) <= MaxSent
         /\ \A d \in Clients \ {c} : up'[d] = up[d]
         /\ \A k : Requesting(c, k) =>
              Requesting(c, k)' \/ (m.action = "request" /\ m.key = k)
         /\ \A k : Releasing(c, k) =>
              Releasing(c, k)' \/ (m.action = "release" /\ m.key = k)
<1>1. PICK s \in Seq(Asked) : s = up[c] BY DEF Types
<1>2. PICK t : t = Tail(s) OBVIOUS
<1>3. /\ t \in Seq(Asked) /\ Len(t) = Len(s) - 1 /\ Len(s) \in Nat
      /\ s[1] \in Asked /\ m = s[1]
      /\ \A i \in DOMAIN s : i = 1 \/ (i - 1 \in DOMAIN t /\ t[i - 1] = s[i])
  BY <1>1, <1>2
<1>4. up'[c] = t /\ \A d \in Clients \ {c} : up'[d] = up[d]
  BY <1>1, <1>2 DEF Types
<1>5. up' \in [Clients -> Seq(Asked)] BY <1>1, <1>2, <1>3 DEF Types
<1>6. Len(up'[c]) <= MaxSent BY <1>1, <1>3, <1>4, FlightAssumption
<1>7. \A k : Requesting(c, k) =>
        Requesting(c, k)' \/ (m.action = "request" /\ m.key = k)
  <2> SUFFICES ASSUME NEW k, Requesting(c, k)
               PROVE  Requesting(c, k)' \/ (m.action = "request" /\ m.key = k)
    OBVIOUS
  <2>1. PICK i \in DOMAIN s : s[i] = [action |-> "request", key |-> k] BY <1>1 DEF Requesting
  <2>2. CASE i = 1 BY <1>3, <2>1, <2>2
  <2>3. CASE i - 1 \in DOMAIN t /\ t[i - 1] = s[i] BY <1>4, <2>1, <2>3 DEF Requesting
  <2>4. QED BY <1>3, <2>2, <2>3
<1>8. \A k : Releasing(c, k) =>
        Releasing(c, k)' \/ (m.action = "release" /\ m.key = k)
  <2> SUFFICES ASSUME NEW k, Releasing(c, k)
               PROVE  Releasing(c, k)' \/ (m.action = "release" /\ m.key = k)
    OBVIOUS
  <2>1. PICK i \in DOMAIN s : s[i] = [action |-> "release", key |-> k] BY <1>1 DEF Releasing
  <2>2. CASE i = 1 BY <1>3, <2>1, <2>2
  <2>3. CASE i - 1 \in DOMAIN t /\ t[i - 1] = s[i] BY <1>4, <2>1, <2>3 DEF Releasing
  <2>4. QED BY <1>3, <2>2, <2>3
<1>9. QED BY <1>3, <1>4, <1>5, <1>6, <1>7, <1>8

\* An answer to the client that asked, the table being as it was or freed.
LEMMA PeerKeeps ==
  ASSUME IInv, NEW c \in Clients, NEW m \in Heard, ToPeer(c, m),
         UNCHANGED <<members, live, conn, gate>>, holder' \in Beliefs, Freed,
         up' \in [Clients -> Seq(Asked)], Len(up'[c]) <= MaxSent,
         \A d \in Clients \ {c} : up'[d] = up[d],
         \/ /\ m \in Listed /\ m.holders = holder'
            /\ \A k \in requested[c] :
                 Requesting(c, k) => Requesting(c, k)' \/ holder'[k] # NoOne
         \/ \E k0 \in Keys :
              /\ m = Denied(k0)
              /\ \A k \in Keys : Requesting(c, k) => Requesting(c, k)' \/ k = k0
              /\ \A k \in Keys : holder'[k] = c /\ Releasing(c, k) => Releasing(c, k)'
  PROVE  IInv'
<1>1. Types /\ \A d \in Clients : Gate(d) BY DEF IInv
<1>2. /\ members' = members /\ live' = live /\ conn' = conn /\ told' = told
      /\ requested' = requested /\ unused' = unused /\ running' = running
  BY DEF gate
<1>3. \A d \in Clients : Same(d) BY <1>2 DEF Same
<1>4. down' = IF c \in members /\ conn[c] # "off"
              THEN [down EXCEPT ![c] = Append(@, m)] ELSE down
  BY <1>2 DEF ToPeer, CanHear
<1>5. /\ down'[c] = IF c \in members /\ conn[c] # "off" THEN Append(down[c], m) ELSE down[c]
      /\ \A d \in Clients \ {c} : down'[d] = down[d]
  BY <1>1, <1>4 DEF Types
<1>6. Types'
  <2>1. down[c] \in Seq(Heard) BY <1>1 DEF Types
  <2>2. Append(down[c], m) \in Seq(Heard) BY <2>1
  <2>3. down' \in [Clients -> Seq(Heard)] BY <1>1, <1>4, <2>2 DEF Types
  <2>4. \A k \in Keys : k[2] \notin live' => holder'[k] = NoOne
    BY <1>1, <1>2 DEF Types, Freed
  <2>5. QED
    BY <1>1, <1>2, <2>3, <2>4 DEF Types, Keys, Beliefs, Asked, Heard, Listed, Denials
<1>7. ASSUME NEW d \in Clients \ {c} PROVE Gate(d)'
  <2>1. up'[d] = up[d] /\ down'[d] = down[d] BY <1>5
  <2>2. QED BY <1>1, <1>2, <1>3, <2>1, Untouched
<1>8. Gate(c)'
  <2>1. CASE ~(c \in members /\ conn[c] # "off")
    <3>1. down'[c] = down[c] BY <1>5, <2>1
    <3>2. QED BY <1>1, <1>2, <1>3, <2>1, <3>1, Outside
  <2>2. CASE c \in members /\ conn[c] # "off"
    <3>1. down'[c] = Append(down[c], m) BY <1>5, <2>2
    <3>2. CASE /\ m \in Listed /\ m.holders = holder'
               /\ \A k \in requested[c] :
                    Requesting(c, k) => Requesting(c, k)' \/ holder'[k] # NoOne
      BY <1>1, <1>3, <2>2, <3>1, <3>2, HearsList
    <3>3. ASSUME NEW k0 \in Keys, m = Denied(k0),
                 \A k \in Keys : Requesting(c, k) => Requesting(c, k)' \/ k = k0,
                 \A k \in Keys : holder'[k] = c /\ Releasing(c, k) => Releasing(c, k)'
          PROVE  Gate(c)'
      <4>1. down'[c] = Append(down[c], Denied(k0)) BY <3>1, <3>3
      <4>2. QED BY <1>1, <1>3, <2>2, <3>3, <4>1, HearsDenial
    <3>4. QED BY <3>2, <3>3
  <2>3. QED BY <2>1, <2>2
<1>9. QED BY <1>6, <1>7, <1>8 DEF IInv

\* The table is told to all when a request or a release changes it.
LEMMA ToldToAll ==
  ASSUME IInv, NEW c \in Clients, Broadcast, UNCHANGED <<members, live, conn, gate>>,
         holder' \in Beliefs, \A k \in Keys : k[2] \notin live => holder'[k] = NoOne,
         up' \in [Clients -> Seq(Asked)], Len(up'[c]) <= MaxSent,
         \A d \in Clients \ {c} : up'[d] = up[d],
         \A k \in requested[c] : Requesting(c, k) => Requesting(c, k)' \/ holder'[k] # NoOne
  PROVE  IInv'
<1>1. Types /\ \A d \in Clients : Gate(d) BY DEF IInv
<1>2. /\ members' = members /\ live' = live /\ conn' = conn /\ told' = told
      /\ requested' = requested /\ unused' = unused /\ running' = running
  BY DEF gate
<1>3. down' \in [Clients -> Seq(Heard)] BY <1>1, BroadcastTypes
<1>4. Types' BY <1>1, <1>2, <1>3 DEF Types, Keys, Beliefs, Asked, Heard, Listed, Denials
<1>5. ASSUME NEW d \in Clients PROVE Gate(d)'
  <2>1. Same(d) BY <1>2 DEF Same
  <2>2. Len(up'[d]) <= MaxSent BY <1>1 DEF Gate, Connected
  <2>3. \A k \in requested[d] : Requesting(d, k) => Requesting(d, k)' \/ holder'[k] # NoOne
    <3>1. CASE d = c BY <3>1
    <3>2. CASE d # c
      <4>1. up'[d] = up[d] BY <3>2
      <4>2. QED BY <4>1 DEF Requesting
    <3>3. QED BY <3>1, <3>2
  <2>4. members' \subseteq members BY <1>2
  <2>5. QED BY ONLY <1>1, Broadcast, holder' \in Beliefs, <2>1, <2>2, <2>3, <2>4,
                    <1>5, BroadcastKeeps
<1>6. QED BY <1>4, <1>5 DEF IInv

\* A message without an answer.
LEMMA NoAnswer ==
  ASSUME IInv, NEW c \in Clients, UNCHANGED <<members, live, holder, conn, down, gate>>,
         up' \in [Clients -> Seq(Asked)], Len(up'[c]) <= MaxSent,
         \A d \in Clients \ {c} : up'[d] = up[d],
         \A k : Requesting(c, k) => Requesting(c, k)',
         \A k \in Keys : holder[k] = c /\ Releasing(c, k) => Releasing(c, k)'
  PROVE  IInv'
<1>1. Types /\ \A d \in Clients : Gate(d) BY DEF IInv
<1>2. /\ members' = members /\ live' = live /\ holder' = holder /\ conn' = conn
      /\ told' = told /\ requested' = requested /\ unused' = unused
      /\ running' = running /\ down' = down
  BY DEF gate
<1>3. Types' BY <1>1, <1>2 DEF Types, Keys, Beliefs, Asked, Heard, Listed, Denials
<1>4. \A d \in Clients : Same(d) /\ down'[d] = down[d] /\ Freed BY <1>2 DEF Same, Freed
<1>5. ASSUME NEW d \in Clients \ {c} PROVE Gate(d)' BY <1>1, <1>2, <1>4, Untouched
<1>6. Gate(c)' BY <1>1, <1>2, <1>4, Consumed
<1>7. QED BY <1>3, <1>5, <1>6 DEF IInv

\* handleLease
LEMMA HandleKeeps ==
  ASSUME IInv, NEW c \in Clients, Handle(c)
  PROVE  IInv'
<1>1. Types /\ Gate(c) BY DEF IInv
<1>2. PICK m : m = Head(up[c]) OBVIOUS
<1>3. PICK k0 : k0 = m.key OBVIOUS
<1>4. /\ up[c] # <<>> /\ UNCHANGED <<members, live, conn, gate>>
      /\ up' = [up EXCEPT ![c] = Tail(@)] /\ c \in members
      /\ IF k0[2] \notin live THEN HandleDeleted(k0, c)
         ELSE CASE m.action = "request" -> HandleRequest(k0, c)
                [] m.action = "renew"   -> HandleRenew(k0, c)
                [] m.action = "release" -> HandleRelease(k0, c)
  BY <1>2, <1>3 DEF Handle
<1>5. Len(up[c]) <= MaxSent BY <1>1 DEF Gate, Connected
<1>6. /\ m \in Asked
      /\ up' \in [Clients -> Seq(Asked)] /\ Len(up'[c]) <= MaxSent
      /\ \A d \in Clients \ {c} : up'[d] = up[d]
      /\ \A k : Requesting(c, k) => Requesting(c, k)' \/ (m.action = "request" /\ m.key = k)
      /\ \A k : Releasing(c, k) => Releasing(c, k)' \/ (m.action = "release" /\ m.key = k)
  BY <1>1, <1>2, <1>4, <1>5, HeadIsTaken
<1>7. /\ k0 \in Keys /\ m.action \in {"request", "renew", "release"}
      /\ holder \in Beliefs /\ requested[c] \subseteq Keys
      /\ \A k \in Keys : k[2] \notin live => holder[k] = NoOne
  BY <1>1, <1>3, <1>6 DEF Asked, Types
<1>8. ASSUME UNCHANGED holder \/ Table!Free(k0) PROVE holder' \in Beliefs /\ Freed
  BY <1>7, <1>8 DEF Table!Free, Beliefs, Freed
<1>9. ASSUME holder' \in Beliefs, Freed, ToPeer(c, LeaseList("leases")),
             m.action # "request" \/ holder'[k0] # NoOne
      PROVE  IInv'
  <2>1. PICK a : a = LeaseList("leases") OBVIOUS
  <2>2. a \in Listed /\ a \in Heard /\ a.holders = holder' /\ ToPeer(c, a)
    BY <1>9, <2>1 DEF LeaseList, Listed, Heard
  <2>3. \A k \in requested[c] : Requesting(c, k) => Requesting(c, k)' \/ holder'[k] # NoOne
    BY <1>3, <1>6, <1>9
  <2>4. QED BY ONLY IInv, c \in Clients, <1>4, <1>6, <1>9, <2>2, <2>3, PeerKeeps
<1>10. ASSUME holder' \in Beliefs, Freed, ToPeer(c, Denied(k0)),
              m.action # "release" \/ holder'[k0] # c
       PROVE  IInv'
  <2>1. PICK a : a = Denied(k0) OBVIOUS
  <2>2. a \in Heard /\ ToPeer(c, a) BY <1>7, <1>10, <2>1 DEF Denied, Denials, Heard
  <2>3. /\ \A k \in Keys : Requesting(c, k) => Requesting(c, k)' \/ k = k0
        /\ \A k \in Keys : holder'[k] = c /\ Releasing(c, k) => Releasing(c, k)'
    BY <1>3, <1>6, <1>10
  <2>4. QED
    BY ONLY IInv, c \in Clients, <1>4, <1>6, <1>7, <1>10, <2>1, <2>2, <2>3,
            PeerKeeps
<1>11. ASSUME holder' \in Beliefs, Broadcast,
              \A k \in Keys : k[2] \notin live => holder'[k] = NoOne,
              m.action # "request" \/ holder'[k0] # NoOne
       PROVE  IInv'
  <2>1. \A k \in requested[c] : Requesting(c, k) => Requesting(c, k)' \/ holder'[k] # NoOne
    BY <1>3, <1>6, <1>11
  <2>2. QED BY ONLY IInv, c \in Clients, <1>4, <1>6, <1>11, <2>1, ToldToAll
<1>12. ASSUME UNCHANGED <<holder, down>>, m.action # "request",
              m.action # "release" \/ holder[k0] # c
       PROVE  IInv'
  <2>1. /\ \A k : Requesting(c, k) => Requesting(c, k)'
        /\ \A k \in Keys : holder[k] = c /\ Releasing(c, k) => Releasing(c, k)'
    BY <1>3, <1>6, <1>12
  <2>2. UNCHANGED <<members, live, holder, conn, down, gate>> BY <1>4, <1>12
  <2>3. QED BY ONLY IInv, c \in Clients, <1>6, <2>1, <2>2, NoAnswer
<1>13. CASE k0[2] \notin live
  <2>1. UNCHANGED holder /\ ToPeer(c, Denied(k0)) BY <1>4, <1>13 DEF HandleDeleted
  <2>2. holder'[k0] # c BY <1>7, <1>13, <2>1, NoOneAssumption
  <2>3. QED BY <1>8, <1>10, <2>1, <2>2
<1>14. CASE k0[2] \in live /\ m.action = "request"
  <2>1. HandleRequest(k0, c) BY <1>4, <1>14
  <2>2. CASE Table!Granted(k0, c) /\ Broadcast
    <3>1. /\ holder' \in Beliefs /\ holder'[k0] # NoOne
          /\ \A k \in Keys : k[2] \notin live => holder'[k] = NoOne
      BY <1>7, <1>14, <2>2, NoOneAssumption DEF Table!Granted, Beliefs
    <3>2. QED BY <1>11, <2>2, <3>1
  <2>3. CASE Table!Extended(k0, c) /\ ToPeer(c, LeaseList("leases"))
    <3>1. UNCHANGED holder /\ holder'[k0] # NoOne
      BY <2>3, NoOneAssumption DEF Table!Extended
    <3>2. QED BY <1>8, <1>9, <2>3, <3>1
  <2>4. CASE Table!Refused(k0) /\ ToPeer(c, Denied(k0))
    <3>1. holder' \in Beliefs /\ Freed BY <1>8, <2>4 DEF Table!Refused
    <3>2. QED BY <1>10, <1>14, <2>4, <3>1
  <2>5. QED BY <2>1, <2>2, <2>3, <2>4 DEF HandleRequest
<1>15. CASE k0[2] \in live /\ m.action = "renew"
  <2>1. HandleRenew(k0, c) BY <1>4, <1>15
  <2>2. CASE Table!Renewed(k0, c) /\ UNCHANGED down
    <3>1. UNCHANGED <<holder, down>> BY <2>2 DEF Table!Renewed
    <3>2. QED BY <1>12, <1>15, <3>1
  <2>3. CASE Table!NotRenewed(k0) /\ ToPeer(c, LeaseList("leases"))
    <3>1. holder' \in Beliefs /\ Freed BY <1>8, <2>3 DEF Table!NotRenewed
    <3>2. QED BY <1>9, <1>15, <2>3, <3>1
  <2>4. QED BY <2>1, <2>2, <2>3 DEF HandleRenew
<1>16. CASE k0[2] \in live /\ m.action = "release"
  <2>1. HandleRelease(k0, c) BY <1>4, <1>16
  <2>2. CASE holder[k0] = c
    <3>1. Table!Free(k0) /\ Broadcast BY <2>1, <2>2 DEF HandleRelease, Table!Release
    <3>2. holder' \in Beliefs /\ Freed BY <1>8, <3>1
    <3>3. \A k \in Keys : k[2] \notin live => holder'[k] = NoOne
      BY <1>7, <3>2 DEF Freed
    <3>4. QED BY <1>11, <1>16, <3>1, <3>2, <3>3
  <2>3. CASE holder[k0] # c
    <3>1. UNCHANGED <<holder, down>> BY <2>1, <2>3 DEF HandleRelease
    <3>2. QED BY <1>12, <1>16, <2>3, <3>1
  <2>4. QED BY <2>2, <2>3
<1>17. QED BY <1>7, <1>13, <1>14, <1>15, <1>16
-----------------------------------------------------------------------------
(* The invariant                                                           *)

LEMMA InitHolds ==
  ASSUME GatesInit PROVE IInv
<1>1. <<>> \in Seq(Asked) /\ <<>> \in Seq(Heard) /\ Len(<<>>) <= MaxSent
  BY EmptySeq, FlightAssumption
<1>2. /\ members = {} /\ live = Itineraries
      /\ holder = Nobody /\ conn = [c \in Clients |-> "off"]
      /\ up = [c \in Clients |-> <<>>] /\ down = [c \in Clients |-> <<>>]
      /\ told = [c \in Clients |-> Nobody] /\ requested = [c \in Clients |-> {}]
      /\ unused = [c \in Clients |-> {}]
      /\ running = [c \in Clients |-> [k \in Keys |-> 0]]
  BY DEF GatesInit, Table!Init, Nobody, Keys, Table!Keys
<1>3. Nobody \in Beliefs /\ \A k \in Keys : Nobody[k] = NoOne BY DEF Nobody, Beliefs
<1>4. Types BY <1>1, <1>2, <1>3, FlightAssumption DEF Types
<1>5. ASSUME NEW c \in Clients PROVE Gate(c)
  BY <1>1, <1>2 DEF Gate, Connected
<1>6. QED BY <1>4, <1>5 DEF IInv

LEMMA StepHolds ==
  ASSUME IInv, [GatesNext]_gatesVars PROVE IInv'
<1>1. CASE UNCHANGED gatesVars
  BY <1>1 DEF gatesVars, room, gate, wires, IInv, Types, Gate, Connected, Knows, Believed, Uses,
     Releasing, Requesting, Answered
<1>2. CASE GatesNext
  BY <1>2, TableKeeps, ReceiveKeeps, DisconnectKeeps, JoinKeeps, HandleKeeps,
     ComputingKeeps DEF GatesNext
<1>3. QED BY <1>1, <1>2

LEMMA Invariance == GatesSpec => []IInv
<1>1. GatesInit => IInv BY InitHolds
<1>2. IInv /\ [GatesNext]_gatesVars => IInv' BY StepHolds
<1>3. QED BY <1>1, <1>2, PTL DEF GatesSpec
-----------------------------------------------------------------------------
(* Theorems                                                                *)

\* Whatever is granted, given back, expired or lost, the lists of leases on
\* their way bring every gate to the holders the room has, whatever happens in
\* between (handleLease and broadcastLeases of room.ts:278-309 and 418, setLeases of
\* leaseGate.ts:144).
THEOREM GatesAlwaysAgree == GatesSpec => []GatesAgree
<1>1. IInv => GatesTypeOK
  <2> SUFFICES ASSUME IInv PROVE GatesTypeOK OBVIOUS
  <2>1. Types /\ \A c \in Clients : Connected(c) BY DEF IInv, Gate
  <2>2. QED BY <2>1 DEF Types, Connected, GatesTypeOK
<1>2. IInv => HolderIsKnown BY DEF IInv, Gate, Types, Knows, HolderIsKnown
<1>3. QED BY <1>1, <1>2, Invariance, PTL DEF GatesAgree

\* A connected editor that has read its messages uses each lease it holds, or
\* will give it back: the room never keeps a result waiting for one that does
\* nothing (setLeases and releaseIfUnused of leaseGate.ts:144-163).
THEOREM LeaseAlwaysUsed == GatesSpec => []LeaseIsUsed
<1>1. IInv => LeaseIsUsed
  <2> SUFFICES ASSUME IInv, NEW c \in members, conn[c] = "on", down[c] = <<>>,
                      NEW k \in Keys, holder[k] = c
               PROVE  running[c][k] > 0 \/ k \in unused[c] \/ Releasing(c, k)
    BY DEF LeaseIsUsed, Releasing
  <2>1. c \in Clients BY DEF IInv, Types
  <2>2. Uses(c) BY <2>1 DEF IInv, Gate
  <2>3. Lists(down[c]) = {} BY DEF Lists
  <2>4. QED BY <2>2, <2>3 DEF Uses
<1>2. QED BY <1>1, Invariance, PTL

\* A gate that waits for a lease has its request, or the answer to it, on the
\* way (handleLease answers every request on its own connection,
\* room.ts:278-309).
THEOREM RequestAlwaysAnswered == GatesSpec => []RequestIsAnswered
<1>1. IInv => RequestIsAnswered
  BY DEF IInv, Types, Gate, Answered, Requesting, RequestIsAnswered
<1>2. QED BY <1>1, Invariance, PTL
=============================================================================
