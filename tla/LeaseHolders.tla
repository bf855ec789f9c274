---------------------------- MODULE LeaseHolders ----------------------------
(***************************************************************************)
(* Who may hold a lease, whatever the time: the part of LeaseTable the       *)
(* clients see.  A lease goes from nobody or from a holder whose time is     *)
(* over to the client that asks for it and to no other, and nobody holds     *)
(* anything once it has left the room.                                       *)
(***************************************************************************)
CONSTANTS Clients, NoOne, Kinds, Itineraries

Keys == Kinds \X Itineraries

VARIABLES
  members,  \* clients connected to the room
  live,     \* itineraries of the document
  holder    \* of each key

vars == <<members, live, holder>>

Free(k) == holder' = [holder EXCEPT ![k] = NoOne]

Init == members = {} /\ live = Itineraries /\ holder = [k \in Keys |-> NoOne]

Join(c) == members' = members \cup {c} /\ UNCHANGED <<live, holder>>

Leave(c) ==
  /\ members' = members \ {c}
  /\ holder' = [k \in Keys |-> IF holder[k] = c THEN NoOne ELSE holder[k]]
  /\ UNCHANGED live

Delete(i) ==
  /\ live' = live \ {i}
  /\ holder' = [k \in Keys |-> IF k[2] = i THEN NoOne ELSE holder[k]]
  /\ UNCHANGED members

\* The three answers to a request.  The holder of a lease that lasted too long
\* may lose it to a request that is refused (revokeOverheld).
Extended(k, c) == holder[k] = c /\ UNCHANGED holder
Granted(k, c)  == holder' = [holder EXCEPT ![k] = c]
Refused(k)     == UNCHANGED holder \/ Free(k)

Request(k, c) == Extended(k, c) \/ Granted(k, c) \/ Refused(k)

\* The two answers to a renewal.
Renewed(k, c)  == holder[k] = c /\ UNCHANGED holder
NotRenewed(k)  == UNCHANGED holder \/ Free(k)

Renew(k, c) == Renewed(k, c) \/ NotRenewed(k)

Release(k, c) == holder[k] = c /\ Free(k)

Expire ==
  /\ \E gone \in SUBSET Keys :
       holder' = [k \in Keys |-> IF k \in gone THEN NoOne ELSE holder[k]]
  /\ UNCHANGED <<members, live>>

Asks(k, c) ==
  /\ c \in members /\ k[2] \in live
  /\ Request(k, c) \/ Renew(k, c) \/ Release(k, c)
  /\ UNCHANGED <<members, live>>

Next ==
  \/ Expire
  \/ \E c \in Clients : Join(c) \/ Leave(c) \/ \E k \in Keys : Asks(k, c)
  \/ \E i \in Itineraries : Delete(i)

Spec == Init /\ [][Next]_vars
=============================================================================
