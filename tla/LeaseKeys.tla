----------------------------- MODULE LeaseKeys -----------------------------
(***************************************************************************)
(* What a lease is about, for the table of the room (LeaseTable) and the    *)
(* gates of the clients (LeaseGates): a kind of result of an itinerary.     *)
(***************************************************************************)
CONSTANTS
  Clients,
  NoOne,        \* no client
  Kinds,        \* route, prediction, poi
  Itineraries

ASSUME NoOneAssumption == NoOne \notin Clients

Keys == Kinds \X Itineraries

VARIABLES
  members,  \* clients connected to the room
  live      \* itineraries of the document
=============================================================================
