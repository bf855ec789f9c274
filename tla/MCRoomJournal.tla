--------------------------- MODULE MCRoomJournal ---------------------------
(* Instances of RoomJournal for TLC: see the configurations.               *)
EXTENDS RoomJournal
=============================================================================
