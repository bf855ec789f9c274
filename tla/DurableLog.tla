----------------------------- MODULE DurableLog -----------------------------
(***************************************************************************)
(* What the durable storage of a co-edited project promises, whichever      *)
(* server holds the room and however often one restarts: one log of batches *)
(* that only grows, and a part of it promised to the clients (`durable' in  *)
(* the protocol), which they no longer keep.                                *)
(***************************************************************************)
EXTENDS Naturals, Sequences

VARIABLES
  log,     \* the content a room loaded now would start from
  promised \* length of the part announced durable to some client

Init == log = <<>> /\ promised = 0

Extends(new, old) ==
  Len(old) <= Len(new) /\ \A q \in 1..Len(old) : new[q] = old[q]

\* Batches become durable at the end of the log; none is replaced or dropped.
Commit == Extends(log', log) /\ UNCHANGED promised

\* The part of the log promised to clients grows, up to the whole of it.
Promise == promised' \in promised..Len(log) /\ UNCHANGED log

Next == Commit \/ Promise

Spec == Init /\ [][Next]_<<log, promised>>
=============================================================================
