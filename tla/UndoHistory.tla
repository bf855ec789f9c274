----------------------------- MODULE UndoHistory -----------------------------
(***************************************************************************)
(* Undo and redo of one editor of a room, while other editors write the     *)
(* same objects and the server corrects or refuses what it sends            *)
(* (src/features/collab/client: undoHistory.ts, with applyLocal, rebuild    *)
(* and the acknowledgements of syncEngine.ts, applyHistory of               *)
(* collabClient.ts).                                                        *)
(*                                                                          *)
(* CollabSync has the messages and their losses.  Here batches are carried  *)
(* in order and what matters is what they write: this editor has the        *)
(* batches the room applied, then its own that are not acknowledged.        *)
(***************************************************************************)
EXTENDS Documents

CONSTANTS
  Itineraries, \* objects below which a computed result depends on its inputs
  Inputs,      \* <<object, key>>: properties a computed result depends on
  Settable,    \* <<object, key>>: properties editors write
  RouteKey,    \* the property of an itinerary that holds its computed result
  First,       \* the document the room starts with
  MaxMine,     \* changes of this editor (bound)
  MaxTheirs,   \* operations of the others (bound)
  MaxRoutes,   \* results computed here (bound)
  MaxMoves,    \* undo and redo (bound)
  MaxRejects,  \* batches refused (bound)
  Situations   \* "cancelled": a change puts back what the step it joins did

ASSUME ItineraryAssumption ==
  /\ Itineraries \subseteq Objects \ {Root}
  /\ Inputs \subseteq Objects \X Keys /\ Settable \subseteq Objects \X Keys
  /\ RouteKey \in Keys
\* The place of an object among its siblings, beside its properties.
Place == "place"
ASSUME PlaceAssumption == Place \notin Keys
ASSUME SituationAssumption == Situations \subseteq {"cancelled"}

VARIABLES
  confirmed, \* the state the room gave so far
  pending,   \* batches not acknowledged, each the operations of one change
  visible,   \* what the editor sees
  undo,      \* steps to undo, the last one first to be
  redo,      \* steps to redo
  theirs,    \* <<object, key or Place>> of what others wrote or moved last
  spent      \* how often each bounded thing happened

vars == <<confirmed, pending, visible, undo, redo, theirs, spent>>

None == [x \in {} |-> x] \* a map without entries

\* inverse: the operations that undo it; writes, positions: what it left;
\* deletions: the objects it deleted.  The rest is for the properties: the
\* document before and after it, and whether it was made without another's
\* change in its midst.
IsStep(s) ==
  /\ DOMAIN s = {"inverse", "writes", "positions", "deletions", "itineraries",
                 "coalescable", "before", "after", "whole"}
  /\ s.inverse \in Seq(Ops)
  /\ DOMAIN s.writes \subseteq Objects \X Keys
  /\ \A c \in DOMAIN s.writes : s.writes[c] \in Values
  /\ DOMAIN s.positions \subseteq Objects
  /\ \A o \in DOMAIN s.positions : s.positions[o] \in Positions
  /\ s.deletions \subseteq Objects /\ s.itineraries \subseteq Itineraries
  /\ s.coalescable \in BOOLEAN /\ s.whole \in BOOLEAN

NewStep(inverse, coalescable) ==
  [inverse |-> inverse, writes |-> None, positions |-> None, deletions |-> {},
   itineraries |-> {}, coalescable |-> coalescable,
   before |-> visible, after |-> visible, whole |-> TRUE]

-----------------------------------------------------------------------------
(* Steps *)

ItineraryOf(o) == Above(o) \cap Itineraries

Put(map, entries) == entries @@ map

\* (slip: the writes on a deleted object are remembered)
NoteDeletedOnly(step, op) == [step EXCEPT !.deletions = @ \cup {op.id}]

\* A deleted object comes back with its properties, whatever was written to it.
NoteDeleted(step, op) ==
  LET kept == DOMAIN step.positions \ Below(op.id)
      cells == {cell \in DOMAIN step.writes : cell[1] \notin Below(op.id)}
  IN  [step EXCEPT !.deletions = @ \cup {op.id},
                   !.writes = [cell \in cells |-> @[cell]],
                   !.positions = [o \in kept |-> @[o]]]

KeysOf(op) == {k \in Keys : op.props[k] # NoValue}

NoteWrite(noted, op) ==
  LET step == [noted EXCEPT !.itineraries = @ \cup ItineraryOf(op.id)]
  IN  CASE op.t = "s" -> [step EXCEPT !.writes = Put(@, [c \in {<<op.id, op.k>>} |-> op.v])]
        [] op.t = "m" -> [step EXCEPT !.positions = Put(@, [o \in {op.id} |-> op.pos])]
        [] op.t = "c" -> [step EXCEPT !.writes = Put(@, [c \in {op.id} \X KeysOf(op) |-> op.props[c[2]]]),
                                      !.positions = Put(@, [o \in {op.id} |-> op.pos]),
                                      !.deletions = @ \ {op.id}]
        [] op.t = "d" -> NoteDeleted(step, op)

RecordWrites(step, ops) == FoldLeft(NoteWrite, step, ops)

\* In a run of sets, the last on a property is the one that counts.
SameSet(a, b) == a.t = "s" /\ b.t = "s" /\ a.id = b.id /\ a.k = b.k
SetRun(ops, i, j) == \A n \in i..j : ops[n].t = "s"

KeepAt(ops, kept) ==
  LET order == SetToSortSeq(kept, <) IN [n \in DOMAIN order |-> ops[order[n]]]

CompactInverse(ops) ==
  KeepAt(ops, {i \in DOMAIN ops :
                 ~\E j \in i+1..Len(ops) : SameSet(ops[i], ops[j]) /\ SetRun(ops, i, j)})

\* A step that grows by operations just applied, which gave `store`.
Grown(step, ops, inverse, store) ==
  [RecordWrites([step EXCEPT !.inverse = CompactInverse(inverse \o @)], ops)
     EXCEPT !.whole = @ /\ step.after = visible, !.after = store]

ValueAt(store, o, k) == IF Has(store, o) THEN store[o].props[k] ELSE NoValue

\* Fields of an itinerary below which everything is an input (its points).
InputObject(o) == \E k \in Keys : <<o, k>> \in Inputs /\ o \notin Itineraries

\* (slip: any step that touches the itinerary is the cause)
CausedByAny(step, itineraries, store) == TRUE

\* The step wrote an input of the result, and it still has that value.
CausedBy(step, itineraries, store) ==
  \/ \E cell \in DOMAIN step.writes \cap Inputs :
       /\ ItineraryOf(cell[1]) \cap itineraries # {}
       /\ ValueAt(store, cell[1], cell[2]) = step.writes[cell]
  \/ \E o \in DOMAIN step.positions :
       /\ InputObject(o) /\ ItineraryOf(o) \cap itineraries # {}
       /\ Has(store, o) /\ store[o].pos = step.positions[o]
  \/ \E o \in step.deletions :
       InputObject(o) /\ ItineraryOf(o) \cap itineraries # {} /\ ~Has(store, o)

\* (slip: a place is put back although another editor moved the object)
PlacesPutBack(step, store) ==
  LET Untouched(op) ==
        op.t = "s" /\ <<op.id, op.k>> \in DOMAIN step.writes =>
          Has(store, op.id) /\ store[op.id].props[op.k] = step.writes[<<op.id, op.k>>]
  IN  SelectSeq(step.inverse, Untouched)

\* What is left to undo: nothing that has changed since the step.
ApplicableInverse(step, store) ==
  LET Untouched(op) ==
        CASE op.t = "s" -> <<op.id, op.k>> \in DOMAIN step.writes =>
                             /\ Has(store, op.id)
                             /\ store[op.id].props[op.k] = step.writes[<<op.id, op.k>>]
          [] op.t = "m" -> op.id \in DOMAIN step.positions =>
                             Has(store, op.id) /\ store[op.id].pos = step.positions[op.id]
          [] OTHER -> TRUE
  IN  SelectSeq(step.inverse, Untouched)

-----------------------------------------------------------------------------
(* The engine *)

PendingOps(batches) == FlattenSeq(batches)

Rebuilt(store, batches) == ApplyOps(store, PendingOps(batches))

Cells == Objects \X (Keys \cup {Place})
PlaceAt(store, o) == IF Has(store, o) THEN store[o].pos ELSE 0
Value(store, c) ==
  IF c[2] = Place THEN PlaceAt(store, c[1]) ELSE ValueAt(store, c[1], c[2])
Changed(old, new) == {c \in Cells : Value(old, c) # Value(new, c)}

\* Values of others that come to be seen.
OthersIn(old, new) ==
  {c \in Changed(old, new) : c[2] # Place /\ Value(new, c)[1] = "t"}

\* The place another gives to an object, when it comes to be seen.
PlacedBy(op, old, new) ==
  {c \in Changed(old, new) : op.t \in {"c", "m"} /\ c = <<op.id, Place>>}

\* Operations that had an effect go to the room as one batch.
Send(result) ==
  /\ visible' = result.store
  /\ pending' = Append(pending, result.applied)
  /\ theirs' = theirs \ Changed(visible, result.store)
  /\ UNCHANGED confirmed

Spend(what, limit) ==
  spent[what] < limit /\ spent' = [spent EXCEPT ![what] = @ + 1]

-----------------------------------------------------------------------------
(* What an editor does *)

\* A value is who gave it, a number and, of a computed result, what it was
\* computed from.
RouteInputs == {c \in Inputs : c[2] # RouteKey}
Given(who, n) == <<who, n, [c \in RouteInputs |-> <<>>]>>

\* A fresh value, by this editor or by another.
Mine  == Given("m", spent.mine)
Other == Given("t", spent.theirs)

\* Places an editor gives in a list: its two ends.
Ends(store, o) ==
  LET taken == {store[x].pos : x \in Siblings(store, o)}
  IN  IF taken = {} THEN {Between(0, 0)}
      ELSE {Between(CHOOSE p \in taken : \A x \in taken : p >= x, 0),
            Between(0, CHOOSE p \in taken : \A x \in taken : p <= x)}

\* Operations an editor may compute on what it sees.
EditOps(store, value) ==
  {SetOp(c[1], c[2], value) : c \in {x \in Settable : Has(store, x[1])}}
    \cup {DeleteOp(o) : o \in {x \in Objects \ {Root} : Has(store, x)}}
    \cup UNION {{MoveOp(o, pos) : pos \in Ends(store, o)} :
                  o \in {x \in Objects \ {Root} : Has(store, x)}}
    \cup UNION {{CreateOp(o, pos, [k \in Keys |-> IF <<o, k>> \in Settable THEN value ELSE NoValue]) :
                   pos \in Ends(store, o)} :
                  o \in {x \in Objects : ~Has(store, x) /\ Has(store, Parent[x])}}

\* The operation puts back what the step changed: moved and moved back, created
\* and deleted within 600 ms.
Cancels(op, step) == op \in ToSet(step.inverse)

\* record of a user's change: a step of its own, or part of the one before
\* when both come within 600 ms.
RecordUser(result, together) ==
  /\ redo' = <<>>
  /\ IF together
     THEN /\ undo # <<>> /\ Last(undo).coalescable
          /\ Cancels(Last(result.applied), Last(undo)) => "cancelled" \in Situations
          /\ undo' = [undo EXCEPT ![Len(undo)] =
                        Grown(@, result.applied, result.inverse, result.store)]
     ELSE undo' = Append(undo, [RecordWrites(NewStep(result.inverse, TRUE), result.applied)
                                  EXCEPT !.after = result.store])

Change(op, together) ==
  LET result == ApplyWithInverse(visible, <<op>>)
  IN  /\ Spend("mine", MaxMine)
      /\ result.applied # <<>>
      /\ Send(result)
      /\ RecordUser(result, together)

\* A result computed from what is seen.
RouteOf(store, i) ==
  <<"r", 0, [c \in RouteInputs |->
               IF Has(store, c[1]) /\ i \in Above(c[1])
               THEN <<store[c[1]].pos, store[c[1]].props[c[2]]>> ELSE <<>>]>>

Matches(store, i) == store[i].props[RouteKey] = RouteOf(store, i)

LastTouching(itineraries) ==
  LET touching == {n \in DOMAIN undo : undo[n].itineraries \cap itineraries # {}}
  IN  CHOOSE n \in touching \cup {0} : \A other \in touching : other <= n

\* record of a computed result: attached to the last step that touches the
\* itinerary when that step caused it, else to none.
RecordRoute(result, i) ==
  LET n == LastTouching({i})
  IN  /\ UNCHANGED redo
      /\ undo' = IF n # 0 /\ CausedBy(undo[n], {i}, result.store)
                 THEN [undo EXCEPT ![n] = Grown(@, result.applied, result.inverse, result.store)]
                 ELSE undo

Background(i) ==
  LET result == ApplyWithInverse(visible, <<SetOp(i, RouteKey, RouteOf(visible, i))>>)
  IN  /\ Spend("routes", MaxRoutes)
      /\ result.applied # <<>>
      /\ Send(result)
      /\ RecordRoute(result, i)

\* The last step of a stack that still has something to undo; those above it,
\* which others have covered, are dropped.
Applying(step) == ApplyWithInverse(visible, ApplicableInverse(step, visible))
Uncovered(stack) == {n \in DOMAIN stack : Applying(stack[n]).applied # <<>>}

BackStep(step, result) ==
  LET back == RecordWrites(NewStep(result.inverse, FALSE), result.applied)
  IN  [back EXCEPT !.itineraries = @ \cup step.itineraries, !.after = result.store]

Undo ==
  /\ Spend("moves", MaxMoves)
  /\ LET left == Uncovered(undo)
         n == Max(left)
         result == Applying(undo[n])
     IN  /\ left # {}
         /\ Send(result)
         /\ undo' = SubSeq(undo, 1, n - 1)
         /\ redo' = Append(redo, BackStep(undo[n], result))

Redo ==
  /\ Spend("moves", MaxMoves)
  /\ LET left == Uncovered(redo)
         n == Max(left)
         result == Applying(redo[n])
     IN  /\ left # {}
         /\ Send(result)
         /\ redo' = SubSeq(redo, 1, n - 1)
         /\ undo' = Append(undo, BackStep(redo[n], result))

\* Every step is covered: nothing is undone and none is left.
UndoNothing ==
  /\ undo # <<>> /\ Uncovered(undo) = {}
  /\ undo' = <<>>
  /\ UNCHANGED <<confirmed, pending, visible, redo, theirs, spent>>

RedoNothing ==
  /\ redo # <<>> /\ Uncovered(redo) = {}
  /\ redo' = <<>>
  /\ UNCHANGED <<confirmed, pending, visible, undo, theirs, spent>>

-----------------------------------------------------------------------------
(* What comes from the room, in its order *)

\* A batch of another editor, made on a state the room had.
Theirs(op) ==
  LET after == Checked(confirmed, <<op>>).store
      seen == Rebuilt(after, pending)
  IN  /\ Spend("theirs", MaxTheirs)
      /\ after # confirmed
      /\ confirmed' = after
      /\ visible' = seen
      /\ theirs' = theirs \cup OthersIn(visible, seen) \cup PlacedBy(op, visible, seen)
      /\ UNCHANGED <<pending, undo, redo>>

\* The first batch not acknowledged comes back: the visible state is rebuilt
\* only when the room corrected it.
SeenAfter(fixed, store) ==
  IF fixed = Head(pending) THEN visible ELSE Rebuilt(store, Tail(pending))

Ack ==
  LET result == Checked(confirmed, Head(pending))
  IN  /\ pending # <<>>
      /\ confirmed' = result.store
      /\ visible' = SeenAfter(result.ops, result.store)
      /\ pending' = Tail(pending)
      /\ UNCHANGED <<undo, redo, theirs, spent>>

Reject ==
  LET seen == Rebuilt(confirmed, Tail(pending))
  IN  /\ pending # <<>>
      /\ Spend("rejects", MaxRejects)
      /\ pending' = Tail(pending)
      /\ visible' = seen
      /\ theirs' = theirs \cup OthersIn(visible, seen)
      /\ UNCHANGED <<confirmed, undo, redo>>

-----------------------------------------------------------------------------

Init ==
  /\ confirmed = First /\ visible = First
  /\ pending = <<>>
  /\ undo = <<>> /\ redo = <<>>
  /\ theirs = {}
  /\ spent = [what \in {"mine", "theirs", "routes", "moves", "rejects"} |-> 0]

Next ==
  \/ /\ spent.mine < MaxMine
     /\ \E op \in EditOps(visible, Mine), together \in BOOLEAN : Change(op, together)
  \/ /\ spent.theirs < MaxTheirs
     /\ \E op \in EditOps(confirmed, Other) : Theirs(op)
  \/ \E i \in Itineraries : Has(visible, i) /\ Background(i)
  \/ \E i \in Itineraries :
       Has(confirmed, i) /\ Theirs(SetOp(i, RouteKey, RouteOf(confirmed, i)))
  \/ Undo \/ Redo \/ UndoNothing \/ RedoNothing
  \/ Ack \/ Reject

Spec == Init /\ [][Next]_vars

-----------------------------------------------------------------------------
(* Properties *)

TypeOK ==
  /\ confirmed \in Store /\ visible \in Store
  /\ \A b \in DOMAIN pending : pending[b] \in Seq(Ops) /\ pending[b] # <<>>
  /\ \A n \in DOMAIN undo : IsStep(undo[n])
  /\ \A n \in DOMAIN redo : IsStep(redo[n]) /\ ~redo[n].coalescable
  /\ theirs \subseteq Cells
  /\ spent \in [{"mine", "theirs", "routes", "moves", "rejects"} -> Nat]

\* The editor sees the state of the room with its own changes on it, although
\* most acknowledgements rebuild nothing (syncEngine.ts:377-379).
VisibleIsExact == visible = Rebuilt(confirmed, pending)

\* Two editors who put an object at the same place get two places: the order
\* of a list never depends on more than its positions (validate.ts:208).
PositionsDistinct ==
  \A a, b \in Objects \ {Root} :
    a # b /\ Parent[a] = Parent[b] /\ Has(confirmed, a) /\ Has(confirmed, b)
      => confirmed[a].pos # confirmed[b].pos

\* An object never outlives what it is in, here or in the room.
TreesWhole ==
  \A o \in Objects : /\ Has(confirmed, o) => Has(confirmed, Parent[o])
                     /\ Has(visible, o) => Has(visible, Parent[o])

\* Types, and the two documents of the editor.
DocumentsAgree == TypeOK /\ VisibleIsExact /\ PositionsDistinct /\ TreesWhole

\* While nobody else touched the document, undoing a step, however many
\* changes and results were put in it, gives back the document before it, and
\* redoing it the one after ("suite d'actions puis tout annuler = document de
\* depart", collab.test.ts:344).
UndoIsExact ==
  \A stack \in {undo, redo} :
    stack # <<>> =>
      LET step == Last(stack)
      IN  step.whole /\ visible = step.after => Applying(step).store = step.before

\* An undo or a redo; an undo is what adds to `redo`.
Moved == spent'.moves > spent.moves
Undone == Moved /\ Len(redo') > Len(redo)

\* It deletes the object, or brings it back.
Remade(o) == \E op \in ToSet(Last(pending')) : op.t \in {"c", "d"} /\ o \in Below(op.id)

\* A property or a position that another editor has changed since is not put
\* back (undoHistory.ts:15-17), neither by an undo nor by a redo, unless the
\* step deletes the object it created or brings back one it deleted, as long
\* as the room refused nothing, which the history is not told.
OthersKept ==
  [][Moved /\ spent.rejects = 0 =>
       \A c \in theirs :
         Remade(c[1]) \/ Value(visible', c) = Value(visible, c)]_vars

\* Undoing a change never puts back a result that does not match its inputs in
\* place of one that did, the inputs being the same (C1-2, undoHistory.ts:211-215).
\* It holds of the changes the user made and not of the steps redo gives back,
\* which keep the result when another editor removed the rest; and, again, as
\* long as the room refused nothing.
UserStepUndone == undo[Len(undo') + 1].coalescable
RouteNotAlone ==
  [][Undone /\ UserStepUndone /\ spent.rejects = 0 =>
       \A i \in Itineraries :
         Has(visible, i) /\ Matches(visible, i) /\ ~Remade(i)
           => Matches(visible', i) \/ RouteOf(visible', i) # RouteOf(visible, i)]_vars
=============================================================================
