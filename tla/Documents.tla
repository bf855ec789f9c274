------------------------------ MODULE Documents ------------------------------
(***************************************************************************)
(* The document of a room as a tree of objects, and the operations every    *)
(* editor and the server apply to it alike: create, delete, set, move, their *)
(* inverses, and the positions the server corrects                          *)
(* (src/features/collab/model: objects.ts, ops.ts, validate.ts).            *)
(*                                                                          *)
(* An id says for good in which list of which parent its object stands, so  *)
(* the shape of the tree is a constant and a document says which objects    *)
(* exist.  Positions are numbers where the code has fractional indices.     *)
(***************************************************************************)
EXTENDS Integers, Sequences, FiniteSets, SequencesExt

CONSTANTS
  Objects,
  Root,
  Parent,        \* the parent of each object, the root being its own
  Keys,          \* properties
  Values,
  NoValue,       \* the value of a property that is absent
  NoObject,      \* an object that does not exist
  Between(_, _)  \* a position between two others; 0: no position above

Positions == Nat \ {0}
Above(o) == {o, Parent[o], Parent[Parent[o]], Parent[Parent[Parent[o]]]}
Below(o) == {x \in Objects : o \in Above(x)}

ASSUME TreeAssumption ==
  /\ Root \in Objects /\ Parent \in [Objects -> Objects] /\ Parent[Root] = Root
  /\ \A o \in Objects : Root \in Above(o)
  /\ \A o \in Objects \ {Root} : Parent[o] # o
ASSUME ValueAssumption == NoValue \in Values

Object == [pos : Nat, props : [Keys -> Values]]
Store  == [Objects -> Object \cup {NoObject}]

\* t: "c" create, "d" delete, "s" set (NoValue: remove), "m" move.
Ops ==
  [t : {"c"}, id : Objects, pos : Positions, props : [Keys -> Values]]
    \cup [t : {"d"}, id : Objects]
    \cup [t : {"s"}, id : Objects, k : Keys, v : Values]
    \cup [t : {"m"}, id : Objects, pos : Positions]

CreateOp(o, pos, props) == [t |-> "c", id |-> o, pos |-> pos, props |-> props]
DeleteOp(o)             == [t |-> "d", id |-> o]
SetOp(o, k, v)          == [t |-> "s", id |-> o, k |-> k, v |-> v]
MoveOp(o, pos)          == [t |-> "m", id |-> o, pos |-> pos]

Has(store, o) == store[o] # NoObject

-----------------------------------------------------------------------------
(* One operation *)

\* The properties given replace those of an object that exists already.
Merged(object, op) ==
  [pos   |-> op.pos,
   props |-> [k \in Keys |-> IF op.props[k] = NoValue THEN object.props[k] ELSE op.props[k]]]

Create(store, op) ==
  IF ~Has(store, Parent[op.id]) THEN store
  ELSE [store EXCEPT ![op.id] =
          IF Has(store, op.id) THEN Merged(@, op) ELSE [pos |-> op.pos, props |-> op.props]]

Delete(store, op) == [o \in Objects |-> IF op.id \in Above(o) THEN NoObject ELSE store[o]]

\* An operation on an object that is gone has no effect.
ApplyOp(store, op) ==
  CASE op.t = "c" -> Create(store, op)
    [] op.t = "d" -> Delete(store, op)
    [] op.t = "s" -> IF Has(store, op.id) THEN [store EXCEPT ![op.id].props[op.k] = op.v]
                                          ELSE store
    [] op.t = "m" -> IF Has(store, op.id) /\ op.id # Root
                     THEN [store EXCEPT ![op.id].pos = op.pos] ELSE store

ApplyOps(store, ops) == FoldLeft(ApplyOp, store, ops)

-----------------------------------------------------------------------------
(* What undoes an operation, read just before it is applied *)

\* The object and what was under it, parents first.
RecreateOps(store, id) ==
  LET gone == SetToSortSeq({o \in Below(id) : Has(store, o)},
                           LAMBDA a, b : Cardinality(Above(a)) < Cardinality(Above(b)))
  IN  [i \in DOMAIN gone |-> CreateOp(gone[i], store[gone[i]].pos, store[gone[i]].props)]

UnmergeOps(store, op) ==
  LET given == SetToSeq({k \in Keys : op.props[k] # NoValue})
  IN  [i \in DOMAIN given |-> SetOp(op.id, given[i], store[op.id].props[given[i]])]
        \o (IF store[op.id].pos # op.pos THEN <<MoveOp(op.id, store[op.id].pos)>> ELSE <<>>)

InverseOf(store, op) ==
  CASE op.t = "c" -> IF Has(store, op.id) THEN UnmergeOps(store, op)
                     ELSE IF Has(store, Parent[op.id]) THEN <<DeleteOp(op.id)>> ELSE <<>>
    [] op.t = "d" -> RecreateOps(store, op.id)
    [] op.t = "s" -> IF Has(store, op.id)
                     THEN <<SetOp(op.id, op.k, store[op.id].props[op.k])>> ELSE <<>>
    [] op.t = "m" -> IF Has(store, op.id) THEN <<MoveOp(op.id, store[op.id].pos)>> ELSE <<>>

\* Operations without effect are left out of a batch, and of its inverse,
\* which undoes the last one first.
ApplyWithInverse(store, ops) ==
  LET Apply(done, op) ==
        LET after == ApplyOp(done.store, op)
        IN  IF after = done.store THEN done
            ELSE [store   |-> after,
                  applied |-> Append(done.applied, op),
                  inverse |-> InverseOf(done.store, op) \o done.inverse]
  IN  FoldLeft(Apply, [store |-> store, applied |-> <<>>, inverse |-> <<>>], ops)

-----------------------------------------------------------------------------
(* What the server corrects *)

Siblings(store, id) ==
  {o \in Objects \ {id, Root} : Parent[o] = Parent[id] /\ Has(store, o)}

\* (slip: two editors may put two objects at one place)
FreePositionAsGiven(store, id, pos) == pos

\* The position asked for, or the place just after the sibling that has it.
FreePosition(store, id, pos) ==
  LET taken == {store[o].pos : o \in Siblings(store, id)}
      above == {p \in taken : p > pos}
  IN  IF pos \notin taken THEN pos
      ELSE Between(pos, IF above = {} THEN 0
                        ELSE CHOOSE p \in above : \A other \in above : p <= other)

Corrected(store, op) ==
  IF \/ op.t = "c" /\ Has(store, Parent[op.id])
     \/ op.t = "m" /\ Has(store, op.id) /\ op.id # Root
  THEN [op EXCEPT !.pos = FreePosition(store, op.id, op.pos)]
  ELSE op

\* A batch accepted on a store: each operation is corrected on the state the
\* ones before it leave.
Checked(store, ops) ==
  LET Check(done, op) ==
        LET fixed == Corrected(done.store, op)
        IN  [store |-> ApplyOp(done.store, fixed), ops |-> Append(done.ops, fixed)]
  IN  FoldLeft(Check, [store |-> store, ops |-> <<>>], ops)
=============================================================================
