--------------------------- MODULE UnsyncedCopies_proofs ---------------------------
(***************************************************************************)
(* What is proved of UnsyncedCopies, for any tabs, clients, copies left,    *)
(* edits, sessions and faults.                                              *)
(*                                                                          *)
(* IInv says who has what: a session holds the locks of the clients it works *)
(* for, and nobody else works for them; it needs no hypothesis.  Ledger says *)
(* what it is worth: a number of a client names one edit; whoever has the    *)
(* right to speak for a client has all that is not written of it; what the   *)
(* room counts of a client are the first of its batches.  It needs that no   *)
(* session starts while another one starts or closes ("overlap"): what is    *)
(* listed is stale otherwise, and the copy taken may lack batches.  InTurn   *)
(* says who speaks first, on the same condition: of two clients of which one *)
(* must be heard before the other, who has the second has the first, or the  *)
(* device still has it, with an older date, and nobody sends the second.     *)
(***************************************************************************)
EXTENDS UnsyncedCopies, WellFoundedInduction, SequenceTheorems, TLAPS

----------------------------------------------------------------------------
(* The operators of the model                                              *)

\* A set of numbers that is not empty has a least one...
LEMMA HasMin ==
  ASSUME NEW S, S \subseteq Nat, S # {}
  PROVE  \E x \in S : \A y \in S : x <= y
<1>1. PICK n \in S : \A k \in S : ~(<<k, n>> \in OpToRel(<, Nat))
  BY NatLessThanWellFounded, WFMin
<1>2. \A k \in S : ~(k < n) BY <1>1 DEF OpToRel
<1>3. QED BY <1>2

\* ...and a largest one, if it has a bound.
LEMMA HasMax ==
  ASSUME NEW S, S \subseteq Nat, S # {}, NEW m \in Nat, \A y \in S : y <= m
  PROVE  Max(S) \in S /\ \A y \in S : y <= Max(S)
<1> DEFINE U == {k \in Nat : \A y \in S : y <= k}
<1>1. PICK k \in U : \A l \in U : k <= l
  <2>1. U \subseteq Nat /\ U # {} OBVIOUS
  <2> HIDE DEF U
  <2>2. QED BY <2>1, HasMin
<1>2. k \in S
  <2> SUFFICES ASSUME k \notin S PROVE FALSE OBVIOUS
  <2>1. \A y \in S : y <= k /\ y # k /\ y \in Nat BY <1>1
  <2>2. \A y \in S : y <= k - 1 BY <1>1, <2>1
  <2>3. k - 1 \in Nat
    <3>1. PICK y \in S : TRUE OBVIOUS
    <3>2. y \in Nat /\ y <= k /\ y # k /\ k \in Nat BY <2>1, <1>1, <3>1
    <3>3. QED BY <3>2
  <2>4. k - 1 \in U BY <2>2, <2>3
  <2>5. QED BY <1>1, <2>4
<1>3. \E x \in S : \A y \in S : x >= y BY <1>1, <1>2
<1>4. QED BY <1>3 DEF Max

\* Of two numbers, the greater is one of them.
LEMMA MaxOfTwo ==
  ASSUME NEW a \in Nat, NEW b \in Nat
  PROVE  Max({a, b}) \in Nat /\ a <= Max({a, b}) /\ b <= Max({a, b}) /\ Max({a, b}) \in {a, b}
<1>1. PICK S : S = {a, b} OBVIOUS
<1>2. PICK m \in Nat : m = IF a <= b THEN b ELSE a OBVIOUS
<1>3. S \subseteq Nat /\ S # {} /\ \A y \in S : y <= m BY <1>1, <1>2
<1>4. Max(S) \in S /\ \A y \in S : y <= Max(S) BY <1>3, HasMax
<1>5. QED BY <1>1, <1>4

\* What the list takes next is in it, and nothing of it is older.
LEMMA OldestIs ==
  ASSUME NEW S, S \subseteq Copy, S # {}
  PROVE  Oldest(S) \in S /\ \A b \in S : Oldest(S).savedAt <= b.savedAt
<1> DEFINE D == {a.savedAt : a \in S}
<1>1. PICK x \in D : \A y \in D : x <= y
  <2>1. D \subseteq Nat /\ D # {} BY DEF Copy
  <2> HIDE DEF D
  <2>2. QED BY <2>1, HasMin
<1>2. \E a \in S : \A b \in S : a.savedAt <= b.savedAt BY <1>1
<1>3. QED BY <1>2 DEF Oldest

\* What the session adopts is among its copies, and nothing of them is newer.
LEMMA NewestIs ==
  ASSUME NEW S, S \subseteq Copy, S # {}, NEW m \in Nat, \A a \in S : a.savedAt <= m
  PROVE  Newest(S) \in S /\ \A b \in S : b.savedAt <= Newest(S).savedAt
<1> DEFINE D == {a.savedAt : a \in S}
<1>1. PICK x \in D : \A y \in D : y <= x
  <2>1. D \subseteq Nat /\ D # {} /\ \A y \in D : y <= m BY DEF Copy
  <2> HIDE DEF D
  <2>2. QED BY <2>1, HasMax
<1>2. \E a \in S : \A b \in S : b.savedAt <= a.savedAt BY <1>1
<1>3. QED BY <1>2 DEF Newest

\* What is sent first is pending, and nothing pending has a smaller number.
LEMMA FirstPendingIs ==
  ASSUME NEW h \in Engine, Pending(h) # {}
  PROVE  FirstPending(h) \in Pending(h) /\ \A o \in Pending(h) : FirstPending(h).n <= o.n
<1> DEFINE N == {b.n : b \in Pending(h)}
<1>1. PICK x \in N : \A y \in N : x <= y
  <2>1. N \subseteq Nat /\ N # {} BY DEF Pending, Engine, Local
  <2> HIDE DEF N
  <2>2. QED BY <2>1, HasMin
<1>2. \E b \in Pending(h) : \A o \in Pending(h) : b.n <= o.n BY <1>1
<1>3. QED BY <1>2 DEF FirstPending

\* Sequences of copies
LEMMA AppendIs ==
  ASSUME NEW S, NEW q \in Seq(S), NEW x \in S
  PROVE  /\ Append(q, x) \in Seq(S) /\ Append(q, x) # <<>>
         /\ ToSet(Append(q, x)) = ToSet(q) \cup {x} /\ Last(Append(q, x)) = x
<1>1. /\ Append(q, x) \in Seq(S) /\ Len(Append(q, x)) = Len(q) + 1
      /\ \A i \in 1..Len(q) : Append(q, x)[i] = q[i]
      /\ Append(q, x)[Len(q) + 1] = x
  BY AppendProperties
<1>2. QED BY <1>1 DEF ToSet, Last

\* The first of what is to be written, and the rest.
LEMMA HeadIs ==
  ASSUME NEW S, NEW q \in Seq(S), q # <<>>
  PROVE  /\ Head(q) \in S /\ Tail(q) \in Seq(S) /\ Head(q) \in ToSet(q)
         /\ ToSet(Tail(q)) \subseteq ToSet(q) /\ ToSet(q) = {Head(q)} \cup ToSet(Tail(q))
         /\ Tail(q) # <<>> => Last(Tail(q)) = Last(q)
         /\ Tail(q) = <<>> => Last(q) = Head(q)
<1>1. /\ Head(q) \in S /\ Tail(q) \in Seq(S) /\ Len(Tail(q)) = Len(q) - 1 /\ Len(q) > 0
      /\ \A i \in 1..Len(Tail(q)) : Tail(q)[i] = q[i + 1]
      /\ Head(q) = q[1]
  BY HeadTailProperties, EmptySeq
<1>2. \A x \in ToSet(q) : x = Head(q) \/ x \in ToSet(Tail(q))
  <2> SUFFICES ASSUME NEW i \in 1..Len(q), q[i] # Head(q) PROVE q[i] \in ToSet(Tail(q))
    BY <1>1 DEF ToSet
  <2>1. i - 1 \in 1..Len(Tail(q)) /\ q[i] = Tail(q)[i - 1] BY <1>1
  <2>2. \A j \in 1..Len(Tail(q)) : Tail(q)[j] \in ToSet(Tail(q))
    <3>1. PICK r : r = Tail(q) OBVIOUS
    <3>2. r \in Seq(S) BY <1>1, <3>1
    <3>3. \A j \in 1..Len(r) : r[j] \in ToSet(r) BY <3>2 DEF ToSet
    <3>4. QED BY <3>1, <3>3
  <2>3. QED BY <2>1, <2>2
<1>3. ToSet(Tail(q)) \subseteq ToSet(q) BY <1>1 DEF ToSet
<1>4. Head(q) \in ToSet(q) BY <1>1 DEF ToSet
<1>5. /\ Tail(q) # <<>> => Last(Tail(q)) = Last(q)
      /\ Tail(q) = <<>> => Last(q) = Head(q)
  BY <1>1, EmptySeq DEF Last
<1>6. QED BY <1>1, <1>2, <1>3, <1>4, <1>5

\* The last of what is to be written is part of it.
LEMMA LastIs ==
  ASSUME NEW S, NEW q \in Seq(S), q # <<>>
  PROVE  Last(q) \in ToSet(q) /\ Last(q) \in S
BY EmptySeq DEF Last, ToSet

\* Nothing is in an empty sequence.
LEMMA NoneIn == ToSet(<<>>) = {}
BY DEF ToSet

----------------------------------------------------------------------------
(* The inductive invariant                                                 *)

OneEach(copies) == \A a, b \in copies : a.client = b.client => a = b

\* The clients a session works for: it holds their locks.
ClientsIn(s) ==
  ({s.main.client, s.drain.client} \ {0}) \cup {copy.client : copy \in s.older}

\* A closed session is empty, one that lists its copies has nothing else; they
\* are of different clients, and what is written is the session's own.
Shape(s) ==
  /\ s.phase = "closed" => s = Closed
  /\ s.phase = "listing" =>
       s = [Closed EXCEPT !.phase = "listing", !.found = s.found, !.older = s.older]
  /\ s.phase \in {"open", "closing"} => s.main.client # 0 /\ s.found = {}
  /\ OneEach(s.found \cup s.older)
  /\ s.drain.client # 0 => s.drain.client # s.main.client
  /\ \A o \in s.older : o.client # s.main.client /\ o.client # s.drain.client
  /\ \A w \in ToSet(s.writes) : w.client = s.main.client

\* The last that is written of an abandoned session is its deletion.
Discarded(s) ==
  s.discarded =>
    /\ gone
    /\ IF s.writes = <<>> THEN \A d \in device : d.client # s.main.client
       ELSE Last(s.writes).batches = {}

Created(s) ==
  /\ \A c \in ClientsIn(s) : c <= created
  /\ \A f \in s.found : f.client <= created

Own ==
  /\ \A d \in device : d.client <= created
  /\ \A t \in Tabs :
       /\ Shape(tab[t]) /\ Discarded(tab[t]) /\ Created(tab[t])
       /\ \A c \in Clients : lock[c] = t <=> c \in ClientsIn(tab[t])

Bounded == \E m \in Nat : \A x \in DatesInUse : x <= m

IInv == TypeOK /\ Own /\ Bounded

\* What a session is made of.
LEMMA SessionFields ==
  ASSUME NEW s \in Session
  PROVE  /\ s.phase \in {"closed", "listing", "open", "closing"}
         /\ s.found \subseteq Copy /\ s.older \subseteq Copy
         /\ s.main \in Engine /\ s.drain \in Engine
         /\ s.held \in BOOLEAN /\ s.armed \in BOOLEAN /\ s.discarded \in BOOLEAN
         /\ s.saved \in Copy /\ s.writes \in Seq(Copy)
         /\ s.main.client \in 0..NClients /\ s.drain.client \in 0..NClients
         /\ s.main.next \in Nat /\ s.drain.next \in Nat
         /\ s.main.batches \subseteq Local /\ s.drain.batches \subseteq Local
         /\ s.main.on \in BOOLEAN /\ s.drain.on \in BOOLEAN /\ s.drain.age \in Nat
         /\ s.main.age \in Nat
BY DEF Session, Engine

\* What a copy is made of.
LEMMA CopyFields ==
  ASSUME NEW d \in Copy
  PROVE  /\ d.client \in Clients /\ d.next \in Nat /\ d.batches \subseteq Batch
         /\ d.savedAt \in Nat /\ d.client \in 1..NClients
BY DEF Copy, Clients

\* restoreUnsynced makes an engine with the client, the number and the batches of the copy.
LEMMA RestoredOK ==
  ASSUME NEW copy \in Copy
  PROVE  /\ Restored(copy) \in Engine /\ Restored(copy).client = copy.client
         /\ Restored(copy).next = copy.next /\ Restored(copy).age = copy.savedAt
         /\ Restored(copy).on = FALSE
         /\ Restored(copy).batches =
              {[n |-> b.n, edit |-> b.edit, at |-> 0] : b \in copy.batches}
<1>1. {[n |-> b.n, edit |-> b.edit, at |-> 0] : b \in copy.batches} \subseteq Local
  BY DEF Copy, Batch, Local
<1>2. copy.client \in 0..NClients /\ copy.next \in Nat /\ copy.savedAt \in Nat
  BY DEF Copy, Clients
<1>3. QED BY <1>1, <1>2 DEF Restored, Engine

\* What an engine has to send is a copy.
LEMMA CopyOfOK ==
  ASSUME NEW h \in Engine, h.client # 0, NEW when \in Nat
  PROVE  /\ CopyOf(h, when) \in Copy /\ CopyOf(h, when).client = h.client
         /\ CopyOf(h, when).next = h.next /\ CopyOf(h, when).savedAt = when
         /\ CopyOf(h, when).batches = {[n |-> b.n, edit |-> b.edit] : b \in h.batches}
<1>1. {[n |-> b.n, edit |-> b.edit] : b \in h.batches} \subseteq Batch
  BY DEF Engine, Batch, Local
<1>2. h.client \in Clients /\ h.next \in Nat BY BoundsAssumption DEF Engine, Clients
<1>3. QED BY <1>1, <1>2 DEF CopyOf, Copy

\* What is left of the batches after a welcome: those that are not written.
LEMMA KnownOK ==
  ASSUME IInv, NEW h \in Engine
  PROVE  /\ Known(h) \subseteq Local
         /\ \A k \in Known(h) : \E b \in h.batches :
              /\ k.n = b.n /\ k.edit = b.edit /\ (k.at = 0 \/ k.at > durable)
              /\ \/ k = b
                 \/ k.at = Len(log) /\ b.n <= last[h.client] /\ b.at = 0
         /\ \A b \in h.batches : \E a \in Nat :
              /\ a = (IF b.at = 0 /\ b.n <= last[h.client] THEN Len(log) ELSE b.at)
              /\ a = 0 \/ a > durable => [b EXCEPT !.at = a] \in Known(h)
<1>1. Len(log) \in Nat BY DEF IInv, TypeOK
<1>2. \A b \in h.batches : b \in Local BY DEF Engine
<1> DEFINE At(b) == IF b.at = 0 /\ b.n <= last[h.client] THEN Len(log) ELSE b.at
           C(b)  == IF b.at = 0 /\ b.n <= last[h.client] THEN [b EXCEPT !.at = Len(log)] ELSE b
<1>3. \A b \in h.batches : /\ C(b) \in Local /\ C(b).n = b.n /\ C(b).edit = b.edit
                           /\ C(b).at = At(b) /\ C(b) = [b EXCEPT !.at = At(b)]
                           /\ At(b) \in Nat
  BY <1>1, <1>2 DEF Local
<1>4. Known(h) = {b \in {C(o) : o \in h.batches} : b.at = 0 \/ b.at > durable} BY DEF Known
<1>5. \A b \in h.batches : C(b) = b \/ (At(b) = Len(log) /\ b.n <= last[h.client] /\ b.at = 0)
  OBVIOUS
<1> HIDE DEF C
<1>6. Known(h) \subseteq Local BY <1>3, <1>4
<1>7. ASSUME NEW k \in Known(h)
      PROVE  \E b \in h.batches :
               /\ k.n = b.n /\ k.edit = b.edit /\ (k.at = 0 \/ k.at > durable)
               /\ \/ k = b
                  \/ k.at = Len(log) /\ b.n <= last[h.client] /\ b.at = 0
  <2>1. PICK b \in h.batches : k = C(b) /\ (k.at = 0 \/ k.at > durable) BY <1>4, <1>7
  <2>2. k.n = b.n /\ k.edit = b.edit /\ k.at = At(b) BY <1>3, <2>1
  <2>3. k = b \/ (At(b) = Len(log) /\ b.n <= last[h.client] /\ b.at = 0) BY <1>5, <2>1
  <2> HIDE DEF At
  <2>4. QED BY <2>1, <2>2, <2>3
<1>8. ASSUME NEW b \in h.batches
      PROVE  \E a \in Nat :
              /\ a = (IF b.at = 0 /\ b.n <= last[h.client] THEN Len(log) ELSE b.at)
              /\ a = 0 \/ a > durable => [b EXCEPT !.at = a] \in Known(h)
  <2>1. PICK a \in Nat : a = At(b) BY <1>3
  <2>2. a = (IF b.at = 0 /\ b.n <= last[h.client] THEN Len(log) ELSE b.at) BY <2>1
  <2>3. C(b) = [b EXCEPT !.at = a] /\ C(b).at = a BY <1>3, <2>1
  <2>4. a = 0 \/ a > durable => C(b) \in Known(h) BY <1>4, <2>3
  <2>5. QED BY <2>2, <2>3, <2>4
<1>9. QED BY <1>6, <1>7, <1>8

\* The dates in use.
LEMMA DatesAre ==
  ASSUME IInv
  PROVE  /\ DatesInUse \subseteq Nat /\ 0 \in DatesInUse
         /\ \A d \in device : d.savedAt \in DatesInUse
         /\ \A t \in Tabs :
              /\ \A w \in ToSet(tab[t].writes) \cup tab[t].found \cup tab[t].older :
                   w.savedAt \in DatesInUse
              /\ tab[t].drain.age \in DatesInUse
<1>1. \A d \in device : d.savedAt \in Nat BY CopyFields DEF IInv, TypeOK
<1>2. ASSUME NEW t \in Tabs
      PROVE  /\ tab[t].drain.age \in Nat
             /\ \A w \in ToSet(tab[t].writes) \cup tab[t].found \cup tab[t].older :
                  w.savedAt \in Nat
  <2>1. tab[t] \in Session BY DEF IInv, TypeOK
  <2>2. PICK q : q = tab[t].writes OBVIOUS
  <2>3. q \in Seq(Copy) BY <2>1, <2>2, SessionFields
  <2>4. ToSet(q) \subseteq Copy BY <2>3 DEF ToSet
  <2>5. QED BY <2>1, <2>2, <2>4, SessionFields, CopyFields
<1>3. QED BY <1>1, <1>2 DEF DatesInUse

\* Date.now() is later than all of them.
LEMMA NowIs ==
  ASSUME IInv
  PROVE  Now \in Nat /\ \A x \in DatesInUse : x < Now
<1>1. PICK m \in Nat : \A x \in DatesInUse : x <= m BY DEF IInv, Bounded
<1>2. DatesInUse \subseteq Nat /\ DatesInUse # {} BY DatesAre
<1>3. Max(DatesInUse) \in DatesInUse /\ \A x \in DatesInUse : x <= Max(DatesInUse)
  BY <1>1, <1>2, HasMax
<1>4. PICK k \in Nat : k = Max(DatesInUse) BY <1>2, <1>3
<1>5. \A x \in DatesInUse : x \in Nat /\ x <= k BY <1>2, <1>3, <1>4
<1>6. Now = 1 + k BY <1>4 DEF Now
<1>7. QED BY <1>5, <1>6

----------------------------------------------------------------------------
(* What a step has to show                                                 *)

\* What the other variables may do.
Around ==
  /\ created' \in 0..NClients /\ created <= created'
  /\ edits' \in 0..MaxEdits /\ waived' \subseteq 1..MaxEdits
  /\ before' \subseteq (1..MaxEdits) \X (1..MaxEdits)
  /\ log' \in Seq(1..MaxEdits) /\ durable' \in 0..Len(log') /\ last' \in [Clients -> Nat]
  /\ gone => gone'

\* The records of a device: old ones, and those of the clients of t.
Records(t) ==
  /\ OneEach(device')
  /\ \A d \in device' : /\ d \in Copy /\ d.batches # {}
                        /\ d.client <= created'
                        /\ d \in device \/ lock[d.client] = t
                        /\ d.savedAt \in DatesInUse \cup {Now}

\* The locks: t takes free ones and gives back its own.
Locks(t, s) ==
  /\ lock' \in [Clients -> Tabs \cup {NoTab}]
  /\ \A c \in Clients : /\ lock'[c] = t <=> c \in ClientsIn(s)
                        /\ lock[c] # t /\ lock'[c] # t => lock'[c] = lock[c]
                        /\ lock'[c] = t => lock[c] \in {t, NoTab}
                        /\ lock[c] = t => lock'[c] \in {t, NoTab}

DatesOf(s) ==
  /\ \A w \in ToSet(s.writes) \cup s.found \cup s.older : w.savedAt \in DatesInUse \cup {Now}
  /\ s.drain.age \in DatesInUse \cup {Now}

\* Discarded(s) and Created(s) once the step is made.
DiscardedNext(s) ==
  s.discarded =>
    /\ gone'
    /\ IF s.writes = <<>> THEN \A d \in device' : d.client # s.main.client
       ELSE Last(s.writes).batches = {}

CreatedNext(s) ==
  /\ \A c \in ClientsIn(s) : c <= created'
  /\ \A f \in s.found : f.client <= created'

\* Dates stay bounded when the new ones are.
LEMMA BoundedKept ==
  ASSUME IInv, tab' \in [Tabs -> Session],
         \A d \in device' : d.savedAt \in DatesInUse \cup {Now},
         \A u \in Tabs : DatesOf(tab'[u])
  PROVE  Bounded'
<1>1. PICK m \in Nat : m = Now /\ \A x \in DatesInUse : x < m BY NowIs
<1>2. \A x \in DatesInUse \cup {Now} : x <= m BY <1>1, DatesAre
<1>3. \A d \in device' : d.savedAt <= m BY <1>2
<1>4. \A u \in Tabs : /\ \A w \in ToSet(tab'[u].writes) \cup tab'[u].found \cup tab'[u].older :
                           w.savedAt <= m
                      /\ tab'[u].drain.age <= m
  BY <1>2 DEF DatesOf
<1>5. \A x \in DatesInUse' : x <= m BY <1>3, <1>4, DatesAre, <1>1 DEF DatesInUse
<1>6. QED BY <1>5 DEF Bounded

\* No date is new when the records and the sessions keep theirs.
LEMMA DatesKept ==
  ASSUME IInv, NEW u \in Tabs
  PROVE  DatesOf(tab[u])
BY DatesAre DEF DatesOf

\* What a step of one session has to show for the invariant.
LEMMA StepKeeps ==
  ASSUME IInv, NEW t \in Tabs, NEW s \in Session, tab' = [tab EXCEPT ![t] = s],
         Around, Records(t), Locks(t, s), Shape(s), DiscardedNext(s), CreatedNext(s), DatesOf(s)
  PROVE  IInv'
<1>1. tab' \in [Tabs -> Session] /\ tab'[t] = s
      /\ \A u \in Tabs : u # t => tab'[u] = tab[u]
  BY DEF IInv, TypeOK
<1>2. TypeOK' BY <1>1 DEF TypeOK, Around, Records, Locks, OneEach
<1>3. \A d \in device' : d.client <= created' BY DEF Records
<1>4. ASSUME NEW u \in Tabs
      PROVE  /\ Shape(tab'[u]) /\ DiscardedNext(tab'[u]) /\ CreatedNext(tab'[u])
             /\ \A c \in Clients : lock'[c] = u <=> c \in ClientsIn(tab'[u])
             /\ DatesOf(tab'[u])
  <2>1. CASE u = t BY <1>1, <2>1 DEF Locks
  <2>2. CASE u # t
    <3>1. tab'[u] = tab[u] /\ tab[u] \in Session BY <1>1, <2>2 DEF IInv, TypeOK
    <3>2. Shape(tab[u]) /\ Discarded(tab[u]) /\ Created(tab[u])
          /\ \A c \in Clients : lock[c] = u <=> c \in ClientsIn(tab[u])
      BY DEF IInv, Own
    <3>3. \A c \in Clients : lock'[c] = u <=> lock[c] = u
      <4>1. u # NoTab /\ t # NoTab BY TabAssumption
      <4>2. QED BY <2>2, <4>1 DEF Locks, IInv, TypeOK
    <3>4. DiscardedNext(tab[u])
      <4> SUFFICES ASSUME tab[u].discarded, tab[u].writes = <<>>, NEW d \in device',
                          d.client = tab[u].main.client
                   PROVE  FALSE
        BY <3>1, <3>2 DEF Discarded, DiscardedNext, Around
      <4>1. d \in device \/ lock[d.client] = t BY DEF Records
      <4>2. d \notin device BY <3>2 DEF Discarded
      <4>3. d.client \in Clients /\ d.client # 0 BY CopyFields DEF Records, Clients
      <4>4. lock[d.client] = u BY <3>2, <4>3 DEF ClientsIn
      <4>5. QED BY <2>2, <4>1, <4>2, <4>4
    <3>5. CreatedNext(tab[u])
      <4>1. created \in Nat /\ created' \in Nat BY BoundsAssumption DEF IInv, TypeOK, Around
      <4>2. \A c \in ClientsIn(tab[u]) : c \in Nat
        BY <3>1, SessionFields, CopyFields, BoundsAssumption DEF ClientsIn
      <4>3. \A f \in tab[u].found : f.client \in Nat BY <3>1, SessionFields, CopyFields
      <4>4. QED BY <3>1, <3>2, <4>1, <4>2, <4>3 DEF Created, CreatedNext, Around
    <3>6. QED BY <3>1, <3>2, <3>3, <3>4, <3>5, DatesKept
  <2>3. QED BY <2>1, <2>2
<1>5. Own' BY <1>3, <1>4 DEF Own, Discarded, DiscardedNext, Created, CreatedNext
<1>6. Bounded' BY <1>1, <1>4, BoundedKept DEF Records
<1>7. QED BY <1>2, <1>5, <1>6 DEF IInv

\* Sessions that go on with their engines, at the most.
Inside(s, r) ==
  \/ r = s
  \/ /\ s.phase \in {"open", "closing"}
     /\ r.phase = s.phase /\ r.found = s.found /\ r.older = s.older /\ r.writes = s.writes
     /\ r.discarded = s.discarded /\ r.main.client = s.main.client
     /\ r.drain.client = s.drain.client /\ r.drain.age = s.drain.age

\* Steps that change neither locks, records nor clients.
LEMMA InsideKeeps ==
  ASSUME IInv, tab' \in [Tabs -> Session], \A u \in Tabs : Inside(tab[u], tab'[u]),
         UNCHANGED <<device, lock, created>>, Around
  PROVE  IInv'
<1>1. TypeOK' BY DEF TypeOK, Around, IInv
<1>2. ASSUME NEW u \in Tabs
      PROVE  /\ Shape(tab'[u]) /\ DiscardedNext(tab'[u]) /\ CreatedNext(tab'[u])
             /\ \A c \in Clients : lock'[c] = u <=> c \in ClientsIn(tab'[u])
             /\ DatesOf(tab'[u])
  <2>1. Shape(tab[u]) /\ Discarded(tab[u]) /\ Created(tab[u])
        /\ \A c \in Clients : lock[c] = u <=> c \in ClientsIn(tab[u])
    BY DEF IInv, Own
  <2>2. Inside(tab[u], tab'[u]) /\ DatesOf(tab[u]) BY DatesKept
  <2>3. CASE tab'[u] = tab[u]
    BY <2>1, <2>2, <2>3 DEF Discarded, Created, DiscardedNext, CreatedNext, Around
  <2>4. CASE tab'[u] # tab[u]
    <3>1. Shape(tab'[u]) BY <2>1, <2>2, <2>4 DEF Inside, Shape, OneEach
    <3>2. ClientsIn(tab'[u]) = ClientsIn(tab[u]) BY <2>2, <2>4 DEF Inside, ClientsIn
    <3>3. DiscardedNext(tab'[u]) BY <2>1, <2>2, <2>4 DEF Inside, Discarded, DiscardedNext, Around
    <3>4. CreatedNext(tab'[u]) BY <2>1, <2>2, <2>4, <3>2 DEF Inside, Created, CreatedNext, Around
    <3>5. DatesOf(tab'[u]) BY <2>2, <2>4 DEF Inside, DatesOf
    <3>6. QED BY <2>1, <3>1, <3>2, <3>3, <3>4, <3>5
  <2>5. QED BY <2>3, <2>4
<1>3. Own' BY <1>2 DEF Own, Discarded, DiscardedNext, Created, CreatedNext, IInv
<1>4. Bounded' BY <1>2, BoundedKept, DatesAre
<1>5. QED BY <1>1, <1>3, <1>4 DEF IInv

----------------------------------------------------------------------------
(* The steps of the engines                                                *)

\* Such a step of one session.
LEMMA OneSession ==
  ASSUME IInv, NEW t \in Tabs, NEW s \in Session, tab' = [tab EXCEPT ![t] = s],
         Inside(tab[t], s), UNCHANGED <<device, lock, created>>, Around
  PROVE  IInv'
<1>1. tab \in [Tabs -> Session] BY DEF IInv, TypeOK
<1>2. tab' \in [Tabs -> Session] BY <1>1
<1>3. \A u \in Tabs : tab'[u] = IF u = t THEN s ELSE tab[u] BY <1>1
<1>4. \A u \in Tabs : Inside(tab[u], tab'[u]) BY <1>3 DEF Inside
<1>5. QED BY <1>2, <1>4, InsideKeeps

\* What most steps leave alone.
LEMMA AroundKept ==
  ASSUME IInv, UNCHANGED <<created, edits, waived, before, log, durable, last, gone>>
  PROVE  Around
BY BoundsAssumption DEF Around, IInv, TypeOK

\* An edit changes the batches of the session only.
LEMMA EditKeeps == ASSUME IInv, NEW t \in Tabs, Edit(t) PROVE IInv'
<1> PICK r : r = tab[t] OBVIOUS
<1>1. r \in Session /\ tab \in [Tabs -> Session] BY DEF IInv, TypeOK
<1>2. r.main \in Engine /\ r.main.next \in Nat /\ r.main.batches \subseteq Local
  BY <1>1, SessionFields
<1>3. edits' = edits + 1 /\ edits' \in 1..MaxEdits /\ r.phase = "open"
  BY BoundsAssumption DEF Edit, IInv, TypeOK
<1> PICK b : b = [n |-> r.main.next, edit |-> edits', at |-> 0] OBVIOUS
<1>4. b \in Local BY <1>2, <1>3 DEF Local
<1> PICK h : h = [r.main EXCEPT !.next = r.main.next + 1, !.batches = r.main.batches \cup {b}]
  OBVIOUS
<1>5. h \in Engine /\ h.client = r.main.client
  <2>1. PICK k \in Nat : k = r.main.next + 1 BY <1>2
  <2>2. PICK q : q = r.main.batches \cup {b} OBVIOUS
  <2>3. q \in SUBSET Local BY <2>2, <1>2, <1>4
  <2>4. h = [r.main EXCEPT !.next = k, !.batches = q] BY <2>1, <2>2
  <2>5. QED BY <2>1, <2>3, <2>4, <1>2 DEF Engine
<1> PICK s : s = [r EXCEPT !.main = h] OBVIOUS
<1>6. s \in Session BY <1>1, <1>5 DEF Session
<1>7. Inside(r, s) BY <1>1, <1>3, <1>5 DEF Inside, Session
<1>8. tab' = [tab EXCEPT ![t] = s]
  <2>1. tab' = [tab EXCEPT ![t].main = [r.main EXCEPT !.next = r.main.next + 1,
                              !.batches = r.main.batches \cup {b}]]
    BY DEF Edit
  <2>2. QED BY <2>1, <1>1
<1>9. Around
  <2>1. \A e \in EditsOf(tab[t].older) \cup EditsIn(tab[t].drain) : e \in 1..MaxEdits
    <3>1. \A copy \in r.older : copy.batches \subseteq Batch BY <1>1, SessionFields, CopyFields
    <3>2. r.drain.batches \subseteq Local BY <1>1, SessionFields
    <3>3. QED BY <3>1, <3>2 DEF EditsOf, EditsIn, Batch, Local
  <2>2. before' \subseteq (1..MaxEdits) \X (1..MaxEdits)
    BY <2>1, <1>3 DEF Edit, IInv, TypeOK
  <2>3. QED BY <2>2, <1>3, BoundsAssumption DEF Around, Edit, room, IInv, TypeOK
<1>10. QED BY <1>6, <1>7, <1>8, <1>9, OneSession DEF Edit

\* So does the end of the hold.
LEMMA HoldKeeps == ASSUME IInv, NEW t \in Tabs, Deadline(t) \/ Drained(t) PROVE IInv'
<1> PICK r : r = tab[t] OBVIOUS
<1>1. r \in Session /\ tab \in [Tabs -> Session] BY DEF IInv, TypeOK
<1> PICK s : s = [r EXCEPT !.held = FALSE] OBVIOUS
<1>2. s \in Session BY <1>1 DEF Session
<1>3. r.phase = "open" BY DEF Deadline, Drained
<1>4. Inside(r, s) BY <1>1, <1>3 DEF Inside, Session
<1>5. tab' = [tab EXCEPT ![t] = s] BY <1>1 DEF Deadline, Drained
<1>6. Around BY BoundsAssumption DEF Around, Deadline, Drained, room, IInv, TypeOK
<1>7. QED BY <1>2, <1>4, <1>5, <1>6, OneSession DEF Deadline, Drained

\* An engine of t changes, its client and its date do not.
LEMMA EngineKeeps ==
  ASSUME IInv, NEW t \in Tabs, NEW slot \in Slots, Connected(t, slot), NEW h \in Engine,
         h.client = tab[t][slot].client, h.age = tab[t][slot].age, NEW a \in BOOLEAN,
         tab' = [tab EXCEPT ![t][slot] = h, ![t].armed = a] \/ tab' = [tab EXCEPT ![t][slot] = h],
         UNCHANGED <<device, lock, created>>, Around
  PROVE  IInv'
<1> PICK r : r = tab[t] OBVIOUS
<1>1. r \in Session /\ tab \in [Tabs -> Session] BY DEF IInv, TypeOK
<1>2. r.phase = "open" BY DEF Connected
<1>3. CASE slot = "main"
  <2>1. CASE tab' = [tab EXCEPT ![t][slot] = h]
    <3> PICK s : s = [r EXCEPT !.main = h] OBVIOUS
    <3>1. s \in Session BY <1>1 DEF Session
    <3>2. Inside(r, s) BY <1>1, <1>2, <1>3 DEF Inside, Session
    <3>3. tab' = [tab EXCEPT ![t] = s] BY <1>1, <1>3, <2>1
    <3>4. QED BY <3>1, <3>2, <3>3, OneSession
  <2>2. CASE tab' = [tab EXCEPT ![t][slot] = h, ![t].armed = a]
    <3> PICK s : s = [r EXCEPT !.main = h, !.armed = a] OBVIOUS
    <3>1. s \in Session BY <1>1 DEF Session
    <3>2. Inside(r, s) BY <1>1, <1>2, <1>3 DEF Inside, Session
    <3>3. tab' = [tab EXCEPT ![t] = s] BY <1>1, <1>3, <2>2
    <3>4. QED BY <3>1, <3>2, <3>3, OneSession
  <2>3. QED BY <2>1, <2>2
<1>4. CASE slot = "drain"
  <2>1. CASE tab' = [tab EXCEPT ![t][slot] = h]
    <3> PICK s : s = [r EXCEPT !.drain = h] OBVIOUS
    <3>1. s \in Session BY <1>1 DEF Session
    <3>2. Inside(r, s) BY <1>1, <1>2, <1>4 DEF Inside, Session
    <3>3. tab' = [tab EXCEPT ![t] = s] BY <1>1, <1>4, <2>1
    <3>4. QED BY <3>1, <3>2, <3>3, OneSession
  <2>2. CASE tab' = [tab EXCEPT ![t][slot] = h, ![t].armed = a]
    <3> PICK s : s = [r EXCEPT !.drain = h, !.armed = a] OBVIOUS
    <3>1. s \in Session BY <1>1 DEF Session
    <3>2. Inside(r, s) BY <1>1, <1>2, <1>4 DEF Inside, Session
    <3>3. tab' = [tab EXCEPT ![t] = s] BY <1>1, <1>4, <2>2
    <3>4. QED BY <3>1, <3>2, <3>3, OneSession
  <2>3. QED BY <2>1, <2>2
<1>5. QED BY <1>3, <1>4 DEF Slots

\* The engine of a connection.
LEMMA EngineOf ==
  ASSUME IInv, NEW t \in Tabs, NEW slot \in Slots
  PROVE  /\ tab \in [Tabs -> Session] /\ tab[t] \in Session
         /\ tab[t][slot] \in Engine
         /\ tab[t][slot].client \in 0..NClients /\ tab[t][slot].next \in Nat
         /\ tab[t][slot].batches \subseteq Local /\ tab[t][slot].on \in BOOLEAN
         /\ tab[t][slot].age \in Nat
<1>1. tab \in [Tabs -> Session] /\ tab[t] \in Session BY DEF IInv, TypeOK
<1>2. tab[t][slot] \in Engine BY <1>1, SessionFields DEF Slots
<1>3. QED BY <1>1, <1>2 DEF Engine

\* A welcome changes the batches of one connection.
LEMMA WelcomeKeeps == ASSUME IInv, NEW t \in Tabs, NEW slot \in Slots, Welcome(t, slot) PROVE IInv'
<1> PICK g : g = tab[t][slot] OBVIOUS
<1>1. g \in Engine /\ tab[t] \in Session /\ g.client # 0 /\ Connected(t, slot)
  BY EngineOf DEF Welcome, Connected
<1>2. Known(g) \subseteq Local BY <1>1, KnownOK
<1> PICK m : m = Max({g.next, last[g.client] + 1}) OBVIOUS
<1>3. m \in Nat
  <2>1. g.next \in Nat /\ last[g.client] \in Nat
    BY <1>1, BoundsAssumption DEF IInv, TypeOK, Engine, Clients
  <2>2. QED BY <2>1, MaxOfTwo
<1> PICK h : h = [g EXCEPT !.on = TRUE, !.batches = Known(g), !.next = m] OBVIOUS
<1>4. h \in Engine /\ h.client = g.client /\ h.age = g.age BY <1>1, <1>2, <1>3 DEF Engine
<1> PICK a : a = (tab[t].armed \/ (slot = "main" /\ tab[t].held)) OBVIOUS
<1>5. a \in BOOLEAN OBVIOUS
<1>6. tab' = [tab EXCEPT ![t][slot] = h, ![t].armed = a]
  <2> DEFINE n == [tab[t][slot] EXCEPT !.on = TRUE, !.batches = Known(tab[t][slot]),
                       !.next = Max({tab[t][slot].next, last[tab[t][slot].client] + 1})]
  <2>1. tab' = [tab EXCEPT ![t][slot] = n,
                  ![t].armed = tab[t].armed \/ (slot = "main" /\ tab[t].held)]
    BY DEF Welcome
  <2>2. n = h BY <1>1 DEF Engine
  <2> HIDE DEF n
  <2>3. QED BY <2>1, <2>2
<1>7. Around BY AroundKept DEF Welcome, room
<1>8. UNCHANGED <<device, lock, created>> BY DEF Welcome
<1>9. QED BY <1>1, <1>4, <1>5, <1>6, <1>7, <1>8, EngineKeeps

\* The room appends a batch and counts it, or leaves it.
LEMMA ApplyIs ==
  ASSUME IInv, NEW c \in Clients, NEW b \in Local, Apply(c, b)
  PROVE  /\ log' \in Seq(1..MaxEdits) /\ last' \in [Clients -> Nat]
         /\ Len(log') \in Nat /\ Len(log) \in Nat /\ Len(log) <= Len(log')
         /\ \A i \in 1..Len(log) : log'[i] = log[i]
         /\ \/ b.n <= last[c] /\ log' = log /\ last' = last
            \/ /\ b.n > last[c] /\ last' = [last EXCEPT ![c] = b.n]
               /\ Len(log') = Len(log) + 1 /\ log'[Len(log')] = b.edit
<1>1. log \in Seq(1..MaxEdits) /\ last \in [Clients -> Nat] /\ b.edit \in 1..MaxEdits /\ b.n \in Nat
  BY DEF IInv, TypeOK, Local
<1>2. CASE b.n <= last[c] BY <1>1, <1>2 DEF Apply
<1>3. CASE ~(b.n <= last[c])
  <2>1. log' = Append(log, b.edit) /\ last' = [last EXCEPT ![c] = b.n] BY <1>3 DEF Apply
  <2>2. /\ log' \in Seq(1..MaxEdits) /\ Len(log') = Len(log) + 1 /\ Len(log) \in Nat
        /\ \A i \in 1..Len(log) : log'[i] = log[i]
        /\ log'[Len(log) + 1] = b.edit
    BY <1>1, <2>1, AppendProperties
  <2>3. b.n > last[c] BY <1>1, <1>3
  <2>4. last' \in [Clients -> Nat] BY <1>1, <2>1
  <2>5. QED BY <2>1, <2>2, <2>3, <2>4
<1>4. QED BY <1>2, <1>3

\* Then its log stays a log.
LEMMA AppliedAround ==
  ASSUME IInv, NEW c \in Clients, NEW b \in Local, Apply(c, b),
         UNCHANGED <<created, edits, waived, before, durable, gone>>
  PROVE  Around
<1>1. durable' \in 0..Len(log')
  <2>1. durable' = durable /\ durable \in 0..Len(log) BY DEF IInv, TypeOK
  <2>2. Len(log) \in Nat /\ Len(log') \in Nat /\ Len(log) <= Len(log') BY ApplyIs
  <2>3. QED BY ONLY <2>1, <2>2
<1>2. QED BY <1>1, ApplyIs, BoundsAssumption DEF Around, IInv, TypeOK

\* A batch is sent and acknowledged.
LEMMA SendKeeps == ASSUME IInv, NEW t \in Tabs, NEW slot \in Slots, Send(t, slot) PROVE IInv'
<1> PICK g : g = tab[t][slot] OBVIOUS
<1>1. g \in Engine /\ g.client # 0 /\ Connected(t, slot) /\ Pending(g) # {}
  BY EngineOf DEF Send, MaySend, Connected
<1> PICK b : b = FirstPending(g) OBVIOUS
<1>2. b \in g.batches /\ b \in Local BY <1>1, FirstPendingIs DEF Pending, Engine
<1>3. g.client \in Clients BY <1>1, BoundsAssumption DEF Engine, Clients
<1>4. Apply(g.client, b) BY DEF Send
<1>5. PICK n \in Nat : n = Len(log') BY <1>2, <1>3, <1>4, ApplyIs
<1> PICK q : q = (g.batches \ {b}) \cup {[b EXCEPT !.at = n]} OBVIOUS
<1>6. q \in SUBSET Local BY <1>1, <1>2 DEF Engine, Local
<1> PICK h : h = [g EXCEPT !.batches = q] OBVIOUS
<1>7. h \in Engine /\ h.client = g.client /\ h.age = g.age BY <1>1, <1>6 DEF Engine
<1>8. tab' = [tab EXCEPT ![t][slot] = h]
  <2>1. tab' = [tab EXCEPT ![t][slot].batches = q] BY <1>5 DEF Send
  <2>2. QED BY <2>1, EngineOf DEF Slots, Session, Engine
<1>9. Around BY <1>2, <1>3, <1>4, AppliedAround DEF Send
<1>10. UNCHANGED <<device, lock, created>> BY DEF Send
<1>11. QED BY <1>1, <1>7, <1>8, <1>9, <1>10, EngineKeeps

\* A connection is lost, before or after the room applied what it sent.
LEMMA LostKeeps ==
  ASSUME IInv, NEW t \in Tabs, NEW slot \in Slots, SendUnanswered(t, slot) \/ Disconnect(t, slot)
  PROVE  IInv'
<1> PICK g : g = tab[t][slot] OBVIOUS
<1>1. g \in Engine /\ g.client # 0 /\ Connected(t, slot)
  BY EngineOf DEF SendUnanswered, Disconnect, MaySend, Connected
<1> PICK h : h = [g EXCEPT !.on = FALSE] OBVIOUS
<1>2. h \in Engine /\ h.client = g.client /\ h.age = g.age BY <1>1 DEF Engine
<1>3. tab' = [tab EXCEPT ![t][slot] = h]
  BY EngineOf DEF SendUnanswered, Disconnect, Slots, Session, Engine
<1>4. UNCHANGED <<device, lock, created>> BY DEF SendUnanswered, Disconnect
<1>5. Around
  <2>1. CASE SendUnanswered(t, slot)
    <3>1. Pending(g) # {} BY <2>1 DEF SendUnanswered, MaySend
    <3>2. FirstPending(g) \in Local BY <1>1, <3>1, FirstPendingIs DEF Pending, Engine
    <3>3. g.client \in Clients BY <1>1, BoundsAssumption DEF Engine, Clients
    <3>4. Apply(g.client, FirstPending(g)) BY <2>1 DEF SendUnanswered
    <3>5. QED BY <2>1, <3>2, <3>3, <3>4, AppliedAround DEF SendUnanswered
  <2>2. CASE Disconnect(t, slot) BY <2>2, AroundKept DEF Disconnect, room
  <2>3. QED BY <2>1, <2>2
<1>6. QED BY <1>1, <1>2, <1>3, <1>4, <1>5, EngineKeeps

\* A session whose connections are what they were.
LEMMA SameSession == ASSUME NEW r \in Session
  PROVE  [r EXCEPT !.main = r.main, !.drain = r.drain] = r
BY DEF Session

\* A session that is not started has no connection.
LEMMA NoEngines ==
  ASSUME IInv, NEW t \in Tabs, tab[t].phase \notin {"open", "closing"}
  PROVE  tab[t].main = NoEngine /\ tab[t].drain = NoEngine
<1>1. tab[t] \in Session /\ Shape(tab[t]) BY DEF IInv, TypeOK, Own
<1>2. PICK r : r = tab[t] OBVIOUS
<1>3. Closed.main = NoEngine /\ Closed.drain = NoEngine BY DEF Closed
<1>4. CASE r.phase = "closed" BY <1>1, <1>2, <1>3, <1>4 DEF Shape
<1>5. CASE r.phase = "listing"
  <2>1. r = [Closed EXCEPT !.phase = "listing", !.found = r.found, !.older = r.older]
    BY <1>1, <1>2, <1>5 DEF Shape
  <2>2. QED BY <1>2, <1>3, <2>1 DEF Closed
<1>6. QED BY <1>1, <1>2, <1>4, <1>5, SessionFields

\* The journal is written, and all the tabs are told.
LEMMA JournalKeeps == ASSUME IInv, Journal PROVE IInv'
<1> DEFINE Told(h) == IF h.on THEN [h EXCEPT !.batches = Pending(h)] ELSE h
<1>1. \A h \in Engine : Told(h) \in Engine /\ Told(h).client = h.client /\ Told(h).age = h.age
  BY DEF Engine, Pending
<1>2. tab' = [t \in Tabs |-> [tab[t] EXCEPT !.main = Told(tab[t].main), !.drain = Told(tab[t].drain)]]
  BY DEF Journal
<1> HIDE DEF Told
<1>3. tab \in [Tabs -> Session] BY DEF IInv, TypeOK
<1>4. ASSUME NEW u \in Tabs PROVE tab'[u] \in Session /\ Inside(tab[u], tab'[u])
  <2> PICK r : r = tab[u] OBVIOUS
  <2>1. r \in Session BY <1>3
  <2> PICK m : m = Told(r.main) OBVIOUS
  <2> PICK d : d = Told(r.drain) OBVIOUS
  <2>2. /\ m \in Engine /\ d \in Engine /\ m.client = r.main.client /\ d.client = r.drain.client
        /\ d.age = r.drain.age
    BY <1>1, <2>1, SessionFields
  <2>3. tab'[u] = [r EXCEPT !.main = m, !.drain = d] BY <1>2
  <2> PICK s : s = tab'[u] OBVIOUS
  <2>4. s \in Session BY <2>1, <2>2, <2>3 DEF Session
  <2>5. CASE r.phase \in {"open", "closing"}
    BY <2>1, <2>2, <2>3, <2>4, <2>5 DEF Inside, Session
  <2>6. CASE r.phase \notin {"open", "closing"}
    <3>1. r.main = NoEngine /\ r.drain = NoEngine
      BY <2>6, NoEngines
    <3>2. m = NoEngine /\ d = NoEngine BY <3>1 DEF Told, NoEngine
    <3>3. s = r
      <4>1. m = r.main /\ d = r.drain BY <3>1, <3>2
      <4> HIDE DEF Told
      <4>2. QED BY <2>1, <2>3, <4>1, SameSession
    <3>4. QED BY <2>1, <3>3 DEF Inside
  <2>7. QED BY <2>4, <2>5, <2>6
<1>5. tab' \in [Tabs -> Session] BY <1>2, <1>4
<1>6. Around
  <2>1. /\ durable' = Len(log) /\ log' = log
        /\ UNCHANGED <<last, created, edits, gone, waived, before>>
    BY Zenon DEF Journal
  <2>3. log \in Seq(1..MaxEdits) /\ Len(log) \in Nat BY DEF IInv, TypeOK
  <2>2. created \in Nat BY BoundsAssumption DEF IInv, TypeOK
  <2>4. QED BY <2>1, <2>2, <2>3 DEF Around, IInv, TypeOK
<1>7. QED BY <1>4, <1>5, <1>6, InsideKeeps DEF Journal

\* All the connections are closed at once.
LEMMA RemoveAccessKeeps == ASSUME IInv, RemoveAccess PROVE IInv'
<1>1. tab \in [Tabs -> Session] BY DEF IInv, TypeOK
<1>2. tab' = [t \in Tabs |-> [tab[t] EXCEPT !.main.on = FALSE, !.drain.on = FALSE]]
  BY DEF RemoveAccess
<1>3. ASSUME NEW u \in Tabs PROVE tab'[u] \in Session /\ Inside(tab[u], tab'[u])
  <2> PICK r : r = tab[u] OBVIOUS
  <2>1. r \in Session BY <1>1
  <2> PICK m : m = [r.main EXCEPT !.on = FALSE] OBVIOUS
  <2> PICK d : d = [r.drain EXCEPT !.on = FALSE] OBVIOUS
  <2>2. /\ m \in Engine /\ d \in Engine /\ m.client = r.main.client /\ d.client = r.drain.client
        /\ d.age = r.drain.age
    <3>1. r.main \in Engine /\ r.drain \in Engine BY <2>1, SessionFields
    <3>2. QED BY <3>1 DEF Engine
  <2>3. tab'[u] = [r EXCEPT !.main = m, !.drain = d] BY <1>2, <2>1 DEF Session
  <2> PICK s : s = tab'[u] OBVIOUS
  <2>4. s \in Session BY <2>1, <2>2, <2>3 DEF Session
  <2>5. CASE r.phase \in {"open", "closing"}
    BY <2>1, <2>2, <2>3, <2>4, <2>5 DEF Inside, Session
  <2>6. CASE r.phase \notin {"open", "closing"}
    <3>1. r.main = NoEngine /\ r.drain = NoEngine
      BY <2>6, NoEngines
    <3>2. m = NoEngine /\ d = NoEngine
      <4>1. r.main \in Engine /\ r.main.on = FALSE BY <2>1, <3>1, SessionFields DEF NoEngine
      <4>2. m = r.main BY <4>1 DEF Engine
      <4>3. r.drain \in Engine /\ r.drain.on = FALSE BY <2>1, <3>1, SessionFields DEF NoEngine
      <4>4. d = r.drain BY <4>3 DEF Engine
      <4>5. QED BY <3>1, <4>2, <4>4
    <3>3. s = r
      <4>1. m = r.main /\ d = r.drain BY <3>1, <3>2
      <4>2. QED BY <2>1, <2>3, <4>1, SameSession
    <3>4. QED BY <2>1, <3>3 DEF Inside
  <2>7. QED BY <2>4, <2>5, <2>6
<1>4. tab' \in [Tabs -> Session] BY <1>2, <1>3
<1>5. gone' = TRUE BY DEF RemoveAccess
<1>6. Around
  <2>1. UNCHANGED <<log, durable, last, created, edits, waived, before>> /\ gone'
    BY DEF RemoveAccess, room
  <2>2. created \in Nat BY BoundsAssumption DEF IInv, TypeOK
  <2>3. QED BY <2>1, <2>2 DEF Around, IInv, TypeOK
<1>7. QED BY <1>3, <1>4, <1>6, InsideKeeps DEF RemoveAccess

----------------------------------------------------------------------------
(* Records and locks                                                       *)

\* The records stay when the device does.
LEMMA RecordsKept ==
  ASSUME IInv, NEW t \in Tabs, device' = device, created' \in 0..NClients, created <= created'
  PROVE  Records(t)
<1>1. \A d \in device : d \in Copy /\ d.batches # {} /\ d.client <= created /\ d.savedAt \in DatesInUse
  BY DatesAre DEF IInv, TypeOK, Own
<1>2. \A d \in device : d.client \in Nat BY <1>1, CopyFields
<1>3. created \in Nat /\ created' \in Nat BY BoundsAssumption DEF IInv, TypeOK
<1>4. OneEach(device') BY DEF IInv, TypeOK, OneEach
<1>5. QED BY <1>1, <1>2, <1>3, <1>4 DEF Records

\* A record is deleted.
LEMMA RecordsDelete ==
  ASSUME IInv, NEW t \in Tabs, NEW c, device' = Delete(c), created' = created
  PROVE  Records(t)
<1>1. device' \subseteq device BY DEF Delete
<1>2. \A d \in device : d \in Copy /\ d.batches # {} /\ d.client <= created /\ d.savedAt \in DatesInUse
  BY DatesAre DEF IInv, TypeOK, Own
<1>3. OneEach(device') BY <1>1 DEF IInv, TypeOK, OneEach
<1>4. QED BY <1>1, <1>2, <1>3 DEF Records

\* What the device has once a copy is written.
LEMMA PutIs ==
  ASSUME NEW x, NEW d
  PROVE  d \in Put(x) <=> (d \in device /\ d.client # x.client) \/ (d = x /\ x.batches # {})
BY DEF Put

\* One record per client, still, once a copy is written.
LEMMA RecordsPut ==
  ASSUME IInv, NEW t \in Tabs, NEW x \in Copy, device' = Put(x), created' = created,
         lock[x.client] = t, x.client <= created, x.savedAt \in DatesInUse \cup {Now}
  PROVE  Records(t)
<1>1. \A d \in device : d \in Copy /\ d.batches # {} /\ d.client <= created /\ d.savedAt \in DatesInUse
  BY DatesAre DEF IInv, TypeOK, Own
<1>2. \A d \in device' : (d \in device /\ d.client # x.client) \/ (d = x /\ x.batches # {})
  BY PutIs
<1>3. OneEach(device') BY <1>2 DEF IInv, TypeOK, OneEach
<1>4. QED BY <1>1, <1>2, <1>3 DEF Records

\* A session holds the locks of its clients, which are created.
LEMMA OwnClient ==
  ASSUME IInv, NEW t \in Tabs, NEW c \in ClientsIn(tab[t])
  PROVE  c \in Clients /\ lock[c] = t /\ c <= created
<1>1. tab[t] \in Session BY DEF IInv, TypeOK
<1>2. c \in Clients
  BY <1>1, SessionFields, CopyFields, BoundsAssumption DEF ClientsIn, Clients
<1>3. QED BY <1>2 DEF IInv, Own, Created

\* The locks stay when the clients of the session do.
LEMMA LocksKept ==
  ASSUME IInv, NEW t \in Tabs, NEW s, lock' = lock, ClientsIn(s) = ClientsIn(tab[t])
  PROVE  Locks(t, s)
BY DEF Locks, IInv, TypeOK, Own

\* A lock is given back with its client.
LEMMA LocksFreed ==
  ASSUME IInv, NEW t \in Tabs, NEW s, NEW c \in ClientsIn(tab[t]), lock' = Free(c),
         ClientsIn(s) = ClientsIn(tab[t]) \ {c}
  PROVE  Locks(t, s)
<1>1. c \in Clients /\ lock[c] = t /\ t # NoTab BY OwnClient, TabAssumption
<1>2. lock' \in [Clients -> Tabs \cup {NoTab}] /\ \A k \in Clients : lock'[k] = IF k = c THEN NoTab ELSE lock[k]
  BY <1>1 DEF Free, IInv, TypeOK
<1>3. \A k \in Clients : lock[k] = t <=> k \in ClientsIn(tab[t]) BY DEF IInv, Own
<1>4. QED BY <1>1, <1>2, <1>3 DEF Locks

\* A free lock is taken with its client.
LEMMA LocksTaken ==
  ASSUME IInv, NEW t \in Tabs, NEW s, NEW c \in Clients, lock[c] = NoTab,
         lock' = [lock EXCEPT ![c] = t], ClientsIn(s) = ClientsIn(tab[t]) \cup {c}
  PROVE  Locks(t, s)
<1>1. t # NoTab BY TabAssumption
<1>2. lock' \in [Clients -> Tabs \cup {NoTab}] /\ \A k \in Clients : lock'[k] = IF k = c THEN t ELSE lock[k]
  BY DEF IInv, TypeOK
<1>3. \A k \in Clients : lock[k] = t <=> k \in ClientsIn(tab[t]) BY DEF IInv, Own
<1>4. QED BY <1>1, <1>2, <1>3 DEF Locks

\* What a closed session is.
LEMMA ClosedOK ==
  /\ Closed \in Session /\ Closed.phase = "closed" /\ Closed.found = {} /\ Closed.older = {}
  /\ Closed.main = NoEngine /\ Closed.drain = NoEngine /\ Closed.held = FALSE
  /\ Closed.armed = FALSE /\ Closed.discarded = FALSE /\ Closed.writes = <<>>
  /\ NoEngine \in Engine /\ NoEngine.client = 0 /\ NoEngine.age = 0 /\ NoEngine.batches = {}
  /\ NoEngine.on = FALSE /\ NoEngine.next = 1
<1>1. Nothing(1) \in Copy BY BoundsAssumption DEF Nothing, Copy, Clients
<1>2. NoEngine \in Engine BY BoundsAssumption DEF NoEngine, Engine
<1>3. <<>> \in Seq(Copy) OBVIOUS
<1>4. Closed \in Session BY <1>1, <1>2, <1>3 DEF Closed, Session
<1>5. QED BY <1>2, <1>4 DEF Closed, NoEngine

\* A session that has not started.
LEMMA ListingIs ==
  ASSUME IInv, NEW t \in Tabs, tab[t].phase \in {"closed", "listing"}
  PROVE  /\ tab[t].main = NoEngine /\ tab[t].drain = NoEngine /\ tab[t].writes = <<>>
         /\ tab[t].held = FALSE /\ tab[t].armed = FALSE /\ tab[t].discarded = FALSE
         /\ tab[t].saved = Nothing(1)
         /\ tab[t] = [Closed EXCEPT !.phase = tab[t].phase, !.found = tab[t].found,
                                    !.older = tab[t].older]
         /\ tab[t].phase = "closed" => tab[t].found = {} /\ tab[t].older = {}
<1>1. tab[t] \in Session /\ Shape(tab[t]) BY DEF IInv, TypeOK, Own
<1>2. PICK r : r = tab[t] OBVIOUS
<1>3. Closed.saved = Nothing(1) BY DEF Closed
<1>4. r = [Closed EXCEPT !.phase = r.phase, !.found = r.found, !.older = r.older]
  <2>1. CASE r.phase = "closed"
    <3>1. r = Closed BY <1>1, <1>2, <2>1 DEF Shape
    <3>2. QED BY <3>1, ClosedOK DEF Session
  <2>2. CASE r.phase = "listing" BY <1>1, <1>2, <2>2 DEF Shape
  <2>3. QED BY <1>2, <2>1, <2>2
<1>5. r.phase = "closed" => r = Closed BY <1>1, <1>2 DEF Shape
<1>6. r.main = Closed.main /\ r.drain = Closed.drain /\ r.writes = Closed.writes
      /\ r.held = Closed.held /\ r.armed = Closed.armed /\ r.discarded = Closed.discarded
      /\ r.saved = Closed.saved
  BY <1>4, ClosedOK DEF Session
<1>7. QED BY <1>2, <1>3, <1>4, <1>5, <1>6, ClosedOK

\* A session that has not started works for the copies it took only.
LEMMA NotStarted ==
  ASSUME NEW s \in Session, s.main.client = 0, s.drain.client = 0
  PROVE  /\ ClientsIn(s) = {copy.client : copy \in s.older}
         /\ \A o \in s.older : o.client # s.main.client /\ o.client # s.drain.client
BY SessionFields, CopyFields DEF ClientsIn

\* A session that lists its copies: what is left to show of it.
LEMMA ListingShape ==
  ASSUME NEW s \in Session,
         s = [Closed EXCEPT !.phase = "listing", !.found = s.found, !.older = s.older],
         OneEach(s.found \cup s.older)
  PROVE  /\ Shape(s) /\ DiscardedNext(s)
         /\ ClientsIn(s) = {copy.client : copy \in s.older}
<1>1. /\ s.phase = "listing" /\ s.main = NoEngine /\ s.drain = NoEngine /\ s.writes = <<>>
      /\ s.discarded = FALSE
  BY ClosedOK DEF Session
<1>2. QED BY <1>1, ClosedOK, NotStarted, NoneIn DEF Shape, DiscardedNext

----------------------------------------------------------------------------
(* A session starts                                                        *)

\* listUnsynced: what was found is what the device has.
LEMMA ListKeeps == ASSUME IInv, NEW t \in Tabs, List(t) PROVE IInv'
<1> PICK r : r = tab[t] OBVIOUS
<1>1. r \in Session /\ tab \in [Tabs -> Session] /\ r.phase = "closed" BY DEF IInv, TypeOK, List
<1>2. r.older = {} /\ r = [Closed EXCEPT !.phase = r.phase, !.found = r.found, !.older = r.older]
  BY <1>1, ListingIs
<1> PICK s : s = [r EXCEPT !.phase = "listing", !.found = device] OBVIOUS
<1>3. device \subseteq Copy BY DEF IInv, TypeOK
<1>4. s \in Session /\ s.found = device /\ s.older = {} BY <1>1, <1>2, <1>3 DEF Session
<1>5. s = [Closed EXCEPT !.phase = "listing", !.found = s.found, !.older = s.older]
  BY <1>1, <1>2, <1>4, ClosedOK DEF Session
<1>6. OneEach(s.found \cup s.older) BY <1>4 DEF OneEach, IInv, TypeOK
<1>7. Shape(s) /\ DiscardedNext(s) /\ ClientsIn(s) = {}
  <2>1. Shape(s) /\ DiscardedNext(s) /\ ClientsIn(s) = {copy.client : copy \in s.older}
    BY <1>4, <1>5, <1>6, ListingShape
  <2>2. QED BY <2>1, <1>4
<1>8. tab' = [tab EXCEPT ![t] = s] BY <1>1 DEF List
<1>9. Around /\ Records(t)
  <2>1. created \in 0..NClients /\ created <= created BY BoundsAssumption DEF IInv, TypeOK
  <2>2. Around BY AroundKept DEF List, room
  <2>3. QED BY <2>1, <2>2, RecordsKept DEF List
<1>10. ClientsIn(r) = {}
  <2>1. r.main.client = 0 /\ r.drain.client = 0 BY <1>1, ListingIs, ClosedOK
  <2>2. ClientsIn(r) = {copy.client : copy \in r.older} BY <1>1, <2>1, NotStarted
  <2>3. QED BY <2>2, <1>2
<1>11. Locks(t, s) BY <1>7, <1>10, LocksKept DEF List
<1>12. CreatedNext(s) BY <1>4, <1>7 DEF CreatedNext, IInv, Own, List
<1>13. s.writes = <<>> /\ s.drain.age = 0
  <2>1. s.writes = Closed.writes /\ s.drain = Closed.drain BY <1>5, <1>4, ClosedOK DEF Session
  <2>2. QED BY <2>1, ClosedOK
<1>14. DatesOf(s) BY <1>4, <1>13, DatesAre, NoneIn DEF DatesOf
<1>15. QED BY <1>4, <1>7, <1>8, <1>9, <1>11, <1>12, <1>14, StepKeeps

\* The next copy of the list is taken out of it, and perhaps adopted.
LEMMA NextListed ==
  ASSUME IInv, NEW t \in Tabs, tab[t].phase = "listing", tab[t].found # {},
         NEW copy, copy = Oldest(tab[t].found), NEW older \in {tab[t].older, tab[t].older \cup {copy}},
         NEW s, s = [tab[t] EXCEPT !.found = @ \ {copy}, !.older = older]
  PROVE  /\ copy \in tab[t].found /\ copy \in Copy /\ copy.client \in Clients
         /\ s \in Session /\ s.older = older /\ s.found = tab[t].found \ {copy}
         /\ Shape(s) /\ DiscardedNext(s)
         /\ created' = created => CreatedNext(s)
         /\ ClientsIn(s) = {o.client : o \in older} /\ ClientsIn(tab[t]) = {o.client : o \in tab[t].older}
         /\ DatesOf(s)
<1> PICK r : r = tab[t] OBVIOUS
<1>1. r \in Session /\ tab \in [Tabs -> Session] /\ Shape(r) /\ Created(r)
  BY DEF IInv, TypeOK, Own
<1>2. r.found \subseteq Copy /\ r.older \subseteq Copy BY <1>1, SessionFields
<1>3. copy \in r.found /\ copy \in Copy /\ copy.client \in Clients BY <1>2, OldestIs, CopyFields
<1>4. r = [Closed EXCEPT !.phase = "listing", !.found = r.found, !.older = r.older]
      /\ r.main = NoEngine /\ r.drain = NoEngine /\ r.writes = <<>>
  BY ListingIs
<1>5. older \subseteq Copy BY <1>2, <1>3
<1>6. s \in Session /\ s.found = r.found \ {copy} /\ s.older = older
  BY <1>1, <1>2, <1>5 DEF Session
<1>7. s = [Closed EXCEPT !.phase = "listing", !.found = s.found, !.older = s.older]
  BY <1>4, <1>6, ClosedOK DEF Session
<1>8. OneEach(s.found \cup s.older)
  <2>1. OneEach(r.found \cup r.older) BY <1>1 DEF Shape
  <2>2. s.found \cup s.older \subseteq r.found \cup r.older BY <1>3, <1>6
  <2>3. QED BY <2>1, <2>2 DEF OneEach
<1>9. ClientsIn(r) = {o.client : o \in r.older} BY <1>1, <1>4, NotStarted, ClosedOK
<1>10. Shape(s) /\ DiscardedNext(s) /\ ClientsIn(s) = {o.client : o \in older}
  BY <1>6, <1>7, <1>8, ListingShape
<1>11. created' = created => CreatedNext(s)
  BY <1>1, <1>3, <1>6, <1>9, <1>10 DEF CreatedNext, Created
<1>12. s.writes = <<>> /\ s.drain.age = 0 BY <1>1, <1>4, <1>6, ClosedOK DEF Session
<1>13. DatesOf(s) BY <1>3, <1>6, <1>12, DatesAre, NoneIn DEF DatesOf
<1>14. copy \in tab[t].found /\ copy \in Copy /\ copy.client \in Clients BY <1>3
<1>15. s \in Session /\ s.older = older /\ s.found = tab[t].found \ {copy} BY <1>6
<1>16. ClientsIn(tab[t]) = {o.client : o \in tab[t].older} BY <1>9
<1>17. Shape(s) /\ DiscardedNext(s) BY <1>10
<1>18. created' = created => CreatedNext(s) BY <1>11
<1>19. ClientsIn(s) = {o.client : o \in older} BY <1>10
<1>20. DatesOf(s) BY <1>13
<1>21. QED BY ONLY <1>14, <1>15, <1>16, <1>17, <1>18, <1>19, <1>20

\* A free lock is taken, a held one passed over.
LEMMA TakeLockKeeps == ASSUME IInv, NEW t \in Tabs, TakeLock(t) PROVE IInv'
<1> PICK r : r = tab[t] OBVIOUS
<1> PICK copy : copy = Oldest(r.found) OBVIOUS
<1>0. r.phase = "listing" /\ r.found # {} /\ r \in Session BY DEF TakeLock, IInv, TypeOK
<1>1. copy.client \in Clients BY <1>0, OldestIs, SessionFields, CopyFields
<1> PICK free \in BOOLEAN : free = (lock[copy.client] = NoTab) OBVIOUS
<1>2. Around /\ Records(t)
  <2>1. created \in 0..NClients /\ created <= created BY BoundsAssumption DEF IInv, TypeOK
  <2>2. Around BY AroundKept DEF TakeLock, room
  <2>3. QED BY <2>1, <2>2, RecordsKept DEF TakeLock
<1>3. CASE free
  <2> PICK older : older = r.older \cup {copy} OBVIOUS
  <2> PICK s : s = [r EXCEPT !.found = @ \ {copy}, !.older = older] OBVIOUS
  <2>1. tab' = [tab EXCEPT ![t] = s] BY <1>3 DEF TakeLock, IInv, TypeOK, Session
  <2>2. lock' = [lock EXCEPT ![copy.client] = t] BY <1>3 DEF TakeLock
  <2>3. /\ s \in Session /\ Shape(s) /\ DiscardedNext(s) /\ CreatedNext(s) /\ DatesOf(s)
        /\ ClientsIn(s) = {o.client : o \in older} /\ ClientsIn(r) = {o.client : o \in r.older}
    BY <1>0, NextListed, ZenonT(60) DEF TakeLock
  <2>4. ClientsIn(s) = ClientsIn(r) \cup {copy.client} BY <2>3
  <2>5. lock[copy.client] = NoTab BY <1>3
  <2>6. Locks(t, s) BY <1>1, <2>5, <2>2, <2>4, LocksTaken, ZenonT(60)
  <2>7. QED BY <1>2, <2>1, <2>3, <2>6, StepKeeps
<1>4. CASE ~free
  <2> PICK s : s = [r EXCEPT !.found = @ \ {copy}, !.older = r.older] OBVIOUS
  <2>1. tab' = [tab EXCEPT ![t] = s] BY <1>4 DEF TakeLock, IInv, TypeOK, Session
  <2>2. lock' = lock BY <1>4 DEF TakeLock
  <2>4. created' = created BY DEF TakeLock
  <2>3. /\ s \in Session /\ Shape(s) /\ DiscardedNext(s) /\ CreatedNext(s) /\ DatesOf(s)
        /\ ClientsIn(s) = {o.client : o \in r.older} /\ ClientsIn(r) = {o.client : o \in r.older}
    <3>1. s = [tab[t] EXCEPT !.found = @ \ {copy}, !.older = r.older] OBVIOUS
    <3>2. r.older \in {tab[t].older, tab[t].older \cup {copy}} OBVIOUS
    <3>3. copy = Oldest(tab[t].found) /\ tab[t].phase = "listing" /\ tab[t].found # {} BY <1>0
    <3>4. QED BY ONLY IInv, t \in Tabs, <2>4, <3>1, <3>2, <3>3, r = tab[t], NextListed, ZenonT(60)
  <2>5. Locks(t, s) BY <2>2, <2>3, LocksKept
  <2>6. QED BY <1>2, <2>1, <2>3, <2>5, StepKeeps
<1>5. QED BY <1>3, <1>4

\* The edits of a copy are edits.
LEMMA EditsAre ==
  ASSUME NEW copy \in Copy
  PROVE  EditsIn(copy) \subseteq 1..MaxEdits
BY DEF EditsIn, Copy, Batch

\* The record of a client nobody works for is deleted.
LEMMA DropUnusableKeeps == ASSUME IInv, NEW t \in Tabs, DropUnusable(t) PROVE IInv'
<1> PICK r : r = tab[t] OBVIOUS
<1> PICK copy : copy = Oldest(r.found) OBVIOUS
<1>0. r.phase = "listing" /\ r.found # {} /\ r \in Session BY DEF DropUnusable, IInv, TypeOK
<1>1. copy \in Copy BY <1>0, OldestIs, SessionFields
<1> PICK s : s = [r EXCEPT !.found = @ \ {copy}, !.older = r.older] OBVIOUS
<1>2. tab' = [tab EXCEPT ![t] = s] BY DEF DropUnusable, IInv, TypeOK, Session
<1>3. /\ s \in Session /\ Shape(s) /\ DiscardedNext(s) /\ CreatedNext(s) /\ DatesOf(s)
      /\ ClientsIn(s) = {o.client : o \in r.older} /\ ClientsIn(r) = {o.client : o \in r.older}
  BY <1>0, NextListed, ZenonT(60) DEF DropUnusable
<1>4. Locks(t, s) BY <1>3, LocksKept DEF DropUnusable
<1>5. Records(t) BY RecordsDelete DEF DropUnusable
<1>6. Around
  <2>1. waived' \subseteq 1..MaxEdits
    <3>1. waived' = waived \cup EditsIn(copy) BY DEF DropUnusable
    <3>2. QED BY <1>1, <3>1, EditsAre DEF IInv, TypeOK
  <2>2. UNCHANGED <<log, durable, last, created, edits, gone, before>> BY DEF DropUnusable, room
  <2>3. created \in Nat BY BoundsAssumption DEF IInv, TypeOK
  <2>4. QED BY <2>1, <2>2, <2>3 DEF Around, IInv, TypeOK
<1>7. QED BY <1>2, <1>3, <1>4, <1>5, <1>6, StepKeeps

\* The created clients stay.
LEMMA CreatedSame ==
  ASSUME IInv, UNCHANGED <<created, device>>, NEW t \in Tabs
  PROVE  Records(t) /\ created' \in 0..NClients /\ created <= created'
<1>1. created \in 0..NClients /\ created <= created BY BoundsAssumption DEF IInv, TypeOK
<1>2. QED BY <1>1, RecordsKept

\* The newest copy becomes the session, the others go first.
LEMMA StartFromCopiesKeeps == ASSUME IInv, NEW t \in Tabs, StartFromCopies(t) PROVE IInv'
<1> PICK r : r = tab[t] OBVIOUS
<1>0. r \in Session /\ r.phase = "listing" /\ r.found = {} /\ r.older # {} /\ Shape(r) /\ Created(r)
  BY DEF StartFromCopies, IInv, TypeOK, Own
<1> PICK newest : newest = Newest(r.older) OBVIOUS
<1> PICK others : others = r.older \ {newest} OBVIOUS
<1>h. PICK held \in BOOLEAN : held = (others # {}) OBVIOUS
<1>1. r.older \subseteq Copy BY <1>0, SessionFields
<1>2. newest \in r.older /\ newest \in Copy
  <2>1. PICK m \in Nat : m = Now /\ \A x \in DatesInUse : x < m BY NowIs
  <2>2. \A a \in r.older : a.savedAt \in Nat /\ a.savedAt < m BY <1>1, <2>1, DatesAre, CopyFields
  <2>3. \A a \in r.older : a.savedAt <= m BY <2>2
  <2>4. QED BY <1>0, <1>1, <2>3, NewestIs
<1> PICK e : e = Restored(newest) OBVIOUS
<1>3. e \in Engine /\ e.client = newest.client /\ newest.client \in Clients BY <1>2, RestoredOK, CopyFields
<1> PICK s : s = [Closed EXCEPT !.phase = "open", !.main = e, !.saved = newest,
                                !.older = others, !.held = held] OBVIOUS
<1>4. /\ s \in Session /\ s.phase = "open" /\ s.main = e /\ s.older = others /\ s.found = {}
      /\ s.drain = NoEngine /\ s.writes = <<>> /\ s.discarded = FALSE
  BY <1>1, <1>2, <1>3, ClosedOK, ZenonT(60) DEF Session
<1>5. tab' = [tab EXCEPT ![t] = s]
  <2>1. tab' = [tab EXCEPT ![t] = [Closed EXCEPT !.phase = "open", !.main = e, !.saved = newest,
                                !.older = others, !.held = (others # {})]]
    BY DEF StartFromCopies
  <2>2. QED BY <2>1, <1>h
<1>6. ClientsIn(r) = {o.client : o \in r.older} BY <1>0, ListingIs, NotStarted, ClosedOK
<1>7. ClientsIn(s) = {e.client} \cup {o.client : o \in others}
  BY <1>3, <1>4, ClosedOK DEF ClientsIn, Clients
<1>8. ClientsIn(s) = ClientsIn(r)
  <2>1. \A c : c \in ClientsIn(r) <=> \E o \in r.older : c = o.client BY <1>6
  <2>2. \A c : c \in ClientsIn(s) <=> c = newest.client \/ \E o \in others : c = o.client
    BY <1>3, <1>7
  <2>3. \A o : o \in r.older <=> o = newest \/ o \in others BY <1>2
  <2>4. \A c : c \in ClientsIn(s) <=> c \in ClientsIn(r) BY <2>1, <2>2, <2>3
  <2>5. ClientsIn(s) \subseteq ClientsIn(r) /\ ClientsIn(r) \subseteq ClientsIn(s) BY <2>4
  <2>6. QED BY <2>5
<1>9. Locks(t, s) BY <1>8, LocksKept DEF StartFromCopies
<1>10. Shape(s)
  <2>1. OneEach(r.older) BY <1>0 DEF Shape, OneEach
  <2>2. OneEach(s.found \cup s.older) BY <1>4, <2>1 DEF OneEach
  <2>3. \A o \in others : o.client # e.client /\ o.client # 0
    BY <1>1, <1>2, <1>3, <2>1, CopyFields DEF OneEach, Clients
  <2>4. e.client # 0 BY <1>3 DEF Clients
  <2>5. QED BY <1>4, <2>2, <2>3, <2>4, ClosedOK, NoneIn DEF Shape
<1>11. Around
  <2>1. before' \subseteq (1..MaxEdits) \X (1..MaxEdits)
    <3>1. 1..edits \subseteq 1..MaxEdits BY BoundsAssumption DEF IInv, TypeOK
    <3>2. OrderOf(tab[t].older) \subseteq (1..edits) \X (1..edits) BY DEF OrderOf
    <3>3. before' = before \cup OrderOf(tab[t].older) BY DEF StartFromCopies
    <3>4. QED BY <3>1, <3>2, <3>3 DEF IInv, TypeOK
  <2>2. UNCHANGED <<log, durable, last, created, edits, gone, waived>> BY DEF StartFromCopies, room
  <2>3. created \in Nat BY BoundsAssumption DEF IInv, TypeOK
  <2>4. QED BY <2>1, <2>2, <2>3 DEF Around, IInv, TypeOK
<1>12. Records(t) BY CreatedSame DEF StartFromCopies
<1>13. DiscardedNext(s) BY <1>4 DEF DiscardedNext
<1>14. CreatedNext(s) BY <1>0, <1>4, <1>8 DEF CreatedNext, Created, StartFromCopies
<1>15. DatesOf(s) BY <1>4, ClosedOK, DatesAre, NoneIn DEF DatesOf
<1>16. QED BY <1>4, <1>5, <1>9, <1>10, <1>11, <1>12, <1>13, <1>14, <1>15, StepKeeps

\* A new client: nobody has its lock.
LEMMA StartFreshKeeps == ASSUME IInv, NEW t \in Tabs, StartFresh(t) PROVE IInv'
<1> PICK r : r = tab[t] OBVIOUS
<1>0. r \in Session /\ r.phase = "listing" /\ r.found = {} /\ r.older = {}
  BY DEF StartFresh, IInv, TypeOK
<1>1. PICK c \in Clients : c = created' /\ created' = created + 1
  BY BoundsAssumption DEF StartFresh, IInv, TypeOK, Clients
<1>2. created \in Nat /\ c \in 1..NClients /\ ~(c <= created) BY <1>1, BoundsAssumption DEF IInv, TypeOK, Clients
<1>3. lock[c] = NoTab
  <2> SUFFICES ASSUME lock[c] # NoTab PROVE FALSE OBVIOUS
  <2>1. lock[c] \in Tabs BY DEF IInv, TypeOK
  <2>2. c \in ClientsIn(tab[lock[c]]) BY <2>1 DEF IInv, Own
  <2>3. c <= created BY <2>1, <2>2, OwnClient
  <2>4. QED BY <1>2, <2>3
<1> PICK e : e = [NoEngine EXCEPT !.client = c] OBVIOUS
<1>4. e \in Engine /\ e.client = c /\ c # 0
  <2>1. NoEngine \in Engine /\ c \in 0..NClients /\ c # 0 BY <1>2, ClosedOK
  <2>2. QED BY <2>1 DEF Engine
<1> PICK s : s = [Closed EXCEPT !.phase = "open", !.main = e] OBVIOUS
<1>5. /\ s \in Session /\ s.phase = "open" /\ s.main = e /\ s.older = {} /\ s.found = {}
      /\ s.drain = NoEngine /\ s.writes = <<>> /\ s.discarded = FALSE
  BY <1>4, ClosedOK DEF Session
<1>6. tab' = [tab EXCEPT ![t] = s] BY <1>1 DEF StartFresh
<1>7. ClientsIn(s) = {c} BY <1>4, <1>5, ClosedOK, ZenonT(60) DEF ClientsIn
<1>8. ClientsIn(r) = {}
  <2>1. ClientsIn(r) = {o.client : o \in r.older} BY <1>0, ListingIs, NotStarted, ClosedOK
  <2>2. QED BY <1>0, <2>1
<1>9. Locks(t, s)
  <2>1. lock' = [lock EXCEPT ![c] = t] BY <1>1 DEF StartFresh
  <2>2. ClientsIn(s) = ClientsIn(tab[t]) \cup {c} BY <1>7, <1>8
  <2>3. QED BY <1>3, <2>1, <2>2, LocksTaken
<1>10. created' \in 0..NClients /\ created <= created' BY <1>1, <1>2, BoundsAssumption
<1>11. Around
  <2>1. UNCHANGED <<log, durable, last, edits, gone, waived, before>> BY DEF StartFresh, room
  <2>2. QED BY <1>10, <2>1 DEF Around, IInv, TypeOK
<1>12. Records(t) BY <1>10, RecordsKept DEF StartFresh
<1>13. Shape(s) BY <1>4, <1>5, ClosedOK, NoneIn DEF Shape, OneEach
<1>14. DiscardedNext(s) BY <1>5 DEF DiscardedNext
<1>15. CreatedNext(s) BY <1>1, <1>5, <1>7, <1>2 DEF CreatedNext
<1>16. DatesOf(s) BY <1>5, ClosedOK, DatesAre, NoneIn DEF DatesOf
<1>17. QED BY <1>5, <1>6, <1>9, <1>11, <1>12, <1>13, <1>14, <1>15, <1>16, StepKeeps

----------------------------------------------------------------------------
(* Writes                                                                  *)

\* Date.now() is a date.
LEMMA NowDate == ASSUME IInv PROVE Now \in Nat
BY NowIs

\* What a session writes: the writes it has, and perhaps one more.
LEMMA PersistedIs ==
  ASSUME IInv, NEW t \in Tabs, tab[t].phase \in {"open", "closing"}
  PROVE  /\ Persisted(t) \in Seq(Copy)
         /\ ~Unsaved(t) => Persisted(t) = tab[t].writes
         /\ Unsaved(t) =>
              /\ ~tab[t].discarded /\ Persisted(t) # <<>>
              /\ ToSet(Persisted(t)) = ToSet(tab[t].writes) \cup {CopyOf(tab[t].main, Now)}
              /\ Last(Persisted(t)) = CopyOf(tab[t].main, Now)
              /\ CopyOf(tab[t].main, Now) \in Copy
              /\ CopyOf(tab[t].main, Now).client = tab[t].main.client
              /\ CopyOf(tab[t].main, Now).savedAt = Now
<1>1. tab[t] \in Session /\ Shape(tab[t]) BY DEF IInv, TypeOK, Own
<1>2. tab[t].main \in Engine /\ tab[t].main.client # 0 /\ tab[t].writes \in Seq(Copy)
  BY <1>1, SessionFields DEF Shape
<1> PICK x : x = CopyOf(tab[t].main, Now) OBVIOUS
<1>3. x \in Copy /\ x.client = tab[t].main.client /\ x.savedAt = Now BY <1>2, NowDate, CopyOfOK
<1> PICK q : q = tab[t].writes OBVIOUS
<1>4. Append(q, x) \in Seq(Copy) /\ Append(q, x) # <<>> /\ ToSet(Append(q, x)) = ToSet(q) \cup {x}
      /\ Last(Append(q, x)) = x
  BY <1>2, <1>3, AppendIs
<1>5. Persisted(t) = IF Unsaved(t) THEN Append(q, x) ELSE q BY DEF Persisted
<1>6. Unsaved(t) => ~tab[t].discarded BY DEF Unsaved
<1>7. QED BY <1>2, <1>3, <1>4, <1>5, <1>6

----------------------------------------------------------------------------
(* A session goes on, or ends                                              *)

\* What the steps of a session that goes on have to show.
LEMMA Going ==
  ASSUME IInv, NEW t \in Tabs, tab[t].phase \in {"open", "closing"}, NEW s \in Session,
         s.phase \in {"open", "closing"}, s.main.client = tab[t].main.client, s.found = {},
         s.older \subseteq tab[t].older,
         \/ s.drain.client \in {0, tab[t].drain.client}
         \/ \E o \in tab[t].older \ s.older : s.drain.client = o.client,
         \A w \in ToSet(s.writes) : w.client = s.main.client,
         created' = created
  PROVE  Shape(s) /\ ClientsIn(s) \subseteq ClientsIn(tab[t]) /\ CreatedNext(s)
<1> PICK r : r = tab[t] OBVIOUS
<1>1. r \in Session /\ Shape(r) /\ Created(r) BY DEF IInv, TypeOK, Own
<1>2. r.older \subseteq Copy /\ \A o \in r.older : o.client # 0 BY <1>1, SessionFields, CopyFields
<1>3. OneEach(s.found \cup s.older) BY <1>1 DEF Shape, OneEach
<1>4. s.drain.client # 0 => s.drain.client # s.main.client BY <1>1 DEF Shape
<1>5. \A o \in s.older : o.client # s.main.client /\ o.client # s.drain.client
  BY <1>1, <1>2 DEF Shape, OneEach
<1>6. Shape(s) BY <1>1, <1>3, <1>4, <1>5 DEF Shape
<1>7. ClientsIn(s) \subseteq ClientsIn(r) BY DEF ClientsIn
<1>8. CreatedNext(s) BY <1>1, <1>7 DEF CreatedNext, Created
<1>9. QED BY <1>6, <1>7, <1>8

\* The state of the session is queued.
LEMMA PersistKeeps == ASSUME IInv, NEW t \in Tabs, Persist(t) PROVE IInv'
<1> PICK r : r = tab[t] OBVIOUS
<1>0. r \in Session /\ r.phase = "open" /\ Unsaved(t) /\ Shape(r) /\ Discarded(r) /\ r.writes = <<>>
  BY DEF Persist, IInv, TypeOK, Own
<1> PICK q : q = Persisted(t) OBVIOUS
<1> PICK x : x = CopyOf(r.main, Now) OBVIOUS
<1>1. q \in Seq(Copy) /\ ToSet(q) = ToSet(r.writes) \cup {x} /\ q # <<>> /\ ~r.discarded
      /\ x.client = r.main.client /\ x.savedAt = Now
  BY <1>0, PersistedIs
<1> PICK s : s = [r EXCEPT !.writes = q] OBVIOUS
<1>2. /\ s \in Session /\ s.phase = "open" /\ s.main = r.main /\ s.drain = r.drain /\ s.older = r.older
      /\ s.found = r.found /\ s.writes = q /\ s.discarded = r.discarded
  BY <1>0, <1>1 DEF Session
<1>3. tab' = [tab EXCEPT ![t] = s] BY <1>0 DEF Persist, IInv, TypeOK
<1>4. \A w \in ToSet(q) : w.client = r.main.client BY <1>0, <1>1 DEF Shape
<1>5. Shape(s) /\ CreatedNext(s)
  <2>1. r.phase \in {"open", "closing"} /\ s.phase \in {"open", "closing"} BY <1>0, <1>2
  <2>2. s.main.client = r.main.client /\ s.found = {} /\ s.older \subseteq r.older
        /\ s.drain.client \in {0, r.drain.client}
    BY <1>0, <1>2, <2>1 DEF Shape
  <2>3. \A w \in ToSet(s.writes) : w.client = s.main.client BY <1>2, <1>4, <2>2
  <2>4. created' = created BY DEF Persist
  <2>5. QED BY <1>2, <2>1, <2>2, <2>3, <2>4, Going
<1>6. ClientsIn(s) = ClientsIn(r) BY <1>2 DEF ClientsIn
<1>7. Locks(t, s) BY <1>6, LocksKept DEF Persist
<1>8. Around BY AroundKept DEF Persist, room
<1>9. Records(t) BY CreatedSame DEF Persist
<1>10. DiscardedNext(s) BY <1>1, <1>2 DEF DiscardedNext
<1>11. DatesOf(s) BY <1>1, <1>2, DatesAre DEF DatesOf
<1>12. QED BY <1>2, <1>3, <1>5, <1>7, <1>8, <1>9, <1>10, <1>11, StepKeeps

\* The session closes, its last state queued.
LEMMA StopKeeps == ASSUME IInv, NEW t \in Tabs, Stop(t) PROVE IInv'
<1> PICK r : r = tab[t] OBVIOUS
<1>0. r \in Session /\ r.phase = "open" /\ Shape(r) /\ Discarded(r)
  BY DEF Stop, IInv, TypeOK, Own
<1> PICK q : q = Persisted(t) OBVIOUS
<1> PICK x : x = CopyOf(r.main, Now) OBVIOUS
<1>1. q \in Seq(Copy)
      /\ \/ q = r.writes
         \/ /\ ToSet(q) = ToSet(r.writes) \cup {x} /\ q # <<>> /\ ~r.discarded
            /\ x.client = r.main.client /\ x.savedAt = Now
  BY <1>0, PersistedIs
<1> PICK m : m = [r.main EXCEPT !.on = FALSE] OBVIOUS
<1> PICK d : d = [r.drain EXCEPT !.on = FALSE] OBVIOUS
<1>2. /\ m \in Engine /\ d \in Engine /\ m.client = r.main.client /\ d.client = r.drain.client
      /\ d.age = r.drain.age
  <2>1. r.main \in Engine /\ r.drain \in Engine BY <1>0, SessionFields
  <2>2. QED BY <2>1 DEF Engine
<1> PICK s : s = [r EXCEPT !.phase = "closing", !.writes = q, !.main = m, !.drain = d] OBVIOUS
<1>3. /\ s \in Session /\ s.phase = "closing" /\ s.main = m /\ s.drain = d /\ s.older = r.older
      /\ s.found = r.found /\ s.writes = q /\ s.discarded = r.discarded
  BY <1>0, <1>1, <1>2 DEF Session
<1>4. tab' = [tab EXCEPT ![t] = s] BY <1>0 DEF Stop, IInv, TypeOK, Session
<1>5. \A w \in ToSet(q) : w.client = r.main.client BY <1>0, <1>1 DEF Shape
<1>6. Shape(s) /\ CreatedNext(s)
  <2>1. r.phase \in {"open", "closing"} /\ s.phase \in {"open", "closing"} BY <1>0, <1>2, <1>3
  <2>2. s.main.client = r.main.client /\ s.found = {} /\ s.older \subseteq r.older
        /\ s.drain.client \in {0, r.drain.client}
    BY <1>0, <1>2, <1>3, <2>1 DEF Shape
  <2>3. \A w \in ToSet(s.writes) : w.client = s.main.client BY <1>3, <1>5, <2>2
  <2>4. created' = created BY DEF Stop
  <2>5. QED BY <1>3, <2>1, <2>2, <2>3, <2>4, Going
<1>7. ClientsIn(s) = ClientsIn(r) BY <1>2, <1>3 DEF ClientsIn
<1>8. Locks(t, s) BY <1>7, LocksKept DEF Stop
<1>9. Around BY AroundKept DEF Stop, room
<1>10. Records(t) BY CreatedSame DEF Stop
<1>11. DiscardedNext(s)
  <2> SUFFICES ASSUME r.discarded PROVE DiscardedNext(s) BY <1>3 DEF DiscardedNext
  <2>1. q = r.writes BY <1>1
  <2>2. device' = device /\ gone' = gone /\ s.main.client = r.main.client /\ s.writes = r.writes
    BY <1>2, <1>3, <2>1 DEF Stop
  <2>3. QED BY <1>0, <2>2 DEF Discarded, DiscardedNext
<1>12. DatesOf(s)
  <2>1. \A w \in ToSet(q) : w.savedAt \in DatesInUse \cup {Now} BY <1>1, DatesAre
  <2>2. QED BY <1>2, <1>3, <2>1, DatesAre, ZenonT(60) DEF DatesOf
<1>13. QED BY <1>3, <1>4, <1>6, <1>8, <1>9, <1>10, <1>11, <1>12, StepKeeps

\* What is written first is the record of the session's client.
LEMMA WriteLandsKeeps == ASSUME IInv, NEW t \in Tabs, WriteLands(t) PROVE IInv'
<1> PICK r : r = tab[t] OBVIOUS
<1>0. r \in Session /\ Shape(r) /\ Discarded(r) /\ r.writes # <<>>
  BY DEF WriteLands, IInv, TypeOK, Own
<1>1. r.phase \in {"open", "closing"} BY <1>0, ListingIs, SessionFields
<1> PICK q : q = r.writes OBVIOUS
<1>2. q \in Seq(Copy) /\ q # <<>> BY <1>0, SessionFields
<1> PICK x : x = Head(q) OBVIOUS
<1> PICK k : k = Tail(q) OBVIOUS
<1>3. /\ x \in Copy /\ k \in Seq(Copy) /\ x \in ToSet(q) /\ ToSet(k) \subseteq ToSet(q)
      /\ k # <<>> => Last(k) = Last(q)
      /\ k = <<>> => Last(q) = x
  BY <1>2, HeadIs
<1> PICK s : s = [r EXCEPT !.writes = k, !.saved = x] OBVIOUS
<1>4. /\ s \in Session /\ s.phase = r.phase /\ s.main = r.main /\ s.drain = r.drain /\ s.older = r.older
      /\ s.found = r.found /\ s.writes = k /\ s.discarded = r.discarded
  BY <1>0, <1>3 DEF Session
<1>5. tab' = [tab EXCEPT ![t] = s] BY <1>0 DEF WriteLands, IInv, TypeOK, Session
<1>6. x.client = r.main.client /\ x.client # 0 /\ x.client \in ClientsIn(r)
  BY <1>0, <1>1, <1>3 DEF Shape, ClientsIn
<1>7. \A w \in ToSet(k) : w.client = r.main.client BY <1>0, <1>3 DEF Shape
<1>8. Shape(s) /\ CreatedNext(s)
  <2>1. r.phase \in {"open", "closing"} /\ s.phase \in {"open", "closing"} BY <1>0, <1>1, <1>4
  <2>2. s.main.client = r.main.client /\ s.found = {} /\ s.older \subseteq r.older
        /\ s.drain.client \in {0, r.drain.client}
    BY <1>0, <1>1, <1>4, <2>1 DEF Shape
  <2>3. \A w \in ToSet(s.writes) : w.client = s.main.client BY <1>4, <1>7, <2>2
  <2>4. created' = created BY DEF WriteLands
  <2>5. QED BY <1>4, <2>1, <2>2, <2>3, <2>4, Going
<1>9. ClientsIn(s) = ClientsIn(r) BY <1>4 DEF ClientsIn
<1>10. Locks(t, s) BY <1>9, LocksKept DEF WriteLands
<1>11. Around BY AroundKept DEF WriteLands, room
<1>12. device' = Put(x) /\ created' = created /\ gone' = gone BY DEF WriteLands
<1>13. Records(t)
  <2>1. lock[x.client] = t /\ x.client <= created BY <1>6, OwnClient
  <2>2. x.savedAt \in DatesInUse BY <1>3, DatesAre
  <2>3. QED BY <1>3, <1>12, <2>1, <2>2, RecordsPut
<1>14. DiscardedNext(s)
  <2> SUFFICES ASSUME r.discarded
               PROVE  gone /\ IF k = <<>> THEN \A d \in device' : d.client # r.main.client
                              ELSE Last(k).batches = {}
    BY <1>4, <1>12 DEF DiscardedNext
  <2>1. gone /\ Last(q).batches = {} BY <1>0 DEF Discarded
  <2>2. CASE k = <<>> BY <1>3, <1>6, <1>12, <2>1, <2>2, PutIs
  <2>3. CASE k # <<>> BY <1>3, <2>1, <2>3
  <2>4. QED BY <2>1, <2>2, <2>3
<1>15. DatesOf(s) BY <1>3, <1>4, DatesAre DEF DatesOf
<1>16. QED BY <1>4, <1>5, <1>8, <1>10, <1>11, <1>13, <1>14, <1>15, StepKeeps

\* An older copy gets its connection, or its lock is given back.
LEMMA NextCopyKeeps == ASSUME IInv, NEW t \in Tabs, NextCopy(t) PROVE IInv'
<1> PICK r : r = tab[t] OBVIOUS
<1>0. /\ r \in Session /\ Shape(r) /\ Discarded(r) /\ r.phase \in {"open", "closing"}
      /\ r.drain.client = 0 /\ r.older # {} /\ tab \in [Tabs -> Session]
  BY DEF NextCopy, IInv, TypeOK, Own
<1> PICK copy : copy = Oldest(r.older) OBVIOUS
<1>1. copy \in r.older /\ copy \in Copy /\ copy.client \in Clients /\ copy.client # 0
  BY <1>0, OldestIs, SessionFields, CopyFields
<1> PICK older : older = r.older \ {copy} OBVIOUS
<1>2. /\ UNCHANGED <<created, gone, device>> /\ Around /\ Records(t)
  BY AroundKept, CreatedSame DEF NextCopy, room
<1>3. CASE r.phase = "open"
  <2> PICK e : e = Restored(copy) OBVIOUS
  <2>1. e \in Engine /\ e.client = copy.client /\ e.age = copy.savedAt BY <1>1, RestoredOK
  <2> PICK s : s = [r EXCEPT !.older = older, !.drain = e] OBVIOUS
  <2>2. /\ s \in Session /\ s.phase = r.phase /\ s.main = r.main /\ s.drain = e /\ s.older = older
        /\ s.found = r.found /\ s.writes = r.writes /\ s.discarded = r.discarded
    BY <1>0, <2>1, SessionFields, ZenonT(60) DEF Session
  <2>3. tab' = [tab EXCEPT ![t] = s] BY <1>0, <1>3 DEF NextCopy
  <2>4. Shape(s) /\ CreatedNext(s)
    <3>1. s.main.client = r.main.client /\ s.found = {} /\ s.older \subseteq r.older
          /\ s.drain.client = copy.client /\ copy \in r.older \ s.older
      BY <1>0, <1>1, <2>1, <2>2 DEF Shape
    <3>2. \A w \in ToSet(s.writes) : w.client = s.main.client BY <1>0, <2>2, <3>1 DEF Shape
    <3>4. \E o \in r.older \ s.older : s.drain.client = o.client BY <3>1
    <3>5. s.phase \in {"open", "closing"} BY <1>0, <2>2
    <3>3. QED BY <1>0, <1>2, <2>2, <3>1, <3>2, <3>4, <3>5, Going
  <2>5. ClientsIn(s) = ClientsIn(r)
    <3>1. \A c : c \in ClientsIn(s) <=>
            (c = r.main.client /\ c # 0) \/ c = copy.client \/ \E o \in older : c = o.client
      BY <1>1, <2>1, <2>2 DEF ClientsIn
    <3>2. \A c : c \in ClientsIn(r) <=> (c = r.main.client /\ c # 0) \/ \E o \in r.older : c = o.client
      BY <1>0 DEF ClientsIn
    <3>3. \A c : c \in ClientsIn(s) <=> c \in ClientsIn(r) BY <1>1, <3>1, <3>2
    <3>4. ClientsIn(s) \subseteq ClientsIn(r) /\ ClientsIn(r) \subseteq ClientsIn(s) BY <3>3
    <3>5. QED BY <3>4
  <2>6. Locks(t, s) BY <1>3, <2>5, LocksKept DEF NextCopy
  <2>7. DiscardedNext(s) BY <1>0, <1>2, <2>2 DEF Discarded, DiscardedNext
  <2>8. DatesOf(s)
    <3>1. copy.savedAt \in DatesInUse BY <1>1, DatesAre
    <3>2. older \subseteq r.older OBVIOUS
    <3>3. QED BY <2>1, <2>2, <3>1, <3>2, DatesAre DEF DatesOf
  <2>9. QED BY <1>2, <2>2, <2>3, <2>4, <2>6, <2>7, <2>8, StepKeeps
<1>4. CASE r.phase = "closing"
  <2> PICK s : s = [r EXCEPT !.older = older] OBVIOUS
  <2>1. /\ s \in Session /\ s.phase = r.phase /\ s.main = r.main /\ s.drain = r.drain /\ s.older = older
        /\ s.found = r.found /\ s.writes = r.writes /\ s.discarded = r.discarded
    BY <1>0, SessionFields DEF Session
  <2>2. tab' = [tab EXCEPT ![t] = s] BY <1>0, <1>4 DEF NextCopy
  <2>3. Shape(s) /\ CreatedNext(s)
    <3>1. s.main.client = r.main.client /\ s.found = {} /\ s.older \subseteq r.older
          /\ s.drain.client = r.drain.client
      BY <1>0, <1>1, <2>1 DEF Shape
    <3>2. \A w \in ToSet(s.writes) : w.client = s.main.client BY <1>0, <2>1, <3>1 DEF Shape
    <3>3. QED BY <1>0, <1>2, <2>1, <3>1, <3>2, Going
  <2>4. copy.client \in ClientsIn(r) BY <1>1 DEF ClientsIn
  <2>5. ClientsIn(s) = ClientsIn(r) \ {copy.client}
    <3>1. \A c : c \in ClientsIn(s) <=> (c = r.main.client /\ c # 0) \/ \E o \in older : c = o.client
      BY <1>0, <2>1 DEF ClientsIn
    <3>2. \A c : c \in ClientsIn(r) <=> (c = r.main.client /\ c # 0) \/ \E o \in r.older : c = o.client
      BY <1>0 DEF ClientsIn
    <3>3. copy.client # r.main.client /\ \A o \in older : o.client # copy.client
      BY <1>0, <1>1 DEF Shape, OneEach
    <3>7. \A o : o \in r.older <=> o = copy \/ o \in older BY <1>1
    <3>8. \A c : c \in ClientsIn(s) => c \in ClientsIn(r) /\ c # copy.client
      BY <3>1, <3>2, <3>3, <3>7
    <3>9. \A c : c \in ClientsIn(r) /\ c # copy.client => c \in ClientsIn(s)
      BY <3>1, <3>2, <3>7, ZenonT(60)
    <3>4. \A c : c \in ClientsIn(s) <=> c \in ClientsIn(r) /\ c # copy.client
      BY <3>8, <3>9
    <3>5. ClientsIn(s) \subseteq ClientsIn(r) \ {copy.client} /\ ClientsIn(r) \ {copy.client} \subseteq ClientsIn(s)
      BY <3>4
    <3>6. QED BY <3>5
  <2>6. lock' = Free(copy.client) BY <1>4 DEF NextCopy
  <2>7. Locks(t, s) BY <2>4, <2>5, <2>6, LocksFreed
  <2>8. DiscardedNext(s) BY <1>0, <1>2, <2>1 DEF Discarded, DiscardedNext
  <2>9. DatesOf(s)
    <3>1. older \subseteq r.older OBVIOUS
    <3>2. QED BY <2>1, <3>1, DatesAre DEF DatesOf
  <2>10. QED BY <1>2, <2>1, <2>2, <2>3, <2>7, <2>8, <2>9, StepKeeps
<1>5. QED BY <1>0, <1>3, <1>4

\* The copy of the drain is put back on the device, or its record deleted.
LEMMA FinishKeeps ==
  ASSUME IInv, NEW t \in Tabs, tab[t].phase \in {"open", "closing"}, tab[t].drain.client # 0,
         NEW records, FinishDrain(t, records),
         records = Put(Kept(tab[t].drain)) \/ records = Delete(tab[t].drain.client),
         Around, created' = created
  PROVE  IInv'
<1> PICK r : r = tab[t] OBVIOUS
<1>0. r \in Session /\ Shape(r) /\ Discarded(r) /\ tab \in [Tabs -> Session]
  BY DEF IInv, TypeOK, Own
<1>1. r.drain \in Engine /\ r.drain.client \in ClientsIn(r) BY <1>0, SessionFields DEF ClientsIn
<1> PICK s : s = [r EXCEPT !.drain = NoEngine] OBVIOUS
<1>2. /\ s \in Session /\ s.phase = r.phase /\ s.main = r.main /\ s.drain = NoEngine /\ s.older = r.older
      /\ s.found = r.found /\ s.writes = r.writes /\ s.discarded = r.discarded
  BY <1>0, ClosedOK DEF Session
<1>3. tab' = [tab EXCEPT ![t] = s] BY <1>0 DEF FinishDrain
<1>4. Shape(s) /\ CreatedNext(s)
  <2>1. s.main.client = r.main.client /\ s.found = {} /\ s.older \subseteq r.older
        /\ s.drain.client = 0
    BY <1>0, <1>2, ClosedOK DEF Shape
  <2>2. \A w \in ToSet(s.writes) : w.client = s.main.client BY <1>0, <1>2, <2>1 DEF Shape
  <2>3. QED BY <1>2, <2>1, <2>2, Going
<1>5. ClientsIn(s) = ClientsIn(r) \ {r.drain.client}
  <2>1. \A c : c \in ClientsIn(s) <=> (c = r.main.client /\ c # 0) \/ \E o \in r.older : c = o.client
    BY <1>2, ClosedOK DEF ClientsIn
  <2>2. \A c : c \in ClientsIn(r) <=>
          (c = r.main.client /\ c # 0) \/ c = r.drain.client \/ \E o \in r.older : c = o.client
    BY DEF ClientsIn
  <2>3. r.drain.client # r.main.client /\ \A o \in r.older : o.client # r.drain.client
    BY <1>0 DEF Shape
  <2>4. \A c : c \in ClientsIn(s) <=> c \in ClientsIn(r) /\ c # r.drain.client BY <2>1, <2>2, <2>3
  <2>5. ClientsIn(s) \subseteq ClientsIn(r) \ {r.drain.client} /\ ClientsIn(r) \ {r.drain.client} \subseteq ClientsIn(s)
    BY <2>4
  <2>6. QED BY <2>5
<1>6. device' = records /\ lock' = Free(r.drain.client) BY DEF FinishDrain
<1>7. Locks(t, s) BY <1>1, <1>5, <1>6, LocksFreed
<1> PICK x : x = Kept(r.drain) OBVIOUS
<1>8. x \in Copy /\ x.client = r.drain.client /\ x.savedAt = r.drain.age
  BY <1>1, SessionFields, <1>0, CopyOfOK DEF Kept
<1>9. Records(t)
  <2>1. CASE records = Delete(r.drain.client) BY <1>6, <2>1, RecordsDelete
  <2>2. CASE records = Put(x)
    <3>1. lock[x.client] = t /\ x.client <= created BY <1>1, <1>8, OwnClient
    <3>2. x.savedAt \in DatesInUse BY <1>8, DatesAre
    <3>3. QED BY <1>6, <1>8, <2>2, <3>1, <3>2, RecordsPut
  <2>3. QED BY <2>1, <2>2
<1>10. DiscardedNext(s)
  <2>1. \A d \in device' : d.client = r.main.client => d \in device
    <3>1. r.drain.client # r.main.client BY <1>0 DEF Shape
    <3>2. QED BY <1>6, <1>8, <3>1, PutIs DEF Delete
  <2>2. gone => gone' BY DEF Around
  <2>3. QED BY <1>0, <1>2, <2>1, <2>2 DEF Discarded, DiscardedNext
<1>11. DatesOf(s) BY <1>2, ClosedOK, DatesAre DEF DatesOf
<1>12. QED BY <1>2, <1>3, <1>4, <1>7, <1>9, <1>10, <1>11, StepKeeps

\* It ends written, refused, without access, or with the session.
LEMMA DrainKeeps ==
  ASSUME IInv, NEW t \in Tabs,
         DrainWritten(t) \/ DrainRefused(t) \/ DrainGone(t) \/ StopDrain(t)
  PROVE  IInv'
<1>1. CASE DrainWritten(t)
  <2>1. Around BY <1>1, AroundKept DEF DrainWritten, room
  <2>2. QED BY <1>1, <2>1, FinishKeeps DEF DrainWritten, Connected
<1>2. CASE StopDrain(t)
  <2>1. Around BY <1>2, AroundKept DEF StopDrain, room
  <2>2. QED BY <1>2, <2>1, FinishKeeps DEF StopDrain
<1>3. CASE DrainRefused(t)
  <2>1. Around
    <3>1. before' \subseteq before BY <1>3 DEF DrainRefused
    <3>2. UNCHANGED <<log, durable, last, created, edits, gone, waived>> BY <1>3 DEF DrainRefused, room
    <3>3. created \in Nat BY BoundsAssumption DEF IInv, TypeOK
    <3>4. QED BY <3>1, <3>2, <3>3 DEF Around, IInv, TypeOK
  <2>2. QED BY <1>3, <2>1, FinishKeeps DEF DrainRefused, Connected
<1>4. CASE DrainGone(t)
  <2>1. Around
    <3>1. tab[t].drain.batches \subseteq Local BY SessionFields DEF IInv, TypeOK
    <3>2. EditsIn(tab[t].drain) \subseteq 1..MaxEdits BY <3>1 DEF EditsIn, Local
    <3>3. waived' \subseteq 1..MaxEdits BY <1>4, <3>2 DEF DrainGone, IInv, TypeOK
    <3>4. UNCHANGED <<log, durable, last, created, edits, gone, before>> BY <1>4 DEF DrainGone, room
    <3>5. created \in Nat BY BoundsAssumption DEF IInv, TypeOK
    <3>6. QED BY <3>3, <3>4, <3>5 DEF Around, IInv, TypeOK
  <2>2. QED BY <1>4, <2>1, FinishKeeps DEF DrainGone, Connected
<1>5. QED BY <1>1, <1>2, <1>3, <1>4

\* The deletion of the record is queued last.
LEMMA DiscardKeeps == ASSUME IInv, NEW t \in Tabs, Discard(t) PROVE IInv'
<1> PICK r : r = tab[t] OBVIOUS
<1>0. /\ r \in Session /\ Shape(r) /\ r.phase = "open" /\ tab \in [Tabs -> Session]
      /\ gone /\ UNCHANGED <<created, gone, device, lock>>
  BY DEF Discard, Connected, IInv, TypeOK, Own
<1> PICK x : x = Nothing(r.main.client) OBVIOUS
<1>1. r.main.client \in Clients BY <1>0, SessionFields, BoundsAssumption DEF Shape, Clients
<1>2. x \in Copy /\ x.client = r.main.client /\ x.savedAt = 0 /\ x.batches = {}
  BY <1>1 DEF Nothing, Copy
<1> PICK q : q = r.writes OBVIOUS
<1> PICK k : k = Append(q, x) OBVIOUS
<1>3. k \in Seq(Copy) /\ k # <<>> /\ ToSet(k) = ToSet(q) \cup {x} /\ Last(k) = x
  <2>1. q \in Seq(Copy) BY <1>0, SessionFields
  <2>2. QED BY <1>2, <2>1, AppendIs
<1> PICK s : s = [r EXCEPT !.discarded = TRUE, !.writes = k] OBVIOUS
<1>4. /\ s \in Session /\ s.phase = r.phase /\ s.main = r.main /\ s.drain = r.drain /\ s.older = r.older
      /\ s.found = r.found /\ s.writes = k /\ s.discarded = TRUE
  BY <1>0, <1>3 DEF Session
<1>5. tab' = [tab EXCEPT ![t] = s] BY <1>0 DEF Discard, Session
<1>6. Shape(s) /\ CreatedNext(s)
  <2>1. s.main.client = r.main.client /\ s.found = {} /\ s.older \subseteq r.older
        /\ s.drain.client = r.drain.client
    BY <1>0, <1>4 DEF Shape
  <2>2. \A w \in ToSet(s.writes) : w.client = s.main.client BY <1>0, <1>2, <1>3, <1>4, <2>1 DEF Shape
  <2>3. QED BY <1>0, <1>4, <2>1, <2>2, Going
<1>7. ClientsIn(s) = ClientsIn(r) BY <1>4 DEF ClientsIn
<1>8. Locks(t, s) BY <1>0, <1>7, LocksKept
<1>9. Records(t) BY <1>0, CreatedSame
<1>10. DiscardedNext(s) BY <1>0, <1>2, <1>3, <1>4 DEF DiscardedNext
<1>11. DatesOf(s)
  <2>1. x.savedAt \in DatesInUse BY <1>2, DatesAre
  <2>2. QED BY <1>3, <1>4, <2>1, DatesAre DEF DatesOf
<1>12. Around
  <2>1. r.main.batches \subseteq Local BY <1>0, SessionFields
  <2>2. EditsIn(r.main) \subseteq 1..MaxEdits BY <2>1 DEF EditsIn, Local
  <2>3. waived' \subseteq 1..MaxEdits BY <2>2 DEF Discard, IInv, TypeOK
  <2>4. UNCHANGED <<log, durable, last, created, edits, gone, before>> BY DEF Discard, room
  <2>5. created \in Nat BY BoundsAssumption DEF IInv, TypeOK
  <2>6. QED BY <2>3, <2>4, <2>5 DEF Around, IInv, TypeOK
<1>13. QED BY <1>4, <1>5, <1>6, <1>8, <1>9, <1>10, <1>11, <1>12, StepKeeps

\* A closed session has nothing to show.
LEMMA ClosedKeeps ==
  ASSUME IInv
  PROVE  Shape(Closed) /\ DiscardedNext(Closed) /\ CreatedNext(Closed) /\ DatesOf(Closed)
         /\ ClientsIn(Closed) = {}
<1>1. ClientsIn(Closed) = {} BY ClosedOK DEF ClientsIn
<1>2. QED BY <1>1, ClosedOK, NoneIn, DatesAre
          DEF Shape, DiscardedNext, CreatedNext, DatesOf, OneEach

\* It ends once it closed.
LEMMA ReleaseKeeps == ASSUME IInv, NEW t \in Tabs, Release(t) PROVE IInv'
<1>1. /\ tab[t] \in Session /\ Shape(tab[t]) /\ tab[t].phase = "closing"
      /\ tab[t].drain.client = 0 /\ tab[t].older = {}
      /\ tab' = [tab EXCEPT ![t] = Closed] /\ UNCHANGED <<created, gone, device>>
      /\ lock' = Free(tab[t].main.client)
  BY DEF Release, IInv, TypeOK, Own
<1>2. tab[t].main.client # 0 BY <1>1 DEF Shape
<1>3. ClientsIn(tab[t]) = {tab[t].main.client} BY <1>1, <1>2 DEF ClientsIn
<1>4. Locks(t, Closed) BY <1>1, <1>3, ClosedKeeps, LocksFreed
<1>5. Records(t) BY <1>1, CreatedSame
<1>6. Around BY AroundKept DEF Release, room
<1>7. QED BY <1>1, <1>4, <1>5, <1>6, ClosedKeeps, ClosedOK, StepKeeps

\* It ends with its tab, whose locks the browser frees.
LEMMA KillKeeps == ASSUME IInv, NEW t \in Tabs, Kill(t) PROVE IInv'
<1>1. /\ tab' = [tab EXCEPT ![t] = Closed] /\ UNCHANGED <<created, gone, device>>
      /\ lock' = [c \in Clients |-> IF lock[c] = t THEN NoTab ELSE lock[c]]
  BY DEF Kill
<1>2. Locks(t, Closed)
  <2>1. t # NoTab BY TabAssumption
  <2>2. lock \in [Clients -> Tabs \cup {NoTab}] BY DEF IInv, TypeOK
  <2>3. QED BY <1>1, <2>1, <2>2, ClosedKeeps DEF Locks
<1>3. Records(t) BY <1>1, CreatedSame
<1>4. Around BY AroundKept DEF Kill, room
<1>5. QED BY <1>1, <1>2, <1>3, <1>4, ClosedKeeps, ClosedOK, StepKeeps
----------------------------------------------------------------------------
(* Every step                                                              *)

\* At first all the tabs are closed.
LEMMA InitHolds == Init => IInv
<1> SUFFICES ASSUME Init PROVE IInv OBVIOUS
<1>1. tab = [t \in Tabs |-> Closed] /\ lock = [c \in Clients |-> NoTab] BY DEF Init
<1>2. \A d \in device : /\ d \in Copy /\ d.batches # {} /\ d.client <= NLeft /\ d.savedAt = d.client
                        /\ d.client \in 1..NLeft
  <2> SUFFICES ASSUME NEW c \in 1..NLeft,
                      NEW d, d = [client |-> c, next |-> 2, batches |-> {[n |-> 1, edit |-> c]}, savedAt |-> c]
               PROVE  d \in Copy /\ d.batches # {} /\ d.client <= NLeft /\ d.savedAt = d.client /\ d.client \in 1..NLeft
    BY DEF Init, Left
  <2>1. c \in Clients /\ c \in 1..MaxEdits /\ c \in Nat BY BoundsAssumption DEF Clients
  <2>2. {[n |-> 1, edit |-> c]} \subseteq Batch BY <2>1 DEF Batch
  <2>3. QED BY <2>1, <2>2 DEF Copy
<1>3. \A d, e \in device : d.client = e.client => d = e
  <2>1. \A d \in device :
          d = [client |-> d.client, next |-> 2, batches |-> {[n |-> 1, edit |-> d.client]},
               savedAt |-> d.client]
    BY DEF Init, Left
  <2>2. QED BY <2>1
<1>4. TypeOK
  <2>1. tab \in [Tabs -> Session] BY <1>1, ClosedOK
  <2>2. lock \in [Clients -> Tabs \cup {NoTab}] /\ last \in [Clients -> Nat] BY <1>1 DEF Init
  <2>3. log \in Seq(1..MaxEdits) /\ durable \in 0..Len(log) BY DEF Init
  <2>4. created \in 0..NClients /\ edits \in 0..MaxEdits BY BoundsAssumption DEF Init
  <2>5. before \subseteq (1..MaxEdits) \X (1..MaxEdits)
    <3>1. 1..NLeft \subseteq 1..MaxEdits BY BoundsAssumption
    <3>2. before \subseteq (1..NLeft) \X (1..NLeft) BY DEF Init
    <3>3. QED BY <3>1, <3>2
  <2>6. waived \subseteq 1..MaxEdits BY DEF Init
  <2>7. QED BY <1>2, <1>3, <2>1, <2>2, <2>3, <2>4, <2>5, <2>6 DEF TypeOK
<1>5. Own
  <2>1. created = NLeft BY DEF Init
  <2>2. Shape(Closed) BY ClosedOK, NoneIn DEF Shape, OneEach
  <2>3. ClientsIn(Closed) = {} BY ClosedOK DEF ClientsIn
  <2>4. Discarded(Closed) /\ Created(Closed) BY ClosedOK, <2>3 DEF Discarded, Created
  <2>5. \A t \in Tabs : t # NoTab BY TabAssumption
  <2>6. QED BY <1>1, <1>2, <2>1, <2>2, <2>3, <2>4, <2>5 DEF Own
<1>6. Bounded
  <2>1. NLeft \in Nat BY BoundsAssumption
  <2>2. \A d \in device : d.savedAt <= NLeft BY <1>2
  <2>3. \A t \in Tabs : /\ tab[t].drain.age = 0
                        /\ ToSet(tab[t].writes) \cup tab[t].found \cup tab[t].older = {}
    BY <1>1, ClosedOK, NoneIn
  <2>4. \A x \in DatesInUse : x <= NLeft BY <2>1, <2>2, <2>3 DEF DatesInUse
  <2>5. QED BY <2>1, <2>4 DEF Bounded
<1>7. QED BY <1>4, <1>5, <1>6 DEF IInv

\* Nothing happens.
LEMMA StutterKeeps == ASSUME IInv, UNCHANGED vars PROVE IInv'
<1>1. UNCHANGED <<device, lock, created>> /\ tab' = tab BY DEF vars
<1>2. Around BY AroundKept DEF vars, room
<1>3. QED BY <1>1, <1>2, InsideKeeps DEF Inside, IInv, TypeOK

\* Every step keeps it.
LEMMA StepHolds == IInv /\ [Next]_vars => IInv'
<1> SUFFICES ASSUME IInv, [Next]_vars PROVE IInv' OBVIOUS
<1>1. CASE UNCHANGED vars BY <1>1, StutterKeeps
<1>2. CASE Journal BY <1>2, JournalKeeps
<1>3. CASE RemoveAccess BY <1>3, RemoveAccessKeeps
<1>4. ASSUME NEW t \in Tabs, NEW slot \in Slots,
             Welcome(t, slot) \/ Send(t, slot) \/ SendUnanswered(t, slot) \/ Disconnect(t, slot)
      PROVE  IInv'
  BY <1>4, WelcomeKeeps, SendKeeps, LostKeeps
<1>5. ASSUME NEW t \in Tabs,
             \/ List(t) \/ TakeLock(t) \/ DropUnusable(t) \/ StartFromCopies(t) \/ StartFresh(t)
      PROVE  IInv'
  BY <1>5, ListKeeps, TakeLockKeeps, DropUnusableKeeps, StartFromCopiesKeeps, StartFreshKeeps
<1>6. ASSUME NEW t \in Tabs, Edit(t) \/ Persist(t) \/ WriteLands(t) \/ Deadline(t) \/ Drained(t)
      PROVE  IInv'
  BY <1>6, EditKeeps, PersistKeeps, WriteLandsKeeps, HoldKeeps
<1>7. ASSUME NEW t \in Tabs,
             NextCopy(t) \/ DrainWritten(t) \/ DrainRefused(t) \/ DrainGone(t) \/ StopDrain(t)
      PROVE  IInv'
  BY <1>7, NextCopyKeeps, DrainKeeps
<1>8. ASSUME NEW t \in Tabs, Discard(t) \/ Stop(t) \/ Release(t) \/ Kill(t) PROVE IInv'
  BY <1>8, DiscardKeeps, StopKeeps, ReleaseKeeps, KillKeeps
<1>9. QED BY <1>1, <1>2, <1>3, <1>4, <1>5, <1>6, <1>7, <1>8 DEF Next

\* So it always holds.
LEMMA Invariance == Spec => []IInv
BY InitHolds, StepHolds, PTL DEF Spec

\* Two tabs never work for the same client, and the record of an abandoned session does not come back.
THEOREM TabsAlwaysAgree == Spec => []TabsAgree
<1>1. IInv => TabsAgree
  <2> SUFFICES ASSUME IInv PROVE TabsAgree OBVIOUS
  <2>1. \A t \in Tabs : ClientsOf(t) = ClientsIn(tab[t]) BY DEF ClientsOf, ClientsIn
  <2>2. OneTabPerClient BY <2>1, OwnClient DEF OneTabPerClient
  <2>3. DiscardIsFinal BY DEF DiscardIsFinal, IInv, Own, Discarded
  <2>4. QED BY <2>2, <2>3 DEF TabsAgree, IInv
<1>2. QED BY <1>1, Invariance, PTL

----------------------------------------------------------------------------
(* What is kept, and where                                                 *)

\* A batch numbered n, with edit e, is among batches.
Has(batches, n, e) == \E b \in batches : b.n = n /\ b.edit = e

\* ... or among those a session has of client c.
Of(s, c, n, e) ==
  \/ s.main.client = c /\ Has(s.main.batches, n, e)
  \/ s.drain.client = c /\ Has(s.drain.batches, n, e)
  \/ \E k \in s.found \cup s.older \cup ToSet(s.writes) \cup {s.saved} : k.client = c /\ Has(k.batches, n, e)

Recorded(c, n, e) == \E d \in device : d.client = c /\ Has(d.batches, n, e)

\* ... or anywhere.
Named(c, n, e) == Recorded(c, n, e) \/ \E t \in Tabs : Of(tab[t], c, n, e)

MainHeld(c) == \E t \in Tabs : tab[t].main.client = c

Written(e)  == \E i \in 1..durable : log[i] = e
OnDevice(e) == \E d \in device : e \in EditsIn(d)
Safe(e)     == Written(e) \/ OnDevice(e) \/ e \in waived
InTab(e)    == \E t \in Tabs : e \in EditsIn(tab[t].main) \cup EditsIn(tab[t].drain)

\* Who lists the copies is alone to do so, and nobody closes meanwhile.
OneListing ==
  \A t, u \in Tabs : tab[t].phase = "listing" /\ u # t =>
    tab[u].phase \notin {"listing", "closing"}

\* A number of a client names one edit, an edit has one number.
Numbers ==
  /\ \A c, k, n, m, e : Named(c, n, e) /\ Named(k, m, e) => c = k /\ n = m
  /\ \A c, n, e, f : Named(c, n, e) /\ Named(c, n, f) => e = f

\* The room has applied the batches up to the last number it has of a client.
Counted ==
  \A c, n, e : Named(c, n, e) => n > 0 /\ e <= edits /\ (InLog(e) <=> n <= last[c])

Logged == \A i \in DOMAIN log : log[i] <= edits
Fresh  == \A c \in Clients : c > created => last[c] = 0

\* Whoever has these batches may speak for client c: what else there is of it
\* is written.
Whole(c, next, batches) ==
  \A k \in Clients : k = c =>
    /\ last[k] < next
    /\ \A n, e : Named(k, n, e) => n < next /\ (Has(batches, n, e) \/ Written(e))

\* What is acknowledged is in the log, not later than where it was then.
Placed(h) ==
  \A b \in h.batches : b.at # 0 => \E i \in 1..b.at : i <= Len(log) /\ log[i] = b.edit

UnsavedIn(s) ==
  /\ ~s.discarded
  /\ ~Same(CopyOf(s.main, 0), IF s.writes = <<>> THEN s.saved ELSE Last(s.writes))

\* What the copies of a session are worth.
Fit(s) ==
  /\ \A f \in s.found : MainHeld(f.client) \/ Whole(f.client, f.next, f.batches)
  /\ \A o \in s.older : Whole(o.client, o.next, o.batches)
  /\ \A h \in {s.main, s.drain} : Placed(h) /\ Whole(h.client, h.next, h.batches)
  /\ \A b \in s.drain.batches : Safe(b.edit)
  /\ s.saved.batches # {} => s.saved.client = s.main.client
  /\ s.discarded => \A b \in s.main.batches : b.edit \in waived
  /\ s.phase = "closing" => ~UnsavedIn(s) /\ ~s.main.on /\ ~s.drain.on
  /\ ~s.discarded =>
       /\ \A w \in ToSet(s.writes) \cup {s.saved} : w.next <= s.main.next
       /\ \A w \in ToSet(s.writes) :
            w.next = s.main.next => \A b \in s.main.batches : Has(w.batches, b.n, b.edit)
  /\ ~s.discarded /\ s.writes = <<>> =>
       /\ \A b \in s.saved.batches : Safe(b.edit)
       /\ s.saved.next = s.main.next =>
            \A d \in device : d.client = s.main.client => Whole(d.client, d.next, d.batches)

Devices == \A d \in device : MainHeld(d.client) \/ Whole(d.client, d.next, d.batches)

Present == \A e \in 1..edits : Safe(e) \/ InTab(e)

Books == Numbers /\ Counted /\ Logged /\ Fresh /\ AppliedOnce

Ledger == OneListing /\ Books /\ Devices /\ Present /\ \A t \in Tabs : Fit(tab[t])
----------------------------------------------------------------------------
(* What a step has to show                                                 *)

\* What is in the log, written, waived or made remains so.
Grows ==
  /\ Len(log) <= Len(log') /\ \A i \in 1..Len(log) : log'[i] = log[i]
  /\ durable <= durable' /\ waived \subseteq waived' /\ edits <= edits'
  /\ log' \in Seq(1..MaxEdits) /\ durable' \in Nat /\ durable' <= Len(log')

\* Nothing new of another client than c is named; nothing at all when c is 0.
NothingNew(c) == \A k, n, e : Named(k, n, e)' => Named(k, n, e) \/ (k = c /\ k # 0)

\* The room counts only what was named.
Counts == \A c \in Clients : /\ last'[c] \in Nat /\ last[c] <= last'[c]
                             /\ last'[c] = last[c] \/ \E e : Named(c, last'[c], e)

StaysSafe == \A e : Safe(e) => Safe(e)'

\* What is written is the beginning of the log.
LEMMA Lengths ==
  ASSUME IInv
  PROVE  Len(log) \in Nat /\ durable \in Nat /\ durable <= Len(log) /\ DOMAIN log = 1..Len(log)
BY DEF IInv, TypeOK

\* A step that leaves the log alone.
LEMMA GrowsSame ==
  ASSUME IInv, UNCHANGED <<log, durable>>, waived \subseteq waived', edits <= edits'
  PROVE  Grows
BY Lengths DEF Grows, IInv, TypeOK

\* A step that leaves what the room counts alone.
LEMMA CountsSame ==
  ASSUME IInv, last' = last
  PROVE  Counts
BY DEF Counts, IInv, TypeOK

\* What is written remains so.
LEMMA WrittenStays ==
  ASSUME IInv, Grows, NEW e, Written(e)
  PROVE  Written(e)'
<1>1. PICK i \in 1..durable : log[i] = e BY DEF Written
<1>2. i \in 1..durable' /\ i \in 1..Len(log) BY <1>1, Lengths DEF Grows
<1>3. log'[i] = e BY <1>1, <1>2 DEF Grows
<1>4. QED BY <1>2, <1>3 DEF Written

\* What is acknowledged remains in its place.
LEMMA PlacedStays ==
  ASSUME IInv, Grows, NEW h \in Engine, Placed(h)
  PROVE  Placed(h)'
<1> SUFFICES ASSUME NEW b \in h.batches, b.at # 0
             PROVE  \E i \in 1..b.at : i <= Len(log') /\ log'[i] = b.edit
  BY DEF Placed
<1>1. PICK i \in 1..b.at : i <= Len(log) /\ log[i] = b.edit BY DEF Placed
<1>2. b.at \in Nat BY DEF Engine, Local
<1>3. i \in 1..Len(log) /\ Len(log') \in Nat BY <1>1, <1>2, Lengths DEF Grows
<1>4. log'[i] = b.edit /\ i <= Len(log') BY <1>1, <1>3, Lengths DEF Grows
<1>5. QED BY <1>4

\* A copy remains whole when nothing of its client is new.
LEMMA WholeStays ==
  ASSUME IInv, Grows, Counts, NEW x, NothingNew(x), NEW c, c # x, NEW next \in Nat, NEW batches,
         Whole(c, next, batches)
  PROVE  Whole(c, next, batches)'
<1> SUFFICES ASSUME NEW k \in Clients, k = c
             PROVE  /\ last'[k] < next
                    /\ \A n, e : Named(k, n, e)' => n < next /\ (Has(batches, n, e) \/ Written(e)')
  BY DEF Whole
<1>1. last[k] < next /\ \A n, e : Named(k, n, e) => n < next /\ (Has(batches, n, e) \/ Written(e))
  BY DEF Whole
<1>2. last'[k] < next BY <1>1 DEF Counts
<1>3. \A n, e : Named(k, n, e)' => Named(k, n, e) BY DEF NothingNew
<1>4. \A e : Written(e) => Written(e)' BY WrittenStays
<1>5. QED BY <1>1, <1>2, <1>3, <1>4

\* What another session has remains worth as much.
LEMMA FitStays ==
  ASSUME IInv, Grows, Counts, NEW x, NothingNew(x), NEW s \in Session, Fit(s),
         \A b \in s.drain.batches : Safe(b.edit) => Safe(b.edit)', x \notin ClientsIn(s) \/ x = 0,
         \A f \in s.found : f.client = x \/ MainHeld(f.client) => MainHeld(f.client)',
         s.writes # <<>> \/
           (/\ \A d \in device' : d.client = s.main.client => d \in device
            /\ \A b \in s.saved.batches : Safe(b.edit) => Safe(b.edit)')
  PROVE  Fit(s)'
<1>1. ASSUME NEW f \in s.found PROVE MainHeld(f.client)' \/ Whole(f.client, f.next, f.batches)'
  <2>1. CASE f.client = x \/ MainHeld(f.client) BY <2>1
  <2>2. CASE f.client # x /\ ~MainHeld(f.client)
    <3>1. Whole(f.client, f.next, f.batches) /\ f.next \in Nat BY <2>2, SessionFields, CopyFields DEF Fit
    <3>2. QED BY <2>2, <3>1, WholeStays
  <2>3. QED BY <2>1, <2>2
<1>2. ASSUME NEW o \in s.older PROVE Whole(o.client, o.next, o.batches)'
  <2>1. Whole(o.client, o.next, o.batches) /\ o.next \in Nat /\ o.client \in ClientsIn(s) /\ o.client # 0
    BY SessionFields, CopyFields DEF Fit, ClientsIn
  <2>2. o.client # x BY <2>1
  <2>3. QED BY <2>1, <2>2, WholeStays
<1>3. ASSUME NEW h \in {s.main, s.drain} PROVE Placed(h)' /\ Whole(h.client, h.next, h.batches)'
  <2>1. /\ h \in Engine /\ h.next \in Nat /\ Placed(h) /\ Whole(h.client, h.next, h.batches)
        /\ h.client = 0 \/ h.client \in ClientsIn(s)
    BY SessionFields DEF Fit, ClientsIn
  <2>2. Placed(h)' BY <2>1, PlacedStays
  <2>3. CASE h.client = 0 BY <2>2, <2>3 DEF Whole, Clients
  <2>4. CASE h.client # 0 BY <2>1, <2>2, <2>4, WholeStays
  <2>5. QED BY <2>3, <2>4
<1>4. \A b \in s.drain.batches : Safe(b.edit)' BY DEF Fit
<1>5. s.discarded => \A b \in s.main.batches : b.edit \in waived' BY DEF Fit, Grows
<1>6. s.phase = "closing" => ~UnsavedIn(s) /\ ~s.main.on /\ ~s.drain.on BY DEF Fit
<1>7. ASSUME ~s.discarded, s.writes = <<>>
      PROVE  /\ \A b \in s.saved.batches : Safe(b.edit)'
             /\ s.saved.next = s.main.next =>
                  \A d \in device' : d.client = s.main.client => Whole(d.client, d.next, d.batches)'
  <2>1. \A b \in s.saved.batches : Safe(b.edit)' BY <1>7 DEF Fit
  <2>2. ASSUME NEW d \in device', d.client = s.main.client, s.saved.next = s.main.next
        PROVE  Whole(d.client, d.next, d.batches)'
    <3>1. d \in device BY <1>7, <2>2
    <3>2. d.next \in Nat /\ d.client # 0 BY <3>1, CopyFields DEF IInv, TypeOK, Clients
    <3>3. Whole(d.client, d.next, d.batches) BY <1>7, <2>2, <3>1 DEF Fit
    <3>4. d.client # x BY <2>2, <3>2 DEF ClientsIn
    <3>5. QED BY <3>2, <3>3, <3>4, WholeStays
  <2>3. QED BY <2>1, <2>2
<1>9. ~s.discarded =>
       /\ \A w \in ToSet(s.writes) \cup {s.saved} : w.next <= s.main.next
       /\ \A w \in ToSet(s.writes) :
            w.next = s.main.next => \A b \in s.main.batches : Has(w.batches, b.n, b.edit)
  BY DEF Fit
<1>10. s.saved.batches # {} => s.saved.client = s.main.client BY DEF Fit
<1>8. QED BY <1>1, <1>2, <1>3, <1>4, <1>5, <1>6, <1>7, <1>9, <1>10 DEF Fit, UnsavedIn

\* What is named is a number and an edit.
LEMMA NamedTypes ==
  ASSUME IInv, NEW c, NEW n, NEW e, Named(c, n, e)
  PROVE  n \in Nat /\ e \in 1..MaxEdits
<1>1. \A d \in device : d.batches \subseteq Batch BY CopyFields DEF IInv, TypeOK
<1>2. ASSUME NEW u \in Tabs, Of(tab[u], c, n, e) PROVE n \in Nat /\ e \in 1..MaxEdits
  <2>1. tab[u] \in Session BY DEF IInv, TypeOK
  <2>2. tab[u].main.batches \subseteq Local /\ tab[u].drain.batches \subseteq Local BY <2>1, SessionFields
  <2>3. PICK q : q = tab[u].writes OBVIOUS
  <2>4. q \in Seq(Copy) BY <2>1, <2>3, SessionFields
  <2>5. ToSet(q) \subseteq Copy BY <2>4 DEF ToSet
  <2>6. \A k \in tab[u].found \cup tab[u].older \cup ToSet(tab[u].writes) \cup {tab[u].saved} : k.batches \subseteq Batch
    BY <2>1, <2>3, <2>5, SessionFields, CopyFields
  <2>7. QED BY <1>2, <2>2, <2>6 DEF Of, Has, Local, Batch
<1>3. QED BY <1>1, <1>2 DEF Named, Recorded, Has, Batch

\* The books stay when the room does and nothing is named.
LEMMA BooksStay ==
  ASSUME IInv, Ledger, NothingNew(0), log' = log, last' = last, edits <= edits',
         edits' \in Nat, created <= created', created' \in Nat
  PROVE  Books'
<1>1. \A k, n, e : Named(k, n, e)' => Named(k, n, e) BY DEF NothingNew
<1>2. Numbers' BY <1>1 DEF Ledger, Books, Numbers
<1>3. edits \in Nat /\ created \in Nat BY BoundsAssumption DEF IInv, TypeOK
<1>4. \A e : InLog(e)' <=> InLog(e) BY DEF InLog
<1>5. \A i \in DOMAIN log : log[i] \in Nat
  <2>1. \A i \in 1..Len(log) : log[i] \in 1..MaxEdits
    <3>1. log \in Seq(1..MaxEdits) BY DEF IInv, TypeOK
    <3>2. QED BY <3>1, ElementOfSeq
  <2>2. QED BY <2>1, Lengths
<1>6. Logged' BY <1>3, <1>5 DEF Ledger, Books, Logged
<1>7. Fresh' BY <1>3 DEF Ledger, Books, Fresh, Clients
<1>8. AppliedOnce' BY DEF Ledger, Books, AppliedOnce
<1>9. Counted'
  <2>1. \A c, n, e : Named(c, n, e) => e \in Nat BY NamedTypes
  <2>2. QED BY <1>1, <1>3, <1>4, <2>1 DEF Ledger, Books, Counted
<1>10. QED BY <1>2, <1>6, <1>7, <1>8, <1>9 DEF Books

\* A step of one session.
LEMMA NothingNewBy ==
  ASSUME IInv, NEW t \in Tabs, NEW s, tab' = [tab EXCEPT ![t] = s],
         \A k, n, e : Of(s, k, n, e) => Named(k, n, e),
         \A d \in device' : d \in device \/ \A b \in d.batches : Named(d.client, b.n, b.edit)
  PROVE  NothingNew(0)
<1> SUFFICES ASSUME NEW k, NEW n, NEW e, Named(k, n, e)' PROVE Named(k, n, e) BY DEF NothingNew
<1>1. tab \in [Tabs -> Session] BY DEF IInv, TypeOK
<1>2. CASE Recorded(k, n, e)'
  <2>1. PICK d \in device' : d.client = k /\ Has(d.batches, n, e) BY <1>2 DEF Recorded
  <2>2. CASE d \in device BY <2>1, <2>2 DEF Named, Recorded
  <2>3. CASE d \notin device
    <3>1. PICK b \in d.batches : b.n = n /\ b.edit = e BY <2>1 DEF Has
    <3>2. QED BY <2>1, <2>3, <3>1
  <2>4. QED BY <2>2, <2>3
<1>3. CASE ~Recorded(k, n, e)'
  <2>1. PICK u \in Tabs : \A r : r = tab'[u] => Of(r, k, n, e) BY <1>3 DEF Named, Of
  <2>2. CASE u = t
    <3>1. Of(s, k, n, e) BY <1>1, <2>1, <2>2
    <3>2. QED BY <3>1
  <2>3. CASE u # t
    <3>1. Of(tab[u], k, n, e) BY <1>1, <2>1, <2>3
    <3>2. QED BY <3>1 DEF Named
  <2>4. QED BY <2>2, <2>3
<1>4. QED BY <1>2, <1>3

\* Nothing is lost by a step of one session that keeps its batches, or leaves them safe.
LEMMA PresentStays ==
  ASSUME IInv, Ledger, StaysSafe, edits' = edits, NEW t \in Tabs, NEW s, tab' = [tab EXCEPT ![t] = s],
         \A b \in tab[t].main.batches \cup tab[t].drain.batches :
           Safe(b.edit)' \/ b.edit \in EditsIn(s.main) \cup EditsIn(s.drain)
  PROVE  Present'
<1> SUFFICES ASSUME NEW e \in 1..edits, ~Safe(e)' PROVE InTab(e)' BY DEF Present
<1>1. InTab(e) BY DEF Ledger, Present, StaysSafe
<1>2. tab \in [Tabs -> Session] BY DEF IInv, TypeOK
<1>3. PICK u \in Tabs : e \in EditsIn(tab[u].main) \cup EditsIn(tab[u].drain) BY <1>1 DEF InTab
<1>4. CASE u # t
  <2>1. tab'[u] = tab[u] BY <1>2, <1>4
  <2>2. QED BY <1>3, <2>1 DEF InTab, EditsIn
<1>5. CASE u = t
  <2>1. PICK b \in tab[t].main.batches \cup tab[t].drain.batches : b.edit = e BY <1>3, <1>5 DEF EditsIn
  <2>2. e \in EditsIn(s.main) \cup EditsIn(s.drain) BY <2>1
  <2>3. tab'[t] = s BY <1>2
  <2>4. QED BY <2>2, <2>3 DEF InTab, EditsIn
<1>6. QED BY <1>4, <1>5

\* A record is worth as much after the step.
LEMMA DeviceStays ==
  ASSUME IInv, Ledger, Grows, Counts, NEW x, NothingNew(x), NEW d \in device,
         d.client = x \/ MainHeld(d.client) => MainHeld(d.client)'
  PROVE  MainHeld(d.client)' \/ Whole(d.client, d.next, d.batches)'
<1>1. d \in Copy BY DEF IInv, TypeOK
<1>2. CASE d.client = x \/ MainHeld(d.client) BY <1>2
<1>3. CASE d.client # x /\ ~MainHeld(d.client)
  <2>1. Whole(d.client, d.next, d.batches) BY <1>3 DEF Ledger, Devices
  <2>2. d.next \in Nat BY <1>1, CopyFields
  <2>3. QED BY <1>3, <2>1, <2>2, WholeStays
<1>4. QED BY <1>2, <1>3

\* Locks tell tabs apart.
LEMMA TwoTabs ==
  ASSUME IInv, NEW t \in Tabs, NEW u \in Tabs, u # t, NEW c \in ClientsIn(tab[t])
  PROVE  c \notin ClientsIn(tab[u])
BY OwnClient

\* Nothing of the session is named that it had not.
LEMMA NamedOf ==
  ASSUME NEW t \in Tabs, NEW k, NEW n, NEW e, Of(tab[t], k, n, e)
  PROVE  Named(k, n, e)
BY DEF Named

\* The parts of the ledger.
LEMMA LedgerNext ==
  ASSUME OneListing', Books', Devices', Present', \A u \in Tabs : \A k : k = tab'[u] => Fit(k)'
  PROVE  Ledger'
BY DEF Ledger, Fit

\* What a step of one session has to show for the ledger.  Only what is named of the
\* client y may be less safe, and only the client x may have new batches.
LEMMA LedgerStep ==
  ASSUME IInv, Ledger, Grows, Counts, NEW t \in Tabs, NEW s \in Session,
         tab' = [tab EXCEPT ![t] = s],
         NEW y \in ClientsIn(tab[t]) \cup {0}, \A e : Safe(e) => Safe(e)' \/ (y # 0 /\ \E n : Named(y, n, e)),
         NEW x, NothingNew(x), x = 0 \/ x \in ClientsIn(tab[t]),
         \A u \in Tabs \ {t} : \A f \in tab[u].found :
           f.client = x \/ MainHeld(f.client) => MainHeld(f.client)',
         \A d \in device' : d \in device \/ (lock[d.client] = t /\ d.client \in Clients),
         Fit(s)', OneListing', Books', Devices', Present'
  PROVE  Ledger'
<1>1. tab \in [Tabs -> Session] BY DEF IInv, TypeOK
<1>2. ASSUME NEW u \in Tabs, NEW k, k = tab'[u] PROVE Fit(k)'
  <2>1. CASE u = t
    <3>1. k = s BY <1>1, <1>2, <2>1
    <3>2. QED BY <3>1
  <2>2. CASE u # t
    <3>1. k = tab[u] /\ k \in Session BY <1>1, <1>2, <2>2
    <3>2. Fit(k) BY <3>1 DEF Ledger
    <3>3. x \notin ClientsIn(k) \/ x = 0 BY <2>2, <3>1, TwoTabs
    <3>4. \A f \in k.found : f.client = x \/ MainHeld(f.client) => MainHeld(f.client)' BY <2>2, <3>1
    <3>5. \A d \in device' : d.client = k.main.client => d \in device
      <4> SUFFICES ASSUME NEW d \in device', d.client = k.main.client, d \notin device PROVE FALSE OBVIOUS
      <4>1. lock[d.client] = t /\ d.client \in Clients OBVIOUS
      <4>2. k.main.client \in ClientsIn(k) BY <4>1 DEF ClientsIn, Clients
      <4>3. lock[k.main.client] = u BY <3>1, <4>2, OwnClient
      <4>4. QED BY <2>2, <4>1, <4>3
    <3>6. \A b \in k.drain.batches \cup k.saved.batches : Safe(b.edit) => Safe(b.edit)'
      <4> SUFFICES ASSUME NEW b \in k.drain.batches \cup k.saved.batches, y # 0, NEW n, Named(y, n, b.edit)
                   PROVE  FALSE
        OBVIOUS
      <4>1. PICK c : c \in {k.main.client, k.drain.client} /\ Of(k, c, b.n, b.edit)
        BY <3>2 DEF Of, Has, Fit
      <4>2. Named(c, b.n, b.edit) BY <3>1, <4>1, NamedOf
      <4>3. c = y BY <4>2 DEF Ledger, Books, Numbers
      <4>5. c \in ClientsIn(k) BY <4>1, <4>3 DEF ClientsIn
      <4>6. QED BY <2>2, <3>1, <4>3, <4>5, TwoTabs
    <3>7. QED BY <3>1, <3>2, <3>3, <3>4, <3>5, <3>6, FitStays
  <2>3. QED BY <2>1, <2>2
<1>3. QED BY <1>2, LedgerNext

\* A session keeps its client.
LEMMA HeldStays ==
  ASSUME IInv, NEW t \in Tabs, NEW s, tab' = [tab EXCEPT ![t] = s],
         s.main.client = tab[t].main.client \/ tab[t].main.client = 0,
         NEW c \in Clients, MainHeld(c)
  PROVE  MainHeld(c)'
<1>1. PICK u \in Tabs : tab[u].main.client = c BY DEF MainHeld
<1>2. c # 0 /\ tab \in [Tabs -> Session] BY DEF Clients, IInv, TypeOK
<1>3. tab'[u].main.client = c BY <1>1, <1>2
<1>4. QED BY <1>3 DEF MainHeld

\* What is safe remains so when the records that go are.
LEMMA SafeStays ==
  ASSUME IInv, Grows, \A d \in device : d \in device' \/ \A b \in d.batches : Safe(b.edit)'
  PROVE  StaysSafe
<1> SUFFICES ASSUME NEW e, Safe(e) PROVE Safe(e)' BY DEF StaysSafe
<1>1. CASE Written(e) BY <1>1, WrittenStays DEF Safe
<1>2. CASE OnDevice(e)
  <2>1. PICK d \in device : e \in EditsIn(d) BY <1>2 DEF OnDevice
  <2>2. CASE d \in device' BY <2>1, <2>2 DEF Safe, OnDevice
  <2>3. CASE d \notin device' BY <2>1, <2>3 DEF EditsIn
  <2>4. QED BY <2>2, <2>3
<1>3. CASE e \in waived BY <1>3 DEF Safe, Grows
<1>4. QED BY <1>1, <1>2, <1>3 DEF Safe

\* One session lists, still.
LEMMA ListingStays ==
  ASSUME IInv, Ledger, NEW t \in Tabs, NEW s, tab' = [tab EXCEPT ![t] = s],
         \/ s.phase = tab[t].phase
         \/ s.phase = "closed"
         \/ s.phase = "open"
         \/ s.phase = "closing" /\ \A u \in Tabs \ {t} : tab[u].phase # "listing"
         \/ s.phase = "listing" /\ \A u \in Tabs : tab[u].phase \notin {"listing", "closing"}
  PROVE  OneListing'
<1>1. tab \in [Tabs -> Session] BY DEF IInv, TypeOK
<1>2. \A u \in Tabs : tab'[u] = IF u = t THEN s ELSE tab[u] BY <1>1
<1>3. QED BY <1>2 DEF Ledger, OneListing

\* What sessions found: nothing, unless they list.
LEMMA FoundIs ==
  ASSUME IInv, NEW t \in Tabs, tab[t].phase # "listing"
  PROVE  tab[t].found = {}
<1>1. tab[t] \in Session /\ Shape(tab[t]) BY DEF IInv, TypeOK, Own
<1>2. QED BY <1>1, SessionFields, ListingIs DEF Shape

\* What a session found or took are copies.
LEMMA FoundCopies ==
  ASSUME IInv, NEW t \in Tabs, NEW f \in tab[t].found \cup tab[t].older
  PROVE  f \in Copy /\ f.client \in Clients /\ f.client # 0 /\ f.next \in Nat
<1>1. tab[t] \in Session BY DEF IInv, TypeOK
<1>2. QED BY <1>1, SessionFields, CopyFields DEF Clients

\* A step of a session that only touches what it has in memory.
Quiet(t, s) ==
  /\ tab' = [tab EXCEPT ![t] = s]
  /\ UNCHANGED <<device, log, durable, last, edits, created>> /\ waived \subseteq waived'
  /\ s.main.client = tab[t].main.client \/ tab[t].main.client = 0
  /\ \A k, n, e : Of(s, k, n, e) => Named(k, n, e)

\* Such a step disturbs nothing around.
LEMMA QuietIs ==
  ASSUME IInv, Ledger, NEW t \in Tabs, NEW s, Quiet(t, s)
  PROVE  Grows /\ Counts /\ StaysSafe /\ NothingNew(0) /\ Books' /\ Devices'
         /\ \A c \in Clients : MainHeld(c) => MainHeld(c)'
<1>1. Grows BY GrowsSame, BoundsAssumption DEF Quiet, IInv, TypeOK
<1>2. Counts BY CountsSame DEF Quiet
<1>3. StaysSafe BY <1>1, SafeStays DEF Quiet
<1>4. NothingNew(0) BY NothingNewBy DEF Quiet
<1>5. edits \in Nat /\ created \in Nat BY BoundsAssumption DEF IInv, TypeOK
<1>6. Books' BY <1>4, <1>5, BooksStay DEF Quiet
<1>7. \A c \in Clients : MainHeld(c) => MainHeld(c)' BY HeldStays DEF Quiet
<1>8. ASSUME NEW d \in device PROVE MainHeld(d.client)' \/ Whole(d.client, d.next, d.batches)'
  <2>1. d.client \in Clients /\ d.client # 0 BY CopyFields DEF IInv, TypeOK, Clients
  <2>2. QED BY <1>1, <1>2, <1>4, <1>7, <2>1, DeviceStays
<1>9. Devices' BY <1>8 DEF Devices, Quiet
<1>10. QED BY <1>1, <1>2, <1>3, <1>4, <1>6, <1>7, <1>9

\* What the session had remains worth as much.
LEMMA QuietFit ==
  ASSUME IInv, Ledger, NEW t \in Tabs, NEW s, Quiet(t, s), NEW r, r = tab[t]
  PROVE  Fit(r)'
<1>1. r \in Session /\ Fit(r) BY DEF IInv, TypeOK, Ledger
<1>2. \A f \in r.found : f.client = 0 \/ MainHeld(f.client) => MainHeld(f.client)' BY QuietIs, FoundCopies
<1>3. \A d \in device' : d.client = r.main.client => d \in device BY DEF Quiet
<1>4. \A b \in r.drain.batches \cup r.saved.batches : Safe(b.edit) => Safe(b.edit)' BY QuietIs DEF StaysSafe
<1>5. QED BY <1>1, <1>2, <1>3, <1>4, QuietIs, FitStays

\* It keeps the ledger when what the session then has is worth as much.
LEMMA QuietStep ==
  ASSUME IInv, Ledger, NEW t \in Tabs, NEW s \in Session, Quiet(t, s), Fit(s)', OneListing',
         \A b \in tab[t].main.batches \cup tab[t].drain.batches :
           Safe(b.edit)' \/ b.edit \in EditsIn(s.main) \cup EditsIn(s.drain)
  PROVE  Ledger'
<1>1. tab' = [tab EXCEPT ![t] = s] /\ edits' = edits /\ device' = device BY DEF Quiet
<1>2. Present' BY <1>1, QuietIs, PresentStays
<1>3. \A u \in Tabs \ {t} : \A f \in tab[u].found : f.client = 0 \/ MainHeld(f.client) => MainHeld(f.client)'
  BY QuietIs, FoundCopies
<1>4. \A d \in device' : d \in device \/ (lock[d.client] = t /\ d.client \in Clients) BY <1>1
<1>5. Grows /\ Counts /\ StaysSafe /\ NothingNew(0) /\ Books' /\ Devices' BY QuietIs
<1>6. 0 \in ClientsIn(tab[t]) \cup {0} /\ \A e : Safe(e) => Safe(e)' BY <1>5 DEF StaysSafe
<1>7. QED BY <1>1, <1>2, <1>3, <1>4, <1>5, <1>6, LedgerStep
----------------------------------------------------------------------------
(* The steps, one by one                                                   *)

\* The hold ends: no batch moves.
LEMMA HoldLedger == ASSUME IInv, Ledger, NEW t \in Tabs, Deadline(t) \/ Drained(t) PROVE Ledger'
<1> PICK r : r = tab[t] OBVIOUS
<1>1. r \in Session /\ tab \in [Tabs -> Session] BY DEF IInv, TypeOK
<1> PICK s : s = [r EXCEPT !.held = FALSE] OBVIOUS
<1>2. /\ s \in Session /\ s.phase = r.phase /\ s.found = r.found /\ s.older = r.older
      /\ s.main = r.main /\ s.drain = r.drain /\ s.discarded = r.discarded
      /\ s.saved = r.saved /\ s.writes = r.writes
  BY <1>1 DEF Session
<1>3. tab' = [tab EXCEPT ![t] = s] BY <1>1 DEF Deadline, Drained
<1>4. \A k, n, e : Of(s, k, n, e) => Named(k, n, e) BY <1>2, NamedOf DEF Of
<1>5. Quiet(t, s) BY <1>2, <1>3, <1>4 DEF Quiet, Deadline, Drained, room
<1>6. Fit(r)' BY <1>5, QuietFit
<1>7. Fit(s)' BY <1>2, <1>6 DEF Fit, UnsavedIn
<1>8. OneListing' BY <1>2, <1>3, ListingStays
<1>9. QED BY <1>2, <1>5, <1>7, <1>8, QuietStep DEF EditsIn

\* What a session finds is what the device has, while nobody closes.
LEMMA ListLedger ==
  ASSUME IInv, Ledger, "overlap" \notin Situations, NEW t \in Tabs, List(t) PROVE Ledger'
<1> PICK r : r = tab[t] OBVIOUS
<1>1. r \in Session /\ tab \in [Tabs -> Session] /\ r.phase = "closed" BY DEF IInv, TypeOK, List
<1> PICK s : s = [r EXCEPT !.phase = "listing", !.found = device] OBVIOUS
<1>2. /\ s.phase = "listing" /\ s.found = device /\ s.older = r.older
      /\ s.main = r.main /\ s.drain = r.drain /\ s.discarded = r.discarded
      /\ s.saved = r.saved /\ s.writes = r.writes
  BY <1>1 DEF Session
<1>3. s \in Session
  <2>1. device \in SUBSET Copy BY DEF IInv, TypeOK
  <2>2. QED BY <1>1, <2>1 DEF Session
<1>4. tab' = [tab EXCEPT ![t] = s] BY <1>1 DEF List
<1>5. \A k, n, e : Of(s, k, n, e) => Named(k, n, e)
  <2>1. \A k, n, e : Of(s, k, n, e) => Of(r, k, n, e) \/ Recorded(k, n, e) BY <1>2 DEF Of, Recorded
  <2>2. QED BY <2>1, NamedOf DEF Named
<1>6. Quiet(t, s) BY <1>2, <1>4, <1>5 DEF Quiet, List, room
<1>7. Fit(r)' BY <1>6, QuietFit
<1>8. \A f \in s.found : MainHeld(f.client)' \/ Whole(f.client, f.next, f.batches)'
  <2>1. Devices' /\ device' = device BY <1>6, QuietIs DEF Quiet
  <2>2. QED BY <1>2, <2>1 DEF Devices
<1>9. Fit(s)' BY <1>2, <1>7, <1>8 DEF Fit
<1>10. OneListing'
  <2>1. \A u \in Tabs : tab[u].phase \notin {"listing", "closing"} BY DEF List, NoOverlap
  <2>2. QED BY <1>2, <1>4, <2>1, ListingStays
<1>11. QED BY <1>2, <1>3, <1>6, <1>9, <1>10, QuietStep DEF EditsIn

\* The copies a session has adopted are its own.
LEMMA OlderOwn ==
  ASSUME IInv, NEW t \in Tabs, NEW o \in tab[t].older
  PROVE  /\ ~MainHeld(o.client)
         /\ \A u \in Tabs : tab[u].main.client # o.client /\ tab[u].drain.client # o.client
<1>1. tab[t] \in Session /\ Shape(tab[t]) BY DEF IInv, TypeOK, Own
<1>2. o.client \in Clients /\ o.client # 0 /\ o.client \in ClientsIn(tab[t]) BY FoundCopies DEF ClientsIn
<1>3. ASSUME NEW u \in Tabs PROVE tab[u].main.client # o.client /\ tab[u].drain.client # o.client
  <2>1. CASE u = t BY <1>1, <2>1 DEF Shape
  <2>2. CASE u # t BY <1>2, <2>2, TwoTabs DEF ClientsIn
  <2>3. QED BY <2>1, <2>2
<1>4. QED BY <1>3 DEF MainHeld

\* What they hold is on the device, at least.
LEMMA OlderSafe ==
  ASSUME IInv, Ledger, NEW t \in Tabs, NEW o \in tab[t].older, NEW b \in o.batches
  PROVE  Safe(b.edit)
<1>1. o \in Copy /\ b \in Batch BY FoundCopies, CopyFields
<1>2. Of(tab[t], o.client, b.n, b.edit) BY DEF Of, Has
<1>3. Named(o.client, b.n, b.edit) BY <1>2 DEF Named
<1>4. b.edit \in 1..edits
  <2>1. b.edit <= edits BY <1>3 DEF Ledger, Books, Counted
  <2>2. b.edit \in Nat /\ b.edit >= 1 BY <1>3, NamedTypes
  <2>3. edits \in Nat BY BoundsAssumption DEF IInv, TypeOK
  <2>4. QED BY <2>1, <2>2, <2>3
<1> SUFFICES ASSUME InTab(b.edit) PROVE FALSE BY <1>4 DEF Ledger, Present
<1>5. PICK u \in Tabs : b.edit \in EditsIn(tab[u].main) \cup EditsIn(tab[u].drain) BY DEF InTab
<1>6. PICK k, m : Of(tab[u], k, m, b.edit) /\ k \in {tab[u].main.client, tab[u].drain.client}
  BY <1>5 DEF EditsIn, Of, Has
<1>7. Named(k, m, b.edit) BY <1>6 DEF Named
<1>8. k = o.client BY <1>3, <1>7 DEF Ledger, Books, Numbers
<1>9. QED BY <1>6, <1>8, OlderOwn

\* The copy of a client nobody works for is whole.
LEMMA TakeLockLedger == ASSUME IInv, Ledger, NEW t \in Tabs, TakeLock(t) PROVE Ledger'
<1> PICK r : r = tab[t] OBVIOUS
<1> PICK copy : copy = Oldest(r.found) OBVIOUS
<1>0. r.phase = "listing" /\ r.found # {} /\ r \in Session /\ tab \in [Tabs -> Session]
  BY DEF TakeLock, IInv, TypeOK
<1>1. copy \in r.found BY <1>0, OldestIs, SessionFields
<1>2. copy \in Copy /\ copy.client \in Clients /\ copy.client # 0 /\ copy.next \in Nat BY <1>1, FoundCopies
<1>h. PICK free \in BOOLEAN : free = (lock[copy.client] = NoTab) OBVIOUS
<1> PICK older : older = IF free THEN r.older \cup {copy} ELSE r.older OBVIOUS
<1> PICK s : s = [r EXCEPT !.found = r.found \ {copy}, !.older = older] OBVIOUS
<1>3. older \subseteq Copy BY <1>0, <1>2, SessionFields
<1>4. /\ s \in Session /\ s.phase = r.phase /\ s.found = r.found \ {copy} /\ s.older = older
      /\ s.main = r.main /\ s.drain = r.drain /\ s.discarded = r.discarded
      /\ s.saved = r.saved /\ s.writes = r.writes
  BY <1>0, <1>3 DEF Session
<1>5. tab' = [tab EXCEPT ![t] = s] BY <1>0, <1>h DEF TakeLock, Session
<1>6. \A k, n, e : Of(s, k, n, e) => Named(k, n, e)
  <2>1. s.found \subseteq r.found /\ s.older \subseteq r.older \cup r.found BY <1>1, <1>4
  <2>2. \A k, n, e : Of(s, k, n, e) => Of(r, k, n, e) BY <1>4, <2>1 DEF Of
  <2>3. QED BY <2>2, NamedOf
<1>7. Quiet(t, s) BY <1>4, <1>5, <1>6 DEF Quiet, TakeLock, room
<1>8. Fit(r)' BY <1>7, QuietFit
<1>9. free => Whole(copy.client, copy.next, copy.batches)'
  <2> SUFFICES ASSUME free PROVE Whole(copy.client, copy.next, copy.batches)' OBVIOUS
  <2>1. \A u \in Tabs : tab[u].main.client # copy.client
    <3> SUFFICES ASSUME NEW u \in Tabs, tab[u].main.client = copy.client PROVE FALSE OBVIOUS
    <3>1. copy.client \in ClientsIn(tab[u]) BY <1>2 DEF ClientsIn
    <3>2. lock[copy.client] = u /\ u # NoTab BY <3>1, OwnClient, TabAssumption
    <3>3. QED BY <1>h, <3>2
  <2>2. ~MainHeld(copy.client) BY <2>1 DEF MainHeld
  <2>3. Fit(r) BY DEF Ledger
  <2>4. Whole(copy.client, copy.next, copy.batches) BY <1>1, <2>2, <2>3 DEF Fit
  <2>5. QED BY <1>2, <1>7, <2>4, QuietIs, WholeStays
<1>10. \A o \in s.older : Whole(o.client, o.next, o.batches)'
  <2>1. \A o \in r.older : Whole(o.client, o.next, o.batches)' BY <1>8 DEF Fit
  <2>2. \A o \in older : o \in r.older \/ (o = copy /\ free) OBVIOUS
  <2>3. QED BY <1>4, <1>9, <2>1, <2>2
<1>11. Fit(s)' BY <1>0, <1>4, <1>8, <1>10 DEF Fit
<1>12. OneListing' BY <1>4, <1>5, ListingStays
<1>13. QED BY <1>4, <1>7, <1>11, <1>12, QuietStep DEF EditsIn

\* The copy of a session's batches has what they have.
LEMMA CopyHas ==
  ASSUME NEW h \in Engine, h.client # 0, NEW when \in Nat
  PROVE  /\ \A n, e : Has(CopyOf(h, when).batches, n, e) <=> Has(h.batches, n, e)
         /\ \A b \in CopyOf(h, when).batches : \E a \in h.batches : b.n = a.n /\ b.edit = a.edit
         /\ \A a \in h.batches : Has(CopyOf(h, when).batches, a.n, a.edit)
<1> PICK q : q = CopyOf(h, when).batches OBVIOUS
<1>1. q = {[n |-> b.n, edit |-> b.edit] : b \in h.batches} BY CopyOfOK
<1>2. \A b \in q : \E a \in h.batches : b.n = a.n /\ b.edit = a.edit BY <1>1
<1>3. \A a \in h.batches : \E b \in q : b.n = a.n /\ b.edit = a.edit
  <2> SUFFICES ASSUME NEW a \in h.batches PROVE \E b \in q : b.n = a.n /\ b.edit = a.edit OBVIOUS
  <2>1. [n |-> a.n, edit |-> a.edit] \in q BY <1>1
  <2>2. QED BY <2>1
<1>4. \A n, e : Has(q, n, e) <=> Has(h.batches, n, e) BY <1>2, <1>3 DEF Has
<1>5. \A a \in h.batches : Has(q, a.n, a.edit) BY <1>3 DEF Has
<1>6. QED BY <1>2, <1>4, <1>5

\* What a session queues, when it queues its last state.
LEMMA Queued ==
  ASSUME IInv, Ledger, NEW t \in Tabs, tab[t].phase = "open"
  PROVE  /\ \A w \in ToSet(Persisted(t)) : w \in ToSet(tab[t].writes) \/
              /\ ~tab[t].discarded /\ w.client = tab[t].main.client /\ w.next = tab[t].main.next
              /\ \A n, e : Has(w.batches, n, e) <=> Has(tab[t].main.batches, n, e)
              /\ \A b \in tab[t].main.batches : Has(w.batches, b.n, b.edit)
         /\ \/ Persisted(t) = tab[t].writes /\ ~Unsaved(t)
            \/ /\ Persisted(t) # <<>>
               /\ Same(CopyOf(tab[t].main, 0), Last(Persisted(t)))
<1> PICK r : r = tab[t] OBVIOUS
<1>1. r \in Session /\ Shape(r) BY DEF IInv, TypeOK, Own
<1>2. r.main \in Engine /\ r.main.client # 0 BY <1>1, SessionFields DEF Shape
<1> PICK x : x = CopyOf(r.main, Now) OBVIOUS
<1>3. /\ x.client = r.main.client /\ x.next = r.main.next
      /\ \A n, e : Has(x.batches, n, e) <=> Has(r.main.batches, n, e)
      /\ \A b \in r.main.batches : Has(x.batches, b.n, b.edit)
  BY <1>2, NowDate, CopyOfOK, CopyHas
<1>4. Same(CopyOf(r.main, 0), x)
  <2>1. CopyOf(r.main, 0).next = x.next /\ CopyOf(r.main, 0).batches = x.batches
    BY DEF CopyOf
  <2>2. QED BY <2>1 DEF Same
<1>5. CASE Unsaved(t)
  <2>1. /\ ~r.discarded /\ Persisted(t) # <<>> /\ ToSet(Persisted(t)) = ToSet(r.writes) \cup {x}
        /\ Last(Persisted(t)) = x
    BY <1>1, <1>5, PersistedIs
  <2>2. QED BY <1>3, <1>4, <2>1
<1>6. CASE ~Unsaved(t)
  <2>1. Persisted(t) = r.writes BY <1>6, PersistedIs
  <2>2. QED BY <1>6, <2>1
<1>7. QED BY <1>5, <1>6

\* What is queued has all the batches.
LEMMA PersistLedger == ASSUME IInv, Ledger, NEW t \in Tabs, Persist(t) PROVE Ledger'
<1> PICK r : r = tab[t] OBVIOUS
<1>0. r \in Session /\ tab \in [Tabs -> Session] /\ r.phase = "open" /\ Unsaved(t) BY DEF Persist, IInv, TypeOK
<1> PICK q : q = Persisted(t) OBVIOUS
<1>1. q \in Seq(Copy) BY <1>0, PersistedIs
<1>2. /\ \A w \in ToSet(q) : w \in ToSet(r.writes) \/
              /\ w.client = r.main.client /\ w.next = r.main.next
              /\ \A n, e : Has(w.batches, n, e) <=> Has(r.main.batches, n, e)
              /\ \A b \in r.main.batches : Has(w.batches, b.n, b.edit)
      /\ q # <<>>
  BY <1>0, Queued
<1> PICK s : s = [r EXCEPT !.writes = q] OBVIOUS
<1>3. /\ s \in Session /\ s.phase = r.phase /\ s.found = r.found /\ s.older = r.older
      /\ s.main = r.main /\ s.drain = r.drain /\ s.discarded = r.discarded
      /\ s.saved = r.saved /\ s.writes = q
  BY <1>0, <1>1 DEF Session
<1>4. tab' = [tab EXCEPT ![t] = s] BY <1>0 DEF Persist
<1>5. \A k, n, e : Of(s, k, n, e) => Named(k, n, e)
  <2>1. \A k, n, e : Of(s, k, n, e) => Of(r, k, n, e) BY <1>2, <1>3 DEF Of
  <2>2. QED BY <2>1, NamedOf
<1>6. Quiet(t, s) BY <1>3, <1>4, <1>5 DEF Quiet, Persist, room
<1>7. Fit(r)' BY <1>6, QuietFit
<1>8. ~s.discarded =>
       /\ \A w \in ToSet(s.writes) \cup {s.saved} : w.next <= s.main.next
       /\ \A w \in ToSet(s.writes) :
            w.next = s.main.next => \A b \in s.main.batches : Has(w.batches, b.n, b.edit)
  <2>1. r.main.next \in Nat BY <1>0, SessionFields
  <2>2. ~r.discarded =>
       /\ \A w \in ToSet(r.writes) \cup {r.saved} : w.next <= r.main.next
       /\ \A w \in ToSet(r.writes) :
            w.next = r.main.next => \A b \in r.main.batches : Has(w.batches, b.n, b.edit)
    BY <1>7 DEF Fit
  <2>3. QED BY <1>2, <1>3, <2>1, <2>2
<1>9. Fit(s)' BY <1>0, <1>2, <1>3, <1>7, <1>8 DEF Fit
<1>10. OneListing' BY <1>3, <1>4, ListingStays
<1>11. QED BY <1>3, <1>6, <1>9, <1>10, QuietStep DEF EditsIn

\* The last state is queued, or was: nothing is left to save.
LEMMA StopLedger ==
  ASSUME IInv, Ledger, "overlap" \notin Situations, NEW t \in Tabs, Stop(t) PROVE Ledger'
<1> PICK r : r = tab[t] OBVIOUS
<1>0. r \in Session /\ tab \in [Tabs -> Session] /\ r.phase = "open" BY DEF Stop, IInv, TypeOK
<1> PICK q : q = Persisted(t) OBVIOUS
<1>1. q \in Seq(Copy) BY <1>0, PersistedIs
<1>2. /\ \A w \in ToSet(q) : w \in ToSet(r.writes) \/
              /\ ~r.discarded /\ w.client = r.main.client /\ w.next = r.main.next
              /\ \A n, e : Has(w.batches, n, e) <=> Has(r.main.batches, n, e)
              /\ \A b \in r.main.batches : Has(w.batches, b.n, b.edit)
      /\ \/ q = r.writes /\ ~Unsaved(t)
         \/ q # <<>> /\ Same(CopyOf(r.main, 0), Last(q))
  BY <1>0, Queued
<1> PICK m : m = [r.main EXCEPT !.on = FALSE] OBVIOUS
<1> PICK d : d = [r.drain EXCEPT !.on = FALSE] OBVIOUS
<1>3. /\ m \in Engine /\ d \in Engine /\ m.client = r.main.client /\ d.client = r.drain.client
      /\ d.next = r.drain.next /\ m.next = r.main.next /\ ~m.on /\ ~d.on
      /\ d.batches = r.drain.batches /\ m.batches = r.main.batches
  <2>1. r.main \in Engine /\ r.drain \in Engine BY <1>0, SessionFields
  <2>2. QED BY <2>1 DEF Engine
<1> PICK s : s = [r EXCEPT !.phase = "closing", !.writes = q, !.main = m, !.drain = d] OBVIOUS
<1>4. /\ s \in Session /\ s.phase = "closing" /\ s.found = r.found /\ s.older = r.older
      /\ s.main = m /\ s.drain = d /\ s.discarded = r.discarded
      /\ s.saved = r.saved /\ s.writes = q
  BY <1>0, <1>1, <1>3 DEF Session
<1>5. tab' = [tab EXCEPT ![t] = s] BY <1>0 DEF Stop, Session
<1>6. \A k, n, e : Of(s, k, n, e) => Named(k, n, e)
  <2>1. \A w \in ToSet(q) : w \in ToSet(r.writes) \/
          (w.client = r.main.client /\ \A n, e : Has(w.batches, n, e) <=> Has(r.main.batches, n, e))
    BY <1>2
  <2>2. ASSUME NEW k, NEW n, NEW e, Of(s, k, n, e) PROVE Of(r, k, n, e)
    <3>1. CASE s.main.client = k /\ Has(s.main.batches, n, e) BY <1>3, <1>4, <3>1 DEF Of
    <3>2. CASE s.drain.client = k /\ Has(s.drain.batches, n, e) BY <1>3, <1>4, <3>2 DEF Of
    <3>3. CASE \E f \in s.found \cup s.older : f.client = k /\ Has(f.batches, n, e) BY <1>4, <3>3 DEF Of
    <3>4. CASE \E w \in ToSet(s.writes) : w.client = k /\ Has(w.batches, n, e) BY <1>4, <2>1, <3>4 DEF Of
    <3>5. QED BY <2>2, <3>1, <3>2, <3>3, <3>4 DEF Of
  <2>3. QED BY <2>2, NamedOf
<1>7. Quiet(t, s) BY <1>3, <1>4, <1>5, <1>6 DEF Quiet, Stop, room
<1>8. Fit(r)' BY <1>7, QuietFit
<1>9. ~s.discarded =>
       /\ \A w \in ToSet(s.writes) \cup {s.saved} : w.next <= s.main.next
       /\ \A w \in ToSet(s.writes) :
            w.next = s.main.next => \A b \in s.main.batches : Has(w.batches, b.n, b.edit)
  <2>1. r.main.next \in Nat BY <1>0, SessionFields
  <2>2. ~r.discarded =>
       /\ \A w \in ToSet(r.writes) \cup {r.saved} : w.next <= r.main.next
       /\ \A w \in ToSet(r.writes) :
            w.next = r.main.next => \A b \in r.main.batches : Has(w.batches, b.n, b.edit)
    BY <1>8 DEF Fit
  <2>3. ~r.discarded =>
       /\ \A w \in ToSet(q) \cup {r.saved} : w.next <= r.main.next
       /\ \A w \in ToSet(q) :
            w.next = r.main.next => \A b \in r.main.batches : Has(w.batches, b.n, b.edit)
    BY <1>2, <2>1, <2>2
  <2>4. s.main.next = r.main.next /\ s.main.batches = r.main.batches BY <1>3, <1>4
  <2>5. QED BY <1>4, <2>3, <2>4
<1>10. ~UnsavedIn(s)
  <2>1. CopyOf(s.main, 0) = CopyOf(r.main, 0) BY <1>3, <1>4 DEF CopyOf
  <2>2. CASE q # <<>> /\ Same(CopyOf(r.main, 0), Last(q)) BY <1>4, <2>1, <2>2 DEF UnsavedIn
  <2>3. CASE q = r.writes /\ ~Unsaved(t)
    BY <1>4, <2>1, <2>3 DEF UnsavedIn, Unsaved, LastSaved
  <2>4. QED BY <1>2, <2>2, <2>3
<1>11. \A h \in {s.main, s.drain} : Placed(h)' /\ Whole(h.client, h.next, h.batches)'
  <2>1. \A h \in {r.main, r.drain} : Placed(h)' /\ Whole(h.client, h.next, h.batches)' BY <1>8 DEF Fit
  <2>2. Placed(m)' /\ Placed(d)' BY <1>3, <2>1 DEF Placed
  <2>3. Whole(m.client, m.next, m.batches)' /\ Whole(d.client, d.next, d.batches)' BY <1>3, <2>1
  <2>4. QED BY <1>4, <2>2, <2>3
<1>12. ~s.discarded /\ s.writes = <<>> =>
       /\ \A b \in s.saved.batches : Safe(b.edit)'
       /\ s.saved.next = s.main.next =>
            \A k \in device' : k.client = s.main.client => Whole(k.client, k.next, k.batches)'
  <2>1. s.writes = <<>> => r.writes = <<>> BY <1>2, <1>4
  <2>2. ~r.discarded /\ r.writes = <<>> =>
       /\ \A b \in r.saved.batches : Safe(b.edit)'
       /\ r.saved.next = r.main.next =>
            \A k \in device' : k.client = r.main.client => Whole(k.client, k.next, k.batches)'
    BY <1>8 DEF Fit
  <2>3. s.main.next = r.main.next /\ s.main.client = r.main.client BY <1>3, <1>4
  <2>4. QED BY <1>4, <2>1, <2>2, <2>3
<1>13. Fit(s)'
  <2>1. /\ \A f \in s.found : MainHeld(f.client)' \/ Whole(f.client, f.next, f.batches)'
        /\ \A o \in s.older : Whole(o.client, o.next, o.batches)'
    <3>1. /\ \A f \in r.found : MainHeld(f.client)' \/ Whole(f.client, f.next, f.batches)'
          /\ \A o \in r.older : Whole(o.client, o.next, o.batches)'
      BY <1>8 DEF Fit
    <3>2. QED BY <1>4, <3>1
  <2>2. /\ \A b \in s.drain.batches : Safe(b.edit)'
        /\ s.discarded => \A b \in s.main.batches : b.edit \in waived'
    <3>1. /\ \A b \in r.drain.batches : Safe(b.edit)'
          /\ r.discarded => \A b \in r.main.batches : b.edit \in waived'
      BY <1>8 DEF Fit
    <3>2. /\ s.drain.batches = r.drain.batches /\ s.main.batches = r.main.batches
          /\ s.discarded = r.discarded
      BY <1>3, <1>4
    <3>3. QED BY <3>1, <3>2
  <2>3. s.saved.batches # {} => s.saved.client = s.main.client
    <3>1. r.saved.batches # {} => r.saved.client = r.main.client BY <1>8 DEF Fit
    <3>2. s.saved = r.saved /\ s.main.client = r.main.client BY <1>3, <1>4
    <3>3. QED BY <3>1, <3>2
  <2>4. s.phase = "closing" => ~UnsavedIn(s)' /\ ~s.main.on /\ ~s.drain.on
    <3>1. ~UnsavedIn(s)' BY <1>10 DEF UnsavedIn
    <3>2. ~s.main.on /\ ~s.drain.on BY <1>3, <1>4
    <3>3. QED BY <3>1, <3>2
  <2>5. QED BY ONLY <1>9, <1>11, <1>12, <2>1, <2>2, <2>3, <2>4 DEF Fit
<1>14. OneListing'
  <2>1. \A u \in Tabs : tab[u].phase # "listing" BY DEF Stop, NoOverlap
  <2>2. QED BY <1>4, <1>5, <2>1, ListingStays
<1>15. QED BY <1>3, <1>4, <1>7, <1>13, <1>14, QuietStep, ZenonT(60) DEF EditsIn

\* Nothing is promised any more about what is abandoned.
LEMMA DiscardLedger == ASSUME IInv, Ledger, NEW t \in Tabs, Discard(t) PROVE Ledger'
<1> PICK r : r = tab[t] OBVIOUS
<1>0. r \in Session /\ tab \in [Tabs -> Session] /\ r.phase = "open" BY DEF Discard, Connected, IInv, TypeOK
<1> PICK x : x = Nothing(r.main.client) OBVIOUS
<1>1. x.batches = {} /\ x \in Copy
  <2>1. r.main.client \in Clients BY <1>0, SessionFields, BoundsAssumption DEF Discard, Connected, Clients
  <2>2. QED BY <2>1 DEF Nothing, Copy
<1> PICK q : q = Append(r.writes, x) OBVIOUS
<1>2. q \in Seq(Copy) /\ q # <<>> /\ ToSet(q) = ToSet(r.writes) \cup {x}
  <2>1. r.writes \in Seq(Copy) BY <1>0, SessionFields
  <2>2. QED BY <1>1, <2>1, AppendIs
<1> PICK s : s = [r EXCEPT !.discarded = TRUE, !.writes = q] OBVIOUS
<1>3. /\ s \in Session /\ s.phase = r.phase /\ s.found = r.found /\ s.older = r.older
      /\ s.main = r.main /\ s.drain = r.drain /\ s.discarded = TRUE
      /\ s.saved = r.saved /\ s.writes = q
  BY <1>0, <1>2 DEF Session
<1>4. tab' = [tab EXCEPT ![t] = s] BY <1>0 DEF Discard, Session
<1>5. \A k, n, e : Of(s, k, n, e) => Named(k, n, e)
  <2>1. \A k, n, e : Of(s, k, n, e) => Of(r, k, n, e) BY <1>1, <1>2, <1>3 DEF Of, Has
  <2>2. QED BY <2>1, NamedOf
<1>6. Quiet(t, s) BY <1>3, <1>4, <1>5 DEF Quiet, Discard, room
<1>7. Fit(r)' BY <1>6, QuietFit
<1>8. \A b \in s.main.batches : b.edit \in waived' BY <1>3 DEF Discard, EditsIn
<1>9. Fit(s)'
  <2>1. /\ \A f \in s.found : MainHeld(f.client)' \/ Whole(f.client, f.next, f.batches)'
        /\ \A o \in s.older : Whole(o.client, o.next, o.batches)'
        /\ \A h \in {s.main, s.drain} : Placed(h)' /\ Whole(h.client, h.next, h.batches)'
        /\ \A b \in s.drain.batches : Safe(b.edit)'
        /\ s.saved.batches # {} => s.saved.client = s.main.client
    BY <1>3, <1>7 DEF Fit
  <2>2. QED BY <1>0, <1>3, <1>8, <2>1 DEF Fit
<1>10. OneListing' BY <1>3, <1>4, ListingStays
<1>11. QED BY <1>3, <1>6, <1>9, <1>10, QuietStep DEF EditsIn

\* h is g with, perhaps, less to send: what is left out is written.
Shrinks(h, g) ==
  /\ h.client = g.client /\ h.next = g.next
  /\ \A b \in h.batches : \E a \in g.batches : a.n = b.n /\ a.edit = b.edit
  /\ \A a \in g.batches : Has(h.batches, a.n, a.edit) \/ Written(a.edit)'

\* An engine is itself.
LEMMA ShrinksSame == ASSUME NEW h PROVE Shrinks(h, h)
BY DEF Shrinks, Has

\* r and s differ by their connections only.
Alike(s, r) ==
  /\ s.phase = r.phase /\ s.found = r.found /\ s.older = r.older /\ s.discarded = r.discarded
  /\ s.saved = r.saved /\ s.writes = r.writes
  /\ Shrinks(s.main, r.main) /\ Shrinks(s.drain, r.drain)

\* The session has nothing new.
LEMMA AlikeOf ==
  ASSUME NEW s, NEW r, Alike(s, r), NEW k, NEW n, NEW e, Of(s, k, n, e)
  PROVE  Of(r, k, n, e)
<1>1. ASSUME NEW h, NEW g, Shrinks(h, g), h.client = k, Has(h.batches, n, e)
      PROVE  g.client = k /\ Has(g.batches, n, e)
  BY <1>1 DEF Shrinks, Has
<1>2. Shrinks(s.main, r.main) /\ Shrinks(s.drain, r.drain)
      /\ s.found \cup s.older \cup ToSet(s.writes) \cup {s.saved} = r.found \cup r.older \cup ToSet(r.writes) \cup {r.saved}
  BY DEF Alike
<1>3. QED BY <1>1, <1>2 DEF Of

\* What is left is still whole: the rest is written.
LEMMA ShrunkWhole ==
  ASSUME NEW h, NEW g, Shrinks(h, g), Whole(g.client, g.next, g.batches)'
  PROVE  Whole(h.client, h.next, h.batches)'
<1> SUFFICES ASSUME NEW k \in Clients, k = h.client
             PROVE  /\ last'[k] < h.next
                    /\ \A n, e : Named(k, n, e)' => n < h.next /\ (Has(h.batches, n, e) \/ Written(e)')
  BY DEF Whole
<1>1. /\ last'[k] < h.next
      /\ \A n, e : Named(k, n, e)' => n < h.next /\ (Has(g.batches, n, e) \/ Written(e)')
  BY DEF Whole, Shrinks
<1>2. \A n, e : Has(g.batches, n, e) => Has(h.batches, n, e) \/ Written(e)' BY DEF Shrinks, Has
<1>3. QED BY <1>1, <1>2

\* The session is worth as much.
LEMMA ShrunkFit ==
  ASSUME NEW s \in Session, NEW r \in Session, Alike(s, r), Fit(r)', Placed(s.main)', Placed(s.drain)',
         s.phase = "closing" => s.main = r.main /\ s.drain = r.drain
  PROVE  Fit(s)'
<1>1. /\ \A f \in s.found : MainHeld(f.client)' \/ Whole(f.client, f.next, f.batches)'
      /\ \A o \in s.older : Whole(o.client, o.next, o.batches)'
  BY DEF Fit, Alike
<1>2. Shrinks(s.main, r.main) /\ Shrinks(s.drain, r.drain) BY DEF Alike
<1>3. \A h \in {s.main, s.drain} : Placed(h)' /\ Whole(h.client, h.next, h.batches)'
  <2>1. Whole(r.main.client, r.main.next, r.main.batches)' /\ Whole(r.drain.client, r.drain.next, r.drain.batches)'
    BY DEF Fit
  <2>2. QED BY <1>2, <2>1, ShrunkWhole
<1>4. \A b \in s.drain.batches : Safe(b.edit)'
  <2>1. \A b \in r.drain.batches : Safe(b.edit)' BY DEF Fit
  <2>2. QED BY <1>2, <2>1 DEF Shrinks
<1>5. s.discarded => \A b \in s.main.batches : b.edit \in waived'
  <2>1. r.discarded => \A b \in r.main.batches : b.edit \in waived' BY DEF Fit
  <2>2. QED BY <1>2, <2>1 DEF Shrinks, Alike
<1>6. s.phase = "closing" => ~UnsavedIn(s) /\ ~s.main.on /\ ~s.drain.on
  BY DEF Fit, UnsavedIn, Alike
<1>7. ~s.discarded =>
       /\ \A w \in ToSet(s.writes) \cup {s.saved} : w.next <= s.main.next
       /\ \A w \in ToSet(s.writes) :
            w.next = s.main.next => \A b \in s.main.batches : Has(w.batches, b.n, b.edit)
  <2>1. ~r.discarded =>
       /\ \A w \in ToSet(r.writes) \cup {r.saved} : w.next <= r.main.next
       /\ \A w \in ToSet(r.writes) :
            w.next = r.main.next => \A b \in r.main.batches : Has(w.batches, b.n, b.edit)
    BY DEF Fit
  <2>2. s.main.next = r.main.next /\ \A b \in s.main.batches : \E a \in r.main.batches : a.n = b.n /\ a.edit = b.edit
    BY <1>2 DEF Shrinks
  <2>3. s.discarded = r.discarded /\ s.writes = r.writes /\ s.saved = r.saved BY DEF Alike
  <2>4. QED BY <2>1, <2>2, <2>3
<1>8. ~s.discarded /\ s.writes = <<>> =>
       /\ \A b \in s.saved.batches : Safe(b.edit)'
       /\ s.saved.next = s.main.next =>
            \A d \in device' : d.client = s.main.client => Whole(d.client, d.next, d.batches)'
  <2>1. ~r.discarded /\ r.writes = <<>> =>
       /\ \A b \in r.saved.batches : Safe(b.edit)'
       /\ r.saved.next = r.main.next =>
            \A d \in device' : d.client = r.main.client => Whole(d.client, d.next, d.batches)'
    BY DEF Fit
  <2>2. s.main.next = r.main.next /\ s.main.client = r.main.client BY <1>2 DEF Shrinks
  <2>3. s.discarded = r.discarded /\ s.writes = r.writes /\ s.saved = r.saved BY DEF Alike
  <2>4. QED BY <2>1, <2>2, <2>3
<1>9. s.saved.batches # {} => s.saved.client = s.main.client
  <2>1. r.saved.batches # {} => r.saved.client = r.main.client BY DEF Fit
  <2>2. s.saved = r.saved /\ s.main.client = r.main.client BY <1>2 DEF Shrinks, Alike
  <2>3. QED BY <2>1, <2>2
<1>10. QED BY <1>1, <1>3, <1>4, <1>5, <1>6, <1>7, <1>8, <1>9 DEF Fit, UnsavedIn

\* The session that a step of one of its connections leaves.
LEMMA SlotIs ==
  ASSUME IInv, NEW t \in Tabs, NEW slot \in Slots, NEW h \in Engine, NEW a \in BOOLEAN,
         tab' = [tab EXCEPT ![t][slot] = h, ![t].armed = a] \/ tab' = [tab EXCEPT ![t][slot] = h],
         Shrinks(h, tab[t][slot])
  PROVE  \E s \in Session :
           /\ tab' = [tab EXCEPT ![t] = s]
           /\ Alike(s, tab[t])
           /\ \/ slot = "main" /\ s.main = h /\ s.drain = tab[t].drain
              \/ slot = "drain" /\ s.drain = h /\ s.main = tab[t].main
<1> PICK r : r = tab[t] OBVIOUS
<1>1. r \in Session /\ tab \in [Tabs -> Session] BY DEF IInv, TypeOK
<1>2. ASSUME NEW b \in BOOLEAN, tab' = [tab EXCEPT ![t][slot] = h, ![t].armed = b] \/
                                (tab' = [tab EXCEPT ![t][slot] = h] /\ b = r.armed),
             slot = "main"
      PROVE  \E s \in Session : /\ tab' = [tab EXCEPT ![t] = s] /\ Alike(s, r)
                                /\ s.main = h /\ s.drain = r.drain
  <2> PICK s : s = [r EXCEPT !.main = h, !.armed = b] OBVIOUS
  <2>1. /\ s \in Session /\ s.phase = r.phase /\ s.found = r.found /\ s.older = r.older
        /\ s.main = h /\ s.drain = r.drain /\ s.discarded = r.discarded
        /\ s.saved = r.saved /\ s.writes = r.writes
    BY <1>1, <1>2 DEF Session
  <2>2. tab' = [tab EXCEPT ![t] = s]
    <3>1. CASE tab' = [tab EXCEPT ![t][slot] = h, ![t].armed = b]
      <4>1. tab' = [tab EXCEPT ![t].main = h, ![t].armed = b] BY <1>2, <3>1
      <4>2. QED BY <1>1, <4>1
    <3>2. CASE tab' = [tab EXCEPT ![t][slot] = h] /\ b = r.armed
      <4>1. tab' = [tab EXCEPT ![t].main = h] BY <1>2, <3>2
      <4>2. s = [r EXCEPT !.main = h] BY <1>1, <3>2 DEF Session
      <4>3. QED BY <1>1, <4>1, <4>2
    <3>3. QED BY <1>2, <3>1, <3>2
  <2>3. Alike(s, r) BY <1>2, <2>1, ShrinksSame DEF Alike
  <2>4. QED BY <2>1, <2>2, <2>3
<1>3. ASSUME NEW b \in BOOLEAN, tab' = [tab EXCEPT ![t][slot] = h, ![t].armed = b] \/
                                (tab' = [tab EXCEPT ![t][slot] = h] /\ b = r.armed),
             slot = "drain"
      PROVE  \E s \in Session : /\ tab' = [tab EXCEPT ![t] = s] /\ Alike(s, r)
                                /\ s.drain = h /\ s.main = r.main
  <2> PICK s : s = [r EXCEPT !.drain = h, !.armed = b] OBVIOUS
  <2>1. /\ s \in Session /\ s.phase = r.phase /\ s.found = r.found /\ s.older = r.older
        /\ s.main = r.main /\ s.drain = h /\ s.discarded = r.discarded
        /\ s.saved = r.saved /\ s.writes = r.writes
    BY <1>1, <1>3 DEF Session
  <2>2. tab' = [tab EXCEPT ![t] = s]
    <3>1. CASE tab' = [tab EXCEPT ![t][slot] = h, ![t].armed = b]
      <4>1. tab' = [tab EXCEPT ![t].drain = h, ![t].armed = b] BY <1>3, <3>1
      <4>2. QED BY <1>1, <4>1
    <3>2. CASE tab' = [tab EXCEPT ![t][slot] = h] /\ b = r.armed
      <4>1. tab' = [tab EXCEPT ![t].drain = h] BY <1>3, <3>2
      <4>2. s = [r EXCEPT !.drain = h] BY <1>1, <3>2 DEF Session
      <4>3. QED BY <1>1, <4>1, <4>2
    <3>3. QED BY <1>3, <3>1, <3>2
  <2>3. Alike(s, r) BY <1>3, <2>1, ShrinksSame DEF Alike
  <2>4. QED BY <2>1, <2>2, <2>3
<1>4. r.armed \in BOOLEAN BY <1>1, SessionFields
<1>5. QED BY <1>2, <1>3, <1>4 DEF Slots

\* A connection goes on; the room and the device do not change.
LEMMA EngineLedger ==
  ASSUME IInv, Ledger, NEW t \in Tabs, NEW slot \in Slots, Connected(t, slot), NEW h \in Engine,
         NEW a \in BOOLEAN,
         tab' = [tab EXCEPT ![t][slot] = h, ![t].armed = a] \/ tab' = [tab EXCEPT ![t][slot] = h],
         Shrinks(h, tab[t][slot]), Placed(h),
         UNCHANGED <<device, log, durable, last, edits, created, waived>>
  PROVE  Ledger'
<1> PICK r : r = tab[t] OBVIOUS
<1>1. r \in Session /\ r.phase = "open" BY DEF IInv, TypeOK, Connected
<1>2. PICK s \in Session :
           /\ tab' = [tab EXCEPT ![t] = s]
           /\ Alike(s, r)
           /\ \/ slot = "main" /\ s.main = h /\ s.drain = r.drain
              \/ slot = "drain" /\ s.drain = h /\ s.main = r.main
  BY SlotIs
<1>3. \A k, n, e : Of(s, k, n, e) => Named(k, n, e) BY <1>2, AlikeOf, NamedOf
<1>4. s.main.client = r.main.client /\ s.phase = r.phase BY <1>2 DEF Alike, Shrinks
<1>5. Quiet(t, s) BY <1>2, <1>3, <1>4 DEF Quiet
<1>6. Fit(r)' BY <1>5, QuietFit
<1>7. Placed(s.main)' /\ Placed(s.drain)'
  <2>1. Placed(h)' BY DEF Placed
  <2>2. Placed(r.main)' /\ Placed(r.drain)' BY <1>6 DEF Fit
  <2>3. QED BY <1>2, <2>1, <2>2
<1>8. Fit(s)' BY <1>1, <1>2, <1>4, <1>6, <1>7, ShrunkFit
<1>9. OneListing' BY <1>2, <1>4, ListingStays
<1>10. \A b \in r.main.batches \cup r.drain.batches :
         Safe(b.edit)' \/ b.edit \in EditsIn(s.main) \cup EditsIn(s.drain)
  <2>1. Shrinks(s.main, r.main) /\ Shrinks(s.drain, r.drain) BY <1>2 DEF Alike
  <2>2. QED BY <2>1 DEF Shrinks, Has, EditsIn, Safe
<1>11. QED BY <1>5, <1>8, <1>9, <1>10, QuietStep

\* A connection is lost.
LEMMA DisconnectLedger ==
  ASSUME IInv, Ledger, NEW t \in Tabs, NEW slot \in Slots, Disconnect(t, slot) PROVE Ledger'
<1> PICK g : g = tab[t][slot] OBVIOUS
<1>1. g \in Engine /\ Connected(t, slot) BY EngineOf DEF Disconnect
<1> PICK h : h = [g EXCEPT !.on = FALSE] OBVIOUS
<1>2. h \in Engine /\ h.client = g.client /\ h.next = g.next /\ h.batches = g.batches BY <1>1 DEF Engine
<1>3. tab' = [tab EXCEPT ![t][slot] = h] BY EngineOf DEF Disconnect, Slots, Session, Engine
<1>4. Shrinks(h, g) BY <1>2 DEF Shrinks, Has
<1>5. Placed(h)
  <2>1. Placed(g) BY DEF Ledger, Fit, Slots
  <2>2. QED BY <1>2, <2>1 DEF Placed
<1>6. QED BY <1>1, <1>2, <1>3, <1>4, <1>5, EngineLedger DEF Disconnect, room

\* What the room has written is forgotten.
LEMMA WelcomeLedger ==
  ASSUME IInv, Ledger, NEW t \in Tabs, NEW slot \in Slots, Welcome(t, slot) PROVE Ledger'
<1> PICK g : g = tab[t][slot] OBVIOUS
<1>1. g \in Engine /\ g.client # 0 /\ Connected(t, slot) BY EngineOf DEF Welcome, Connected
<1>2. g.client \in Clients /\ g.next \in Nat /\ g.batches \subseteq Local
  BY <1>1, BoundsAssumption DEF Engine, Clients
<1>3. Placed(g) /\ Whole(g.client, g.next, g.batches) BY DEF Ledger, Fit, Slots
<1> PICK q : q = Known(g) OBVIOUS
<1>4. /\ q \subseteq Local
      /\ \A k \in q : \E b \in g.batches :
           /\ k.n = b.n /\ k.edit = b.edit /\ (k.at = 0 \/ k.at > durable)
           /\ \/ k = b
              \/ k.at = Len(log) /\ b.n <= last[g.client] /\ b.at = 0
      /\ \A b \in g.batches : \E a \in Nat :
           /\ a = (IF b.at = 0 /\ b.n <= last[g.client] THEN Len(log) ELSE b.at)
           /\ a = 0 \/ a > durable => [b EXCEPT !.at = a] \in q
  BY <1>1, KnownOK
<1>5. Max({g.next, last[g.client] + 1}) = g.next
  <2>1. last[g.client] \in Nat /\ last[g.client] < g.next BY <1>2, <1>3 DEF IInv, TypeOK, Whole
  <2> PICK m : m = Max({g.next, last[g.client] + 1}) OBVIOUS
  <2>2. m \in {g.next, last[g.client] + 1} /\ g.next <= m /\ last[g.client] + 1 <= m
    BY <1>2, <2>1, MaxOfTwo
  <2>3. QED BY <1>2, <2>1, <2>2
<1> PICK h : h = [g EXCEPT !.on = TRUE, !.batches = q, !.next = g.next] OBVIOUS
<1>6. h \in Engine /\ h.client = g.client /\ h.next = g.next /\ h.batches = q BY <1>1, <1>2, <1>4 DEF Engine
<1> PICK a : a = (tab[t].armed \/ (slot = "main" /\ tab[t].held)) OBVIOUS
<1>7. a \in BOOLEAN OBVIOUS
<1>8. tab' = [tab EXCEPT ![t][slot] = h, ![t].armed = a]
  <2> DEFINE n == [tab[t][slot] EXCEPT !.on = TRUE, !.batches = Known(tab[t][slot]),
                       !.next = Max({tab[t][slot].next, last[tab[t][slot].client] + 1})]
  <2>1. tab' = [tab EXCEPT ![t][slot] = n,
                  ![t].armed = tab[t].armed \/ (slot = "main" /\ tab[t].held)]
    BY DEF Welcome
  <2>2. n = h BY <1>1, <1>5 DEF Engine
  <2> HIDE DEF n
  <2>3. QED BY <2>1, <2>2
<1>9. \A b \in g.batches : b.n <= last[g.client] => \E i \in 1..Len(log) : log[i] = b.edit
  <2> SUFFICES ASSUME NEW b \in g.batches, b.n <= last[g.client] PROVE \E i \in 1..Len(log) : log[i] = b.edit
    OBVIOUS
  <2>1. Of(tab[t], g.client, b.n, b.edit) BY DEF Of, Has, Slots
  <2>2. Named(g.client, b.n, b.edit) BY <2>1, NamedOf
  <2>3. InLog(b.edit) BY <2>2 DEF Ledger, Books, Counted
  <2>4. QED BY <2>3, Lengths DEF InLog
<1>10. Placed(h)
  <2> SUFFICES ASSUME NEW k \in q, k.at # 0 PROVE \E i \in 1..k.at : i <= Len(log) /\ log[i] = k.edit
    BY <1>6 DEF Placed
  <2>1. PICK b \in g.batches : /\ k.n = b.n /\ k.edit = b.edit
                               /\ k = b \/ (k.at = Len(log) /\ b.n <= last[g.client] /\ b.at = 0)
    BY <1>4
  <2>2. CASE k = b BY <1>3, <2>2 DEF Placed
  <2>3. CASE k # b BY <1>9, <2>1, <2>3, Lengths
  <2>4. QED BY <2>2, <2>3
<1>11. Shrinks(h, g)
  <2>1. \A b \in h.batches : \E c \in g.batches : c.n = b.n /\ c.edit = b.edit BY <1>4, <1>6
  <2>2. ASSUME NEW b \in g.batches, ~Has(h.batches, b.n, b.edit) PROVE Written(b.edit)
    <3>1. PICK c \in Nat : /\ c = (IF b.at = 0 /\ b.n <= last[g.client] THEN Len(log) ELSE b.at)
                           /\ c = 0 \/ c > durable => [b EXCEPT !.at = c] \in q
      BY <1>4
    <3>2. b \in Local BY <1>2
    <3>3. [b EXCEPT !.at = c] \notin q
      <4>1. [b EXCEPT !.at = c].n = b.n /\ [b EXCEPT !.at = c].edit = b.edit BY <3>2 DEF Local
      <4>2. QED BY <1>6, <2>2, <4>1 DEF Has
    <3>4. c # 0 /\ ~(c > durable) BY <3>1, <3>3
    <3>5. c <= durable BY <3>4, Lengths
    <3>6. \E i \in 1..c : i <= Len(log) /\ log[i] = b.edit
      <4>1. CASE b.at = 0 /\ b.n <= last[g.client] BY <1>9, <3>1, <4>1, Lengths
      <4>2. CASE ~(b.at = 0 /\ b.n <= last[g.client])
        <5>1. c = b.at BY <3>1, <4>2
        <5>2. QED BY <1>3, <3>4, <5>1 DEF Placed
      <4>3. QED BY <4>1, <4>2
    <3>7. QED BY <3>5, <3>6, Lengths DEF Written
  <2>3. \A e : Written(e)' <=> Written(e) BY DEF Written, Welcome, room
  <2>4. QED BY <1>6, <2>1, <2>2, <2>3 DEF Shrinks
<1>12. QED BY <1>1, <1>6, <1>7, <1>8, <1>10, <1>11, EngineLedger DEF Welcome, room

\* A copy restored has what it had, none of it acknowledged.
LEMMA RestoredHas ==
  ASSUME NEW copy \in Copy
  PROVE  /\ \A n, e : Has(Restored(copy).batches, n, e) <=> Has(copy.batches, n, e)
         /\ \A b \in Restored(copy).batches : b.at = 0 /\ \E a \in copy.batches : a.n = b.n /\ a.edit = b.edit
<1> PICK q : q = Restored(copy).batches OBVIOUS
<1>1. q = {[n |-> b.n, edit |-> b.edit, at |-> 0] : b \in copy.batches} BY RestoredOK
<1>2. \A b \in q : b.at = 0 /\ \E a \in copy.batches : a.n = b.n /\ a.edit = b.edit BY <1>1
<1>3. ASSUME NEW a \in copy.batches PROVE \E b \in q : b.n = a.n /\ b.edit = a.edit
  <2>1. [n |-> a.n, edit |-> a.edit, at |-> 0] \in q BY <1>1
  <2>2. QED BY <2>1
<1>4. \A n, e : Has(q, n, e) <=> Has(copy.batches, n, e) BY <1>2, <1>3 DEF Has
<1>5. QED BY <1>2, <1>4

\* A copy that is restored is whole when it was.
LEMMA RestoredWhole ==
  ASSUME NEW copy \in Copy, Whole(copy.client, copy.next, copy.batches)'
  PROVE  Whole(Restored(copy).client, Restored(copy).next, Restored(copy).batches)'
<1> PICK h : h = Restored(copy) OBVIOUS
<1>1. h.client = copy.client /\ h.next = copy.next /\ \A n, e : Has(h.batches, n, e) <=> Has(copy.batches, n, e)
  BY RestoredOK, RestoredHas
<1>2. Whole(h.client, h.next, h.batches)' BY <1>1 DEF Whole
<1>3. QED BY <1>2

\* An older copy is restored, or left to a later session.
LEMMA NextCopyLedger == ASSUME IInv, Ledger, NEW t \in Tabs, NextCopy(t) PROVE Ledger'
<1> PICK r : r = tab[t] OBVIOUS
<1>0. /\ r \in Session /\ r.phase \in {"open", "closing"}
      /\ r.drain.client = 0 /\ r.older # {} /\ tab \in [Tabs -> Session] /\ Fit(r)
  BY DEF NextCopy, IInv, TypeOK, Ledger
<1> PICK copy : copy = Oldest(r.older) OBVIOUS
<1>1. copy \in r.older /\ copy \in Copy BY <1>0, OldestIs, SessionFields
<1> PICK older : older = r.older \ {copy} OBVIOUS
<1>2. CASE r.phase = "open"
  <2> PICK e : e = Restored(copy) OBVIOUS
  <2>1. e \in Engine /\ e.client = copy.client /\ \A m, f : Has(e.batches, m, f) <=> Has(copy.batches, m, f)
    BY <1>1, RestoredOK, RestoredHas
  <2> PICK s : s = [r EXCEPT !.older = older, !.drain = e] OBVIOUS
  <2>2. /\ s \in Session /\ s.phase = r.phase /\ s.found = r.found /\ s.older = older
        /\ s.main = r.main /\ s.drain = e /\ s.discarded = r.discarded
        /\ s.saved = r.saved /\ s.writes = r.writes
    BY <1>0, <2>1, SessionFields, ZenonT(60) DEF Session
  <2>3. tab' = [tab EXCEPT ![t] = s] BY <1>0, <1>2 DEF NextCopy
  <2>4. \A k, n, f : Of(s, k, n, f) => Named(k, n, f)
    <3>1. older \subseteq r.older OBVIOUS
    <3>2. \A k, n, f : Of(s, k, n, f) => Of(r, k, n, f) BY <1>1, <2>1, <2>2, <3>1 DEF Of
    <3>3. QED BY <3>2, NamedOf
  <2>5. Quiet(t, s) BY <2>2, <2>3, <2>4 DEF Quiet, NextCopy, room
  <2>6. Fit(r)' /\ StaysSafe BY <2>5, QuietFit, QuietIs
  <2>7. Placed(e)' /\ Whole(e.client, e.next, e.batches)'
    <3>1. Whole(copy.client, copy.next, copy.batches)' BY <1>1, <2>6 DEF Fit
    <3>2. Placed(e)' BY <1>1, RestoredHas DEF Placed
    <3>3. QED BY <1>1, <3>1, <3>2, RestoredWhole
  <2>8. \A b \in e.batches : Safe(b.edit)'
    <3>1. \A b \in e.batches : \E a \in copy.batches : a.edit = b.edit BY <1>1, RestoredHas
    <3>2. \A a \in copy.batches : Safe(a.edit) BY <1>1, OlderSafe
    <3>3. QED BY <3>1, <3>2, <2>6 DEF StaysSafe
  <2>9. Fit(s)' BY <1>2, <2>2, <2>6, <2>7, <2>8 DEF Fit
  <2>10. OneListing' BY <2>2, <2>3, ListingStays
  <2>11. \A b \in r.main.batches \cup r.drain.batches : Safe(b.edit)' \/ b.edit \in EditsIn(s.main) \cup EditsIn(s.drain)
    BY <2>2, <2>6 DEF Fit, EditsIn
  <2>12. QED BY <2>2, <2>5, <2>9, <2>10, <2>11, QuietStep
<1>3. CASE r.phase = "closing"
  <2> PICK s : s = [r EXCEPT !.older = older] OBVIOUS
  <2>2. /\ s \in Session /\ s.phase = r.phase /\ s.found = r.found /\ s.older = older
        /\ s.main = r.main /\ s.drain = r.drain /\ s.discarded = r.discarded
        /\ s.saved = r.saved /\ s.writes = r.writes
    BY <1>0, SessionFields DEF Session
  <2>3. tab' = [tab EXCEPT ![t] = s] BY <1>0, <1>3 DEF NextCopy
  <2>4. \A k, n, f : Of(s, k, n, f) => Named(k, n, f)
    <3>1. older \subseteq r.older OBVIOUS
    <3>2. \A k, n, f : Of(s, k, n, f) => Of(r, k, n, f) BY <2>2, <3>1 DEF Of
    <3>3. QED BY <3>2, NamedOf
  <2>5. Quiet(t, s) BY <2>2, <2>3, <2>4 DEF Quiet, NextCopy, room
  <2>6. Fit(r)' BY <2>5, QuietFit
  <2>7. Fit(s)' BY <2>2, <2>6 DEF Fit, UnsavedIn
  <2>8. OneListing' BY <2>2, <2>3, ListingStays
  <2>9. QED BY <2>2, <2>5, <2>7, <2>8, QuietStep DEF EditsIn
<1>4. QED BY <1>0, <1>2, <1>3

\* The newest copy is restored, and is on the device.
LEMMA StartFromCopiesLedger == ASSUME IInv, Ledger, NEW t \in Tabs, StartFromCopies(t) PROVE Ledger'
<1> PICK r : r = tab[t] OBVIOUS
<1>0. r \in Session /\ r.phase = "listing" /\ r.found = {} /\ r.older # {}
      /\ r.main = NoEngine /\ r.drain = NoEngine /\ tab \in [Tabs -> Session]
  BY ListingIs DEF StartFromCopies, IInv, TypeOK
<1> PICK newest : newest = Newest(r.older) OBVIOUS
<1> PICK others : others = r.older \ {newest} OBVIOUS
<1>h. PICK held \in BOOLEAN : held = (others # {}) OBVIOUS
<1>1. r.older \subseteq Copy BY <1>0, SessionFields
<1>2. newest \in r.older /\ newest \in Copy
  <2>1. PICK m \in Nat : m = Now /\ \A x \in DatesInUse : x < m BY NowIs
  <2>2. \A a \in r.older : a.savedAt \in Nat /\ a.savedAt < m BY <1>1, <2>1, DatesAre, CopyFields
  <2>3. \A a \in r.older : a.savedAt <= m BY <2>2
  <2>4. QED BY <1>0, <1>1, <2>3, NewestIs
<1> PICK e : e = Restored(newest) OBVIOUS
<1>3. /\ e \in Engine /\ e.client = newest.client /\ e.next = newest.next
      /\ newest.client \in Clients /\ newest.client # 0 /\ newest.next \in Nat
      /\ \A m, f : Has(e.batches, m, f) <=> Has(newest.batches, m, f)
  <2>1. e \in Engine /\ e.client = newest.client /\ e.next = newest.next BY <1>2, RestoredOK
  <2>2. newest.client \in Clients /\ newest.client # 0 /\ newest.next \in Nat BY <1>2, FoundCopies
  <2>3. \A m, f : Has(e.batches, m, f) <=> Has(newest.batches, m, f) BY <1>2, RestoredHas
  <2>4. QED BY <2>1, <2>2, <2>3
<1> PICK s : s = [Closed EXCEPT !.phase = "open", !.main = e, !.saved = newest,
                                !.older = others, !.held = held] OBVIOUS
<1>4. /\ s \in Session /\ s.phase = "open" /\ s.main = e /\ s.older = others /\ s.found = {}
      /\ s.drain = NoEngine /\ s.writes = <<>> /\ s.discarded = FALSE /\ s.saved = newest
  <2>1. PICK z : z = Closed OBVIOUS
  <2>2. /\ z \in Session /\ z.found = {} /\ z.drain = NoEngine /\ z.writes = <<>>
        /\ z.discarded = FALSE
    BY <2>1, ClosedOK
  <2>3. s = [z EXCEPT !.phase = "open", !.main = e, !.saved = newest, !.older = others, !.held = held]
    BY <2>1
  <2>4. others \in SUBSET Copy /\ newest \in Copy /\ e \in Engine /\ held \in BOOLEAN BY <1>1, <1>2, <1>3
  <2>5. s \in Session BY <2>2, <2>3, <2>4 DEF Session
  <2>6. s.phase = "open" /\ s.main = e /\ s.older = others /\ s.saved = newest
    BY ONLY <2>2, <2>3 DEF Session
  <2>7. s.found = {} /\ s.drain = NoEngine /\ s.writes = <<>> /\ s.discarded = FALSE
    BY ONLY <2>2, <2>3 DEF Session
  <2>8. QED BY <2>5, <2>6, <2>7
<1>5. tab' = [tab EXCEPT ![t] = s]
  <2>1. tab' = [tab EXCEPT ![t] = [Closed EXCEPT !.phase = "open", !.main = e, !.saved = newest,
                                !.older = others, !.held = (others # {})]]
    BY DEF StartFromCopies
  <2>2. QED BY <2>1, <1>h
<1>6. \A k, n, f : Of(s, k, n, f) => Named(k, n, f)
  <2>1. others \subseteq r.older /\ NoEngine.batches = {} BY ClosedOK
  <2>2. \A k, n, f : Of(s, k, n, f) => Of(r, k, n, f)
    <3> SUFFICES ASSUME NEW k, NEW n, NEW f, Of(s, k, n, f) PROVE Of(r, k, n, f) OBVIOUS
    <3>1. CASE s.main.client = k /\ Has(s.main.batches, n, f)
      <4>1. newest.client = k /\ Has(newest.batches, n, f) BY <1>3, <1>4, <3>1
      <4>2. QED BY <1>2, <4>1 DEF Of
    <3>2. CASE s.drain.client = k /\ Has(s.drain.batches, n, f) BY <1>4, <2>1, <3>2 DEF Has
    <3>3. CASE \E c \in others \cup {newest} : c.client = k /\ Has(c.batches, n, f) BY <1>2, <2>1, <3>3 DEF Of
    <3>4. s.found \cup s.older \cup ToSet(s.writes) \cup {s.saved} = others \cup {newest} BY <1>4, NoneIn
    <3>5. QED BY <3>1, <3>2, <3>3, <3>4 DEF Of
  <2>3. QED BY <2>2, NamedOf
<1>7. Quiet(t, s)
  <2>1. r.main.client = 0 BY <1>0, ClosedOK
  <2>2. QED BY <1>5, <1>6, <2>1 DEF Quiet, StartFromCopies, room
<1>8. Fit(r)' /\ Grows /\ Counts /\ StaysSafe /\ NothingNew(0) BY <1>7, QuietFit, QuietIs
<1>9. Placed(e)' /\ Whole(e.client, e.next, e.batches)'
  <2>1. Whole(newest.client, newest.next, newest.batches)' BY <1>2, <1>8 DEF Fit
  <2>2. Placed(e)' BY <1>2, RestoredHas DEF Placed
  <2>3. QED BY <1>2, <2>1, <2>2, RestoredWhole
<1>10. Placed(NoEngine)' /\ Whole(NoEngine.client, NoEngine.next, NoEngine.batches)'
  BY ClosedOK DEF Placed, Whole, Clients
<1>11. \A b \in newest.batches : Safe(b.edit)' BY <1>2, <1>8, OlderSafe DEF StaysSafe
<1>12. \A d \in device' : d.client = newest.client => Whole(d.client, d.next, d.batches)'
  <2> SUFFICES ASSUME NEW d \in device, d.client = newest.client PROVE Whole(d.client, d.next, d.batches)'
    BY <1>7 DEF Quiet
  <2>1. ~MainHeld(d.client) BY <1>2, OlderOwn
  <2>2. Whole(d.client, d.next, d.batches) BY <2>1 DEF Ledger, Devices
  <2>3. d.next \in Nat /\ d.client # 0 BY <1>3, CopyFields DEF IInv, TypeOK
  <2>4. QED BY <1>8, <2>2, <2>3, WholeStays
<1>13. Fit(s)'
  <2>1. \A o \in others : Whole(o.client, o.next, o.batches)' BY <1>8 DEF Fit
  <2>2. \A w \in ToSet(s.writes) \cup {s.saved} : w.next <= s.main.next BY <1>3, <1>4, NoneIn
  <2>3. \A w \in ToSet(s.writes) : w.next = s.main.next => \A b \in s.main.batches : Has(w.batches, b.n, b.edit)
    BY <1>4, NoneIn
  <2>4. \A b \in s.drain.batches : Safe(b.edit)' BY <1>4, ClosedOK
  <2>5. \A d \in device' : d.client = s.main.client => Whole(d.client, d.next, d.batches)' BY <1>3, <1>4, <1>12
  <2>6. s.saved.client = s.main.client /\ \A b \in s.saved.batches : Safe(b.edit)' BY <1>3, <1>4, <1>11
  <2>7. \A h \in {s.main, s.drain} : Placed(h)' /\ Whole(h.client, h.next, h.batches)' BY <1>4, <1>9, <1>10
  <2>8. QED BY <1>4, <2>1, <2>2, <2>3, <2>4, <2>5, <2>6, <2>7 DEF Fit
<1>14. OneListing' BY <1>4, <1>5, ListingStays
<1>15. QED BY <1>0, <1>4, <1>7, <1>13, <1>14, QuietStep, ClosedOK

----------------------------------------------------------------------------
(* Steps that change the device                                            *)

\* The room stays as it is; the session and the device get nothing new.
Moves(t, s) ==
  /\ tab' = [tab EXCEPT ![t] = s]
  /\ UNCHANGED <<log, durable, last, edits, created>> /\ waived \subseteq waived'
  /\ s.main.client = tab[t].main.client \/ tab[t].main.client = 0
  /\ \A k, n, e : Of(s, k, n, e) => Named(k, n, e)
  /\ \A d \in device' : d \in device \/ \A b \in d.batches : Named(d.client, b.n, b.edit)

\* Such a step disturbs nothing but the record of one client.
LEMMA MovesIs ==
  ASSUME IInv, Ledger, NEW t \in Tabs, NEW s, Moves(t, s)
  PROVE  Grows /\ Counts /\ NothingNew(0) /\ Books'
         /\ \A c \in Clients : MainHeld(c) => MainHeld(c)'
<1>1. Grows
  <2>1. log' = log /\ durable' = durable /\ waived \subseteq waived' /\ edits' = edits BY DEF Moves
  <2>2. edits \in Nat BY BoundsAssumption DEF IInv, TypeOK
  <2>3. QED BY <2>1, <2>2, GrowsSame
<1>2. Counts BY CountsSame DEF Moves
<1>3. NothingNew(0) BY NothingNewBy DEF Moves
<1>4. edits \in Nat /\ created \in Nat BY BoundsAssumption DEF IInv, TypeOK
<1>5. Books' BY <1>3, <1>4, BooksStay DEF Moves
<1>6. \A c \in Clients : MainHeld(c) => MainHeld(c)' BY HeldStays DEF Moves
<1>7. QED BY <1>1, <1>2, <1>3, <1>5, <1>6

\* What the session has remains worth as much.
LEMMA MovesFit ==
  ASSUME IInv, Ledger, NEW t \in Tabs, NEW s, Moves(t, s), NEW r, r = tab[t],
         \A b \in r.drain.batches : Safe(b.edit) => Safe(b.edit)',
         r.writes # <<>> \/
           (/\ \A d \in device' : d.client = r.main.client => d \in device
            /\ \A b \in r.saved.batches : Safe(b.edit) => Safe(b.edit)')
  PROVE  Fit(r)'
<1>1. r \in Session /\ Fit(r) BY DEF IInv, TypeOK, Ledger
<1>2. \A f \in r.found : f.client = 0 \/ MainHeld(f.client) => MainHeld(f.client)' BY MovesIs, FoundCopies
<1>3. QED BY <1>1, <1>2, MovesIs, FitStays

\* It keeps the ledger when what the session then has is worth as much.
LEMMA MovesStep ==
  ASSUME IInv, Ledger, NEW t \in Tabs, NEW s \in Session, Moves(t, s), Fit(s)', OneListing', Present',
         NEW y \in ClientsIn(tab[t]) \cup {0}, \A e : Safe(e) => Safe(e)' \/ (y # 0 /\ \E n : Named(y, n, e)),
         \A d \in device' : d \in device \/
           (/\ lock[d.client] = t /\ d.client \in Clients
            /\ MainHeld(d.client)' \/ Whole(d.client, d.next, d.batches)')
  PROVE  Ledger'
<1>1. tab' = [tab EXCEPT ![t] = s] BY DEF Moves
<1>2. Grows /\ Counts /\ NothingNew(0) /\ Books' BY MovesIs
<1>3. \A u \in Tabs \ {t} : \A f \in tab[u].found : f.client = 0 \/ MainHeld(f.client) => MainHeld(f.client)'
  BY MovesIs, FoundCopies
<1>4. \A d \in device' : d \in device \/ (lock[d.client] = t /\ d.client \in Clients) OBVIOUS
<1>5. ASSUME NEW d \in device' PROVE MainHeld(d.client)' \/ Whole(d.client, d.next, d.batches)'
  <2>1. CASE d \in device
    <3>1. d.client \in Clients /\ d.client # 0 BY <2>1, CopyFields DEF IInv, TypeOK, Clients
    <3>2. d.client = 0 \/ MainHeld(d.client) => MainHeld(d.client)' BY <3>1, MovesIs
    <3>3. QED BY <1>2, <2>1, <3>2, DeviceStays
  <2>2. CASE d \notin device BY <2>2
  <2>3. QED BY <2>1, <2>2
<1>6. Devices' BY <1>5 DEF Devices
<1>7. QED BY <1>1, <1>2, <1>3, <1>4, <1>6, LedgerStep

\* Nothing is promised any more about what is deleted.
LEMMA DropUnusableLedger == ASSUME IInv, Ledger, NEW t \in Tabs, DropUnusable(t) PROVE Ledger'
<1> PICK r : r = tab[t] OBVIOUS
<1> PICK copy : copy = Oldest(r.found) OBVIOUS
<1>0. r.phase = "listing" /\ r.found # {} /\ r \in Session /\ tab \in [Tabs -> Session] /\ Fit(r)
  BY DEF DropUnusable, IInv, TypeOK, Ledger
<1>1. copy \in r.found BY <1>0, OldestIs, SessionFields
<1>2. copy \in Copy /\ copy.client \in Clients /\ copy.client # 0 /\ copy.next \in Nat BY <1>1, FoundCopies
<1> PICK s : s = [r EXCEPT !.found = r.found \ {copy}] OBVIOUS
<1>3. /\ s \in Session /\ s.phase = r.phase /\ s.found = r.found \ {copy} /\ s.older = r.older
      /\ s.main = r.main /\ s.drain = r.drain /\ s.discarded = r.discarded
      /\ s.saved = r.saved /\ s.writes = r.writes
  BY <1>0, SessionFields DEF Session
<1>4. tab' = [tab EXCEPT ![t] = s] /\ device' = Delete(copy.client) /\ waived' = waived \cup EditsIn(copy)
      /\ lock[copy.client] = NoTab
  BY <1>0 DEF DropUnusable, Session
<1>5. device' \subseteq device BY <1>4 DEF Delete
<1>6. \A k, n, e : Of(s, k, n, e) => Named(k, n, e)
  <2>1. s.found \subseteq r.found BY <1>3
  <2>2. \A k, n, e : Of(s, k, n, e) => Of(r, k, n, e) BY <1>3, <2>1 DEF Of
  <2>3. QED BY <2>2, NamedOf
<1>7. Moves(t, s) BY <1>3, <1>4, <1>5, <1>6 DEF Moves, DropUnusable, room
<1>8. \A e : Safe(e) => Safe(e)'
  <2>1. ~MainHeld(copy.client)
    <3> SUFFICES ASSUME NEW u \in Tabs, tab[u].main.client = copy.client PROVE FALSE BY DEF MainHeld
    <3>1. copy.client \in ClientsIn(tab[u]) BY <1>2 DEF ClientsIn
    <3>2. lock[copy.client] = u /\ u # NoTab BY <3>1, OwnClient, TabAssumption
    <3>3. QED BY <1>4, <3>2
  <2>2. Whole(copy.client, copy.next, copy.batches) BY <1>0, <1>1, <2>1 DEF Fit
  <2>3. \A d \in device : d \in device' \/ \A b \in d.batches : Safe(b.edit)'
    <3> SUFFICES ASSUME NEW d \in device, d.client = copy.client, NEW b \in d.batches PROVE Safe(b.edit)'
      BY <1>4 DEF Delete
    <3>1. Named(copy.client, b.n, b.edit) BY DEF Named, Recorded, Has
    <3>2. Has(copy.batches, b.n, b.edit) \/ Written(b.edit) BY <1>2, <2>2, <3>1 DEF Whole
    <3>3. CASE Has(copy.batches, b.n, b.edit)
      <4>1. b.edit \in EditsIn(copy) BY <3>3 DEF Has, EditsIn
      <4>2. QED BY <1>4, <4>1 DEF Safe
    <3>4. CASE Written(b.edit) BY <1>7, <3>4, MovesIs, WrittenStays DEF Safe
    <3>5. QED BY <3>2, <3>3, <3>4
  <2>4. QED BY <1>7, <2>3, MovesIs, SafeStays DEF StaysSafe
<1>9. Fit(r)' BY <1>5, <1>7, <1>8, MovesFit
<1>10. Fit(s)'
  <2>1. \A f \in s.found : MainHeld(f.client)' \/ Whole(f.client, f.next, f.batches)' BY <1>3, <1>9 DEF Fit
  <2>2. QED BY <1>3, <1>9, <2>1 DEF Fit, UnsavedIn
<1>11. OneListing' BY <1>3, <1>4, ListingStays
<1>12. Present'
  <2>1. edits' = edits /\ StaysSafe BY <1>7, <1>8 DEF Moves, StaysSafe
  <2>2. \A b \in tab[t].main.batches \cup tab[t].drain.batches :
           Safe(b.edit)' \/ b.edit \in EditsIn(s.main) \cup EditsIn(s.drain)
    BY <1>3 DEF EditsIn
  <2>3. QED BY <1>4, <2>1, <2>2, PresentStays
<1>13. QED BY <1>3, <1>5, <1>7, <1>8, <1>10, <1>11, <1>12, MovesStep

\* The drain of a session gives its copy back: what was of its client is safe.
LEMMA FinishLedger ==
  ASSUME IInv, Ledger, NEW t \in Tabs, tab[t].drain.client # 0,
         NEW records, FinishDrain(t, records),
         records = Put(Kept(tab[t].drain)) \/ records = Delete(tab[t].drain.client),
         \A n, e : Named(tab[t].drain.client, n, e) => Safe(e)',
         UNCHANGED <<log, durable, last, edits, created>>, waived \subseteq waived'
  PROVE  Ledger'
<1> PICK r : r = tab[t] OBVIOUS
<1> PICK c : c = r.drain.client OBVIOUS
<1>0. r \in Session /\ Shape(r) /\ tab \in [Tabs -> Session] /\ Fit(r) /\ c # 0
  BY DEF IInv, TypeOK, Own, Ledger
<1>1. r.drain \in Engine /\ c \in ClientsIn(r) /\ c # r.main.client BY <1>0, SessionFields DEF ClientsIn, Shape
<1>2. lock[c] = t /\ c \in Clients BY <1>1, OwnClient
<1> PICK x : x = Kept(r.drain) OBVIOUS
<1>3. /\ x.client = c /\ x.next = r.drain.next
      /\ \A n, e : Has(x.batches, n, e) <=> Has(r.drain.batches, n, e)
      /\ \A b \in x.batches : \E a \in r.drain.batches : b.n = a.n /\ b.edit = a.edit
  <2>1. r.drain.age \in Nat BY <1>0, SessionFields
  <2>2. x.client = c /\ x.next = r.drain.next BY <1>0, <1>1, <2>1, CopyOfOK DEF Kept
  <2>3. QED BY <1>0, <1>1, <2>1, <2>2, CopyHas DEF Kept
<1>4. tab' = [tab EXCEPT ![t].drain = NoEngine] /\ device' = records BY DEF FinishDrain
<1>5. \A d \in device' : (d \in device /\ d.client # c) \/ d = x
  BY <1>3, <1>4, PutIs DEF Delete
<1>6. \A d \in device : d \in device' \/ d.client = c BY <1>3, <1>4, PutIs DEF Delete
<1> PICK s : s = [r EXCEPT !.drain = NoEngine] OBVIOUS
<1>7. /\ s \in Session /\ s.phase = r.phase /\ s.found = r.found /\ s.older = r.older
      /\ s.main = r.main /\ s.drain = NoEngine /\ s.discarded = r.discarded
      /\ s.saved = r.saved /\ s.writes = r.writes
  BY <1>0, ClosedOK DEF Session
<1>8. tab' = [tab EXCEPT ![t] = s] BY <1>0, <1>4
<1>9. \A k, n, e : Of(s, k, n, e) => Named(k, n, e)
  <2>1. ~\E n, e : Has(NoEngine.batches, n, e) BY ClosedOK DEF Has
  <2>2. \A k, n, e : Of(s, k, n, e) => Of(r, k, n, e) BY <1>7, <2>1 DEF Of
  <2>3. QED BY <2>2, NamedOf
<1>10. \A b \in x.batches : Named(c, b.n, b.edit)
  <2> SUFFICES ASSUME NEW b \in x.batches PROVE Named(c, b.n, b.edit) OBVIOUS
  <2>1. Has(r.drain.batches, b.n, b.edit) BY <1>3 DEF Has
  <2>2. Of(r, c, b.n, b.edit) BY <2>1 DEF Of
  <2>3. QED BY <2>2, NamedOf
<1>11. Moves(t, s) BY <1>3, <1>5, <1>7, <1>8, <1>9, <1>10 DEF Moves
<1>12. Grows /\ Counts /\ NothingNew(0) BY <1>11, MovesIs
<1>13. StaysSafe
  <2>1. \A d \in device : d \in device' \/ \A b \in d.batches : Safe(b.edit)'
    <3> SUFFICES ASSUME NEW d \in device, d.client = c, NEW b \in d.batches PROVE Safe(b.edit)' BY <1>6
    <3>1. Named(c, b.n, b.edit) BY DEF Named, Recorded, Has
    <3>2. QED BY <3>1
  <2>2. QED BY <1>12, <2>1, SafeStays
<1>14. Fit(r)'
  <2>1. \A d \in device' : d.client = r.main.client => d \in device BY <1>1, <1>3, <1>5
  <2>2. QED BY <1>11, <1>13, <2>1, MovesFit DEF StaysSafe
<1>15. Fit(s)'
  <2>1. Placed(NoEngine)' /\ Whole(NoEngine.client, NoEngine.next, NoEngine.batches)'
    BY ClosedOK DEF Placed, Whole, Clients
  <2>2. \A h \in {s.main, s.drain} : Placed(h)' /\ Whole(h.client, h.next, h.batches)'
    BY <1>7, <1>14, <2>1 DEF Fit
  <2>3. \A b \in s.drain.batches : Safe(b.edit)' BY <1>7, ClosedOK
  <2>4. ~s.drain.on BY <1>7, ClosedOK
  <2>5. QED BY <1>7, <1>14, <2>2, <2>3, <2>4 DEF Fit, UnsavedIn
<1>16. OneListing' BY <1>7, <1>8, ListingStays
<1>17. Present'
  <2>1. \A b \in r.drain.batches : Safe(b.edit)' BY <1>0, <1>13 DEF Fit, StaysSafe
  <2>2. \A b \in r.main.batches : b.edit \in EditsIn(s.main) BY <1>7 DEF EditsIn
  <2>3. edits' = edits OBVIOUS
  <2>4. QED BY <1>8, <1>13, <2>1, <2>2, <2>3, PresentStays
<1>18. ASSUME NEW d \in device', d \notin device
       PROVE  /\ lock[d.client] = t /\ d.client \in Clients
              /\ MainHeld(d.client)' \/ Whole(d.client, d.next, d.batches)'
  <2>1. d = x BY <1>5, <1>18
  <2>2. Whole(c, r.drain.next, r.drain.batches)' BY <1>14 DEF Fit
  <2>3. Whole(x.client, x.next, x.batches)' BY <1>3, <2>2 DEF Whole
  <2>4. QED BY <1>2, <1>3, <2>1, <2>3
<1>19. QED BY <1>7, <1>11, <1>13, <1>15, <1>16, <1>17, <1>18, MovesStep DEF StaysSafe

\* What is of the client of a drain, and not to be sent any more, is written.
LEMMA DrainWhole ==
  ASSUME IInv, Ledger, NEW t \in Tabs, tab[t].drain.client # 0, NEW n, NEW e,
         Named(tab[t].drain.client, n, e)
  PROVE  Written(e) \/ Has(tab[t].drain.batches, n, e)
<1>1. Whole(tab[t].drain.client, tab[t].drain.next, tab[t].drain.batches) BY DEF Ledger, Fit
<1>2. tab[t].drain.client \in Clients
  BY SessionFields, BoundsAssumption DEF IInv, TypeOK, Clients
<1>3. QED BY <1>1, <1>2 DEF Whole

\* The record an older copy leaves has what is left to send.
LEMMA DrainLedger ==
  ASSUME IInv, Ledger, NEW t \in Tabs,
         DrainWritten(t) \/ DrainRefused(t) \/ DrainGone(t) \/ StopDrain(t)
  PROVE  Ledger'
<1> PICK g : g = tab[t].drain OBVIOUS
<1>0. /\ g.client # 0 /\ g \in Engine /\ g.age \in Nat
      /\ UNCHANGED <<log, durable, last, edits, created>> /\ waived \subseteq waived'
  BY SessionFields DEF DrainWritten, DrainRefused, DrainGone, StopDrain, Connected, room, IInv, TypeOK
<1>1. \A e : Written(e) => Safe(e)'
  <2>1. Grows
    <3>1. log' = log /\ durable' = durable /\ waived \subseteq waived' /\ edits' = edits BY <1>0
    <3>2. edits \in Nat BY BoundsAssumption DEF IInv, TypeOK
    <3>3. QED BY <3>1, <3>2, GrowsSame
  <2>2. QED BY <2>1, WrittenStays DEF Safe
<1>2. CASE DrainWritten(t)
  <2>1. ~\E n, e : Has(g.batches, n, e) BY <1>2 DEF DrainWritten, FullySynced, Has
  <2>2. \A n, e : Named(g.client, n, e) => Safe(e)' BY <1>0, <1>1, <2>1, DrainWhole
  <2>3. FinishDrain(t, Delete(g.client)) BY <1>2 DEF DrainWritten
  <2>4. QED BY <1>0, <2>2, <2>3, FinishLedger
<1>3. CASE DrainGone(t)
  <2>1. \A n, e : Has(g.batches, n, e) => Safe(e)' BY <1>3 DEF DrainGone, Has, EditsIn, Safe
  <2>2. \A n, e : Named(g.client, n, e) => Safe(e)' BY <1>0, <1>1, <2>1, DrainWhole
  <2>3. FinishDrain(t, Delete(g.client)) BY <1>3 DEF DrainGone
  <2>4. QED BY <1>0, <2>2, <2>3, FinishLedger
<1>4. CASE DrainRefused(t) \/ StopDrain(t)
  <2>1. FinishDrain(t, Put(Kept(g))) BY <1>4 DEF DrainRefused, StopDrain
  <2> PICK x : x = Kept(g) OBVIOUS
  <2>2. \A n, e : Has(g.batches, n, e) => Safe(e)'
    <3> SUFFICES ASSUME NEW n, NEW e, Has(g.batches, n, e) PROVE Safe(e)' OBVIOUS
    <3>1. Has(x.batches, n, e) BY <1>0, CopyHas DEF Kept
    <3>2. x.batches # {} /\ e \in EditsIn(x) BY <3>1 DEF Has, EditsIn
    <3>3. x \in device' BY <2>1, <3>2, PutIs DEF FinishDrain
    <3>4. QED BY <3>2, <3>3 DEF Safe, OnDevice, EditsIn
  <2>3. \A n, e : Named(g.client, n, e) => Safe(e)' BY <1>0, <1>1, <2>2, DrainWhole
  <2>4. QED BY <1>0, <2>1, <2>3, FinishLedger
<1>5. QED BY <1>2, <1>3, <1>4

\* The record written has what the session had when it was queued; what it no longer
\* has is written, or in the session.
LEMMA WriteLandsLedger == ASSUME IInv, Ledger, NEW t \in Tabs, WriteLands(t) PROVE Ledger'
<1> PICK r : r = tab[t] OBVIOUS
<1>0. r \in Session /\ Shape(r) /\ r.writes # <<>> /\ tab \in [Tabs -> Session] /\ Fit(r)
  BY DEF WriteLands, IInv, TypeOK, Own, Ledger
<1> PICK c : c = r.main.client OBVIOUS
<1> PICK q : q = r.writes OBVIOUS
<1> PICK x : x = Head(q) OBVIOUS
<1> PICK k : k = Tail(q) OBVIOUS
<1>1. q \in Seq(Copy) /\ q # <<>> BY <1>0, SessionFields
<1>2. /\ x \in Copy /\ k \in Seq(Copy) /\ x \in ToSet(q) /\ ToSet(q) = {x} \cup ToSet(k)
      /\ k # <<>> => Last(k) = Last(q)
      /\ k = <<>> => Last(q) = x
  BY <1>1, HeadIs
<1>3. c # 0
  <2>1. r.phase \in {"open", "closing"} BY <1>0, ListingIs, SessionFields
  <2>2. QED BY <1>0, <2>1 DEF Shape
<1>4. c \in ClientsIn(r) /\ c \in Clients /\ lock[c] = t
  <2>1. c \in ClientsIn(r) BY <1>3 DEF ClientsIn
  <2>2. QED BY <2>1, OwnClient
<1>5. x.client = c BY <1>0, <1>2 DEF Shape
<1> PICK s : s = [r EXCEPT !.writes = k, !.saved = x] OBVIOUS
<1>6. /\ s \in Session /\ s.phase = r.phase /\ s.found = r.found /\ s.older = r.older
      /\ s.main = r.main /\ s.drain = r.drain /\ s.discarded = r.discarded
      /\ s.saved = x /\ s.writes = k
  BY <1>0, <1>2 DEF Session
<1>7. tab' = [tab EXCEPT ![t] = s] /\ device' = Put(x) BY <1>0 DEF WriteLands, Session
<1>8. \A j, n, e : Of(s, j, n, e) => Named(j, n, e)
  <2>1. s.found \cup s.older \cup ToSet(s.writes) \cup {s.saved} \subseteq
          r.found \cup r.older \cup ToSet(r.writes) \cup {r.saved}
    BY <1>2, <1>6
  <2>2. \A j, n, e : Of(s, j, n, e) => Of(r, j, n, e) BY <1>6, <2>1 DEF Of
  <2>3. QED BY <2>2, NamedOf
<1>9. \A d \in device' : (d \in device /\ d.client # c) \/ (d = x /\ x.batches # {}) BY <1>5, <1>7, PutIs
<1>10. \A b \in x.batches : Named(x.client, b.n, b.edit)
  <2> SUFFICES ASSUME NEW b \in x.batches PROVE Named(x.client, b.n, b.edit) OBVIOUS
  <2>1. Of(r, x.client, b.n, b.edit) BY <1>2 DEF Of, Has
  <2>2. QED BY <2>1, NamedOf
<1>11. Moves(t, s) BY <1>6, <1>7, <1>8, <1>9, <1>10 DEF Moves, WriteLands, room
<1>12. Grows /\ Counts /\ NothingNew(0) BY <1>11, MovesIs
\* Only the record of this client changes.
<1>13. \A e : Safe(e) => Safe(e)' \/ \E n : Named(c, n, e)
  <2> SUFFICES ASSUME NEW e, Safe(e), ~Safe(e)' PROVE \E n : Named(c, n, e) OBVIOUS
  <2>1. ~Written(e) /\ e \notin waived BY <1>12, WrittenStays DEF Safe, Grows
  <2>2. PICK d \in device : e \in EditsIn(d) BY <2>1 DEF Safe, OnDevice
  <2>3. d \notin device' BY <2>2 DEF Safe, OnDevice, EditsIn
  <2>4. d.client = c BY <1>5, <1>7, <2>3, PutIs
  <2>5. PICK b \in d.batches : b.edit = e BY <2>2 DEF EditsIn
  <2>6. Named(c, b.n, e) BY <2>4, <2>5 DEF Named, Recorded, Has
  <2>7. QED BY <2>6
<1>14. \A b \in r.drain.batches : Safe(b.edit) => Safe(b.edit)'
  <2> SUFFICES ASSUME NEW b \in r.drain.batches, NEW n, Named(c, n, b.edit) PROVE FALSE BY <1>13
  <2>1. Of(r, r.drain.client, b.n, b.edit) BY DEF Of, Has
  <2>2. Named(r.drain.client, b.n, b.edit) BY <2>1, NamedOf
  <2>3. r.drain.client = c BY <2>2 DEF Ledger, Books, Numbers
  <2>4. QED BY <1>0, <1>3, <2>3 DEF Shape
<1>15. Fit(r)' BY <1>0, <1>11, <1>14, MovesFit
<1>16. ~s.discarded =>
       /\ \A w \in ToSet(s.writes) \cup {s.saved} : w.next <= s.main.next
       /\ \A w \in ToSet(s.writes) \cup {s.saved} :
            w.next = s.main.next => \A b \in s.main.batches : Has(w.batches, b.n, b.edit)
  <2>1. ~r.discarded =>
       /\ \A w \in ToSet(q) : w.next <= r.main.next
       /\ \A w \in ToSet(q) :
            w.next = r.main.next => \A b \in r.main.batches : Has(w.batches, b.n, b.edit)
    BY <1>0 DEF Fit
  <2>2. QED BY <1>2, <1>6, <2>1
<1>17. s.phase = "closing" => ~UnsavedIn(s) /\ ~s.main.on /\ ~s.drain.on
  <2>1. r.phase = "closing" => ~UnsavedIn(r) /\ ~r.main.on /\ ~r.drain.on BY <1>0 DEF Fit
  <2>2. (IF s.writes = <<>> THEN s.saved ELSE Last(s.writes)) = Last(q) BY <1>2, <1>6
  <2>3. (IF r.writes = <<>> THEN r.saved ELSE Last(r.writes)) = Last(q) BY <1>0
  <2>4. QED BY <1>6, <2>1, <2>2, <2>3 DEF UnsavedIn
<1>18. \A b \in x.batches : Safe(b.edit)'
  <2> SUFFICES ASSUME NEW b \in x.batches PROVE Safe(b.edit)' OBVIOUS
  <2>1. x \in device' /\ b.edit \in EditsIn(x) BY <1>7, PutIs DEF EditsIn
  <2>2. QED BY <2>1 DEF Safe, OnDevice, EditsIn
<1>19. ~s.discarded /\ s.writes = <<>> =>
       /\ \A b \in s.saved.batches : Safe(b.edit)'
       /\ s.saved.next = s.main.next =>
            \A d \in device' : d.client = s.main.client => Whole(d.client, d.next, d.batches)'
  <2>1. \A b \in s.saved.batches : Safe(b.edit)' BY <1>6, <1>18
  <2>2. ASSUME ~s.discarded, s.saved.next = s.main.next, NEW d \in device', d.client = s.main.client
        PROVE  Whole(d.client, d.next, d.batches)'
    <3>1. d = x BY <1>6, <1>9, <2>2
    <3>2. x.next = r.main.next /\ \A b \in r.main.batches : Has(x.batches, b.n, b.edit) BY <1>6, <1>16, <2>2
    <3>3. \A n, e : Has(r.main.batches, n, e) => Has(x.batches, n, e) BY <3>2 DEF Has
    <3>4. Whole(c, r.main.next, r.main.batches)' BY <1>15 DEF Fit
    <3>5. Whole(x.client, x.next, x.batches)' BY <1>5, <3>2, <3>3, <3>4 DEF Whole
    <3>6. QED BY <3>1, <3>5
  <2>3. QED BY <2>1, <2>2
<1>20. Fit(s)'
  <2>1. /\ \A f \in s.found : MainHeld(f.client)' \/ Whole(f.client, f.next, f.batches)'
        /\ \A o \in s.older : Whole(o.client, o.next, o.batches)'
        /\ \A h \in {s.main, s.drain} : Placed(h)' /\ Whole(h.client, h.next, h.batches)'
        /\ \A b \in s.drain.batches : Safe(b.edit)'
        /\ s.discarded => \A b \in s.main.batches : b.edit \in waived'
    BY <1>6, <1>15 DEF Fit
  <2>2. s.saved.client = s.main.client BY <1>5, <1>6
  <2>3. QED BY <1>16, <1>17, <1>19, <2>1, <2>2 DEF Fit, UnsavedIn
<1>21. OneListing' BY <1>6, <1>7, ListingStays
<1>22. Present'
  <2> SUFFICES ASSUME NEW e \in 1..edits', ~Safe(e)' PROVE InTab(e)' BY DEF Present
  <2>1. Safe(e) \/ InTab(e) BY <1>11 DEF Ledger, Present, Moves
  <2>2. CASE InTab(e)
    <3>1. \A u \in Tabs : tab'[u].main = tab[u].main /\ tab'[u].drain = tab[u].drain BY <1>0, <1>6, <1>7
    <3>2. QED BY <2>2, <3>1 DEF InTab, EditsIn
  <2>3. CASE Safe(e)
    <3>1. PICK n : Named(c, n, e) BY <1>13, <2>3
    <3>2. ~Written(e) BY <1>12, WrittenStays DEF Safe
    <3>3. Whole(c, r.main.next, r.main.batches) BY <1>0 DEF Fit
    <3>4. Has(r.main.batches, n, e) BY <1>4, <3>1, <3>2, <3>3 DEF Whole
    <3>5. tab'[t].main = r.main BY <1>0, <1>6, <1>7
    <3>6. QED BY <3>4, <3>5 DEF InTab, EditsIn, Has
  <2>4. QED BY <2>1, <2>2, <2>3
<1>23. ASSUME NEW d \in device', d \notin device
       PROVE  lock[d.client] = t /\ d.client \in Clients /\ MainHeld(d.client)'
  <2>1. d.client = c BY <1>5, <1>9, <1>23
  <2>2. tab'[t].main.client = c BY <1>0, <1>6, <1>7
  <2>3. QED BY <1>4, <2>1, <2>2 DEF MainHeld
<1>24. QED BY <1>3, <1>4, <1>6, <1>11, <1>13, <1>20, <1>21, <1>22, <1>23, MovesStep

\* A closed session owes nothing.
LEMMA FitClosed ==
  ASSUME \A d \in device' : d.client # 0
  PROVE  Fit(Closed)' /\ \A k, n, e : ~Of(Closed, k, n, e)
<1>1. /\ Closed.saved = Nothing(1) /\ Nothing(1).batches = {} /\ Nothing(1).next = 1
  BY DEF Closed, Nothing
<1>2. /\ Closed.phase = "closed" /\ Closed.found = {} /\ Closed.older = {} /\ Closed.main = NoEngine
      /\ Closed.drain = NoEngine /\ Closed.discarded = FALSE /\ Closed.writes = <<>>
      /\ NoEngine.client = 0 /\ NoEngine.batches = {} /\ NoEngine.next = 1
  BY ClosedOK
<1>3. Placed(NoEngine)' /\ Whole(NoEngine.client, NoEngine.next, NoEngine.batches)'
  BY <1>2 DEF Placed, Whole, Clients
<1>4. ToSet(Closed.writes) = {} BY <1>2, NoneIn
<1>5. Fit(Closed)'
  <2>1. /\ \A f \in Closed.found : MainHeld(f.client)' \/ Whole(f.client, f.next, f.batches)'
        /\ \A o \in Closed.older : Whole(o.client, o.next, o.batches)'
        /\ \A b \in Closed.drain.batches : Safe(b.edit)'
        /\ Closed.saved.batches = {}
        /\ Closed.phase # "closing" /\ ~Closed.discarded
    BY <1>1, <1>2
  <2>2. \A h \in {Closed.main, Closed.drain} : Placed(h)' /\ Whole(h.client, h.next, h.batches)' BY <1>2, <1>3
  <2>3. \A w \in ToSet(Closed.writes) \cup {Closed.saved} : w.next <= Closed.main.next
    BY <1>1, <1>2, <1>4
  <2>4. \A d \in device' : d.client # Closed.main.client BY <1>2
  <2>5. /\ \A w \in ToSet(Closed.writes) :
            w.next = Closed.main.next => \A b \in Closed.main.batches : Has(w.batches, b.n, b.edit)
        /\ \A b \in Closed.saved.batches : Safe(b.edit)'
    BY <1>4, <2>1
  <2>6. QED BY <2>1, <2>2, <2>3, <2>4, <2>5 DEF Fit
<1>6. \A k, n, e : ~Of(Closed, k, n, e) BY <1>1, <1>2, <1>4 DEF Of, Has
<1>7. QED BY <1>5, <1>6

\* A session is gone, with what it had in memory: nobody lists the copies.
LEMMA LeaveLedger ==
  ASSUME IInv, Ledger, NEW t \in Tabs, tab' = [tab EXCEPT ![t] = Closed],
         UNCHANGED <<device, log, durable, last, edits, created, waived>>,
         \A u \in Tabs \ {t} : tab[u].phase # "listing",
         \/ tab[t].phase = "listing"
         \/ tab[t].phase \in {"open", "closing"} /\ tab[t].writes = <<>> /\ ~Unsaved(t)
  PROVE  Ledger'
<1> PICK r : r = tab[t] OBVIOUS
<1>0. r \in Session /\ tab \in [Tabs -> Session] /\ Fit(r) /\ Discarded(r) BY DEF IInv, TypeOK, Ledger, Own
<1>1. \A d \in device' : d \in device /\ d \in Copy /\ d.client # 0 /\ d.client \in Clients /\ d.next \in Nat
  <2>1. \A d \in device : d \in Copy BY DEF IInv, TypeOK
  <2>2. QED BY <2>1, CopyFields DEF Clients
<1>2. Fit(Closed)' /\ \A k, n, e : ~Of(Closed, k, n, e) BY <1>1, FitClosed
<1>3. NothingNew(0) BY <1>2, NothingNewBy
<1>4. edits \in Nat /\ created \in Nat BY BoundsAssumption DEF IInv, TypeOK
<1>5. Books' BY <1>3, <1>4, BooksStay
<1>6. Grows /\ Counts BY <1>4, GrowsSame, CountsSame
<1>7. StaysSafe BY <1>6, SafeStays
<1>8. \A u \in Tabs \ {t} : tab[u].found = {} /\ tab'[u] = tab[u] BY <1>0, FoundIs
\* What it had is on the device, or nothing is promised about it.
<1>9. /\ \A b \in r.main.batches \cup r.drain.batches : Safe(b.edit)
      /\ \A d \in device : d.client = r.main.client => Whole(d.client, d.next, d.batches)
  <2>1. CASE r.phase = "listing"
    <3>1. r.main = NoEngine /\ r.drain = NoEngine BY <2>1, ListingIs
    <3>2. QED BY <1>1, <3>1, ClosedOK
  <2>2. CASE r.phase # "listing"
    <3>1. r.writes = <<>> /\ ~Unsaved(t) BY <2>2
    <3>2. \A b \in r.drain.batches : Safe(b.edit) BY <1>0 DEF Fit
    <3>3. CASE r.discarded
      <4>1. \A b \in r.main.batches : Safe(b.edit) BY <1>0, <3>3 DEF Fit, Safe
      <4>2. \A d \in device : d.client # r.main.client BY <1>0, <3>1, <3>3 DEF Discarded
      <4>3. QED BY <3>2, <4>1, <4>2
    <3>4. CASE ~r.discarded
      <4>1. Same(CopyOf(r.main, 0), r.saved) BY <3>1, <3>4 DEF Unsaved, LastSaved
      <4>2. CopyOf(r.main, 0).next = r.main.next
            /\ CopyOf(r.main, 0).batches = {[n |-> b.n, edit |-> b.edit] : b \in r.main.batches}
        BY DEF CopyOf
      <4>3. r.saved.next = r.main.next /\ r.saved.batches = {[n |-> b.n, edit |-> b.edit] : b \in r.main.batches}
        BY <4>1, <4>2 DEF Same
      <4>4. /\ \A b \in r.saved.batches : Safe(b.edit)
            /\ \A d \in device : d.client = r.main.client => Whole(d.client, d.next, d.batches)
        BY <1>0, <3>1, <3>4, <4>3 DEF Fit
      <4>5. ASSUME NEW b \in r.main.batches PROVE Safe(b.edit)
        <5>1. PICK a : a = [n |-> b.n, edit |-> b.edit] OBVIOUS
        <5>2. a \in r.saved.batches /\ a.edit = b.edit BY <4>3, <5>1
        <5>3. QED BY <4>4, <5>2
      <4>6. QED BY <3>2, <4>4, <4>5
    <3>5. QED BY <3>3, <3>4
  <2>3. QED BY <2>1, <2>2
<1>10. Devices'
  <2> SUFFICES ASSUME NEW d \in device PROVE MainHeld(d.client)' \/ Whole(d.client, d.next, d.batches)'
    BY DEF Devices
  <2>1. d.client # 0 /\ d.next \in Nat BY <1>1
  <2>2. CASE d.client = r.main.client
    <3>1. Whole(d.client, d.next, d.batches) BY <1>9, <2>2
    <3>2. QED BY <1>3, <1>6, <2>1, <3>1, WholeStays
  <2>3. CASE d.client # r.main.client
    <3>1. MainHeld(d.client) => MainHeld(d.client)' BY <1>8, <2>3 DEF MainHeld
    <3>2. QED BY <1>3, <1>6, <2>1, <3>1, DeviceStays
  <2>4. QED BY <2>2, <2>3
<1>11. Present'
  <2>1. \A b \in tab[t].main.batches \cup tab[t].drain.batches :
          Safe(b.edit)' \/ b.edit \in EditsIn(Closed.main) \cup EditsIn(Closed.drain)
    BY <1>7, <1>9 DEF StaysSafe
  <2>2. QED BY <1>7, <2>1, PresentStays
<1>12. OneListing' BY ListingStays, ClosedOK
<1>13. \A u \in Tabs \ {t} : \A f \in tab[u].found : f.client = 0 \/ MainHeld(f.client) => MainHeld(f.client)'
  BY <1>8
<1>14. \A d \in device' : d \in device \/ (lock[d.client] = t /\ d.client \in Clients) BY <1>1
<1>15. 0 \in ClientsIn(tab[t]) \cup {0} /\ \A e : Safe(e) => Safe(e)' BY <1>7 DEF StaysSafe
<1>16. QED BY <1>2, <1>3, <1>5, <1>6, <1>10, <1>11, <1>12, <1>13, <1>14, <1>15, ClosedOK, LedgerStep

\* A session that closed has saved all it had.
LEMMA ReleaseLedger ==
  ASSUME IInv, Ledger, NEW t \in Tabs, Release(t) PROVE Ledger'
<1>1. /\ tab[t].phase = "closing" /\ tab[t].writes = <<>> /\ tab' = [tab EXCEPT ![t] = Closed]
      /\ UNCHANGED <<device, log, durable, last, edits, created, waived>>
  BY DEF Release, room
<1>2. \A u \in Tabs \ {t} : tab[u].phase # "listing" BY <1>1 DEF Ledger, OneListing
<1>3. ~Unsaved(t)
  <2>1. Fit(tab[t]) BY DEF Ledger
  <2>2. QED BY <1>1, <2>1 DEF Fit, UnsavedIn, Unsaved, LastSaved
<1>4. QED BY <1>1, <1>2, <1>3, LeaveLedger

\* So has one whose copy was up to date.
LEMMA KillLedger ==
  ASSUME IInv, Ledger, "overlap" \notin Situations, NEW t \in Tabs, Kill(t) PROVE Ledger'
<1>1. /\ tab' = [tab EXCEPT ![t] = Closed]
      /\ UNCHANGED <<device, log, durable, last, edits, created, waived>>
  BY DEF Kill, room
<1>2. tab[t].phase \in {"listing", "open", "closing"} BY SessionFields DEF Kill, IInv, TypeOK
<1>3. \A u \in Tabs \ {t} : tab[u].phase # "listing"
  <2>1. CASE tab[t].phase = "listing" BY <2>1 DEF Ledger, OneListing
  <2>2. CASE tab[t].phase # "listing" BY <2>2 DEF Kill, NoOverlap
  <2>3. QED BY <2>1, <2>2
<1>4. tab[t].phase = "listing" \/ (tab[t].writes = <<>> /\ ~Unsaved(t)) BY DEF Kill
<1>5. QED BY <1>1, <1>2, <1>3, <1>4, LeaveLedger

\* An edit takes the next number of its client, that nothing has.
LEMMA EditLedger == ASSUME IInv, Ledger, NEW t \in Tabs, Edit(t) PROVE Ledger'
<1> PICK r : r = tab[t] OBVIOUS
<1>0. /\ r \in Session /\ Shape(r) /\ tab \in [Tabs -> Session] /\ Fit(r)
      /\ r.phase = "open" /\ r.main.client # 0 /\ r.found = {} /\ ~r.discarded
  BY FoundIs, ZenonT(60) DEF Edit, IInv, TypeOK, Own, Ledger, Shape, Discarded
<1> PICK g : g = r.main OBVIOUS
<1> PICK c : c = g.client OBVIOUS
<1> PICK m : m = g.next OBVIOUS
<1>1. /\ g \in Engine /\ m \in Nat /\ g.batches \subseteq Local /\ c \in Clients /\ c # 0
      /\ Placed(g) /\ Whole(c, m, g.batches) /\ c \in ClientsIn(r)
  BY <1>0, SessionFields, BoundsAssumption DEF Clients, Fit, ClientsIn
<1>2. edits \in Nat /\ created \in Nat BY BoundsAssumption DEF IInv, TypeOK
<1> PICK e0 : e0 = edits + 1 OBVIOUS
<1>3. edits' = e0 /\ e0 \in 1..MaxEdits /\ e0 = edits + 1
  BY <1>2, BoundsAssumption DEF Edit, IInv, TypeOK
<1> PICK b : b = [n |-> m, edit |-> e0, at |-> 0] OBVIOUS
<1>4. b \in Local /\ b.n = m /\ b.edit = e0 /\ b.at = 0 BY <1>1, <1>3 DEF Local
<1> PICK q : q = g.batches \cup {b} OBVIOUS
<1> PICK j : j = m + 1 OBVIOUS
<1>5. j \in Nat /\ j = m + 1 /\ q \subseteq Local BY <1>1, <1>4
<1> PICK h : h = [g EXCEPT !.next = j, !.batches = q] OBVIOUS
<1>6. h \in Engine /\ h.client = c /\ h.next = j /\ h.batches = q BY <1>1, <1>5 DEF Engine
<1> PICK s : s = [r EXCEPT !.main = h] OBVIOUS
<1>7. /\ s \in Session /\ s.phase = r.phase /\ s.found = r.found /\ s.older = r.older
      /\ s.main = h /\ s.drain = r.drain /\ s.discarded = r.discarded
      /\ s.saved = r.saved /\ s.writes = r.writes
  BY <1>0, <1>6, ZenonT(60) DEF Session
<1>8. tab' = [tab EXCEPT ![t] = s]
  <2>1. tab' = [tab EXCEPT ![t].main = [g EXCEPT !.next = m + 1, !.batches = g.batches \cup {b}]]
    BY <1>3 DEF Edit
  <2>2. QED BY <2>1, <1>0
<1>9. UNCHANGED <<device, log, last, durable, created, waived>> BY DEF Edit, room
<1>10. Grows /\ Counts BY <1>2, <1>3, <1>9, GrowsSame, CountsSame
<1>11. StaysSafe BY <1>9, <1>10, SafeStays
\* The only new name.
<1>12. \A k, n, e : Named(k, n, e)' => Named(k, n, e) \/ (k = c /\ n = m /\ e = e0)
  <2>1. ASSUME NEW k, NEW n, NEW e, Of(s, k, n, e) PROVE Of(r, k, n, e) \/ (k = c /\ n = m /\ e = e0)
    <3>1. Has(q, n, e) => Has(g.batches, n, e) \/ (n = m /\ e = e0) BY <1>4 DEF Has
    <3> PICK K : K = r.found \cup r.older \cup ToSet(r.writes) \cup {r.saved} OBVIOUS
    <3>2. s.found \cup s.older \cup ToSet(s.writes) \cup {s.saved} = K BY <1>7
    <3>3. \/ s.main.client = k /\ Has(s.main.batches, n, e)
          \/ s.drain.client = k /\ Has(s.drain.batches, n, e)
          \/ \E z \in K : z.client = k /\ Has(z.batches, n, e)
      BY <2>1, <3>2 DEF Of
    <3>4. CASE s.main.client = k /\ Has(s.main.batches, n, e)
      <4>1. k = c /\ Has(q, n, e) BY <1>6, <1>7, <3>4
      <4>2. CASE Has(g.batches, n, e) BY <4>1, <4>2 DEF Of
      <4>3. CASE n = m /\ e = e0 BY <4>1, <4>3
      <4>4. QED BY <3>1, <4>1, <4>2, <4>3
    <3>5. CASE s.drain.client = k /\ Has(s.drain.batches, n, e) BY <1>7, <3>5 DEF Of
    <3>6. CASE \E z \in K : z.client = k /\ Has(z.batches, n, e) BY <3>6 DEF Of
    <3>7. QED BY <3>3, <3>4, <3>5, <3>6
  <2> SUFFICES ASSUME NEW k, NEW n, NEW e, Named(k, n, e)' PROVE Named(k, n, e) \/ (k = c /\ n = m /\ e = e0)
    OBVIOUS
  <2>2. CASE Recorded(k, n, e)' BY <1>9, <2>2 DEF Named, Recorded
  <2>3. CASE ~Recorded(k, n, e)'
    <3>1. PICK u \in Tabs : \A z : z = tab'[u] => Of(z, k, n, e) BY <2>3 DEF Named, Of
    <3>2. CASE u = t
      <4>1. Of(s, k, n, e) BY <1>0, <1>8, <3>1, <3>2
      <4>2. QED BY <2>1, <4>1, NamedOf
    <3>3. CASE u # t
      <4>1. Of(tab[u], k, n, e) BY <1>0, <1>8, <3>1, <3>3
      <4>2. QED BY <4>1, NamedOf
    <3>4. QED BY <3>2, <3>3
  <2>4. QED BY <2>2, <2>3
<1>13. NothingNew(c) BY <1>1, <1>12 DEF NothingNew
\* Nothing had this number, or this edit.
<1>14. /\ last[c] < m /\ last[c] \in Nat
       /\ \A n, e : Named(c, n, e) => n < m /\ (Has(g.batches, n, e) \/ Written(e))
  BY <1>1 DEF Whole, IInv, TypeOK
<1>15. \A k, n, e : Named(k, n, e) => n \in Nat /\ e \in 1..MaxEdits /\ e <= edits /\ n > 0
  BY NamedTypes DEF Ledger, Books, Counted
<1>16. \A i \in DOMAIN log : log[i] \in Nat /\ log[i] <= edits
  <2>1. \A i \in 1..Len(log) : log[i] \in 1..MaxEdits
    <3>1. log \in Seq(1..MaxEdits) BY DEF IInv, TypeOK
    <3>2. QED BY <3>1, ElementOfSeq
  <2>2. \A i \in DOMAIN log : log[i] <= edits BY DEF Ledger, Books, Logged
  <2>3. QED BY <2>1, <2>2, Lengths
<1>17. Books'
  <2>1. Numbers'
    <3>1. \A n, e : ~Named(c, m, e) /\ (\A k : ~Named(k, n, e0)) BY <1>1, <1>2, <1>3, <1>14, <1>15
    <3>2. QED BY <1>12, <3>1 DEF Ledger, Books, Numbers
  <2>2. Counted'
    <3>1. ~InLog(e0) /\ ~(m <= last[c]) /\ m > 0 BY <1>1, <1>2, <1>3, <1>14, <1>16 DEF InLog
    <3>2. \A e : InLog(e)' <=> InLog(e) BY <1>9 DEF InLog
    <3>3. ASSUME NEW k, NEW n, NEW e, Named(k, n, e)'
          PROVE  n > 0 /\ e <= edits' /\ (InLog(e)' <=> n <= last'[k])
      <4>1. CASE Named(k, n, e)
        <5>1. n > 0 /\ e <= edits /\ (InLog(e) <=> n <= last[k]) BY <4>1 DEF Ledger, Books, Counted
        <5>2. e <= edits' BY <1>2, <1>3, <1>15, <4>1
        <5>3. QED BY <1>9, <3>2, <5>1, <5>2
      <4>2. CASE k = c /\ n = m /\ e = e0 BY <1>3, <1>9, <3>1, <3>2, <4>2
      <4>3. QED BY <1>12, <3>3, <4>1, <4>2
    <3>4. QED BY <3>3 DEF Counted
  <2>3. Logged' BY <1>2, <1>3, <1>9, <1>16 DEF Logged
  <2>4. Fresh' /\ AppliedOnce' BY <1>9 DEF Ledger, Books, Fresh, AppliedOnce
  <2>5. QED BY <2>1, <2>2, <2>3, <2>4 DEF Books
<1>18. \A k : MainHeld(k) => MainHeld(k)'
  <2>1. \A u \in Tabs : tab'[u].main.client = tab[u].main.client BY <1>0, <1>6, <1>7, <1>8
  <2>2. QED BY <2>1 DEF MainHeld
<1>19. MainHeld(c)' BY <1>0, <1>6, <1>7, <1>8 DEF MainHeld
<1>20. Devices' BY <1>9, <1>10, <1>13, <1>18, <1>19, DeviceStays DEF Devices
<1>21. Whole(c, j, q)'
  <2> SUFFICES /\ last'[c] < j
               /\ \A n, e : Named(c, n, e)' => n < j /\ (Has(q, n, e) \/ Written(e)')
    BY DEF Whole
  <2>1. last'[c] < j BY <1>1, <1>5, <1>9, <1>14
  <2>2. ASSUME NEW n, NEW e, Named(c, n, e)' PROVE n < j /\ (Has(q, n, e) \/ Written(e)')
    <3>1. CASE Named(c, n, e)
      <4>1. n < m /\ n \in Nat /\ (Has(g.batches, n, e) \/ Written(e)) BY <1>14, <1>15, <3>1
      <4>2. Has(g.batches, n, e) => Has(q, n, e) BY DEF Has
      <4>3. QED BY <1>1, <1>5, <1>10, <4>1, <4>2, WrittenStays
    <3>2. CASE n = m /\ e = e0
      <4>1. Has(q, n, e) BY <1>4, <3>2 DEF Has
      <4>2. QED BY <1>1, <1>5, <3>2, <4>1
    <3>3. QED BY <1>12, <2>2, <3>1, <3>2
  <2>3. QED BY <2>1, <2>2
<1>22. Placed(h)'
  <2>1. Placed(g)' BY <1>1, <1>10, PlacedStays
  <2>2. QED BY <1>4, <1>6, <2>1 DEF Placed
<1>23. Placed(r.drain)' /\ Whole(r.drain.client, r.drain.next, r.drain.batches)'
  <2>1. /\ r.drain \in Engine /\ r.drain.next \in Nat
        /\ Placed(r.drain) /\ Whole(r.drain.client, r.drain.next, r.drain.batches)
    BY <1>0, SessionFields DEF Fit
  <2>2. CASE r.drain.client = 0 BY <1>10, <2>1, <2>2, PlacedStays DEF Whole, Clients
  <2>3. CASE r.drain.client # 0
    <3>1. r.drain.client # c BY <1>0, <2>3 DEF Shape
    <3>2. QED BY <1>10, <1>13, <2>1, <3>1, PlacedStays, WholeStays
  <2>4. QED BY <2>2, <2>3
<1>24. ASSUME NEW o \in r.older PROVE Whole(o.client, o.next, o.batches)'
  <2>1. o.next \in Nat /\ o.client # c /\ Whole(o.client, o.next, o.batches)
    BY <1>0, SessionFields, CopyFields DEF Shape, Fit
  <2>2. QED BY <1>10, <1>13, <2>1, WholeStays
<1>25. \A w \in ToSet(r.writes) \cup {r.saved} : w.next <= j /\ w.next # j
  <2>1. \A w \in ToSet(r.writes) \cup {r.saved} : w.next <= m BY <1>0 DEF Fit
  <2>2. \A w \in ToSet(r.writes) \cup {r.saved} : w.next \in Nat
    <3> PICK z : z = r.writes OBVIOUS
    <3>1. z \in Seq(Copy) /\ r.saved \in Copy BY <1>0, SessionFields
    <3>2. ToSet(z) \subseteq Copy BY <3>1 DEF ToSet
    <3>3. QED BY <3>1, <3>2, CopyFields
  <2>3. QED BY <1>1, <1>5, <2>1, <2>2
<1>26. Fit(s)'
  <2>1. /\ \A f \in s.found : MainHeld(f.client)' \/ Whole(f.client, f.next, f.batches)'
        /\ \A o \in s.older : Whole(o.client, o.next, o.batches)'
        /\ \A k \in {s.main, s.drain} : Placed(k)' /\ Whole(k.client, k.next, k.batches)'
    BY <1>0, <1>6, <1>7, <1>21, <1>22, <1>23, <1>24
  <2>2. \A b1 \in s.drain.batches : Safe(b1.edit)' BY <1>0, <1>7, <1>11 DEF Fit, StaysSafe
  <2>3. s.saved.batches # {} => s.saved.client = s.main.client
    <3>1. r.saved.batches # {} => r.saved.client = r.main.client BY <1>0 DEF Fit
    <3>2. s.saved = r.saved /\ s.main = h /\ h.client = r.main.client BY <1>6, <1>7
    <3>3. QED BY <3>1, <3>2
  <2>4. ~s.discarded /\ s.phase # "closing" BY <1>0, <1>7
  <2>5. \A w \in ToSet(s.writes) \cup {s.saved} : w.next <= s.main.next /\ w.next # s.main.next
    <3>1. ToSet(s.writes) \cup {s.saved} = ToSet(r.writes) \cup {r.saved} /\ s.main.next = j BY <1>6, <1>7
    <3>2. QED BY <1>25, <3>1
  <2>6. s.writes = <<>> => \A b1 \in s.saved.batches : Safe(b1.edit)'
    BY <1>0, <1>7, <1>11 DEF Fit, StaysSafe
  <2>7. QED BY <2>1, <2>2, <2>3, <2>4, <2>5, <2>6 DEF Fit
<1>27. OneListing' BY <1>7, <1>8, ListingStays
<1>28. Present'
  <2> SUFFICES ASSUME NEW e \in 1..edits', ~Safe(e)' PROVE InTab(e)' BY DEF Present
  <2>1. CASE e = e0
    <3>1. b \in tab'[t].main.batches BY <1>0, <1>6, <1>7, <1>8
    <3>2. QED BY <1>4, <2>1, <3>1 DEF InTab, EditsIn
  <2>2. CASE e # e0
    <3>1. InTab(e) BY <1>2, <1>3, <1>11, <2>2 DEF Ledger, Present, StaysSafe
    <3>2. \A u \in Tabs : tab[u].main.batches \subseteq tab'[u].main.batches /\ tab'[u].drain = tab[u].drain
      BY <1>0, <1>6, <1>7, <1>8
    <3>3. QED BY <3>1, <3>2 DEF InTab, EditsIn
  <2>3. QED BY <2>1, <2>2
<1>29. \A u \in Tabs \ {t} : \A f \in tab[u].found : f.client = c \/ MainHeld(f.client) => MainHeld(f.client)'
  BY <1>18, <1>19
<1>30. \A d \in device' : d \in device \/ (lock[d.client] = t /\ d.client \in Clients) BY <1>9
<1>31. 0 \in ClientsIn(tab[t]) \cup {0} /\ \A e : Safe(e) => Safe(e)' BY <1>11 DEF StaysSafe
<1>32. QED BY <1>1, <1>7, <1>8, <1>10, <1>13, <1>17, <1>20, <1>26, <1>27, <1>28, <1>29, <1>30, <1>31, LedgerStep

\* The room applies a batch, or had applied it already; a connection goes on.
LEMMA SentLedger ==
  ASSUME IInv, Ledger, NEW t \in Tabs, NEW slot \in Slots, MaySend(t, slot), NEW g, g = tab[t][slot],
         NEW b, b = FirstPending(g), Apply(g.client, b), NEW h \in Engine, tab' = [tab EXCEPT ![t][slot] = h],
         Shrinks(h, g), Placed(h)', UNCHANGED <<device, durable, edits, created, waived>>
  PROVE  Ledger'
<1> PICK r : r = tab[t] OBVIOUS
<1>0. r \in Session /\ r.phase = "open" /\ Fit(r) /\ tab \in [Tabs -> Session]
  BY DEF IInv, TypeOK, MaySend, Connected, Ledger
<1> PICK c : c = g.client OBVIOUS
<1>1. g \in Engine /\ c # 0 /\ Connected(t, slot) /\ Pending(g) # {}
  BY EngineOf DEF MaySend, Connected
<1>2. b \in g.batches /\ b.at = 0 /\ b \in Local /\ \A o \in g.batches : o.at = 0 => b.n <= o.n
  BY <1>1, FirstPendingIs DEF Pending, Engine
<1>3. c \in Clients /\ c \in ClientsIn(r) BY <1>1, BoundsAssumption DEF Engine, Clients, ClientsIn, Slots
<1>4. /\ log' \in Seq(1..MaxEdits) /\ last' \in [Clients -> Nat]
      /\ Len(log') \in Nat /\ Len(log) \in Nat /\ Len(log) <= Len(log')
      /\ \A i \in 1..Len(log) : log'[i] = log[i]
      /\ \/ b.n <= last[c] /\ log' = log /\ last' = last
         \/ /\ b.n > last[c] /\ last' = [last EXCEPT ![c] = b.n]
            /\ Len(log') = Len(log) + 1 /\ log'[Len(log')] = b.edit
  BY <1>2, <1>3, ApplyIs
<1>5. edits \in Nat /\ created \in Nat /\ last \in [Clients -> Nat] /\ b.n \in Nat
  BY <1>2, BoundsAssumption DEF IInv, TypeOK, Local
<1>6. Named(c, b.n, b.edit)
  <2>1. Of(r, c, b.n, b.edit) BY <1>2 DEF Of, Has, Slots
  <2>2. QED BY <2>1, NamedOf
<1>7. Grows BY <1>4, <1>5, Lengths DEF Grows
<1>8. Counts
  <2> SUFFICES ASSUME NEW k \in Clients
               PROVE  /\ last'[k] \in Nat /\ last[k] <= last'[k]
                      /\ last'[k] = last[k] \/ \E e : Named(k, last'[k], e)
    BY DEF Counts
  <2>1. CASE last' = last BY <1>5, <2>1
  <2>2. CASE b.n > last[c] /\ last' = [last EXCEPT ![c] = b.n]
    <3>1. CASE k = c BY <1>3, <1>5, <1>6, <2>2, <3>1
    <3>2. CASE k # c BY <1>5, <2>2, <3>2
    <3>3. QED BY <3>1, <3>2
  <2>3. QED BY <1>4, <2>1, <2>2
<1>9. StaysSafe BY <1>7, SafeStays
<1>10. PICK s \in Session :
           /\ tab' = [tab EXCEPT ![t] = s]
           /\ Alike(s, r)
           /\ \/ slot = "main" /\ s.main = h /\ s.drain = r.drain
              \/ slot = "drain" /\ s.drain = h /\ s.main = r.main
  <2>1. Shrinks(h, tab[t][slot]) OBVIOUS
  <2>2. PICK a \in BOOLEAN : a = FALSE OBVIOUS
  <2>3. tab' = [tab EXCEPT ![t][slot] = h, ![t].armed = a] \/ tab' = [tab EXCEPT ![t][slot] = h] OBVIOUS
  <2>4. \E s \in Session :
           /\ tab' = [tab EXCEPT ![t] = s]
           /\ Alike(s, tab[t])
           /\ \/ slot = "main" /\ s.main = h /\ s.drain = tab[t].drain
              \/ slot = "drain" /\ s.drain = h /\ s.main = tab[t].main
    BY <2>1, <2>2, <2>3, SlotIs
  <2>5. QED BY <2>4
<1>11. \A k, n, e : Of(s, k, n, e) => Named(k, n, e) BY <1>10, AlikeOf, NamedOf
<1>12. NothingNew(0) BY <1>10, <1>11, NothingNewBy
<1>13. s.main.client = r.main.client /\ s.phase = r.phase BY <1>10 DEF Alike, Shrinks
<1>14. \A k \in Clients : MainHeld(k) => MainHeld(k)' BY <1>10, <1>13, HeldStays
\* What is numbered up to this batch is in the log.
<1>15. ASSUME b.n > last[c], NEW n, NEW e, Named(c, n, e), n <= b.n, ~(n <= last[c])
       PROVE  e = b.edit
  <2>1. n \in Nat /\ ~InLog(e) BY <1>15, NamedTypes DEF Ledger, Books, Counted
  <2>2. ~Written(e) BY <2>1, Lengths DEF Written, InLog
  <2>3. Whole(c, g.next, g.batches) /\ Placed(g) BY <1>0 DEF Fit, Slots
  <2>4. Has(g.batches, n, e) BY <1>3, <1>15, <2>2, <2>3 DEF Whole
  <2>5. PICK a \in g.batches : a.n = n /\ a.edit = e BY <2>4 DEF Has
  <2>6. a.at = 0
    <3> SUFFICES ASSUME a.at # 0 PROVE FALSE OBVIOUS
    <3>1. PICK i \in 1..a.at : i <= Len(log) /\ log[i] = e BY <2>3, <2>5 DEF Placed
    <3>2. a.at \in Nat BY <1>1 DEF Engine, Local
    <3>3. i \in DOMAIN log BY <3>1, <3>2, Lengths
    <3>4. QED BY <2>1, <3>1, <3>3 DEF InLog
  <2>7. n = b.n BY <1>2, <1>5, <1>15, <2>1, <2>5, <2>6
  <2>8. QED BY <1>6, <1>15, <2>7 DEF Ledger, Books, Numbers
<1>16. \A k, n, e : Named(k, n, e) => n \in Nat /\ e \in 1..MaxEdits /\ e <= edits /\ n > 0
                                      /\ (InLog(e) <=> n <= last[k])
  BY NamedTypes DEF Ledger, Books, Counted
<1>17. Books'
  <2>1. CASE log' = log /\ last' = last BY <1>5, <1>12, <2>1, BooksStay
  <2>2. CASE /\ b.n > last[c] /\ last' = [last EXCEPT ![c] = b.n]
             /\ Len(log') = Len(log) + 1 /\ log'[Len(log')] = b.edit
    <3>1. DOMAIN log = 1..Len(log) /\ DOMAIN log' = 1..Len(log') BY <1>4, Lengths
    <3>2. \A e : InLog(e)' <=> InLog(e) \/ e = b.edit
      <4>1. \A i \in 1..Len(log') : i \in 1..Len(log) \/ i = Len(log') BY <1>4, <2>2
      <4>2. Len(log') \in 1..Len(log') /\ \A i \in 1..Len(log) : i \in 1..Len(log') BY <1>4, <2>2
      <4>3. QED BY <1>4, <2>2, <3>1, <4>1, <4>2 DEF InLog
    <3>3. ~InLog(b.edit) BY <1>3, <1>5, <1>6, <1>16, <2>2
    <3>4. Numbers' BY <1>12 DEF Ledger, Books, Numbers, NothingNew
    <3>5. Counted'
      <4> SUFFICES ASSUME NEW k, NEW n, NEW e, Named(k, n, e)'
                   PROVE  n > 0 /\ e <= edits' /\ (InLog(e)' <=> n <= last'[k])
        BY DEF Counted
      <4>1. Named(k, n, e) BY <1>12 DEF NothingNew
      <4>2. n \in Nat /\ n > 0 /\ e <= edits /\ (InLog(e) <=> n <= last[k]) BY <1>16, <4>1
      <4>3. CASE k = c
        <5>1. last'[k] = b.n /\ last[k] \in Nat BY <1>3, <1>5, <2>2, <4>3
        <5>2. n <= last[k] => n <= b.n BY <1>3, <1>5, <2>2, <4>2, <4>3
        <5>3. e = b.edit => n = b.n BY <1>6, <4>1 DEF Ledger, Books, Numbers
        <5>4. n <= b.n => InLog(e) \/ e = b.edit BY <1>15, <2>2, <4>1, <4>2, <4>3
        <5>5. b.n <= b.n BY <1>5
        <5>6. InLog(e)' => n <= b.n BY <3>2, <4>2, <5>2, <5>3, <5>5
        <5>7. QED BY <3>2, <4>2, <5>1, <5>4, <5>6
      <4>4. CASE k # c
        <5>1. e # b.edit BY <1>6, <4>1, <4>4 DEF Ledger, Books, Numbers
        <5>2. last'[k] = last[k]
          <6>1. last' = [last EXCEPT ![c] = b.n] BY <2>2
          <6>2. QED BY <4>4, <6>1
        <5>3. QED BY <3>2, <4>2, <5>1, <5>2
      <4>5. QED BY <4>3, <4>4
    <3>6. Logged'
      <4>1. \A i \in 1..Len(log) : log[i] <= edits BY <3>1 DEF Ledger, Books, Logged
      <4>2. b.edit <= edits BY <1>6, <1>16
      <4>3. \A i \in 1..Len(log') : i \in 1..Len(log) \/ i = Len(log') BY <1>4, <2>2
      <4>4. \A i \in 1..Len(log') : log'[i] <= edits BY <1>4, <2>2, <4>1, <4>2, <4>3
      <4>5. QED BY <3>1, <4>4 DEF Logged
    <3>7. Fresh'
      <4>1. c <= created BY <1>3 DEF IInv, Own, Created
      <4>2. c \in Nat BY <1>3 DEF Clients
      <4> SUFFICES ASSUME NEW k \in Clients, k > created PROVE last'[k] = 0 BY DEF Fresh
      <4>3. k # c BY <1>5, <4>1, <4>2 DEF Clients
      <4>4. last'[k] = last[k] BY <1>5, <2>2, <4>3
      <4>5. QED BY <4>4 DEF Ledger, Books, Fresh
    <3>8. AppliedOnce'
      <4> SUFFICES ASSUME NEW i \in 1..Len(log'), NEW j \in 1..Len(log'), i # j PROVE log'[i] # log'[j]
        BY <3>1 DEF AppliedOnce
      <4>1. \A k \in 1..Len(log') : k \in 1..Len(log) \/ k = Len(log') BY ONLY <1>4, <2>2
      <4>2. \A k \in 1..Len(log) : log'[k] = log[k] /\ log'[k] # b.edit
        <5>1. \A k \in 1..Len(log) : log'[k] = log[k] BY ONLY <1>4
        <5>2. \A k \in 1..Len(log) : log[k] # b.edit BY <3>1, <3>3 DEF InLog
        <5>3. QED BY ONLY <5>1, <5>2
      <4>3. \A k, l \in 1..Len(log) : k # l => log[k] # log[l] BY <3>1 DEF Ledger, Books, AppliedOnce
      <4>4. QED BY <2>2, <4>1, <4>2, <4>3
    <3>9. QED BY <3>4, <3>5, <3>6, <3>7, <3>8 DEF Books
  <2>3. QED BY <1>4, <2>1, <2>2
<1>18. Devices'
  <2> SUFFICES ASSUME NEW d \in device PROVE MainHeld(d.client)' \/ Whole(d.client, d.next, d.batches)'
    BY DEF Devices
  <2>1. d.client \in Clients /\ d.client # 0 BY CopyFields DEF IInv, TypeOK, Clients
  <2>2. QED BY <1>7, <1>8, <1>12, <1>14, <2>1, DeviceStays
<1>19. \A u \in Tabs : \A f \in tab[u].found : f.client = 0 \/ MainHeld(f.client) => MainHeld(f.client)'
  BY <1>14, FoundCopies
<1>20. Fit(r)'
  <2>1. \A d \in device' : d.client = r.main.client => d \in device OBVIOUS
  <2>2. \A z \in r.drain.batches \cup r.saved.batches : Safe(z.edit) => Safe(z.edit)' BY <1>9 DEF StaysSafe
  <2>3. \A f \in r.found : f.client = 0 \/ MainHeld(f.client) => MainHeld(f.client)' BY <1>19
  <2>4. QED BY <1>0, <1>7, <1>8, <1>12, <2>1, <2>2, <2>3, FitStays
<1>21. Placed(s.main)' /\ Placed(s.drain)'
  <2>1. Placed(r.main)' /\ Placed(r.drain)' BY <1>20 DEF Fit
  <2>2. QED BY <1>10, <2>1
<1>22. Fit(s)' BY <1>0, <1>10, <1>13, <1>20, <1>21, ShrunkFit
<1>23. OneListing' BY <1>10, <1>13, ListingStays
<1>24. Present'
  <2>1. \A z \in r.main.batches \cup r.drain.batches :
         Safe(z.edit)' \/ z.edit \in EditsIn(s.main) \cup EditsIn(s.drain)
    <3>1. Shrinks(s.main, r.main) /\ Shrinks(s.drain, r.drain) BY <1>10 DEF Alike
    <3>2. QED BY <3>1 DEF Shrinks, Has, EditsIn, Safe
  <2>2. QED BY <1>9, <1>10, <2>1, PresentStays
<1>25. \A d \in device' : d \in device \/ (lock[d.client] = t /\ d.client \in Clients) OBVIOUS
<1>26. 0 \in ClientsIn(tab[t]) \cup {0} /\ \A e : Safe(e) => Safe(e)' BY <1>9 DEF StaysSafe
<1>27. QED BY <1>7, <1>8, <1>10, <1>12, <1>17, <1>18, <1>19, <1>22, <1>23, <1>24, <1>25, <1>26, LedgerStep

\* A batch is sent and acknowledged: it stays until it is written.
LEMMA SendLedger == ASSUME IInv, Ledger, NEW t \in Tabs, NEW slot \in Slots, Send(t, slot) PROVE Ledger'
<1> PICK g : g = tab[t][slot] OBVIOUS
<1>1. g \in Engine /\ g.client # 0 /\ MaySend(t, slot) /\ Pending(g) # {}
  BY EngineOf DEF Send, MaySend, Connected
<1> PICK b : b = FirstPending(g) OBVIOUS
<1>2. b \in g.batches /\ b.at = 0 /\ b \in Local /\ b.n \in Nat
  BY <1>1, FirstPendingIs DEF Pending, Engine, Local
<1>3. g.client \in Clients BY <1>1, BoundsAssumption DEF Engine, Clients
<1>4. Apply(g.client, b) BY DEF Send
<1>5. PICK n \in Nat : n = Len(log') BY <1>2, <1>3, <1>4, ApplyIs
<1> PICK z : z = [b EXCEPT !.at = n] OBVIOUS
<1>6. z \in Local /\ z.n = b.n /\ z.edit = b.edit /\ z.at = n BY <1>2, <1>5 DEF Local
<1> PICK q : q = (g.batches \ {b}) \cup {z} OBVIOUS
<1>7. q \in SUBSET Local BY <1>1, <1>6 DEF Engine
<1> PICK h : h = [g EXCEPT !.batches = q] OBVIOUS
<1>8. h \in Engine /\ h.client = g.client /\ h.next = g.next /\ h.batches = q BY <1>1, <1>7 DEF Engine
<1>9. tab' = [tab EXCEPT ![t][slot] = h]
  <2>1. tab' = [tab EXCEPT ![t][slot].batches = q] BY <1>5 DEF Send
  <2>2. QED BY <2>1, EngineOf DEF Slots, Session, Engine
<1>10. Shrinks(h, g)
  <2>1. \A k \in q : \E a \in g.batches : a.n = k.n /\ a.edit = k.edit BY <1>2, <1>6
  <2>2. \A a \in g.batches : Has(q, a.n, a.edit) BY <1>6 DEF Has
  <2>3. QED BY <1>8, <2>1, <2>2 DEF Shrinks
<1>11. UNCHANGED <<device, durable, edits, created, waived>> BY DEF Send
<1>12. /\ log' \in Seq(1..MaxEdits) /\ Len(log') \in Nat /\ Len(log) \in Nat /\ Len(log) <= Len(log')
       /\ \A i \in 1..Len(log) : log'[i] = log[i]
       /\ \/ b.n <= last[g.client] /\ log' = log
          \/ Len(log') = Len(log) + 1 /\ log'[Len(log')] = b.edit
  BY <1>2, <1>3, <1>4, ApplyIs
<1>13. edits \in Nat BY BoundsAssumption DEF IInv, TypeOK
<1>14. Placed(h)'
  <2>1. Placed(g) BY DEF Ledger, Fit, Slots
  <2>2. Grows BY <1>11, <1>12, <1>13, Lengths DEF Grows
  <2>3. Placed(g)' BY <1>1, <2>1, <2>2, PlacedStays
  <2>4. \E i \in 1..Len(log') : log'[i] = b.edit
    <3>1. CASE b.n <= last[g.client] /\ log' = log
      <4>1. Of(tab[t], g.client, b.n, b.edit) BY <1>2 DEF Of, Has, Slots
      <4>2. Named(g.client, b.n, b.edit) BY <4>1, NamedOf
      <4>3. InLog(b.edit) BY <3>1, <4>2 DEF Ledger, Books, Counted
      <4>4. QED BY <3>1, <4>3, Lengths DEF InLog
    <3>2. CASE Len(log') = Len(log) + 1 /\ log'[Len(log')] = b.edit
      <4>1. Len(log') \in 1..Len(log') BY <1>12, <3>2
      <4>2. QED BY <3>2, <4>1
    <3>3. QED BY <1>12, <3>1, <3>2
  <2>5. \E i \in 1..z.at : i <= Len(log') /\ log'[i] = z.edit BY <1>5, <1>6, <2>4
  <2>6. QED BY <1>8, <2>3, <2>5 DEF Placed
<1>15. QED BY <1>1, <1>4, <1>8, <1>9, <1>10, <1>11, <1>14, SentLedger

\* A batch is applied and the answer lost: its number is counted.
LEMMA SendUnansweredLedger ==
  ASSUME IInv, Ledger, NEW t \in Tabs, NEW slot \in Slots, SendUnanswered(t, slot) PROVE Ledger'
<1> PICK g : g = tab[t][slot] OBVIOUS
<1>1. g \in Engine /\ g.client # 0 /\ MaySend(t, slot) /\ Pending(g) # {}
  BY EngineOf DEF SendUnanswered, MaySend, Connected
<1> PICK b : b = FirstPending(g) OBVIOUS
<1>2. b \in Local BY <1>1, FirstPendingIs DEF Pending, Engine
<1>3. g.client \in Clients BY <1>1, BoundsAssumption DEF Engine, Clients
<1>4. Apply(g.client, b) BY DEF SendUnanswered
<1> PICK h : h = [g EXCEPT !.on = FALSE] OBVIOUS
<1>5. h \in Engine /\ h.client = g.client /\ h.next = g.next /\ h.batches = g.batches BY <1>1 DEF Engine
<1>6. tab' = [tab EXCEPT ![t][slot] = h]
  BY EngineOf DEF SendUnanswered, Slots, Session, Engine
<1>7. Shrinks(h, g) BY <1>5 DEF Shrinks, Has
<1>8. UNCHANGED <<device, durable, edits, created, waived>> BY DEF SendUnanswered
<1>9. /\ log' \in Seq(1..MaxEdits) /\ Len(log') \in Nat /\ Len(log) \in Nat /\ Len(log) <= Len(log')
      /\ \A i \in 1..Len(log) : log'[i] = log[i]
  BY <1>2, <1>3, <1>4, ApplyIs
<1>10. edits \in Nat BY BoundsAssumption DEF IInv, TypeOK
<1>11. Placed(h)'
  <2>1. Placed(g) BY DEF Ledger, Fit, Slots
  <2>2. Grows BY <1>8, <1>9, <1>10, Lengths DEF Grows
  <2>3. Placed(g)' BY <1>1, <2>1, <2>2, PlacedStays
  <2>4. QED BY <1>5, <2>3 DEF Placed
<1>12. QED BY <1>1, <1>4, <1>5, <1>6, <1>7, <1>8, <1>11, SentLedger

\* Whatever is named is of a client that was created.
LEMMA NamedCreated ==
  ASSUME IInv, Ledger, NEW k, NEW n, NEW e, Named(k, n, e)
  PROVE  k <= created
<1>0. created \in Nat BY BoundsAssumption DEF IInv, TypeOK
<1>1. CASE Recorded(k, n, e) BY <1>1 DEF Recorded, IInv, Own
<1>2. CASE ~Recorded(k, n, e)
  <2>1. PICK u \in Tabs : Of(tab[u], k, n, e) BY <1>2 DEF Named
  <2> PICK r : r = tab[u] OBVIOUS
  <2>2. r \in Session /\ Shape(r) /\ Created(r) /\ Fit(r) BY DEF IInv, TypeOK, Own, Ledger
  <2>3. \A c \in {r.main.client, r.drain.client} \cup {o.client : o \in r.older} : c <= created
    BY <1>0, <2>2 DEF Created, ClientsIn
  <2>4. \A w \in ToSet(r.writes) : w.client = r.main.client BY <2>2 DEF Shape
  <2>5. Has(r.saved.batches, n, e) => r.saved.client = r.main.client BY <2>2 DEF Fit, Has
  <2>6. \A f \in r.found : f.client <= created BY <2>2 DEF Created
  <2>7. QED BY <2>1, <2>3, <2>4, <2>5, <2>6 DEF Of
<1>3. QED BY <1>1, <1>2

\* Nothing is there of a client that was not created.
LEMMA StartFreshLedger == ASSUME IInv, Ledger, NEW t \in Tabs, StartFresh(t) PROVE Ledger'
<1> PICK r : r = tab[t] OBVIOUS
<1>0. /\ r \in Session /\ r.phase = "listing" /\ r.found = {} /\ r.older = {} /\ tab \in [Tabs -> Session]
      /\ r.main = NoEngine /\ r.drain = NoEngine
  BY ListingIs DEF StartFresh, IInv, TypeOK
<1>1. PICK c \in Clients : c = created' /\ created' = created + 1
  BY BoundsAssumption DEF StartFresh, IInv, TypeOK, Clients
<1>2. created \in Nat /\ c \in 1..NClients /\ c # 0 /\ c > created /\ ~(c <= created) /\ edits \in Nat
  BY <1>1, BoundsAssumption DEF IInv, TypeOK, Clients
<1> PICK e : e = [NoEngine EXCEPT !.client = c] OBVIOUS
<1>3. e \in Engine /\ e.client = c /\ e.next = 1 /\ e.batches = {}
  <2>1. NoEngine \in Engine /\ NoEngine.next = 1 /\ NoEngine.batches = {} /\ c \in 0..NClients BY <1>2, ClosedOK
  <2>2. QED BY <2>1 DEF Engine
<1> PICK s : s = [Closed EXCEPT !.phase = "open", !.main = e] OBVIOUS
<1>4. /\ s \in Session /\ s.phase = "open" /\ s.main = e /\ s.older = {} /\ s.found = {}
      /\ s.drain = NoEngine /\ s.writes = <<>> /\ s.discarded = FALSE /\ s.saved = Closed.saved
  BY <1>3, ClosedOK DEF Session
<1>5. Closed.saved.batches = {} /\ Closed.saved.next = 1 BY DEF Closed, Nothing
<1>6. tab' = [tab EXCEPT ![t] = s] BY <1>1 DEF StartFresh
<1>7. UNCHANGED <<device, log, last, durable, edits, waived>> BY DEF StartFresh, room
<1>8. ToSet(s.writes) = {} BY <1>4, NoneIn
<1>9. \A k, n, f : ~Of(s, k, n, f)
  BY <1>3, <1>4, <1>5, <1>8, ClosedOK DEF Of, Has
<1>10. NothingNew(0) BY <1>6, <1>7, <1>9, NothingNewBy
<1>11. Grows /\ Counts BY <1>2, <1>7, GrowsSame, CountsSame
<1>12. StaysSafe BY <1>7, <1>11, SafeStays
<1>13. Books' BY <1>1, <1>2, <1>7, <1>10, BooksStay
<1>14. \A k \in Clients : MainHeld(k) => MainHeld(k)' BY <1>0, <1>6, ClosedOK, HeldStays
<1>15. Devices'
  <2> SUFFICES ASSUME NEW d \in device PROVE MainHeld(d.client)' \/ Whole(d.client, d.next, d.batches)'
    BY <1>7 DEF Devices
  <2>1. d.client \in Clients /\ d.client # 0 BY CopyFields DEF IInv, TypeOK, Clients
  <2>2. QED BY <1>10, <1>11, <1>14, <2>1, DeviceStays
<1>16. Whole(c, 1, {})'
  <2>1. last'[c] = 0 BY <1>2, <1>7 DEF Ledger, Books, Fresh
  <2>2. \A n, f : ~Named(c, n, f)' BY <1>2, <1>10, NamedCreated DEF NothingNew
  <2>3. last'[c] < 1 BY <2>1
  <2>4. QED BY <2>2, <2>3 DEF Whole
<1>17. Placed(e)' /\ Placed(NoEngine)' /\ Whole(NoEngine.client, NoEngine.next, NoEngine.batches)'
  BY <1>3, ClosedOK DEF Placed, Whole, Clients
<1>18. Fit(s)'
  <2>1. /\ \A f \in s.found : MainHeld(f.client)' \/ Whole(f.client, f.next, f.batches)'
        /\ \A o \in s.older : Whole(o.client, o.next, o.batches)'
        /\ \A b \in s.drain.batches : Safe(b.edit)'
        /\ s.saved.batches = {} /\ ~s.discarded /\ s.phase # "closing"
    BY <1>4, <1>5, ClosedOK
  <2>2. \A k \in {s.main, s.drain} : Placed(k)' /\ Whole(k.client, k.next, k.batches)'
    BY <1>3, <1>4, <1>16, <1>17
  <2>3. /\ \A w \in ToSet(s.writes) \cup {s.saved} : w.next <= s.main.next
        /\ \A w \in ToSet(s.writes) :
             w.next = s.main.next => \A b \in s.main.batches : Has(w.batches, b.n, b.edit)
    <3>1. ToSet(s.writes) \cup {s.saved} = {s.saved} BY <1>8
    <3>2. s.saved.next = 1 /\ s.main.next = 1 BY <1>3, <1>4, <1>5
    <3>3. \A w \in {s.saved} : w.next <= s.main.next BY <3>2
    <3>4. \A w \in ToSet(s.writes) :
             w.next = s.main.next => \A b \in s.main.batches : Has(w.batches, b.n, b.edit)
      BY <1>8
    <3>5. QED BY <3>1, <3>3, <3>4
  <2>4. \A d \in device' : d.client # s.main.client
    <3>1. \A d \in device : d.client <= created BY DEF IInv, Own
    <3>2. QED BY <1>2, <1>3, <1>4, <1>7, <3>1
  <2>5. QED BY <2>1, <2>2, <2>3, <2>4 DEF Fit
<1>19. OneListing' BY <1>4, <1>6, ListingStays
<1>20. Present'
  <2>1. \A b \in tab[t].main.batches \cup tab[t].drain.batches :
          Safe(b.edit)' \/ b.edit \in EditsIn(s.main) \cup EditsIn(s.drain)
    BY <1>0, ClosedOK
  <2>2. QED BY <1>6, <1>7, <1>12, <2>1, PresentStays
<1>21. \A u \in Tabs \ {t} : \A f \in tab[u].found : f.client = 0 \/ MainHeld(f.client) => MainHeld(f.client)'
  BY <1>14, FoundCopies
<1>22. \A d \in device' : d \in device \/ (lock[d.client] = t /\ d.client \in Clients) BY <1>7
<1>23. 0 \in ClientsIn(tab[t]) \cup {0} /\ \A f : Safe(f) => Safe(f)' BY <1>12 DEF StaysSafe
<1>24. QED BY <1>4, <1>6, <1>10, <1>11, <1>13, <1>15, <1>18, <1>19, <1>20, <1>21, <1>22, <1>23, LedgerStep

\* A step of the connections of all sessions.
LEMMA AllAlike ==
  ASSUME IInv, Ledger, Grows, tab' \in [Tabs -> Session],
         UNCHANGED <<device, log, last, edits, created, waived>>,
         \A u \in Tabs : /\ Alike(tab'[u], tab[u])
                         /\ \A h \in {tab'[u].main, tab'[u].drain} : Placed(h)'
                         /\ tab[u].phase = "closing" =>
                              tab'[u].main = tab[u].main /\ tab'[u].drain = tab[u].drain
  PROVE  Ledger'
<1>1. edits \in Nat /\ created \in Nat /\ tab \in [Tabs -> Session] BY BoundsAssumption DEF IInv, TypeOK
<1>2. Counts BY CountsSame
<1>3. NothingNew(0)
  <2> SUFFICES ASSUME NEW k, NEW n, NEW e, Named(k, n, e)' PROVE Named(k, n, e) BY DEF NothingNew
  <2>1. CASE Recorded(k, n, e)' BY <2>1 DEF Named, Recorded
  <2>2. CASE ~Recorded(k, n, e)'
    <3>1. PICK u \in Tabs : \A z : z = tab'[u] => Of(z, k, n, e) BY <2>2 DEF Named, Of
    <3>2. Of(tab[u], k, n, e) BY <3>1, AlikeOf
    <3>3. QED BY <3>2, NamedOf
  <2>3. QED BY <2>1, <2>2
<1>4. StaysSafe BY SafeStays
<1>5. Books' BY <1>1, <1>3, BooksStay
<1>6. \A u \in Tabs : tab'[u].phase = tab[u].phase /\ tab'[u].main.client = tab[u].main.client
  BY DEF Alike, Shrinks
<1>7. \A k : MainHeld(k) => MainHeld(k)' BY <1>6 DEF MainHeld
<1>8. OneListing' BY <1>6 DEF Ledger, OneListing
<1>9. Devices'
  <2> SUFFICES ASSUME NEW d \in device PROVE MainHeld(d.client)' \/ Whole(d.client, d.next, d.batches)'
    BY DEF Devices
  <2>1. d.client # 0 BY CopyFields DEF IInv, TypeOK, Clients
  <2>2. QED BY <1>2, <1>3, <1>7, <2>1, DeviceStays
<1>10. ASSUME NEW u \in Tabs, NEW s, s = tab'[u] PROVE Fit(s)'
  <2> PICK r : r = tab[u] OBVIOUS
  <2>1. r \in Session /\ Fit(r) /\ s \in Session /\ Alike(s, r) BY <1>1, <1>10 DEF Ledger
  <2>2. Fit(r)'
    <3>1. \A d \in device' : d.client = r.main.client => d \in device OBVIOUS
    <3>2. \A z \in r.drain.batches \cup r.saved.batches : Safe(z.edit) => Safe(z.edit)' BY <1>4 DEF StaysSafe
    <3>3. \A f \in r.found : f.client = 0 \/ MainHeld(f.client) => MainHeld(f.client)'
      BY <1>7, FoundCopies
    <3>4. QED BY <1>2, <1>3, <2>1, <3>1, <3>2, <3>3, FitStays
  <2>3. Placed(s.main)' /\ Placed(s.drain)' BY <1>10
  <2>4. s.phase = "closing" => s.main = r.main /\ s.drain = r.drain BY <1>6, <1>10
  <2>5. QED BY <2>1, <2>2, <2>3, <2>4, ShrunkFit
<1>11. Present'
  <2> SUFFICES ASSUME NEW e \in 1..edits', ~Safe(e)' PROVE InTab(e)' BY DEF Present
  <2>1. InTab(e) BY <1>4 DEF Ledger, Present, StaysSafe
  <2>2. PICK u \in Tabs : e \in EditsIn(tab[u].main) \cup EditsIn(tab[u].drain) BY <2>1 DEF InTab
  <2>3. PICK b \in tab[u].main.batches \cup tab[u].drain.batches : b.edit = e BY <2>2 DEF EditsIn
  <2>4. ~Written(e)' BY DEF Safe
  <2>5. Shrinks(tab'[u].main, tab[u].main) /\ Shrinks(tab'[u].drain, tab[u].drain) BY DEF Alike
  <2>6. Has(tab'[u].main.batches, b.n, e) \/ Has(tab'[u].drain.batches, b.n, e) BY <2>3, <2>4, <2>5 DEF Shrinks
  <2>7. QED BY <2>6 DEF InTab, EditsIn, Has
<1>12. QED BY <1>5, <1>8, <1>9, <1>10, <1>11, LedgerNext

\* What a connected client forgets is written.
LEMMA JournalLedger == ASSUME IInv, Ledger, Journal PROVE Ledger'
<1> DEFINE Told(h) == IF h.on THEN [h EXCEPT !.batches = Pending(h)] ELSE h
<1>1. tab' = [t \in Tabs |-> [tab[t] EXCEPT !.main = Told(tab[t].main), !.drain = Told(tab[t].drain)]]
  BY DEF Journal
<1>2. tab \in [Tabs -> Session] /\ edits \in Nat BY BoundsAssumption DEF IInv, TypeOK
<1>3. /\ durable' = Len(log) /\ UNCHANGED <<device, log, last, created, edits, waived>>
  BY DEF Journal
<1>4. Grows BY <1>2, <1>3, Lengths DEF Grows, IInv, TypeOK
<1>5. ASSUME NEW h \in Engine, Placed(h)
      PROVE  /\ Told(h) \in Engine /\ Shrinks(Told(h), h) /\ Placed(Told(h))'
             /\ ~h.on => Told(h) = h
  <2>1. Placed(h)' BY <1>4, <1>5, PlacedStays
  <2>2. CASE ~h.on BY <2>1, <2>2, ShrinksSame
  <2>3. CASE h.on
    <3> PICK q : q = Pending(h) OBVIOUS
    <3>1. q \subseteq h.batches /\ \A a \in h.batches : a \in q \/ a.at # 0 BY DEF Pending
    <3> PICK g : g = [h EXCEPT !.batches = q] OBVIOUS
    <3>2. g \in Engine /\ g.client = h.client /\ g.next = h.next /\ g.batches = q BY <3>1 DEF Engine
    <3>3. Told(h) = g BY <2>3
    <3> HIDE DEF Told
    <3>4. ASSUME NEW a \in h.batches PROVE Has(q, a.n, a.edit) \/ Written(a.edit)'
      <4>1. CASE a \in q BY <4>1 DEF Has
      <4>2. CASE a.at # 0
        <5>1. PICK i \in 1..a.at : i <= Len(log) /\ log[i] = a.edit BY <1>5, <4>2 DEF Placed
        <5>2. a.at \in Nat BY DEF Engine, Local
        <5>3. i \in 1..durable' /\ log'[i] = a.edit BY <1>3, <5>1, <5>2, Lengths
        <5>4. QED BY <5>3 DEF Written
      <4>3. QED BY <3>1, <4>1, <4>2
    <3>5. Shrinks(g, h) BY <3>1, <3>2, <3>4 DEF Shrinks
    <3>6. Placed(g)' BY <2>1, <3>1, <3>2 DEF Placed
    <3>7. QED BY <2>3, <3>2, <3>3, <3>5, <3>6
  <2>4. QED BY <2>2, <2>3
<1> HIDE DEF Told
<1>6. ASSUME NEW u \in Tabs
      PROVE  /\ tab'[u] \in Session /\ Alike(tab'[u], tab[u])
             /\ \A h \in {tab'[u].main, tab'[u].drain} : Placed(h)'
             /\ tab[u].phase = "closing" =>
                  tab'[u].main = tab[u].main /\ tab'[u].drain = tab[u].drain
  <2> PICK r : r = tab[u] OBVIOUS
  <2>1. r \in Session /\ Fit(r) BY <1>2 DEF Ledger
  <2>2. r.main \in Engine /\ r.drain \in Engine /\ Placed(r.main) /\ Placed(r.drain)
    BY <2>1, SessionFields DEF Fit
  <2> PICK m : m = Told(r.main) OBVIOUS
  <2> PICK d : d = Told(r.drain) OBVIOUS
  <2>3. /\ m \in Engine /\ Shrinks(m, r.main) /\ Placed(m)' /\ (~r.main.on => m = r.main)
        /\ d \in Engine /\ Shrinks(d, r.drain) /\ Placed(d)' /\ (~r.drain.on => d = r.drain)
    BY <1>5, <2>2
  <2> PICK s : s = [r EXCEPT !.main = m, !.drain = d] OBVIOUS
  <2>4. tab'[u] = s BY <1>1
  <2>5. /\ s \in Session /\ s.phase = r.phase /\ s.found = r.found /\ s.older = r.older
        /\ s.main = m /\ s.drain = d /\ s.discarded = r.discarded
        /\ s.saved = r.saved /\ s.writes = r.writes
    BY <2>1, <2>3 DEF Session
  <2>6. Alike(s, r) BY <2>3, <2>5 DEF Alike
  <2>7. r.phase = "closing" => ~r.main.on /\ ~r.drain.on BY <2>1 DEF Fit
  <2>8. QED BY <2>3, <2>4, <2>5, <2>6, <2>7
<1>7. tab' \in [Tabs -> Session] BY <1>1, <1>6
<1>8. QED BY <1>3, <1>4, <1>6, <1>7, AllAlike

\* All the connections are closed, all the batches stay.
LEMMA RemoveAccessLedger == ASSUME IInv, Ledger, RemoveAccess PROVE Ledger'
<1>1. tab \in [Tabs -> Session] /\ edits \in Nat BY BoundsAssumption DEF IInv, TypeOK
<1>2. tab' = [t \in Tabs |-> [tab[t] EXCEPT !.main.on = FALSE, !.drain.on = FALSE]]
  BY DEF RemoveAccess
<1>3. UNCHANGED <<device, log, durable, last, created, edits, waived>> BY DEF RemoveAccess, room
<1>4. Grows BY <1>1, <1>3, GrowsSame
<1>5. ASSUME NEW h \in Engine, Placed(h), NEW g, g = [h EXCEPT !.on = FALSE]
      PROVE  g \in Engine /\ Shrinks(g, h) /\ Placed(g)' /\ (~h.on => g = h)
  <2>1. g \in Engine /\ g.client = h.client /\ g.next = h.next /\ g.batches = h.batches BY <1>5 DEF Engine
  <2>2. Placed(h)' BY <1>4, <1>5, PlacedStays
  <2>3. ~h.on => g = h BY <1>5 DEF Engine
  <2>4. QED BY <2>1, <2>2, <2>3 DEF Shrinks, Has, Placed
<1>6. ASSUME NEW u \in Tabs
      PROVE  /\ tab'[u] \in Session /\ Alike(tab'[u], tab[u])
             /\ \A h \in {tab'[u].main, tab'[u].drain} : Placed(h)'
             /\ tab[u].phase = "closing" =>
                  tab'[u].main = tab[u].main /\ tab'[u].drain = tab[u].drain
  <2> PICK r : r = tab[u] OBVIOUS
  <2>1. r \in Session /\ Fit(r) BY <1>1 DEF Ledger
  <2>2. r.main \in Engine /\ r.drain \in Engine /\ Placed(r.main) /\ Placed(r.drain)
    BY <2>1, SessionFields DEF Fit
  <2> PICK m : m = [r.main EXCEPT !.on = FALSE] OBVIOUS
  <2> PICK d : d = [r.drain EXCEPT !.on = FALSE] OBVIOUS
  <2>3. /\ m \in Engine /\ Shrinks(m, r.main) /\ Placed(m)' /\ (~r.main.on => m = r.main)
        /\ d \in Engine /\ Shrinks(d, r.drain) /\ Placed(d)' /\ (~r.drain.on => d = r.drain)
    BY <1>5, <2>2
  <2> PICK s : s = [r EXCEPT !.main = m, !.drain = d] OBVIOUS
  <2>4. tab'[u] = s BY <1>2, <2>1 DEF Session
  <2>5. /\ s \in Session /\ s.phase = r.phase /\ s.found = r.found /\ s.older = r.older
        /\ s.main = m /\ s.drain = d /\ s.discarded = r.discarded
        /\ s.saved = r.saved /\ s.writes = r.writes
    BY <2>1, <2>3 DEF Session
  <2>6. Alike(s, r) BY <2>3, <2>5 DEF Alike
  <2>7. r.phase = "closing" => ~r.main.on /\ ~r.drain.on BY <2>1 DEF Fit
  <2>8. QED BY <2>3, <2>4, <2>5, <2>6, <2>7
<1>7. tab' \in [Tabs -> Session] BY <1>2, <1>6
<1>8. QED BY <1>3, <1>4, <1>6, <1>7, AllAlike

\* At first the device has what closed tabs left, which the room has not applied.
LEMMA InitLedger == Init => Ledger
<1> SUFFICES ASSUME Init PROVE Ledger OBVIOUS
<1>1. /\ tab = [t \in Tabs |-> Closed] /\ edits = NLeft /\ log = <<>> /\ durable = 0
      /\ last = [c \in Clients |-> 0] /\ NLeft \in Nat
  BY BoundsAssumption DEF Init
<1>2. IInv BY InitHolds
<1>3. \A d \in device : d.client \in 1..NLeft /\ d = [client |-> d.client, next |-> 2,
                          batches |-> {[n |-> 1, edit |-> d.client]}, savedAt |-> d.client]
  BY DEF Init, Left
<1>4. \A d \in device : /\ d.next = 2 /\ d.client \in Clients /\ d.client # 0
                        /\ \A n, e : Has(d.batches, n, e) <=> n = 1 /\ e = d.client
  <2> SUFFICES ASSUME NEW d \in device
               PROVE  /\ d.next = 2 /\ d.client \in Clients /\ d.client # 0
                      /\ \A n, e : Has(d.batches, n, e) <=> n = 1 /\ e = d.client
    OBVIOUS
  <2>1. d.next = 2 /\ d.batches = {[n |-> 1, edit |-> d.client]} BY <1>3
  <2>2. d.client \in Clients /\ d.client # 0 BY <1>3, BoundsAssumption DEF Clients
  <2>3. QED BY <2>1, <2>2 DEF Has
<1>5. /\ Closed.saved.batches = {} /\ Closed.saved.next = 1 BY DEF Closed, Nothing
<1>6. \A k, n, e : ~Of(Closed, k, n, e)
  <2>1. ToSet(Closed.writes) = {} BY ClosedOK, NoneIn
  <2>2. QED BY <1>5, <2>1, ClosedOK DEF Of, Has
<1>7. \A k, n, e : Named(k, n, e) <=> n = 1 /\ e = k /\ \E d \in device : d.client = k
  <2>1. \A k, n, e : Named(k, n, e) <=> Recorded(k, n, e) BY <1>1, <1>6 DEF Named
  <2>2. QED BY <1>4, <2>1 DEF Recorded
<1>8. \A e : ~InLog(e) BY <1>1 DEF InLog
<1>9. Books
  <2>1. Numbers BY <1>7 DEF Numbers
  <2>2. Counted
    <3> SUFFICES ASSUME NEW c, NEW n, NEW e, Named(c, n, e)
                 PROVE  n > 0 /\ e <= edits /\ ~(n <= last[c])
      BY <1>8 DEF Counted
    <3>1. n = 1 /\ e = c /\ c \in 1..NLeft /\ c \in Clients BY <1>3, <1>4, <1>7
    <3>2. last[c] = 0 BY <1>1, <3>1
    <3>3. QED BY <1>1, <3>1, <3>2
  <2>3. Logged /\ Fresh /\ AppliedOnce BY <1>1 DEF Logged, Fresh, AppliedOnce
  <2>4. QED BY <2>1, <2>2, <2>3 DEF Books
<1>10. Devices
  <2> SUFFICES ASSUME NEW d \in device PROVE Whole(d.client, d.next, d.batches) BY DEF Devices
  <2>1. last[d.client] = 0 /\ d.next = 2 BY <1>1, <1>4
  <2>2. \A n, e : Named(d.client, n, e) => n = 1 /\ Has(d.batches, n, e) BY <1>4, <1>7
  <2>3. QED BY <2>1, <2>2 DEF Whole
<1>11. Present
  <2> SUFFICES ASSUME NEW e \in 1..NLeft PROVE OnDevice(e) BY <1>1 DEF Present, Safe
  <2> PICK d : d = [client |-> e, next |-> 2, batches |-> {[n |-> 1, edit |-> e]}, savedAt |-> e] OBVIOUS
  <2>1. d \in device BY DEF Init, Left
  <2>2. e \in EditsIn(d) BY DEF EditsIn
  <2>3. QED BY <2>1, <2>2 DEF OnDevice
<1>12. Fit(Closed)
  <2>1. /\ \A f \in Closed.found : MainHeld(f.client) \/ Whole(f.client, f.next, f.batches)
        /\ \A o \in Closed.older : Whole(o.client, o.next, o.batches)
        /\ \A b \in Closed.drain.batches : Safe(b.edit)
        /\ Closed.saved.batches = {}
        /\ Closed.phase # "closing" /\ ~Closed.discarded
    BY <1>5, ClosedOK
  <2>2. \A h \in {Closed.main, Closed.drain} : Placed(h) /\ Whole(h.client, h.next, h.batches)
    BY ClosedOK DEF Placed, Whole, Clients
  <2>3. ToSet(Closed.writes) = {} BY ClosedOK, NoneIn
  <2>4. \A w \in ToSet(Closed.writes) \cup {Closed.saved} : w.next <= Closed.main.next
    BY <1>5, <2>3, ClosedOK
  <2>5. \A d \in device : d.client # Closed.main.client BY <1>4, ClosedOK
  <2>6. /\ \A w \in ToSet(Closed.writes) :
            w.next = Closed.main.next => \A b \in Closed.main.batches : Has(w.batches, b.n, b.edit)
        /\ \A b \in Closed.saved.batches : Safe(b.edit)
    BY <2>1, <2>3
  <2>7. QED BY <2>1, <2>2, <2>4, <2>5, <2>6 DEF Fit
<1>13. OneListing BY <1>1, ClosedOK DEF OneListing
<1>14. \A t \in Tabs : tab[t] = Closed BY <1>1
<1>15. QED BY <1>9, <1>10, <1>11, <1>12, <1>13, <1>14 DEF Ledger

\* Nothing happens.
LEMMA StutterLedger == ASSUME IInv, Ledger, UNCHANGED vars PROVE Ledger'
<1>1. UNCHANGED <<device, log, last, durable, edits, created, waived>> /\ tab' = tab BY DEF vars, room
<1>2. edits \in Nat /\ tab \in [Tabs -> Session] BY BoundsAssumption DEF IInv, TypeOK
<1>3. Grows BY <1>1, <1>2, GrowsSame
<1>4. ASSUME NEW u \in Tabs
      PROVE  /\ Alike(tab'[u], tab[u])
             /\ \A h \in {tab'[u].main, tab'[u].drain} : Placed(h)'
  <2> PICK r : r = tab[u] OBVIOUS
  <2>1. r \in Session /\ Fit(r) BY <1>2 DEF Ledger
  <2>2. Placed(r.main)' /\ Placed(r.drain)' BY <1>3, <2>1, SessionFields, PlacedStays DEF Fit
  <2>3. QED BY <1>1, <2>2, ShrinksSame DEF Alike
<1>5. QED BY <1>1, <1>2, <1>3, <1>4, AllAlike

\* Every step keeps the ledger, unless sessions start while others start or close.
LEMMA StepLedger == "overlap" \notin Situations => (IInv /\ Ledger /\ [Next]_vars => Ledger')
<1> SUFFICES ASSUME "overlap" \notin Situations, IInv, Ledger, [Next]_vars PROVE Ledger' OBVIOUS
<1>1. CASE UNCHANGED vars BY <1>1, StutterLedger
<1>2. CASE Journal BY <1>2, JournalLedger
<1>3. CASE RemoveAccess BY <1>3, RemoveAccessLedger
<1>4. ASSUME NEW t \in Tabs, NEW slot \in Slots,
             Welcome(t, slot) \/ Send(t, slot) \/ SendUnanswered(t, slot) \/ Disconnect(t, slot)
      PROVE  Ledger'
  BY <1>4, WelcomeLedger, SendLedger, SendUnansweredLedger, DisconnectLedger
<1>5. ASSUME NEW t \in Tabs,
             \/ List(t) \/ TakeLock(t) \/ DropUnusable(t) \/ StartFromCopies(t) \/ StartFresh(t)
      PROVE  Ledger'
  BY <1>5, ListLedger, TakeLockLedger, DropUnusableLedger, StartFromCopiesLedger, StartFreshLedger
<1>6. ASSUME NEW t \in Tabs, Edit(t) \/ Persist(t) \/ WriteLands(t) \/ Deadline(t) \/ Drained(t)
      PROVE  Ledger'
  BY <1>6, EditLedger, PersistLedger, WriteLandsLedger, HoldLedger
<1>7. ASSUME NEW t \in Tabs,
             NextCopy(t) \/ DrainWritten(t) \/ DrainRefused(t) \/ DrainGone(t) \/ StopDrain(t)
      PROVE  Ledger'
  BY <1>7, NextCopyLedger, DrainLedger
<1>8. ASSUME NEW t \in Tabs, Discard(t) \/ Stop(t) \/ Release(t) \/ Kill(t) PROVE Ledger'
  BY <1>8, DiscardLedger, StopLedger, ReleaseLedger, KillLedger
<1>9. QED BY <1>1, <1>2, <1>3, <1>4, <1>5, <1>6, <1>7, <1>8 DEF Next

\* So it always holds.
LEMMA LedgerHolds ==
  ASSUME "overlap" \notin Situations
  PROVE  Spec => [](IInv /\ Ledger)
<1>1. Init => IInv /\ Ledger BY InitHolds, InitLedger
<1>2. (IInv /\ Ledger) /\ [Next]_vars => (IInv /\ Ledger)' BY StepHolds, StepLedger
<1>3. QED BY <1>1, <1>2, PTL DEF Spec

\* Whatever tabs open, close and die, in whatever order, an edit is written by
\* the server, or on the device, or in the memory of a tab.
THEOREM NothingIsLost ==
  ASSUME "overlap" \notin Situations
  PROVE  Spec => []NothingLost
<1>1. IInv /\ Ledger => NothingLost
  <2> SUFFICES ASSUME Ledger PROVE NothingLost OBVIOUS
  <2>1. Present BY DEF Ledger
  <2>2. QED BY <2>1 DEF NothingLost, Present, Safe, Written, OnDevice, InTab
<1>2. QED BY <1>1, LedgerHolds, PTL

\* What several sessions send of one copy is applied once.
THEOREM CopiesAppliedOnce ==
  ASSUME "overlap" \notin Situations
  PROVE  Spec => []AppliedOnce
<1>1. IInv /\ Ledger => AppliedOnce BY DEF Ledger, Books
<1>2. QED BY <1>1, LedgerHolds, PTL

----------------------------------------------------------------------------
(* The order between the copies                                            *)

\* Client c has edit e.
Mine(c, e) == \E n : Named(c, n, e)

\* The first edit of a pair still has to reach the server before the second.
Live(p) == ~gone /\ ~InLog(p[1]) /\ p[1] \notin waived

\* Without access, nothing is sent any more.
Off == gone => \A t \in Tabs : ~tab[t].main.on /\ ~tab[t].drain.on

\* What was deleted with its copy is nowhere.
Dropped ==
  /\ \A e \in waived : e \in 1..edits
  /\ ~gone => \A c, e : e \in waived => ~Mine(c, e)

\* What the tabs have of the copies of a client has the date of its record, and
\* of what was listed of it, unless a session writes it.
Dates ==
  /\ \A d \in device : \A t \in Tabs :
       /\ \A o \in tab[t].older : o.client = d.client => o.savedAt = d.savedAt
       /\ \A f \in tab[t].found : f.client = d.client /\ ~MainHeld(d.client) => f.savedAt = d.savedAt
       /\ tab[t].drain.client = d.client => tab[t].drain.age = d.savedAt
  /\ \A t, u \in Tabs : \A f \in tab[u].found : ~MainHeld(f.client) =>
       /\ \A o \in tab[t].older : o.client = f.client => o.savedAt = f.savedAt
       /\ tab[t].drain.client = f.client => tab[t].drain.age = f.savedAt

\* Client c has something to send before edit y of client d.  No session
\* continues c, and the copy of d is not on its way;
Apart(c, d) ==
  c # d /\ \A t \in Tabs : tab[t].main.client # c /\ tab[t].drain.client # d

\* what the device has of c, or will have, is older;
Earlier(c, d, y) ==
  \A a \in device : a.client = c =>
    /\ \A r \in device : r.client = d /\ y \in EditsIn(r) => a.savedAt < r.savedAt
    /\ \A t \in Tabs : \A w \in ToSet(tab[t].writes) :
         w.client = d /\ y \in EditsIn(w) => a.savedAt < w.savedAt

\* who has d has c, until it closes, and nobody has c when d is free, but a
\* session that starts or closes;
Behind(c, d) ==
  \A t \in Tabs :
    /\ lock[d] = t => lock[c] = t \/ (lock[c] = NoTab /\ tab[t].phase = "closing")
    /\ lock[d] = NoTab /\ lock[c] = t => tab[t].phase \in {"listing", "closing"}

\* a session that continues d waits, and its copies of c are older than those
\* of d;
WaitsIn(s, c, d) ==
  /\ s.phase = "open" /\ s.main.client = d => s.held
  /\ \A o, p \in s.older : o.client = d /\ p.client = c => p.savedAt < o.savedAt

Waits(c, d) == \A t \in Tabs : WaitsIn(tab[t], c, d)

\* and a session that may take d has taken c, or will.
Listed(c, d) ==
  \A t \in Tabs : tab[t].phase = "listing" /\ lock[d] = NoTab =>
    /\ \E f \in tab[t].found : f.client = d
    /\ lock[c] = t \/ \E f \in tab[t].found : f.client = c

Leads(c, d, y) == Apart(c, d) /\ Earlier(c, d, y) /\ Behind(c, d) /\ Waits(c, d) /\ Listed(c, d)

Ordered(p) ==
  /\ p[1] \in 1..edits /\ p[2] \in 1..edits /\ p[1] # p[2]
  /\ Live(p) => \A d \in Clients : Mine(d, p[2]) =>
       OnDevice(p[1]) /\ \A c \in Clients : Mine(c, p[1]) => Leads(c, d, p[2])

Order == \A p \in before : Ordered(p)

InTurn == Off /\ Dropped /\ Dates /\ NewestWins /\ Order

\* A pair, the client that must send first, and the other one.
Pair(p, c, d) ==
  p \in before /\ Live(p) /\ c \in Clients /\ d \in Clients /\ Mine(c, p[1]) /\ Mine(d, p[2])

\* An edit is of one client.
LEMMA OneClient ==
  ASSUME Ledger, NEW c, NEW d, NEW e, Mine(c, e), Mine(d, e)
  PROVE  c = d
BY DEF Ledger, Books, Numbers, Mine

\* What a record has is its client's.
LEMMA RecordMine ==
  ASSUME NEW r \in device, NEW e \in EditsIn(r)
  PROVE  Mine(r.client, e)
BY DEF EditsIn, Mine, Named, Recorded, Has

\* Whoever speaks for a client has what it has not sent.
LEMMA WholeHas ==
  ASSUME NEW c \in Clients, NEW next, NEW batches, Whole(c, next, batches), NEW e, Mine(c, e), ~Written(e)
  PROVE  \E b \in batches : b.edit = e
BY DEF Whole, Mine, Has

\* What is written is in the log.
LEMMA WrittenLogged ==
  ASSUME IInv, NEW e, Written(e)
  PROVE  InLog(e)
BY Lengths DEF Written, InLog

\* What is sent by nobody is on the device.
LEMMA FreeOnDevice ==
  ASSUME IInv, Ledger, Dropped, ~gone, NEW d \in Clients, lock[d] = NoTab, NEW y \in 1..edits, Mine(d, y), ~InLog(y)
  PROVE  \E r \in device : r.client = d /\ y \in EditsIn(r)
<1>1. Safe(y)
  <2> SUFFICES ASSUME InTab(y) PROVE FALSE BY DEF Ledger, Present
  <2>1. PICK u \in Tabs : y \in EditsIn(tab[u].main) \cup EditsIn(tab[u].drain) BY DEF InTab
  <2>2. PICK k, m : Of(tab[u], k, m, y) /\ k \in {tab[u].main.client, tab[u].drain.client}
    BY <2>1 DEF EditsIn, Of, Has
  <2>3. Mine(k, y) BY <2>2 DEF Named, Mine
  <2>4. k = d BY <2>3, OneClient
  <2>5. d \in ClientsIn(tab[u]) BY <2>2, <2>4 DEF ClientsIn, Clients
  <2>6. lock[d] = u /\ u # NoTab BY <2>5, OwnClient, TabAssumption
  <2>7. QED BY <2>6
<1>2. ~Written(y) BY WrittenLogged
<1>3. y \notin waived BY DEF Dropped
<1>4. PICK r \in device : y \in EditsIn(r) BY <1>1, <1>2, <1>3 DEF Safe, OnDevice
<1>5. r.client = d BY <1>4, RecordMine, OneClient
<1>6. QED BY <1>4, <1>5

\* What is known of a pair.
LEMMA PairIs ==
  ASSUME IInv, Ledger, InTurn, NEW p, NEW c, NEW d, Pair(p, c, d)
  PROVE  /\ Leads(c, d, p[2]) /\ c # d /\ p[1] # p[2]
         /\ p[1] \in 1..edits /\ p[2] \in 1..edits
         /\ ~gone /\ ~InLog(p[1]) /\ ~InLog(p[2]) /\ ~Written(p[1])
         /\ \E a \in device : a.client = c /\ p[1] \in EditsIn(a)
         /\ lock[d] = NoTab => \E r \in device : r.client = d /\ p[2] \in EditsIn(r)
<1>1. p \in before /\ Live(p) /\ c \in Clients /\ d \in Clients /\ Mine(c, p[1]) /\ Mine(d, p[2]) BY DEF Pair
<1>2. Ordered(p) BY <1>1 DEF InTurn, Order
<1>3. Leads(c, d, p[2]) /\ p[1] # p[2] /\ p[1] \in 1..edits /\ p[2] \in 1..edits /\ OnDevice(p[1])
  BY <1>1, <1>2 DEF Ordered
<1>4. ~gone /\ ~InLog(p[1]) /\ p[1] \notin waived BY <1>1 DEF Live
<1>5. ~InLog(p[2])
  <2>1. InLog(p[2]) => \E i \in DOMAIN log : log[i] = p[1] BY <1>1, <1>4 DEF InTurn, NewestWins
  <2>2. QED BY <1>4, <2>1 DEF InLog
<1>6. PICK a \in device : p[1] \in EditsIn(a) BY <1>3 DEF OnDevice
<1>7. a.client = c BY <1>1, <1>6, RecordMine, OneClient
<1>8. lock[d] = NoTab => \E r \in device : r.client = d /\ p[2] \in EditsIn(r)
  BY <1>1, <1>3, <1>4, <1>5, FreeOnDevice DEF InTurn
<1>9. c # d BY <1>3 DEF Leads, Apart
<1>10. ~Written(p[1]) BY <1>4, WrittenLogged
<1>11. QED BY <1>3, <1>4, <1>5, <1>6, <1>7, <1>8, <1>9, <1>10

----------------------------------------------------------------------------
(* What a step has to show for the order                                   *)

\* What the rest of the state may do.
Onward ==
  /\ gone => gone'
  /\ waived \subseteq waived' /\ edits <= edits' /\ edits \in Nat /\ edits' \in Nat
  /\ \A e : InLog(e) => InLog(e)'
  /\ \A k, n, e : Named(k, n, e)' => Named(k, n, e) \/ e > edits

\* A pair that still counts, and its clients, did before.
LEMMA PairBefore ==
  ASSUME IInv, Ledger, InTurn, Onward, NEW p \in before, Live(p)', NEW c \in Clients, NEW d \in Clients,
         Mine(c, p[1])', Mine(d, p[2])'
  PROVE  Pair(p, c, d)
<1>1. Live(p) BY DEF Live, Onward
<1>2. p[1] \in 1..edits /\ p[2] \in 1..edits BY DEF InTurn, Order, Ordered
<1>3. ~(p[1] > edits) /\ ~(p[2] > edits) BY <1>2 DEF Onward
<1>4. Mine(c, p[1]) /\ Mine(d, p[2]) BY <1>3 DEF Mine, Onward
<1>5. QED BY <1>1, <1>4 DEF Pair

\* A pair remains in order when what its clients owe each other does.
LEMMA OldPair ==
  ASSUME IInv, Ledger, IInv', Ledger', InTurn, Onward, NEW p \in before,
         \A c, d : Pair(p, c, d) /\ Live(p)' /\ Mine(d, p[2])' => Leads(c, d, p[2])'
  PROVE  Ordered(p)'
<1>1. p[1] \in 1..edits' /\ p[2] \in 1..edits' /\ p[1] # p[2] BY DEF InTurn, Order, Ordered, Onward
<1> SUFFICES ASSUME Live(p)', NEW d \in Clients, Mine(d, p[2])'
             PROVE  OnDevice(p[1])' /\ \A c \in Clients : Mine(c, p[1])' => Leads(c, d, p[2])'
  BY <1>1 DEF Ordered
<1>2. \A c \in Clients : Mine(c, p[1])' => Leads(c, d, p[2])' BY PairBefore
<1>3. Live(p) /\ ~Written(p[1])'
  <2>1. Live(p) BY DEF Live, Onward
  <2>2. \A i \in 1..durable' : i \in DOMAIN log' BY DEF IInv, TypeOK
  <2>3. QED BY <2>1, <2>2 DEF Live, Written, InLog
<1>4. Safe(p[1])' => OnDevice(p[1])' BY <1>3 DEF Safe, Live
<1>5. ASSUME InTab(p[1])' PROVE Safe(p[1])'
  <2>1. PICK u \in Tabs : p[1] \in EditsIn(tab'[u].main) \cup EditsIn(tab'[u].drain) BY <1>5 DEF InTab
  <2> PICK z : z = tab'[u] OBVIOUS
  <2>2. CASE p[1] \in EditsIn(z.drain)
    <3>1. Fit(z)' BY DEF Ledger, Fit
    <3>2. \A b \in z.drain.batches : Safe(b.edit)' BY <3>1 DEF Fit
    <3>3. QED BY <2>2, <3>2 DEF EditsIn
  <2>3. CASE p[1] \in EditsIn(z.main)
    <3>1. PICK n : Of(z, z.main.client, n, p[1]) BY <2>3 DEF EditsIn, Of, Has
    <3> PICK k : k = z.main.client OBVIOUS
    <3>2. Named(k, n, p[1])' BY <3>1 DEF Named, Of
    <3>3. ~(p[1] > edits) BY DEF InTurn, Order, Ordered, Onward
    <3>4. Mine(k, p[1]) /\ Mine(k, p[1])' BY <3>2, <3>3 DEF Onward, Mine
    <3>5. Mine(d, p[2]) /\ p[2] \in 1..edits
      <4>1. ~(p[2] > edits) /\ p[2] \in 1..edits BY DEF InTurn, Order, Ordered, Onward
      <4>2. QED BY <4>1 DEF Onward, Mine
    <3>6. OnDevice(p[1]) BY <1>3, <3>5 DEF InTurn, Order, Ordered
    <3>7. PICK a \in device : p[1] \in EditsIn(a) BY <3>6 DEF OnDevice
    <3>8. a.client = k /\ k \in Clients BY <3>4, <3>7, RecordMine, OneClient, CopyFields DEF IInv, TypeOK
    <3>9. Leads(k, d, p[2])' BY <1>2, <3>4, <3>8
    <3>10. QED BY <3>9 DEF Leads, Apart
  <2>4. QED BY <2>1, <2>2, <2>3
<1>6. Safe(p[1])' \/ InTab(p[1])' BY <1>1 DEF Ledger, Present
<1>7. QED BY <1>2, <1>4, <1>5, <1>6

\* Nobody waits any more.
LEMMA NoPair ==
  ASSUME InTurn, Onward, NEW p \in before, ~Live(p)'
  PROVE  Ordered(p)'
<1>1. p[1] \in 1..edits' /\ p[2] \in 1..edits' /\ p[1] # p[2] BY DEF InTurn, Order, Ordered, Onward
<1>2. QED BY <1>1 DEF Ordered

\* A step that only forgets pairs, and leaves the log alone.
LEMMA OrderStep ==
  ASSUME IInv, Ledger, IInv', Ledger', InTurn, Onward, log' = log, before' \subseteq before,
         \A p \in before' : \A c, d : Pair(p, c, d) /\ Live(p)' /\ Mine(d, p[2])' => Leads(c, d, p[2])'
  PROVE  NewestWins' /\ Order'
<1>1. Order' BY OldPair DEF Order
<1>2. NewestWins'
  <2> SUFFICES ASSUME NEW p \in before', InLog(p[2])'
               PROVE  \/ p[1] \in waived'
                      \/ \E i, j \in DOMAIN log' : i < j /\ log'[i] = p[1] /\ log'[j] = p[2]
    BY DEF NewestWins
  <2>1. InLog(p[2]) BY DEF InLog
  <2>2. QED BY <2>1 DEF InTurn, NewestWins, Onward
<1>3. QED BY <1>1, <1>2

\* Nothing is deleted: what was is nowhere, still.
LEMMA DroppedStays ==
  ASSUME Dropped, Onward, waived' = waived \/ gone'
         , \A e \in waived' : e \in waived \/ e \in 1..edits
  PROVE  Dropped'
<1>1. \A e \in waived' : e \in 1..edits' BY DEF Dropped, Onward
<1>2. ASSUME ~gone', NEW c, NEW e, e \in waived' PROVE ~Mine(c, e)'
  <2>1. ~gone /\ e \in waived /\ e \in 1..edits BY <1>2 DEF Onward, Dropped
  <2>2. ~Mine(c, e) /\ ~(e > edits) BY <2>1 DEF Dropped, Onward
  <2>3. QED BY <2>2 DEF Mine, Onward
<1>3. QED BY <1>1, <1>2 DEF Dropped

\* A session has the copies it had, and writes nothing that is not new.
SameView(s, r) ==
  /\ s.phase = r.phase /\ s.found = r.found /\ s.older = r.older
  /\ s.main.client = r.main.client /\ s.drain.client = r.drain.client /\ s.drain.age = r.drain.age
  /\ \A w \in ToSet(s.writes) : w \in ToSet(r.writes) \/ w.batches = {} \/ w.savedAt = Now

\* A step that moves no copy, but those that are written.
Calm ==
  /\ lock' = lock
  /\ \A u \in Tabs : SameView(tab'[u], tab[u])
  /\ \A d \in device' : d \in device \/ \E u \in Tabs : d \in ToSet(tab[u].writes)

\* What a session writes is its own.
LEMMA WrittenOwn ==
  ASSUME IInv, NEW u \in Tabs, NEW w \in ToSet(tab[u].writes), NEW t \in Tabs
  PROVE  /\ w.client = tab[u].main.client /\ w.client \in Clients /\ tab[t].drain.client # w.client
         /\ \A o \in tab[t].older : o.client # w.client
<1>1. tab[u] \in Session /\ Shape(tab[u]) /\ Shape(tab[t]) BY DEF IInv, TypeOK, Own
<1>2. w.client = tab[u].main.client BY <1>1 DEF Shape
<1>3. w.client \in Clients /\ w.client # 0
  <2>1. PICK q : q = tab[u].writes OBVIOUS
  <2>2. q \in Seq(Copy) BY <1>1, <2>1, SessionFields
  <2>3. w \in Copy BY <2>1, <2>2 DEF ToSet
  <2>4. QED BY <2>3, CopyFields DEF Clients
<1>4. w.client \in ClientsIn(tab[u]) BY <1>2, <1>3 DEF ClientsIn
<1>5. CASE t = u BY <1>1, <1>2, <1>3, <1>5 DEF Shape
<1>6. CASE t # u
  <2>1. w.client \notin ClientsIn(tab[t]) BY <1>4, <1>6, TwoTabs
  <2>2. QED BY <1>2, <1>3, <2>1 DEF ClientsIn
<1>7. QED BY <1>5, <1>6

\* The dates stay.
LEMMA CalmDates ==
  ASSUME IInv, Calm, Dates
  PROVE  Dates'
<1>1. \A t \in Tabs :
      /\ tab'[t].older = tab[t].older /\ tab'[t].found = tab[t].found
      /\ tab'[t].drain.client = tab[t].drain.client /\ tab'[t].drain.age = tab[t].drain.age
  BY DEF Calm, SameView
<1>2. \A k : MainHeld(k)' <=> MainHeld(k) BY DEF MainHeld, Calm, SameView
<1>3. ASSUME NEW d \in device', NEW t \in Tabs
      PROVE  /\ \A o \in tab'[t].older : o.client = d.client => o.savedAt = d.savedAt
             /\ \A f \in tab'[t].found : f.client = d.client /\ ~MainHeld(d.client)' => f.savedAt = d.savedAt
             /\ tab'[t].drain.client = d.client => tab'[t].drain.age = d.savedAt
  <2>1. CASE d \in device BY <1>1, <1>2, <2>1 DEF Dates
  <2>2. CASE d \notin device
    <3>1. PICK u \in Tabs : d \in ToSet(tab[u].writes) BY <1>3, <2>2 DEF Calm
    <3>2. MainHeld(d.client) BY <3>1, WrittenOwn DEF MainHeld
    <3>3. QED BY <1>1, <1>2, <3>1, <3>2, WrittenOwn
  <2>3. QED BY <2>1, <2>2
<1>4. ASSUME NEW t \in Tabs, NEW u \in Tabs, NEW f \in tab'[u].found, ~MainHeld(f.client)'
      PROVE  /\ \A o \in tab'[t].older : o.client = f.client => o.savedAt = f.savedAt
             /\ tab'[t].drain.client = f.client => tab'[t].drain.age = f.savedAt
  BY <1>1, <1>2, <1>4 DEF Dates
<1>5. QED BY <1>3, <1>4 DEF Dates

\* Nor does what a client owes another one, when who waits still does.
LEMMA CalmLeads ==
  ASSUME IInv, Calm, NEW c, NEW d, NEW y, Leads(c, d, y),
         \A u \in Tabs : tab[u].phase = "open" /\ tab[u].main.client = d /\ tab[u].held => tab'[u].held
  PROVE  Leads(c, d, y)'
<1>1. \A u \in Tabs : /\ tab'[u].phase = tab[u].phase /\ tab'[u].found = tab[u].found
                      /\ tab'[u].older = tab[u].older /\ tab'[u].main.client = tab[u].main.client
                      /\ tab'[u].drain.client = tab[u].drain.client
  BY DEF Calm, SameView
<1>2. lock' = lock BY DEF Calm
<1>3. Apart(c, d)' BY <1>1 DEF Leads, Apart
<1>4. Behind(c, d)' BY <1>1, <1>2 DEF Leads, Behind
<1>5. Waits(c, d)' BY <1>1 DEF Leads, Waits, WaitsIn
<1>6. Listed(c, d)' BY <1>1, <1>2 DEF Leads, Listed
<1>7. Earlier(c, d, y)'
  <2> SUFFICES ASSUME NEW a \in device', a.client = c
               PROVE  /\ \A r \in device' : r.client = d /\ y \in EditsIn(r) => a.savedAt < r.savedAt
                      /\ \A t \in Tabs : \A w \in ToSet(tab'[t].writes) :
                           w.client = d /\ y \in EditsIn(w) => a.savedAt < w.savedAt
    BY DEF Earlier
  <2>1. a \in device
    <3>1. ASSUME NEW u \in Tabs, a \in ToSet(tab[u].writes) PROVE FALSE
      BY <3>1, WrittenOwn DEF Leads, Apart
    <3>2. QED BY <3>1 DEF Calm
  <2>2. /\ \A r \in device : r.client = d /\ y \in EditsIn(r) => a.savedAt < r.savedAt
        /\ \A t \in Tabs : \A w \in ToSet(tab[t].writes) :
             w.client = d /\ y \in EditsIn(w) => a.savedAt < w.savedAt
    BY <2>1 DEF Leads, Earlier
  <2>3. a.savedAt < Now BY <2>1, DatesAre, NowIs
  <2>4. \A w : w.batches = {} => y \notin EditsIn(w) BY DEF EditsIn
  <2>5. \A t \in Tabs : \A w \in ToSet(tab'[t].writes) :
          w \in ToSet(tab[t].writes) \/ w.batches = {} \/ w.savedAt = Now
    BY DEF Calm, SameView
  <2>6. \A t \in Tabs : \A w \in ToSet(tab'[t].writes) :
             w.client = d /\ y \in EditsIn(w) => a.savedAt < w.savedAt
    BY <2>2, <2>3, <2>4, <2>5
  <2>7. \A r \in device' : r \in device \/ \E u \in Tabs : r \in ToSet(tab[u].writes) BY DEF Calm
  <2>8. QED BY <2>2, <2>6, <2>7
<1>8. QED BY <1>3, <1>4, <1>5, <1>6, <1>7 DEF Leads

\* A calm step keeps the order, if who waits still does.
LEMMA CalmStep ==
  ASSUME IInv, Ledger, IInv', Ledger', InTurn, Onward, Calm, log' = log, before' \subseteq before,
         waived' = waived, Off',
         \A p \in before' : \A c, d : Pair(p, c, d) /\ Live(p)' =>
           \A u \in Tabs : tab[u].phase = "open" /\ tab[u].main.client = d /\ tab[u].held => tab'[u].held
  PROVE  InTurn'
<1>1. Dates' BY CalmDates DEF InTurn
<1>2. Dropped' BY DroppedStays DEF InTurn, Dropped
<1>3. \A p \in before' : \A c, d : Pair(p, c, d) /\ Live(p)' => Leads(c, d, p[2])' BY PairIs, CalmLeads
<1>4. NewestWins' /\ Order' BY <1>3, OrderStep
<1>5. QED BY <1>1, <1>2, <1>4 DEF InTurn

\* Nothing new is named.
LEMMA OnwardIs ==
  ASSUME IInv, gone => gone', waived \subseteq waived', edits' = edits,
         \A e : InLog(e) => InLog(e)', NothingNew(0)
  PROVE  Onward
<1>1. edits \in Nat BY BoundsAssumption DEF IInv, TypeOK
<1>2. \A k, n, e : Named(k, n, e)' => Named(k, n, e) BY DEF NothingNew
<1>3. QED BY <1>1, <1>2 DEF Onward

----------------------------------------------------------------------------
(* The steps that move no copy                                             *)

\* A session has nothing new.
Fewer(s, r) == \A k, n, e : Of(s, k, n, e) => Of(r, k, n, e)

\* Nothing new is named when no session and no record has anything new.
LEMMA NothingNewAll ==
  ASSUME \A u \in Tabs : Fewer(tab'[u], tab[u]),
         \A d \in device' : d \in device \/ \A b \in d.batches : Named(d.client, b.n, b.edit)
  PROVE  NothingNew(0)
<1> SUFFICES ASSUME NEW k, NEW n, NEW e, Named(k, n, e)' PROVE Named(k, n, e) BY DEF NothingNew
<1>1. CASE Recorded(k, n, e)'
  <2>1. PICK d \in device' : d.client = k /\ Has(d.batches, n, e) BY <1>1 DEF Recorded
  <2>2. CASE d \in device BY <2>1, <2>2 DEF Named, Recorded
  <2>3. CASE d \notin device
    <3>1. PICK b \in d.batches : b.n = n /\ b.edit = e BY <2>1 DEF Has
    <3>2. QED BY <2>1, <2>3, <3>1
  <2>4. QED BY <2>2, <2>3
<1>2. CASE ~Recorded(k, n, e)'
  <2>1. PICK u \in Tabs : \A z : z = tab'[u] => Of(z, k, n, e) BY <1>2 DEF Named, Of
  <2>2. Of(tab[u], k, n, e) BY <2>1 DEF Fewer
  <2>3. QED BY <2>2, NamedOf
<1>3. QED BY <1>1, <1>2

\* Batches with the numbers and the edits of others.
LEMMA FewerBatches ==
  ASSUME NEW s, NEW r, s.main.client = r.main.client, s.drain.client = r.drain.client,
         \A b \in s.main.batches : Has(r.main.batches, b.n, b.edit),
         \A b \in s.drain.batches : Has(r.drain.batches, b.n, b.edit),
         s.found \subseteq r.found, s.older \subseteq r.older, s.saved = r.saved, s.writes = r.writes
  PROVE  Fewer(s, r)
<1> SUFFICES ASSUME NEW k, NEW n, NEW e, Of(s, k, n, e) PROVE Of(r, k, n, e) BY DEF Fewer
<1>1. CASE s.main.client = k /\ Has(s.main.batches, n, e) BY <1>1 DEF Of, Has
<1>2. CASE s.drain.client = k /\ Has(s.drain.batches, n, e) BY <1>2 DEF Of, Has
<1>3. CASE \E z \in s.found \cup s.older \cup ToSet(s.writes) \cup {s.saved} : z.client = k /\ Has(z.batches, n, e)
  <2>1. s.found \cup s.older \cup ToSet(s.writes) \cup {s.saved} \subseteq
          r.found \cup r.older \cup ToSet(r.writes) \cup {r.saved}
    OBVIOUS
  <2>2. QED BY <1>3, <2>1 DEF Of
<1>4. QED BY <1>1, <1>2, <1>3 DEF Of

\* A connection goes on, without new batches.
LEMMA SlotCalm ==
  ASSUME IInv, NEW t \in Tabs, NEW slot \in Slots, NEW h \in Engine, NEW a \in BOOLEAN,
         tab' = [tab EXCEPT ![t][slot] = h, ![t].armed = a] \/ tab' = [tab EXCEPT ![t][slot] = h],
         h.client = tab[t][slot].client, h.age = tab[t][slot].age,
         \A b \in h.batches : Has(tab[t][slot].batches, b.n, b.edit)
  PROVE  \A u \in Tabs : SameView(tab'[u], tab[u]) /\ Fewer(tab'[u], tab[u]) /\ tab'[u].held = tab[u].held
<1> SUFFICES ASSUME NEW u \in Tabs
             PROVE  SameView(tab'[u], tab[u]) /\ Fewer(tab'[u], tab[u]) /\ tab'[u].held = tab[u].held
  OBVIOUS
<1>1. tab \in [Tabs -> Session] BY DEF IInv, TypeOK
<1> PICK r : r = tab[u] OBVIOUS
<1> PICK s : s = tab'[u] OBVIOUS
<1>2. r \in Session BY <1>1
<1>3. CASE u # t
  <2>1. s = r BY <1>1, <1>3
  <2>2. QED BY <2>1 DEF SameView, Fewer
<1>4. CASE u = t
  <2>1. /\ s.phase = r.phase /\ s.found = r.found /\ s.older = r.older /\ s.held = r.held
        /\ s.saved = r.saved /\ s.writes = r.writes
        /\ \/ slot = "main" /\ s.main = h /\ s.drain = r.drain
           \/ slot = "drain" /\ s.drain = h /\ s.main = r.main
    <3>1. CASE slot = "main"
      <4>1. tab' = [tab EXCEPT ![t].main = h, ![t].armed = a] \/ tab' = [tab EXCEPT ![t].main = h] BY <3>1
      <4>2. s = [r EXCEPT !.main = h, !.armed = a] \/ s = [r EXCEPT !.main = h] BY <1>1, <1>4, <4>1
      <4>3. QED BY <1>2, <3>1, <4>2 DEF Session
    <3>2. CASE slot = "drain"
      <4>1. tab' = [tab EXCEPT ![t].drain = h, ![t].armed = a] \/ tab' = [tab EXCEPT ![t].drain = h] BY <3>2
      <4>2. s = [r EXCEPT !.drain = h, !.armed = a] \/ s = [r EXCEPT !.drain = h] BY <1>1, <1>4, <4>1
      <4>3. QED BY <1>2, <3>2, <4>2 DEF Session
    <3>3. QED BY <3>1, <3>2 DEF Slots
  <2>2. \A b \in r.main.batches : Has(r.main.batches, b.n, b.edit) BY DEF Has
  <2>3. \A b \in r.drain.batches : Has(r.drain.batches, b.n, b.edit) BY DEF Has
  <2>4. /\ s.main.client = r.main.client /\ s.drain.client = r.drain.client
        /\ s.drain.age = r.drain.age
        /\ \A b \in s.main.batches : Has(r.main.batches, b.n, b.edit)
        /\ \A b \in s.drain.batches : Has(r.drain.batches, b.n, b.edit)
    <3>1. CASE slot = "main"
      <4>1. s.main = h /\ s.drain = r.drain BY <2>1, <3>1
      <4>2. h.client = r.main.client /\ \A b \in h.batches : Has(r.main.batches, b.n, b.edit) BY <1>4, <3>1
      <4>3. QED BY <2>3, <4>1, <4>2
    <3>2. CASE slot = "drain"
      <4>1. s.drain = h /\ s.main = r.main BY <2>1, <3>2
      <4>2. h.client = r.drain.client /\ h.age = r.drain.age /\ \A b \in h.batches : Has(r.drain.batches, b.n, b.edit)
        BY <1>4, <3>2
      <4>3. QED BY <2>2, <4>1, <4>2
    <3>3. QED BY <3>1, <3>2 DEF Slots
  <2>5. Fewer(s, r) BY <2>1, <2>4, FewerBatches
  <2>6. QED BY <2>1, <2>4, <2>5 DEF SameView
<1>5. QED BY <1>3, <1>4

\* A connection changes, the room does not.
LEMMA SlotStep ==
  ASSUME IInv, Ledger, IInv', Ledger', InTurn, ~gone,
         \A u \in Tabs : SameView(tab'[u], tab[u]) /\ Fewer(tab'[u], tab[u]) /\ tab'[u].held = tab[u].held,
         UNCHANGED <<device, lock, log, edits, gone, waived, before>>
  PROVE  InTurn'
<1>1. NothingNew(0) BY NothingNewAll
<1>2. Onward BY <1>1, OnwardIs DEF InLog
<1>3. Calm BY DEF Calm
<1>4. Off' BY DEF Off
<1>5. QED BY <1>2, <1>3, <1>4, CalmStep

\* A connection is lost.
LEMMA DisconnectInTurn ==
  ASSUME IInv, Ledger, IInv', Ledger', InTurn, NEW t \in Tabs, NEW slot \in Slots, Disconnect(t, slot)
  PROVE  InTurn'
<1> PICK g : g = tab[t][slot] OBVIOUS
<1>1. g \in Engine /\ g.on BY EngineOf DEF Disconnect
<1> PICK h : h = [g EXCEPT !.on = FALSE] OBVIOUS
<1>2. h \in Engine /\ h.client = g.client /\ h.age = g.age /\ h.batches = g.batches BY <1>1 DEF Engine
<1>3. tab' = [tab EXCEPT ![t][slot] = h] BY EngineOf DEF Disconnect, Slots, Session, Engine
<1>4. \A b \in h.batches : Has(g.batches, b.n, b.edit) BY <1>2 DEF Has
<1>5. ~gone BY <1>1 DEF InTurn, Off, Slots
<1>6. TRUE \in BOOLEAN OBVIOUS
<1>7. \A u \in Tabs : SameView(tab'[u], tab[u]) /\ Fewer(tab'[u], tab[u]) /\ tab'[u].held = tab[u].held
  BY <1>2, <1>3, <1>4, <1>6, SlotCalm
<1>8. QED BY <1>5, <1>7, SlotStep DEF Disconnect, room

\* What the room has written is forgotten.
LEMMA WelcomeInTurn ==
  ASSUME IInv, Ledger, IInv', Ledger', InTurn, NEW t \in Tabs, NEW slot \in Slots, Welcome(t, slot)
  PROVE  InTurn'
<1> PICK g : g = tab[t][slot] OBVIOUS
<1>1. g \in Engine /\ ~gone BY EngineOf DEF Welcome
<1>2. g.client \in Clients /\ g.next \in Nat BY <1>1, BoundsAssumption DEF Welcome, Connected, Engine, Clients
<1> PICK q : q = Known(g) OBVIOUS
<1>3. q \in SUBSET Local /\ \A k \in q : \E b \in g.batches : k.n = b.n /\ k.edit = b.edit BY <1>1, KnownOK
<1> PICK m : m = Max({g.next, last[g.client] + 1}) OBVIOUS
<1>4. m \in Nat
  <2>1. last[g.client] \in Nat BY <1>2 DEF IInv, TypeOK
  <2>2. PICK k \in Nat : k = last[g.client] + 1 BY <2>1
  <2>3. m = Max({g.next, k}) BY <2>2
  <2>4. m \in {g.next, k} BY <1>2, <2>2, <2>3, MaxOfTwo
  <2>5. QED BY <1>2, <2>2, <2>4
<1> PICK h : h = [g EXCEPT !.on = TRUE, !.batches = q, !.next = m] OBVIOUS
<1>5. h \in Engine /\ h.client = g.client /\ h.age = g.age /\ h.batches = q BY <1>1, <1>3, <1>4 DEF Engine
<1> PICK a : a = (tab[t].armed \/ (slot = "main" /\ tab[t].held)) OBVIOUS
<1>6. a \in BOOLEAN OBVIOUS
<1>7. tab' = [tab EXCEPT ![t][slot] = h, ![t].armed = a]
  <2> DEFINE n == [tab[t][slot] EXCEPT !.on = TRUE, !.batches = Known(tab[t][slot]),
                       !.next = Max({tab[t][slot].next, last[tab[t][slot].client] + 1})]
  <2>1. tab' = [tab EXCEPT ![t][slot] = n,
                  ![t].armed = tab[t].armed \/ (slot = "main" /\ tab[t].held)]
    BY DEF Welcome
  <2>2. n = h BY <1>1 DEF Engine
  <2> HIDE DEF n
  <2>3. QED BY <2>1, <2>2
<1>8. \A b \in h.batches : Has(g.batches, b.n, b.edit) BY <1>3, <1>5, SMTT(30) DEF Has
<1>9. \A u \in Tabs : SameView(tab'[u], tab[u]) /\ Fewer(tab'[u], tab[u]) /\ tab'[u].held = tab[u].held
  BY <1>5, <1>6, <1>7, <1>8, SlotCalm
<1>10. QED BY <1>1, <1>9, SlotStep DEF Welcome, room

\* The room applies a batch a session may send, or has applied it.
LEMMA SentStep ==
  ASSUME IInv, Ledger, IInv', Ledger', InTurn, NEW t \in Tabs, NEW slot \in Slots, MaySend(t, slot),
         NEW b, b = FirstPending(tab[t][slot]), Apply(tab[t][slot].client, b),
         \A u \in Tabs : SameView(tab'[u], tab[u]) /\ Fewer(tab'[u], tab[u]) /\ tab'[u].held = tab[u].held,
         UNCHANGED <<device, lock, edits, gone, waived, before>>
  PROVE  InTurn'
<1> PICK g : g = tab[t][slot] OBVIOUS
<1>1. g \in Engine /\ g.client # 0 /\ g.on /\ Pending(g) # {} /\ tab[t].phase = "open"
  BY EngineOf DEF MaySend, Connected
<1>2. b \in g.batches /\ b.at = 0 /\ b \in Local BY <1>1, FirstPendingIs DEF Pending, Engine
<1>3. g.client \in Clients BY <1>1, BoundsAssumption DEF Engine, Clients
<1>4. ~gone BY <1>1 DEF InTurn, Off, Slots
<1>5. Mine(g.client, b.edit)
  <2>1. Of(tab[t], g.client, b.n, b.edit) BY <1>2 DEF Of, Has, Slots
  <2>2. QED BY <2>1, NamedOf DEF Mine
<1>6. /\ log' \in Seq(1..MaxEdits) /\ Len(log') \in Nat /\ Len(log) \in Nat /\ Len(log) <= Len(log')
      /\ \A i \in 1..Len(log) : log'[i] = log[i]
      /\ log' = log \/ (Len(log') = Len(log) + 1 /\ log'[Len(log')] = b.edit)
  BY <1>2, <1>3, ApplyIs
<1>7. DOMAIN log' = 1..Len(log') /\ DOMAIN log = 1..Len(log) BY <1>6, Lengths
<1>19. \A i \in DOMAIN log : i \in DOMAIN log' /\ log'[i] = log[i]
  <2>1. \A i \in 1..Len(log) : i \in 1..Len(log') /\ log'[i] = log[i] BY <1>6
  <2>2. QED BY <1>7, <2>1
<1>8. \A e : InLog(e) => InLog(e)' BY <1>19 DEF InLog
<1>9. \A e : InLog(e)' => InLog(e) \/ e = b.edit
  <2>1. CASE log' = log BY <2>1 DEF InLog
  <2>2. CASE Len(log') = Len(log) + 1 /\ log'[Len(log')] = b.edit
    <3>1. \A i \in 1..Len(log') : i \in 1..Len(log) \/ i = Len(log') BY <1>6, <2>2
    <3>2. QED BY <1>6, <1>7, <2>2, <3>1 DEF InLog
  <2>3. QED BY <1>6, <2>1, <2>2
<1>10. NothingNew(0) BY NothingNewAll
<1>11. Onward BY <1>8, <1>10, OnwardIs
<1>12. Calm BY DEF Calm
<1>13. Dates' /\ Dropped' /\ Off'
  <2>1. Dates' BY <1>12, CalmDates DEF InTurn
  <2>2. Dropped' BY <1>11, DroppedStays DEF InTurn, Dropped
  <2>3. QED BY <1>4, <2>1, <2>2 DEF Off
<1>14. \A p \in before : \A c, d : Pair(p, c, d) => Leads(c, d, p[2])' BY <1>12, PairIs, CalmLeads
<1>15. Order' BY <1>11, <1>14, OldPair DEF Order
\* Who has the second edit of a pair waits, or has the first one sent.
<1>16. ASSUME NEW p \in before, Live(p), p[2] = b.edit PROVE FALSE
  <2>1. Mine(g.client, p[2]) BY <1>5, <1>16
  <2>2. OnDevice(p[1]) BY <1>3, <1>16, <2>1 DEF InTurn, Order, Ordered
  <2>3. PICK a \in device : p[1] \in EditsIn(a) BY <2>2 DEF OnDevice
  <2>4. Mine(a.client, p[1]) /\ a.client \in Clients BY <2>3, RecordMine, CopyFields DEF IInv, TypeOK
  <2>5. Leads(a.client, g.client, p[2]) BY <1>3, <1>16, <2>1, <2>4 DEF InTurn, Order, Ordered
  <2>6. CASE slot = "drain" BY <2>5, <2>6 DEF Leads, Apart
  <2>7. CASE slot = "main"
    <3>1. tab[t].held BY <1>1, <2>5, <2>7 DEF Leads, Waits, WaitsIn
    <3>2. QED BY <2>7, <3>1 DEF MaySend
  <2>8. QED BY <2>6, <2>7 DEF Slots
<1>17. NewestWins'
  <2> SUFFICES ASSUME NEW p \in before, InLog(p[2])', p[1] \notin waived
               PROVE  \E i, j \in DOMAIN log' : i < j /\ log'[i] = p[1] /\ log'[j] = p[2]
    BY DEF NewestWins
  <2>1. CASE InLog(p[2])
    <3>1. PICK i, j \in DOMAIN log : i < j /\ log[i] = p[1] /\ log[j] = p[2]
      BY <2>1 DEF InTurn, NewestWins
    <3>2. i \in DOMAIN log' /\ j \in DOMAIN log' /\ log'[i] = log[i] /\ log'[j] = log[j]
      BY <1>19, <3>1
    <3>3. QED BY <3>1, <3>2
  <2>2. CASE ~InLog(p[2])
    <3>1. p[2] = b.edit /\ log' # log BY <1>9, <2>2 DEF InLog
    <3>2. InLog(p[1]) BY <1>4, <1>16, <3>1 DEF Live
    <3>3. PICK i \in DOMAIN log : log[i] = p[1] BY <3>2 DEF InLog
    <3>4. Len(log') = Len(log) + 1 /\ log'[Len(log')] = b.edit BY <1>6, <3>1
    <3>5. i \in DOMAIN log' /\ Len(log') \in DOMAIN log' /\ i < Len(log') /\ log'[i] = p[1]
      BY <1>6, <1>7, <3>3, <3>4
    <3>6. QED BY <3>1, <3>4, <3>5
  <2>3. QED BY <2>1, <2>2
<1>18. QED BY <1>13, <1>15, <1>17 DEF InTurn

\* A batch is sent and acknowledged.
LEMMA SendInTurn ==
  ASSUME IInv, Ledger, IInv', Ledger', InTurn, NEW t \in Tabs, NEW slot \in Slots, Send(t, slot)
  PROVE  InTurn'
<1> PICK g : g = tab[t][slot] OBVIOUS
<1>1. g \in Engine /\ g.client # 0 /\ MaySend(t, slot) /\ Pending(g) # {}
  BY EngineOf DEF Send, MaySend, Connected
<1> PICK b : b = FirstPending(g) OBVIOUS
<1>2. b \in g.batches /\ b \in Local
  BY <1>1, FirstPendingIs DEF Pending, Engine
<1>3. g.client \in Clients BY <1>1, BoundsAssumption DEF Engine, Clients
<1>4. Apply(g.client, b) BY DEF Send
<1>5. PICK n \in Nat : n = Len(log') BY <1>2, <1>3, <1>4, ApplyIs
<1> PICK z : z = [b EXCEPT !.at = n] OBVIOUS
<1>6. z \in Local /\ z.n = b.n /\ z.edit = b.edit BY <1>2, <1>5 DEF Local
<1> PICK q : q = (g.batches \ {b}) \cup {z} OBVIOUS
<1>7. q \in SUBSET Local BY <1>1, <1>6 DEF Engine
<1> PICK h : h = [g EXCEPT !.batches = q] OBVIOUS
<1>8. h \in Engine /\ h.client = g.client /\ h.age = g.age /\ h.batches = q BY <1>1, <1>7 DEF Engine
<1>9. tab' = [tab EXCEPT ![t][slot] = h]
  <2>1. tab' = [tab EXCEPT ![t][slot].batches = q] BY <1>5 DEF Send
  <2>2. QED BY <2>1, EngineOf DEF Slots, Session, Engine
<1>10. \A k \in h.batches : Has(g.batches, k.n, k.edit) BY <1>2, <1>6, <1>8 DEF Has
<1>11. TRUE \in BOOLEAN OBVIOUS
<1>12. \A u \in Tabs : SameView(tab'[u], tab[u]) /\ Fewer(tab'[u], tab[u]) /\ tab'[u].held = tab[u].held
  BY <1>8, <1>9, <1>10, <1>11, SlotCalm
<1>13. QED BY <1>1, <1>4, <1>12, SentStep DEF Send

\* A batch is applied, the answer is lost.
LEMMA SendUnansweredInTurn ==
  ASSUME IInv, Ledger, IInv', Ledger', InTurn, NEW t \in Tabs, NEW slot \in Slots, SendUnanswered(t, slot)
  PROVE  InTurn'
<1> PICK g : g = tab[t][slot] OBVIOUS
<1>1. g \in Engine /\ MaySend(t, slot) BY EngineOf DEF SendUnanswered
<1> PICK h : h = [g EXCEPT !.on = FALSE] OBVIOUS
<1>2. h \in Engine /\ h.client = g.client /\ h.age = g.age /\ h.batches = g.batches BY <1>1 DEF Engine
<1>3. tab' = [tab EXCEPT ![t][slot] = h] BY EngineOf DEF SendUnanswered, Slots, Session, Engine
<1>4. \A b \in h.batches : Has(g.batches, b.n, b.edit) BY <1>2 DEF Has
<1>5. TRUE \in BOOLEAN OBVIOUS
<1>6. \A u \in Tabs : SameView(tab'[u], tab[u]) /\ Fewer(tab'[u], tab[u]) /\ tab'[u].held = tab[u].held
  BY <1>2, <1>3, <1>4, <1>5, SlotCalm
<1>7. QED BY <1>1, <1>6, SentStep DEF SendUnanswered

\* A session that takes a calm step.
LEMMA OneCalm ==
  ASSUME IInv, NEW t \in Tabs, NEW s, tab' = [tab EXCEPT ![t] = s], SameView(s, tab[t]),
         \A k, n, e : Of(s, k, n, e) => Named(k, n, e), lock' = lock,
         \A d \in device' : d \in device \/ d \in ToSet(tab[t].writes)
  PROVE  Calm /\ NothingNew(0)
<1>1. tab \in [Tabs -> Session] BY DEF IInv, TypeOK
<1>2. \A u \in Tabs : SameView(tab'[u], tab[u]) BY <1>1 DEF SameView
<1>3. Calm BY <1>2 DEF Calm
<1>4. ASSUME NEW d \in device', d \notin device, NEW b \in d.batches PROVE Named(d.client, b.n, b.edit)
  <2>1. d \in ToSet(tab[t].writes) BY <1>4
  <2>2. Of(tab[t], d.client, b.n, b.edit) BY <1>4, <2>1 DEF Of, Has
  <2>3. QED BY <2>2, NamedOf
<1>5. QED BY <1>3, <1>4, NothingNewBy

\* The state of the session is queued, with the date of the day.
LEMMA PersistInTurn ==
  ASSUME IInv, Ledger, IInv', Ledger', InTurn, NEW t \in Tabs, Persist(t)
  PROVE  InTurn'
<1> PICK r : r = tab[t] OBVIOUS
<1>0. r \in Session /\ tab \in [Tabs -> Session] /\ r.phase = "open" /\ Unsaved(t) BY DEF Persist, IInv, TypeOK
<1> PICK q : q = Persisted(t) OBVIOUS
<1>1. /\ q \in Seq(Copy)
      /\ \A w \in ToSet(q) : w \in ToSet(r.writes) \/ w.savedAt = Now
      /\ \A w \in ToSet(q) : w \in ToSet(r.writes) \/
           (w.client = r.main.client /\ \A n, e : Has(w.batches, n, e) <=> Has(r.main.batches, n, e))
  BY <1>0, PersistedIs, Queued
<1> PICK s : s = [r EXCEPT !.writes = q] OBVIOUS
<1>2. /\ s.phase = r.phase /\ s.found = r.found /\ s.older = r.older
      /\ s.main = r.main /\ s.drain = r.drain /\ s.held = r.held
      /\ s.saved = r.saved /\ s.writes = q
  BY <1>0, <1>1 DEF Session
<1>3. tab' = [tab EXCEPT ![t] = s] BY <1>0 DEF Persist
<1>4. \A k, n, e : Of(s, k, n, e) => Named(k, n, e)
  <2>1. \A k, n, e : Of(s, k, n, e) => Of(r, k, n, e) BY <1>1, <1>2 DEF Of
  <2>2. QED BY <2>1, NamedOf
<1>5. UNCHANGED <<device, lock, log, edits, gone, waived, before>> BY DEF Persist, room
<1>6. SameView(s, r) BY <1>1, <1>2 DEF SameView
<1>7. Calm /\ NothingNew(0) BY <1>3, <1>4, <1>5, <1>6, OneCalm
<1>8. Onward BY <1>5, <1>7, OnwardIs DEF InLog
<1>9. \A u \in Tabs : tab'[u].held = tab[u].held /\ tab'[u].main.on = tab[u].main.on /\ tab'[u].drain.on = tab[u].drain.on
  BY <1>0, <1>2, <1>3
<1>10. Off' BY <1>5, <1>9 DEF InTurn, Off
<1>11. QED BY <1>5, <1>7, <1>8, <1>9, <1>10, CalmStep

\* What was queued is on the device.
LEMMA WriteLandsInTurn ==
  ASSUME IInv, Ledger, IInv', Ledger', InTurn, NEW t \in Tabs, WriteLands(t)
  PROVE  InTurn'
<1> PICK r : r = tab[t] OBVIOUS
<1>0. r \in Session /\ r.writes # <<>> /\ tab \in [Tabs -> Session] BY DEF WriteLands, IInv, TypeOK
<1> PICK q : q = r.writes OBVIOUS
<1> PICK x : x = Head(q) OBVIOUS
<1> PICK k : k = Tail(q) OBVIOUS
<1>1. q \in Seq(Copy) /\ q # <<>> BY <1>0, SessionFields
<1>2. x \in ToSet(q) /\ k \in Seq(Copy) /\ ToSet(k) \subseteq ToSet(q) /\ x \in Copy BY <1>1, HeadIs
<1> PICK s : s = [r EXCEPT !.writes = k, !.saved = x] OBVIOUS
<1>3. /\ s.phase = r.phase /\ s.found = r.found /\ s.older = r.older
      /\ s.main = r.main /\ s.drain = r.drain /\ s.held = r.held
      /\ s.saved = x /\ s.writes = k
  BY <1>0, <1>2 DEF Session
<1>4. tab' = [tab EXCEPT ![t] = s] /\ device' = Put(x) BY <1>0 DEF WriteLands, Session
<1>5. \A j, n, e : Of(s, j, n, e) => Named(j, n, e)
  <2>1. s.found \cup s.older \cup ToSet(s.writes) \cup {s.saved} \subseteq
          r.found \cup r.older \cup ToSet(r.writes) \cup {r.saved}
    BY <1>2, <1>3
  <2>2. \A j, n, e : Of(s, j, n, e) => Of(r, j, n, e) BY <1>3, <2>1 DEF Of
  <2>3. QED BY <2>2, NamedOf
<1>6. UNCHANGED <<lock, log, edits, gone, waived, before>> BY DEF WriteLands, room
<1>7. SameView(s, r) BY <1>2, <1>3 DEF SameView
<1>8. \A d \in device' : d \in device \/ d \in ToSet(r.writes) BY <1>2, <1>4, PutIs
<1>9. Calm /\ NothingNew(0) BY <1>4, <1>5, <1>6, <1>7, <1>8, OneCalm
<1>10. Onward BY <1>6, <1>9, OnwardIs DEF InLog
<1>11. \A u \in Tabs : tab'[u].held = tab[u].held /\ tab'[u].main.on = tab[u].main.on /\ tab'[u].drain.on = tab[u].drain.on
  BY <1>0, <1>3, <1>4
<1>12. Off' BY <1>6, <1>11 DEF InTurn, Off
<1>13. QED BY <1>6, <1>9, <1>10, <1>11, <1>12, CalmStep

\* A session that continues the client that waits has the other one.
LEMMA HasFirst ==
  ASSUME IInv, Ledger, InTurn, NEW p, NEW c, NEW d, Pair(p, c, d), NEW t \in Tabs,
         tab[t].phase = "open", d \in ClientsIn(tab[t])
  PROVE  /\ lock[c] = t
         /\ c \in {o.client : o \in tab[t].older} \cup ({tab[t].drain.client} \ {0})
         /\ p[1] \in EditsOf(tab[t].older) \cup EditsIn(tab[t].drain)
<1>1. c \in Clients /\ c # 0 /\ Mine(c, p[1]) BY DEF Pair, Clients
<1>2. lock[d] = t /\ t # NoTab BY OwnClient, TabAssumption
<1>3. Leads(c, d, p[2]) /\ ~Written(p[1]) BY PairIs
<1>4. lock[c] = t BY <1>2, <1>3 DEF Leads, Behind
<1>5. c \in ClientsIn(tab[t]) BY <1>1, <1>4 DEF IInv, Own
<1>6. tab[t].main.client # c BY <1>3 DEF Leads, Apart
<1>7. c \in {o.client : o \in tab[t].older} \cup ({tab[t].drain.client} \ {0}) BY <1>5, <1>6 DEF ClientsIn
<1>8. Fit(tab[t]) BY DEF Ledger
<1>9. CASE c = tab[t].drain.client
  <2>1. Whole(c, tab[t].drain.next, tab[t].drain.batches) BY <1>8, <1>9 DEF Fit
  <2>2. PICK b \in tab[t].drain.batches : b.edit = p[1] BY <1>1, <1>3, <2>1, WholeHas
  <2>3. QED BY <1>4, <1>7, <2>2 DEF EditsIn
<1>10. CASE c # tab[t].drain.client
  <2>1. PICK o \in tab[t].older : o.client = c BY <1>7, <1>10
  <2>2. Whole(c, o.next, o.batches) BY <1>8, <2>1 DEF Fit
  <2>3. PICK b \in o.batches : b.edit = p[1] BY <1>1, <1>3, <2>2, WholeHas
  <2>4. p[1] \in EditsIn(o) BY <2>3 DEF EditsIn
  <2>5. p[1] \in EditsOf(tab[t].older) BY <2>4 DEF EditsOf
  <2>6. QED BY <1>4, <1>7, <2>5
<1>11. QED BY <1>9, <1>10

\* The hold ends, with nothing left to wait for or by its deadline: the pairs that
\* waited are sent, or no longer count.
LEMMA HoldInTurn ==
  ASSUME IInv, Ledger, IInv', Ledger', InTurn, NEW t \in Tabs, Deadline(t) \/ Drained(t)
  PROVE  InTurn'
<1> PICK r : r = tab[t] OBVIOUS
<1>0. r \in Session /\ tab \in [Tabs -> Session] /\ Shape(r) /\ r.phase = "open"
  BY DEF IInv, TypeOK, Own, Deadline, Drained
<1> PICK s : s = [r EXCEPT !.held = FALSE] OBVIOUS
<1>1. /\ s.phase = r.phase /\ s.found = r.found /\ s.older = r.older
      /\ s.main = r.main /\ s.drain = r.drain /\ s.saved = r.saved /\ s.writes = r.writes
  BY <1>0 DEF Session
<1>2. tab' = [tab EXCEPT ![t] = s] BY <1>0 DEF Deadline, Drained
<1>3. \A k, n, e : Of(s, k, n, e) => Named(k, n, e) BY <1>1, NamedOf DEF Of
<1>4. UNCHANGED <<device, lock, log, edits, gone, waived>> BY DEF Deadline, Drained, room
<1>5. SameView(s, r) BY <1>1 DEF SameView
<1>6. Calm /\ NothingNew(0) BY <1>2, <1>3, <1>4, <1>5, OneCalm
<1>7. Onward BY <1>4, <1>6, OnwardIs DEF InLog
<1>8. \A u \in Tabs : /\ u # t => tab'[u].held = tab[u].held
                      /\ tab'[u].main.on = tab[u].main.on /\ tab'[u].drain.on = tab[u].drain.on
  BY <1>0, <1>1, <1>2
<1>9. Off' BY <1>4, <1>8 DEF InTurn, Off
<1>10. before' \subseteq before BY DEF Deadline, Drained
<1>11. ASSUME NEW p \in before', NEW c, NEW d, Pair(p, c, d), r.main.client = d PROVE FALSE
  <2>1. d \in ClientsIn(r) BY <1>11 DEF ClientsIn, Pair, Clients
  <2>2. /\ c \in {o.client : o \in r.older} \cup ({r.drain.client} \ {0})
        /\ p[1] \in EditsOf(r.older) \cup EditsIn(r.drain)
    BY <1>0, <1>11, <2>1, HasFirst
  <2>3. CASE Deadline(t) BY <1>11, <2>2, <2>3 DEF Deadline
  <2>4. CASE Drained(t) BY <2>2, <2>4 DEF Drained
  <2>5. QED BY <2>3, <2>4
<1>12. QED BY <1>4, <1>6, <1>7, <1>8, <1>9, <1>10, <1>11, CalmStep

\* The journal is written: clients forget what is in it.
LEMMA JournalInTurn ==
  ASSUME IInv, Ledger, IInv', Ledger', InTurn, Journal
  PROVE  InTurn'
<1>1. tab \in [Tabs -> Session] BY DEF IInv, TypeOK
<1> DEFINE Told(h) == IF h.on THEN [h EXCEPT !.batches = Pending(h)] ELSE h
<1>2. tab' = [t \in Tabs |-> [tab[t] EXCEPT !.main = Told(tab[t].main), !.drain = Told(tab[t].drain)]]
  BY DEF Journal
<1>3. UNCHANGED <<device, lock, log, edits, gone, waived, before>> BY DEF Journal
<1>4. ASSUME NEW h \in Engine
      PROVE  /\ Told(h).client = h.client /\ Told(h).age = h.age /\ Told(h).on = h.on
             /\ \A b \in Told(h).batches : Has(h.batches, b.n, b.edit)
  <2>1. CASE h.on
    <3> PICK q : q = Pending(h) OBVIOUS
    <3>1. q \subseteq h.batches BY DEF Pending
    <3> PICK g : g = [h EXCEPT !.batches = q] OBVIOUS
    <3>2. g.client = h.client /\ g.age = h.age /\ g.on = h.on /\ g.batches = q BY DEF Engine
    <3>3. Told(h) = g BY <2>1
    <3> HIDE DEF Told
    <3>4. QED BY <3>1, <3>2, <3>3 DEF Has
  <2>2. CASE ~h.on BY <2>2 DEF Has
  <2>3. QED BY <2>1, <2>2
<1> HIDE DEF Told
<1>5. ASSUME NEW u \in Tabs
      PROVE  /\ SameView(tab'[u], tab[u]) /\ Fewer(tab'[u], tab[u]) /\ tab'[u].held = tab[u].held
             /\ tab'[u].main.on = tab[u].main.on /\ tab'[u].drain.on = tab[u].drain.on
  <2> PICK r : r = tab[u] OBVIOUS
  <2> PICK m : m = Told(r.main) OBVIOUS
  <2> PICK d : d = Told(r.drain) OBVIOUS
  <2> PICK s : s = [r EXCEPT !.main = m, !.drain = d] OBVIOUS
  <2>1. tab'[u] = s BY <1>2
  <2>2. r \in Session /\ r.main \in Engine /\ r.drain \in Engine BY <1>1, SessionFields
  <2>3. /\ s.phase = r.phase /\ s.found = r.found /\ s.older = r.older /\ s.held = r.held
        /\ s.main = m /\ s.drain = d /\ s.saved = r.saved /\ s.writes = r.writes
    BY <2>2 DEF Session
  <2>4. /\ m.client = r.main.client /\ m.on = r.main.on
        /\ \A b \in m.batches : Has(r.main.batches, b.n, b.edit)
        /\ d.client = r.drain.client /\ d.on = r.drain.on /\ d.age = r.drain.age
        /\ \A b \in d.batches : Has(r.drain.batches, b.n, b.edit)
    BY <1>4, <2>2
  <2>f. /\ s.main.client = r.main.client /\ s.drain.client = r.drain.client
        /\ s.found \subseteq r.found /\ s.older \subseteq r.older /\ s.saved = r.saved /\ s.writes = r.writes
    BY <2>3, <2>4
  <2>g. /\ \A b \in s.main.batches : Has(r.main.batches, b.n, b.edit)
        /\ \A b \in s.drain.batches : Has(r.drain.batches, b.n, b.edit)
    BY <2>3, <2>4
  <2>5. Fewer(s, r) BY ONLY <2>f, <2>g, FewerBatches
  <2>6. QED BY <2>1, <2>3, <2>4, <2>5 DEF SameView
<1>6. NothingNew(0) BY <1>3, <1>5, NothingNewAll
<1>7. Onward BY <1>3, <1>6, OnwardIs DEF InLog
<1>8. Calm BY <1>3, <1>5 DEF Calm
<1>9. Off' BY <1>3, <1>5 DEF InTurn, Off
<1>10. QED BY <1>3, <1>5, <1>7, <1>8, <1>9, CalmStep

\* Once access is removed, no order is owed.
LEMMA GoneStep ==
  ASSUME InTurn, Onward, gone', log' = log, before' \subseteq before, Dates', Off',
         \A e \in waived' : e \in waived \/ e \in 1..edits
  PROVE  InTurn'
<1>1. Dropped' BY DroppedStays DEF InTurn
<1>2. Order'
  <2>1. \A p \in before : Ordered(p)' BY NoPair DEF Live
  <2>2. QED BY <2>1 DEF Order
<1>3. NewestWins'
  <2> SUFFICES ASSUME NEW p \in before', InLog(p[2])'
               PROVE  \/ p[1] \in waived'
                      \/ \E i, j \in DOMAIN log' : i < j /\ log'[i] = p[1] /\ log'[j] = p[2]
    BY DEF NewestWins
  <2>1. InLog(p[2]) BY DEF InLog
  <2>2. QED BY <2>1 DEF InTurn, NewestWins, Onward
<1>4. QED BY <1>1, <1>2, <1>3 DEF InTurn

\* All the connections are closed.
LEMMA RemoveAccessInTurn ==
  ASSUME IInv, Ledger, IInv', Ledger', InTurn, RemoveAccess
  PROVE  InTurn'
<1>1. tab \in [Tabs -> Session] BY DEF IInv, TypeOK
<1>2. tab' = [t \in Tabs |-> [tab[t] EXCEPT !.main.on = FALSE, !.drain.on = FALSE]]
  BY DEF RemoveAccess
<1>3. UNCHANGED <<device, lock, log, edits, waived, before>> /\ gone' BY DEF RemoveAccess, room
<1>4. ASSUME NEW u \in Tabs
      PROVE  /\ SameView(tab'[u], tab[u]) /\ Fewer(tab'[u], tab[u])
             /\ ~tab'[u].main.on /\ ~tab'[u].drain.on
  <2> PICK r : r = tab[u] OBVIOUS
  <2>1. r \in Session /\ r.main \in Engine /\ r.drain \in Engine BY <1>1, SessionFields
  <2> PICK m : m = [r.main EXCEPT !.on = FALSE] OBVIOUS
  <2> PICK d : d = [r.drain EXCEPT !.on = FALSE] OBVIOUS
  <2>2. /\ m.client = r.main.client /\ m.on = FALSE /\ m.batches = r.main.batches
        /\ d.client = r.drain.client /\ d.on = FALSE /\ d.batches = r.drain.batches /\ d.age = r.drain.age
    BY <2>1 DEF Engine
  <2> PICK s : s = [r EXCEPT !.main = m, !.drain = d] OBVIOUS
  <2>3. tab'[u] = s BY <1>2, <2>1 DEF Session
  <2>4. /\ s.phase = r.phase /\ s.found = r.found /\ s.older = r.older
        /\ s.main = m /\ s.drain = d /\ s.saved = r.saved /\ s.writes = r.writes
    BY <2>1 DEF Session
  <2>5. \A b \in s.main.batches : Has(r.main.batches, b.n, b.edit) BY <2>2, <2>4 DEF Has
  <2>6. \A b \in s.drain.batches : Has(r.drain.batches, b.n, b.edit) BY <2>2, <2>4 DEF Has
  <2>f. /\ s.main.client = r.main.client /\ s.drain.client = r.drain.client
        /\ s.found \subseteq r.found /\ s.older \subseteq r.older /\ s.saved = r.saved /\ s.writes = r.writes
    BY <2>2, <2>4
  <2>7. Fewer(s, r) BY ONLY <2>f, <2>5, <2>6, FewerBatches
  <2>8. QED BY <2>2, <2>3, <2>4, <2>7 DEF SameView
<1>5. NothingNew(0) BY <1>3, <1>4, NothingNewAll
<1>6. Onward BY <1>3, <1>5, OnwardIs DEF InLog
<1>7. Calm BY <1>3, <1>4 DEF Calm
<1>8. Dates' BY <1>7, CalmDates DEF InTurn
<1>9. Off' BY <1>4 DEF Off
<1>10. QED BY <1>3, <1>6, <1>8, <1>9, GoneStep

\* What is named is an edit that was made.
LEMMA NamedMade ==
  ASSUME IInv, Ledger, NEW c, NEW n, NEW e, Named(c, n, e)
  PROVE  e \in 1..edits
<1>1. e <= edits BY DEF Ledger, Books, Counted
<1>2. e \in Nat /\ e >= 1 BY NamedTypes
<1>3. edits \in Nat BY BoundsAssumption DEF IInv, TypeOK
<1>4. QED BY <1>1, <1>2, <1>3

\* The deletion of the record is queued.
LEMMA DiscardInTurn ==
  ASSUME IInv, Ledger, IInv', Ledger', InTurn, NEW t \in Tabs, Discard(t)
  PROVE  InTurn'
<1> PICK r : r = tab[t] OBVIOUS
<1>0. r \in Session /\ tab \in [Tabs -> Session] /\ r.phase = "open" BY DEF Discard, Connected, IInv, TypeOK
<1> PICK x : x = Nothing(r.main.client) OBVIOUS
<1>1. x.batches = {} /\ x \in Copy
  <2>1. r.main.client \in Clients BY <1>0, SessionFields, BoundsAssumption DEF Discard, Connected, Clients
  <2>2. QED BY <2>1 DEF Nothing, Copy
<1> PICK q : q = Append(r.writes, x) OBVIOUS
<1>2. q \in Seq(Copy) /\ ToSet(q) = ToSet(r.writes) \cup {x}
  <2>1. r.writes \in Seq(Copy) BY <1>0, SessionFields
  <2>2. QED BY <1>1, <2>1, AppendIs
<1> PICK s : s = [r EXCEPT !.discarded = TRUE, !.writes = q] OBVIOUS
<1>3. /\ s.phase = r.phase /\ s.found = r.found /\ s.older = r.older
      /\ s.main = r.main /\ s.drain = r.drain
      /\ s.saved = r.saved /\ s.writes = q
  BY <1>0, <1>2 DEF Session
<1>4. tab' = [tab EXCEPT ![t] = s] BY <1>0 DEF Discard, Session
<1>5. \A k, n, e : Of(s, k, n, e) => Named(k, n, e)
  <2>1. \A k, n, e : Of(s, k, n, e) => Of(r, k, n, e) BY <1>1, <1>2, <1>3 DEF Of, Has
  <2>2. QED BY <2>1, NamedOf
<1>6. UNCHANGED <<device, lock, log, edits, gone, before>> /\ gone BY DEF Discard, room
<1>7. waived' = waived \cup EditsIn(r.main) BY DEF Discard
<1>8. SameView(s, r) BY <1>1, <1>2, <1>3 DEF SameView
<1>9. Calm /\ NothingNew(0) BY <1>4, <1>5, <1>6, <1>8, OneCalm
<1>10. Onward BY <1>6, <1>7, <1>9, OnwardIs DEF InLog
<1>11. Dates' BY <1>9, CalmDates DEF InTurn
<1>12. \A u \in Tabs : tab'[u].main.on = tab[u].main.on /\ tab'[u].drain.on = tab[u].drain.on
  BY <1>0, <1>3, <1>4
<1>13. Off' BY <1>6, <1>12 DEF InTurn, Off
<1>14. \A e \in EditsIn(r.main) : e \in 1..edits
  <2> SUFFICES ASSUME NEW b \in r.main.batches PROVE b.edit \in 1..edits BY DEF EditsIn
  <2>1. Of(r, r.main.client, b.n, b.edit) BY DEF Of, Has
  <2>2. QED BY <2>1, NamedOf, NamedMade
<1>15. QED BY <1>6, <1>7, <1>10, <1>11, <1>13, <1>14, GoneStep

\* What a session is alone to have.
LEMMA OnlyIts ==
  ASSUME IInv, NEW t \in Tabs, NEW c \in ClientsIn(tab[t]), NEW u \in Tabs
  PROVE  /\ c # 0 /\ lock[c] = t
         /\ tab[u].main.client = c => u = t
         /\ tab[u].drain.client = c => u = t
         /\ \A o \in tab[u].older : o.client = c => u = t
<1>1. c \in Clients /\ c # 0 /\ lock[c] = t BY OwnClient DEF Clients
<1>2. c \in ClientsIn(tab[u]) => u = t BY TwoTabs
<1>3. QED BY <1>1, <1>2 DEF ClientsIn

\* An edit of a session that waits comes after all it waits for.
LEMMA EditLeads ==
  ASSUME IInv, Ledger, NEW t \in Tabs, tab[t].phase = "open", tab[t].held,
         NEW c \in ClientsIn(tab[t]), c # tab[t].main.client, tab[t].main.client # 0,
         NEW y, \A k : ~Mine(k, y)
  PROVE  Leads(c, tab[t].main.client, y)
<1> PICK d : d = tab[t].main.client OBVIOUS
<1>1. d \in ClientsIn(tab[t]) BY DEF ClientsIn
<1>2. lock[c] = t /\ lock[d] = t /\ t # NoTab BY <1>1, OnlyIts, TabAssumption
<1>3. Shape(tab[t]) BY DEF IInv, Own
<1>4. Apart(c, d) BY <1>1, <1>3, OnlyIts DEF Apart, Shape
<1>5. Earlier(c, d, y)
  <2>1. \A r \in device : y \notin EditsIn(r) BY RecordMine
  <2>2. ASSUME NEW u \in Tabs, NEW w \in ToSet(tab[u].writes), y \in EditsIn(w) PROVE FALSE
    <3>1. PICK b \in w.batches : b.edit = y BY <2>2 DEF EditsIn
    <3>2. Of(tab[u], w.client, b.n, y) BY <3>1 DEF Of, Has
    <3>3. Mine(w.client, y) BY <3>2, NamedOf DEF Mine
    <3>4. QED BY <3>3
  <2>3. QED BY <2>1, <2>2 DEF Earlier
<1>6. Behind(c, d) BY <1>2 DEF Behind
<1>7. Waits(c, d)
  <2>1. \A u \in Tabs : tab[u].main.client = d => tab[u].held BY <1>1, OnlyIts
  <2>2. \A u \in Tabs : \A o \in tab[u].older : o.client # d BY <1>1, <1>3, OnlyIts DEF Shape
  <2>3. QED BY <2>1, <2>2 DEF Waits, WaitsIn
<1>8. Listed(c, d) BY <1>2 DEF Listed
<1>9. QED BY <1>4, <1>5, <1>6, <1>7, <1>8 DEF Leads

\* An edit is made after those the session waits for.
LEMMA EditInTurn ==
  ASSUME IInv, Ledger, IInv', Ledger', InTurn, NEW t \in Tabs, Edit(t)
  PROVE  InTurn'
<1> PICK r : r = tab[t] OBVIOUS
<1>0. /\ r \in Session /\ Shape(r) /\ tab \in [Tabs -> Session] /\ Fit(r)
      /\ r.phase = "open" /\ r.main.client # 0
  <2>1. r \in Session /\ tab \in [Tabs -> Session] BY DEF IInv, TypeOK
  <2>2. Shape(r) /\ Fit(r) BY DEF IInv, Own, Ledger
  <2>3. r.phase = "open" BY DEF Edit
  <2>4. r.main.client # 0 BY <2>2, <2>3 DEF Shape
  <2>5. QED BY <2>1, <2>2, <2>3, <2>4
<1> PICK g : g = r.main OBVIOUS
<1> PICK k : k = g.client OBVIOUS
<1>1. g \in Engine /\ g.next \in Nat /\ g.batches \subseteq Local /\ k \in ClientsIn(r) /\ k # 0
  BY <1>0, SessionFields DEF ClientsIn
<1>2. edits \in Nat BY BoundsAssumption DEF IInv, TypeOK
<1> PICK e0 : e0 = edits + 1 OBVIOUS
<1>3. edits' = e0 /\ e0 \in 1..MaxEdits /\ e0 = edits + 1 /\ e0 > edits
  BY <1>2, BoundsAssumption DEF Edit, IInv, TypeOK
<1> PICK b : b = [n |-> g.next, edit |-> e0, at |-> 0] OBVIOUS
<1>4. b.edit = e0 BY <1>1, <1>3
<1> PICK q : q = g.batches \cup {b} OBVIOUS
<1> PICK h : h = [g EXCEPT !.next = g.next + 1, !.batches = q] OBVIOUS
<1>5. h.client = k /\ h.batches = q /\ h.on = g.on BY <1>1 DEF Engine
<1> PICK s : s = [r EXCEPT !.main = h] OBVIOUS
<1>6. /\ s.phase = r.phase /\ s.found = r.found /\ s.older = r.older
      /\ s.main = h /\ s.drain = r.drain /\ s.held = r.held
      /\ s.saved = r.saved /\ s.writes = r.writes
  BY <1>0 DEF Session
<1>7. tab' = [tab EXCEPT ![t] = s]
  <2>1. tab' = [tab EXCEPT ![t].main = [g EXCEPT !.next = g.next + 1, !.batches = g.batches \cup {b}]]
    BY <1>3 DEF Edit
  <2>2. QED BY <2>1, <1>0
<1>8. UNCHANGED <<device, lock, log, gone, waived>> /\ ~gone BY DEF Edit, room
<1>9. \A j, n, e : Named(j, n, e)' => Named(j, n, e) \/ (j = k /\ e = e0)
  <2>1. ASSUME NEW j, NEW n, NEW e, Of(s, j, n, e) PROVE Of(r, j, n, e) \/ (j = k /\ e = e0)
    <3>1. Has(q, n, e) => Has(g.batches, n, e) \/ e = e0 BY <1>4 DEF Has
    <3> PICK K : K = r.found \cup r.older \cup ToSet(r.writes) \cup {r.saved} OBVIOUS
    <3>2. s.found \cup s.older \cup ToSet(s.writes) \cup {s.saved} = K BY <1>6
    <3>3. \/ s.main.client = j /\ Has(s.main.batches, n, e)
          \/ s.drain.client = j /\ Has(s.drain.batches, n, e)
          \/ \E z \in K : z.client = j /\ Has(z.batches, n, e)
      BY <2>1, <3>2 DEF Of
    <3>4. CASE s.main.client = j /\ Has(s.main.batches, n, e)
      <4>1. j = k /\ Has(q, n, e) BY <1>5, <1>6, <3>4
      <4>2. Has(g.batches, n, e) => Of(r, j, n, e) BY <4>1 DEF Of
      <4>3. QED BY <3>1, <4>1, <4>2
    <3>5. CASE s.drain.client = j /\ Has(s.drain.batches, n, e) BY <1>6, <3>5 DEF Of
    <3>6. CASE \E z \in K : z.client = j /\ Has(z.batches, n, e) BY <3>6 DEF Of
    <3>7. QED BY <3>3, <3>4, <3>5, <3>6
  <2> SUFFICES ASSUME NEW j, NEW n, NEW e, Named(j, n, e)' PROVE Named(j, n, e) \/ (j = k /\ e = e0)
    OBVIOUS
  <2>2. CASE Recorded(j, n, e)' BY <1>8, <2>2 DEF Named, Recorded
  <2>3. CASE ~Recorded(j, n, e)'
    <3>1. PICK u \in Tabs : \A z : z = tab'[u] => Of(z, j, n, e) BY <2>3 DEF Named, Of
    <3>2. CASE u = t
      <4>1. Of(s, j, n, e) BY <1>0, <1>7, <3>1, <3>2
      <4>2. QED BY <2>1, <4>1, NamedOf
    <3>3. CASE u # t
      <4>1. Of(tab[u], j, n, e) BY <1>0, <1>7, <3>1, <3>3
      <4>2. QED BY <4>1, NamedOf
    <3>4. QED BY <3>2, <3>3
  <2>4. QED BY <2>2, <2>3
<1>10. \A j : ~Mine(j, e0)
  <2>1. e0 \notin 1..edits BY <1>2, <1>3
  <2>2. QED BY <2>1, NamedMade DEF Mine
<1>11. Onward
  <2>1. edits <= edits' /\ edits' \in Nat BY <1>2, <1>3
  <2>2. \A j, n, e : Named(j, n, e)' => Named(j, n, e) \/ e > edits BY <1>3, <1>9
  <2>3. QED BY <1>2, <1>8, <2>1, <2>2 DEF Onward, InLog
<1>12. \A u \in Tabs : /\ SameView(tab'[u], tab[u]) /\ tab'[u].held = tab[u].held
                       /\ tab'[u].main.on = tab[u].main.on /\ tab'[u].drain.on = tab[u].drain.on
  BY <1>0, <1>5, <1>6, <1>7 DEF SameView
<1>13. Calm BY <1>8, <1>12 DEF Calm
<1>14. Dates' /\ Dropped' /\ Off'
  <2>1. Dates' BY <1>13, CalmDates DEF InTurn
  <2>2. Dropped' BY <1>8, <1>11, DroppedStays DEF InTurn, Dropped
  <2>3. QED BY <1>8, <2>1, <2>2 DEF Off
<1>15. \A p \in before : Ordered(p)'
  <2>1. \A p \in before : \A c, d : Pair(p, c, d) => Leads(c, d, p[2])' BY <1>12, <1>13, PairIs, CalmLeads
  <2>2. QED BY <1>11, <2>1, OldPair
<1> DEFINE X == {e \in EditsOf(r.older) \cup EditsIn(r.drain) : r.held /\ ~InLog(e)}
<1>16. before' = before \cup {<<x, e0>> : x \in X} BY <1>3 DEF Edit
<1>17. ASSUME NEW x \in X
       PROVE  /\ r.held /\ ~InLog(x) /\ Safe(x)
              /\ \E c \in ClientsIn(r) : c # k /\ Mine(c, x)
  <2>1. r.held /\ ~InLog(x) /\ x \in EditsOf(r.older) \cup EditsIn(r.drain) BY <1>17
  <2>2. CASE x \in EditsIn(r.drain)
    <3>1. PICK z \in r.drain.batches : z.edit = x BY <2>2 DEF EditsIn
    <3>2. Safe(x) BY <1>0, <3>1 DEF Fit
    <3>3. Of(r, r.drain.client, z.n, x) BY <3>1 DEF Of, Has
    <3>4. Mine(r.drain.client, x) BY <3>3, NamedOf DEF Mine
    <3>5. r.drain.client # 0
      <4>1. PICK n : Named(r.drain.client, n, x) BY <3>4 DEF Mine
      <4> SUFFICES ASSUME r.drain.client = 0 PROVE FALSE OBVIOUS
      <4>2. PICK d \in device : x \in EditsIn(d)
        <5>1. ~Written(x) BY <2>1, WrittenLogged
        <5>2. x \notin waived BY <1>8, <3>4 DEF InTurn, Dropped
        <5>3. QED BY <3>2, <5>1, <5>2 DEF Safe, OnDevice
      <4>3. d.client = 0 BY <3>4, <4>2, RecordMine, OneClient
      <4>4. QED BY <4>2, <4>3, CopyFields DEF IInv, TypeOK, Clients
    <3>6. r.drain.client \in ClientsIn(r) /\ r.drain.client # k BY <1>0, <3>5 DEF ClientsIn, Shape
    <3>7. QED BY <2>1, <3>2, <3>4, <3>6
  <2>3. CASE x \in EditsOf(r.older)
    <3>1. PICK o \in r.older : x \in EditsIn(o) BY <2>3 DEF EditsOf
    <3>2. PICK z \in o.batches : z.edit = x BY <3>1 DEF EditsIn
    <3>3. Safe(x) BY <3>1, <3>2, OlderSafe
    <3>4. Of(r, o.client, z.n, x) BY <3>1, <3>2 DEF Of, Has
    <3>5. Mine(o.client, x) BY <3>4, NamedOf DEF Mine
    <3>6. o.client \in ClientsIn(r) /\ o.client # k BY <1>0, <3>1 DEF ClientsIn, Shape
    <3>7. QED BY <2>1, <3>3, <3>5, <3>6
  <2>4. QED BY <2>1, <2>2, <2>3
<1> HIDE DEF X
<1>18. ASSUME NEW x \in X PROVE Ordered(<<x, e0>>)'
  <2>1. PICK c \in ClientsIn(r) : c # k /\ Mine(c, x) BY <1>17
  <2>2. x \in 1..edits BY <2>1, NamedMade DEF Mine
  <2>3. x \in 1..edits' /\ e0 \in 1..edits' /\ x # e0 /\ ~(x > edits) BY <1>2, <1>3, <2>2
  <2> PICK p : p = <<x, e0>> OBVIOUS
  <2>4. p[1] = x /\ p[2] = e0 OBVIOUS
  <2>5. ASSUME Live(p)', NEW d \in Clients, Mine(d, e0)'
        PROVE  OnDevice(x)' /\ \A j \in Clients : Mine(j, x)' => Leads(j, d, e0)'
    <3>1. d = k BY <1>9, <1>10, <2>5 DEF Mine
    <3>2. OnDevice(x)'
      <4>1. x \notin waived BY <1>8, <2>4, <2>5 DEF Live
      <4>2. ~Written(x) BY <1>17, WrittenLogged
      <4>3. QED BY <1>8, <1>17, <4>1, <4>2 DEF Safe, OnDevice
    <3>3. ASSUME NEW j \in Clients, Mine(j, x)' PROVE Leads(j, d, e0)'
      <4>1. Mine(j, x) BY <1>11, <2>3, <3>3 DEF Mine, Onward
      <4>2. j = c BY <2>1, <4>1, OneClient
      <4>3. Leads(c, k, e0) BY <1>0, <1>10, <1>17, <2>1, EditLeads
      <4>4. QED BY <1>12, <1>13, <3>1, <4>2, <4>3, CalmLeads
    <3>4. QED BY <3>2, <3>3
  <2>6. QED BY <2>3, <2>4, <2>5 DEF Ordered
<1>19. Order' BY <1>15, <1>16, <1>18 DEF Order
<1>20. NewestWins'
  <2>1. ~InLog(e0)
    <3> SUFFICES ASSUME NEW i \in DOMAIN log, log[i] = e0 PROVE FALSE BY DEF InLog
    <3>1. log[i] <= edits BY DEF Ledger, Books, Logged
    <3>2. QED BY <1>2, <1>3, <3>1
  <2> SUFFICES ASSUME NEW p \in before', InLog(p[2])'
               PROVE  \/ p[1] \in waived'
                      \/ \E i, j \in DOMAIN log' : i < j /\ log'[i] = p[1] /\ log'[j] = p[2]
    BY DEF NewestWins
  <2>2. InLog(p[2]) BY <1>8 DEF InLog
  <2>3. p \in before BY <1>16, <2>1, <2>2
  <2>4. QED BY <1>8, <2>2, <2>3 DEF InTurn, NewestWins
<1>21. QED BY <1>14, <1>19, <1>20 DEF InTurn

----------------------------------------------------------------------------
(* The steps that move copies                                              *)

\* A session changes; the room does not, and nothing new is named.
LEMMA PassStep ==
  ASSUME IInv, Ledger, IInv', Ledger', InTurn, NEW t \in Tabs, NEW s, tab' = [tab EXCEPT ![t] = s],
         \A k, n, e : Of(s, k, n, e) => Named(k, n, e),
         \A d \in device' : d \in device \/ \A b \in d.batches : Named(d.client, b.n, b.edit),
         UNCHANGED <<log, edits, gone, waived>>, before' \subseteq before,
         s.main.on => tab[t].main.on, s.drain.on => tab[t].drain.on, Dates',
         \A p \in before' : \A c, d : Pair(p, c, d) => Leads(c, d, p[2])'
  PROVE  InTurn'
<1>1. tab \in [Tabs -> Session] BY DEF IInv, TypeOK
<1>2. NothingNew(0) BY NothingNewBy
<1>3. Onward BY <1>2, OnwardIs DEF InLog
<1>4. Dropped' BY <1>3, DroppedStays DEF InTurn, Dropped
<1>5. Off' BY <1>1 DEF InTurn, Off
<1>6. NewestWins' /\ Order' BY <1>3, OrderStep
<1>7. QED BY <1>4, <1>5, <1>6 DEF InTurn

\* The dates stay, when copies go from the device to the lists, from there to those
\* that were taken, from there to the connections, and back.
LEMMA DatesStep ==
  ASSUME IInv, Ledger, Dates, NEW t \in Tabs, NEW s, tab' = [tab EXCEPT ![t] = s],
         \A d \in device' : d \in device \/
           (d.client = tab[t].drain.client /\ d.savedAt = tab[t].drain.age /\ d.client # 0 /\ s.drain.client = 0),
         \A o \in s.older : o \in tab[t].older \/ (o \in tab[t].found /\ ~MainHeld(o.client)),
         s.found \subseteq tab[t].found,
         \/ s.drain.client = tab[t].drain.client /\ s.drain.age = tab[t].drain.age
         \/ s.drain.client = 0
         \/ \E o \in tab[t].older : s.drain.client = o.client /\ s.drain.age = o.savedAt,
         \A u \in Tabs : \A f \in tab'[u].found : MainHeld(f.client) => MainHeld(f.client)'
  PROVE  Dates'
<1> PICK r : r = tab[t] OBVIOUS
<1>0. tab \in [Tabs -> Session] /\ r \in Session /\ Shape(r) BY DEF IInv, TypeOK, Own
<1>1. \A d \in device : d.client # 0 BY CopyFields DEF IInv, TypeOK, Clients
<1>2. \A u \in Tabs : \A f \in tab[u].found \cup tab[u].older : f.client # 0 BY FoundCopies
<1>3. \A u \in Tabs : tab'[u] = IF u = t THEN s ELSE tab[u] BY <1>0
<1>4. \A u \in Tabs : \A f \in tab'[u].found : f \in tab[u].found /\ (~MainHeld(f.client)' => ~MainHeld(f.client))
  BY <1>3
\* Where the copies of a tab come from.
<1>5. ASSUME NEW u \in Tabs, NEW o \in tab'[u].older
      PROVE  o \in tab[u].older \/ (u = t /\ o \in r.found /\ ~MainHeld(o.client))
  BY <1>3
<1>6. ASSUME NEW u \in Tabs, tab'[u].drain.client # 0
      PROVE  \/ tab'[u].drain.client = tab[u].drain.client /\ tab'[u].drain.age = tab[u].drain.age
             \/ \E o \in tab[u].older : tab'[u].drain.client = o.client /\ tab'[u].drain.age = o.savedAt
  BY <1>3, <1>6
\* With what is on the device, and what was listed.
<1>7. ASSUME NEW k, k # 0, NEW x,
             \/ \E d \in device : d.client = k /\ d.savedAt = x
             \/ \E v \in Tabs : \E f \in tab[v].found : f.client = k /\ f.savedAt = x /\ ~MainHeld(k)
      PROVE  \A u \in Tabs :
               /\ \A o \in tab[u].older : o.client = k => o.savedAt = x
               /\ tab[u].drain.client = k => tab[u].drain.age = x
  BY <1>7 DEF Dates
<1>8. ASSUME NEW d \in device', NEW u \in Tabs
      PROVE  /\ \A o \in tab'[u].older : o.client = d.client => o.savedAt = d.savedAt
             /\ \A f \in tab'[u].found : f.client = d.client /\ ~MainHeld(d.client)' => f.savedAt = d.savedAt
             /\ tab'[u].drain.client = d.client => tab'[u].drain.age = d.savedAt
  <2>1. CASE d \in device
    <3>1. \A f \in tab'[u].found : f.client = d.client /\ ~MainHeld(d.client)' => f.savedAt = d.savedAt
      BY <1>4, <2>1 DEF Dates
    <3>2. \A o \in tab'[u].older : o.client = d.client => o.savedAt = d.savedAt
      BY <1>5, <2>1 DEF Dates
    <3>3. tab'[u].drain.client = d.client => tab'[u].drain.age = d.savedAt
      <4>1. \A v \in Tabs : /\ \A o \in tab[v].older : o.client = d.client => o.savedAt = d.savedAt
                            /\ tab[v].drain.client = d.client => tab[v].drain.age = d.savedAt
        BY <2>1 DEF Dates
      <4>2. d.client # 0 BY <1>1, <2>1
      <4>3. QED BY <1>6, <4>1, <4>2
    <3>4. QED BY <3>1, <3>2, <3>3
  <2>2. CASE d \notin device
    <3>1. d.client = r.drain.client /\ d.savedAt = r.drain.age /\ d.client # 0 /\ s.drain.client = 0
      BY <1>8, <2>2
    <3>2. d.client \in ClientsIn(r) BY <3>1 DEF ClientsIn
    <3>3. \A v \in Tabs : /\ \A o \in tab[v].older : o.client # d.client
                          /\ v # t => tab[v].drain.client # d.client
      <4>1. \A v \in Tabs \ {t} : d.client \notin ClientsIn(tab[v]) BY <3>2, TwoTabs
      <4>2. \A o \in r.older : o.client # d.client BY <1>0, <3>1 DEF Shape
      <4>3. QED BY <3>1, <4>1, <4>2 DEF ClientsIn
    <3>4. \A v \in Tabs : \A f \in tab[v].found : f.client = d.client /\ ~MainHeld(d.client) => f.savedAt = d.savedAt
      BY <3>1 DEF Dates
    <3>5. \A f \in tab'[u].found : f.client = d.client /\ ~MainHeld(d.client)' => f.savedAt = d.savedAt
      BY <1>4, <3>4
    <3>6. \A o \in tab'[u].older : o.client = d.client => o.savedAt = d.savedAt BY <1>5, <3>3, <3>4
    <3>7. tab'[u].drain.client # d.client
      <4> SUFFICES ASSUME tab'[u].drain.client = d.client PROVE FALSE OBVIOUS
      <4>1. u # t BY <1>3, <3>1
      <4>2. QED BY <1>3, <3>3, <4>1
    <3>8. QED BY <3>5, <3>6, <3>7
  <2>3. QED BY <2>1, <2>2
<1>9. ASSUME NEW v \in Tabs, NEW u \in Tabs, NEW f \in tab'[u].found, ~MainHeld(f.client)'
      PROVE  /\ \A o \in tab'[v].older : o.client = f.client => o.savedAt = f.savedAt
             /\ tab'[v].drain.client = f.client => tab'[v].drain.age = f.savedAt
  <2>1. f \in tab[u].found /\ ~MainHeld(f.client) /\ f.client # 0 BY <1>2, <1>4, <1>9
  <2>2. \A w \in Tabs : /\ \A o \in tab[w].older : o.client = f.client => o.savedAt = f.savedAt
                        /\ tab[w].drain.client = f.client => tab[w].drain.age = f.savedAt
    BY <2>1 DEF Dates
  <2>3. tab'[v].drain.client = f.client => tab'[v].drain.age = f.savedAt BY <1>6, <2>1, <2>2
  <2>4. ASSUME NEW o \in tab'[v].older, o.client = f.client PROVE o.savedAt = f.savedAt
    <3>1. CASE o \in tab[v].older BY <2>2, <2>4, <3>1
    <3>2. CASE o \notin tab[v].older
      <4>1. v = t /\ o \in r.found BY <1>5, <3>2
      <4>2. r.phase = "listing" /\ tab[u].phase = "listing" BY <2>1, <4>1, FoundIs
      <4>3. u = t BY <4>2 DEF Ledger, OneListing
      <4>4. o = f BY <1>0, <2>1, <2>4, <4>1, <4>3 DEF Shape, OneEach
      <4>5. QED BY <4>4
    <3>3. QED BY <3>1, <3>2
  <2>5. QED BY <2>3, <2>4
<1>10. QED BY <1>8, <1>9 DEF Dates

\* What one client owes another remains, when neither starts to move.
LEMMA LeadsStep ==
  ASSUME IInv, NEW c, NEW d, NEW y, Leads(c, d, y), NEW t \in Tabs, NEW s, tab' = [tab EXCEPT ![t] = s],
         s.main.client # c, s.drain.client # d,
         \A w \in ToSet(s.writes) : w \in ToSet(tab[t].writes) \/ w.batches = {} \/ w.savedAt = Now,
         \A a \in device' : a \in device \/
           (a.client # d /\ (a.client = c => \E g \in device : g.client = c /\ g.savedAt = a.savedAt)),
         Behind(c, d)', WaitsIn(s, c, d), Listed(c, d)'
  PROVE  Leads(c, d, y)'
<1>1. tab \in [Tabs -> Session] BY DEF IInv, TypeOK
<1>2. \A u \in Tabs : tab'[u] = IF u = t THEN s ELSE tab[u] BY <1>1
<1>3. Apart(c, d)' BY <1>2 DEF Leads, Apart
<1>4. Waits(c, d)'
  <2>1. \A u \in Tabs : WaitsIn(tab'[u], c, d) BY <1>2 DEF Leads, Waits
  <2>2. QED BY <2>1 DEF Waits, WaitsIn
<1>5. Earlier(c, d, y)'
  <2> SUFFICES ASSUME NEW a \in device', a.client = c
               PROVE  /\ \A r \in device' : r.client = d /\ y \in EditsIn(r) => a.savedAt < r.savedAt
                      /\ \A u \in Tabs : \A w \in ToSet(tab'[u].writes) :
                           w.client = d /\ y \in EditsIn(w) => a.savedAt < w.savedAt
    BY DEF Earlier
  <2>1. PICK g \in device : g.client = c /\ g.savedAt = a.savedAt OBVIOUS
  <2>2. /\ \A r \in device : r.client = d /\ y \in EditsIn(r) => a.savedAt < r.savedAt
        /\ \A u \in Tabs : \A w \in ToSet(tab[u].writes) :
             w.client = d /\ y \in EditsIn(w) => a.savedAt < w.savedAt
    BY <2>1 DEF Leads, Earlier
  <2>3. a.savedAt < Now BY <2>1, DatesAre, NowIs
  <2>4. \A w : w.batches = {} => y \notin EditsIn(w) BY DEF EditsIn
  <2>5. \A u \in Tabs : \A w \in ToSet(tab'[u].writes) :
          w \in ToSet(tab[u].writes) \/ w.batches = {} \/ w.savedAt = Now
    BY <1>2
  <2>6. \A u \in Tabs : \A w \in ToSet(tab'[u].writes) :
             w.client = d /\ y \in EditsIn(w) => a.savedAt < w.savedAt
    BY <2>2, <2>3, <2>4, <2>5
  <2>7. \A r \in device' : r.client = d => r \in device OBVIOUS
  <2>8. QED BY <2>2, <2>6, <2>7
<1>6. QED BY <1>3, <1>4, <1>5 DEF Leads

\* The device has a copy of each client of a pair, as long as nobody has the second.
LEMMA ListInTurn ==
  ASSUME IInv, Ledger, IInv', Ledger', InTurn, "overlap" \notin Situations, NEW t \in Tabs, List(t)
  PROVE  InTurn'
<1> PICK r : r = tab[t] OBVIOUS
<1>1. r \in Session /\ tab \in [Tabs -> Session] /\ r.phase = "closed" BY DEF IInv, TypeOK, List
<1> PICK s : s = [r EXCEPT !.phase = "listing", !.found = device] OBVIOUS
<1>2. /\ s.phase = "listing" /\ s.found = device /\ s.older = r.older
      /\ s.main = r.main /\ s.drain = r.drain /\ s.held = r.held
      /\ s.saved = r.saved /\ s.writes = r.writes
  BY <1>1 DEF Session
<1>3. tab' = [tab EXCEPT ![t] = s] BY <1>1 DEF List
<1>4. \A u \in Tabs : tab'[u] = IF u = t THEN s ELSE tab[u] BY <1>1, <1>3
<1>5. \A k, n, e : Of(s, k, n, e) => Named(k, n, e)
  <2>1. \A k, n, e : Of(s, k, n, e) => Of(r, k, n, e) \/ Recorded(k, n, e) BY <1>2 DEF Of, Recorded
  <2>2. QED BY <2>1, NamedOf DEF Named
<1>6. UNCHANGED <<device, lock, log, edits, gone, waived, before>> BY DEF List, room
<1>7. Dates'
  <2>1. Dates BY DEF InTurn
  <2>2. \A k : MainHeld(k)' <=> MainHeld(k)
    <3>1. \A u \in Tabs : tab'[u].main.client = tab[u].main.client BY <1>2, <1>4
    <3>2. QED BY <3>1 DEF MainHeld
  <2>3. \A u \in Tabs : /\ tab'[u].older = tab[u].older /\ tab'[u].drain = tab[u].drain
                        /\ tab'[u].found = tab[u].found \/ tab'[u].found = device
    BY <1>2, <1>4
  <2>4. ASSUME NEW d \in device, NEW u \in Tabs
        PROVE  /\ \A o \in tab'[u].older : o.client = d.client => o.savedAt = d.savedAt
               /\ \A f \in tab'[u].found : f.client = d.client /\ ~MainHeld(d.client)' => f.savedAt = d.savedAt
               /\ tab'[u].drain.client = d.client => tab'[u].drain.age = d.savedAt
    <3>1. \A f \in device : f.client = d.client => f = d BY DEF IInv, TypeOK
    <3>2. QED BY <2>1, <2>2, <2>3, <3>1 DEF Dates
  <2>5. ASSUME NEW v \in Tabs, NEW u \in Tabs, NEW f \in tab'[u].found, ~MainHeld(f.client)'
        PROVE  /\ \A o \in tab'[v].older : o.client = f.client => o.savedAt = f.savedAt
               /\ tab'[v].drain.client = f.client => tab'[v].drain.age = f.savedAt
    <3>1. f \in tab[u].found \/ f \in device BY <2>3
    <3>2. /\ \A o \in tab[v].older : o.client = f.client => o.savedAt = f.savedAt
          /\ tab[v].drain.client = f.client => tab[v].drain.age = f.savedAt
      BY <2>1, <2>2, <2>5, <3>1 DEF Dates
    <3>3. QED BY <2>3, <3>2
  <2>6. QED BY <1>6, <2>4, <2>5 DEF Dates
<1>8. ASSUME NEW p \in before, NEW c, NEW d, Pair(p, c, d) PROVE Leads(c, d, p[2])'
  <2>1. Leads(c, d, p[2]) /\ (\E a \in device : a.client = c)
        /\ (lock[d] = NoTab => \E a \in device : a.client = d)
    BY <1>8, PairIs
  <2>2. r.main.client # c /\ r.drain.client # d BY <2>1 DEF Leads, Apart
  <2>3. Behind(c, d)' BY <1>1, <1>2, <1>4, <1>6, <2>1 DEF Leads, Behind
  <2>4. WaitsIn(s, c, d) BY <1>2, <2>1 DEF Leads, Waits, WaitsIn
  <2>5. Listed(c, d)' BY <1>2, <1>4, <1>6, <2>1 DEF Leads, Listed
  <2>6. QED BY <1>2, <1>3, <1>6, <2>1, <2>2, <2>3, <2>4, <2>5, LeadsStep
<1>9. QED BY <1>2, <1>3, <1>5, <1>6, <1>7, <1>8, PassStep

\* A free client is nobody's.
LEMMA FreeIs ==
  ASSUME IInv, NEW k \in Clients, lock[k] = NoTab, NEW u \in Tabs
  PROVE  /\ k # 0 /\ tab[u].main.client # k /\ tab[u].drain.client # k
         /\ \A o \in tab[u].older : o.client # k
         /\ ~MainHeld(k)
<1>1. k # 0 BY DEF Clients
<1>2. \A v \in Tabs : k \notin ClientsIn(tab[v]) BY OwnClient, TabAssumption
<1>3. QED BY <1>1, <1>2 DEF ClientsIn, MainHeld

\* The copies of a free client have the date of its record, and those of the client
\* that goes first are older.
LEMMA OlderOf ==
  ASSUME IInv, Ledger, InTurn, NEW p, NEW c, NEW d, Pair(p, c, d), lock[d] = NoTab,
         NEW t \in Tabs, NEW f \in tab[t].found, f.client = d
  PROVE  /\ \A g \in tab[t].found : g.client = c => g.savedAt < f.savedAt
         /\ \A o \in tab[t].older : o.client = c => o.savedAt < f.savedAt
<1>1. PICK a \in device : a.client = c BY PairIs
<1>2. PICK b \in device : b.client = d /\ p[2] \in EditsIn(b) BY PairIs
<1>3. Leads(c, d, p[2]) BY PairIs
<1>4. a.savedAt < b.savedAt BY <1>1, <1>2, <1>3 DEF Leads, Earlier
<1>5. ~MainHeld(d) BY FreeIs DEF Pair
<1>6. ~MainHeld(c) BY <1>3 DEF Leads, Apart, MainHeld
<1>7. f.savedAt = b.savedAt BY <1>2, <1>5 DEF InTurn, Dates
<1>8. \A g \in tab[t].found : g.client = c => g.savedAt = a.savedAt BY <1>1, <1>6 DEF InTurn, Dates
<1>9. \A o \in tab[t].older : o.client = c => o.savedAt = a.savedAt BY <1>1 DEF InTurn, Dates
<1>10. QED BY <1>4, <1>7, <1>8, <1>9

\* Who lists the copies is alone to do so.
LEMMA AloneIs ==
  ASSUME Ledger, NEW t \in Tabs, tab[t].phase = "listing", NEW u \in Tabs, tab[u].phase \in {"listing", "closing"}
  PROVE  u = t
BY DEF Ledger, OneListing

\* The oldest copy is taken first.
LEMMA TakeLockInTurn ==
  ASSUME IInv, Ledger, IInv', Ledger', InTurn, NEW t \in Tabs, TakeLock(t)
  PROVE  InTurn'
<1> PICK r : r = tab[t] OBVIOUS
<1> PICK copy : copy = Oldest(r.found) OBVIOUS
<1> PICK k : k = copy.client OBVIOUS
<1>0. r.phase = "listing" /\ r.found # {} /\ r \in Session /\ tab \in [Tabs -> Session]
  BY DEF TakeLock, IInv, TypeOK
<1>1. copy \in r.found /\ \A g \in r.found : copy.savedAt <= g.savedAt BY <1>0, OldestIs, SessionFields
<1>2. copy \in Copy /\ k \in Clients /\ copy.savedAt \in Nat /\ \A g \in r.found : g.savedAt \in Nat
  <2>1. copy \in Copy /\ r.found \subseteq Copy BY <1>0, <1>1, SessionFields
  <2>2. QED BY <2>1, CopyFields
<1>h. PICK free \in BOOLEAN : free = (lock[k] = NoTab) OBVIOUS
<1> PICK older : older = IF free THEN r.older \cup {copy} ELSE r.older OBVIOUS
<1> PICK s : s = [r EXCEPT !.found = r.found \ {copy}, !.older = older] OBVIOUS
<1>3. /\ s.phase = r.phase /\ s.found = r.found \ {copy} /\ s.older = older
      /\ s.main = r.main /\ s.drain = r.drain /\ s.held = r.held
      /\ s.saved = r.saved /\ s.writes = r.writes
  BY <1>0 DEF Session
<1>4. tab' = [tab EXCEPT ![t] = s] BY <1>0, <1>h DEF TakeLock, Session
<1>5. \A u \in Tabs : tab'[u] = IF u = t THEN s ELSE tab[u] BY <1>0, <1>4
<1>6. lock' = IF free THEN [lock EXCEPT ![k] = t] ELSE lock BY <1>h DEF TakeLock
<1>7. lock \in [Clients -> Tabs \cup {NoTab}] /\ t # NoTab BY TabAssumption DEF IInv, TypeOK
<1>8. \A j, n, e : Of(s, j, n, e) => Named(j, n, e)
  <2>1. s.found \subseteq r.found /\ s.older \subseteq r.older \cup r.found BY <1>1, <1>3
  <2>2. \A j, n, e : Of(s, j, n, e) => Of(r, j, n, e) BY <1>3, <2>1 DEF Of
  <2>3. QED BY <2>2, NamedOf
<1>9. UNCHANGED <<device, log, edits, gone, waived, before>> BY DEF TakeLock, room
<1>10. Dates'
  <2>1. \A o \in s.older : o \in r.older \/ (o \in r.found /\ ~MainHeld(o.client))
    <3>1. free => ~MainHeld(k) BY <1>2, <1>h, FreeIs
    <3>2. QED BY <1>1, <1>3, <3>1
  <2>2. \A j : MainHeld(j)' <=> MainHeld(j)
    <3>1. \A u \in Tabs : tab'[u].main.client = tab[u].main.client BY <1>3, <1>5
    <3>2. QED BY <3>1 DEF MainHeld
  <2>3. s.found \subseteq r.found BY <1>3
  <2>4. s.drain.client = r.drain.client /\ s.drain.age = r.drain.age BY <1>3
  <2>5. QED BY <1>4, <1>9, <2>1, <2>2, <2>3, <2>4, DatesStep DEF InTurn
<1>11. ASSUME NEW p \in before, NEW c, NEW d, Pair(p, c, d) PROVE Leads(c, d, p[2])'
  <2>1. Leads(c, d, p[2]) /\ c # d /\ c \in Clients /\ d \in Clients BY <1>11, PairIs DEF Pair
  <2>2. r.main.client # c /\ r.drain.client # d BY <2>1 DEF Leads, Apart
  <2>l. /\ lock'[c] = IF free /\ k = c THEN t ELSE lock[c]
        /\ lock'[d] = IF free /\ k = d THEN t ELSE lock[d]
    BY <1>6, <1>7, <2>1
  <2>3. free /\ k = d => lock[c] = t
    <3> SUFFICES ASSUME free, k = d, lock[c] # t PROVE FALSE OBVIOUS
    <3>1. PICK f \in r.found : f.client = c BY <1>0, <1>h, <2>1 DEF Leads, Listed
    <3>2. f.savedAt < copy.savedAt
      <4>1. copy \in tab[t].found /\ copy.client = d /\ lock[d] = NoTab BY <1>h, <1>1
      <4>2. \A g \in tab[t].found : g.client = c => g.savedAt < copy.savedAt BY <1>11, <4>1, OlderOf
      <4>3. QED BY <3>1, <4>2
    <3>3. copy.savedAt <= f.savedAt /\ f.savedAt \in Nat /\ copy.savedAt \in Nat BY <1>1, <1>2, <3>1
    <3>4. QED BY <3>2, <3>3
  <2>4. free /\ k = c => lock[c] = NoTab BY <1>h
  <2>5. \A u \in Tabs : tab'[u].phase = tab[u].phase BY <1>3, <1>5
  <2>6. ASSUME NEW u \in Tabs, tab[u].phase \in {"listing", "closing"} PROVE u = t BY <1>0, <2>6, AloneIs
  <2>7. Behind(c, d)'
    <3> SUFFICES ASSUME NEW u \in Tabs
                 PROVE  /\ lock'[d] = u => lock'[c] = u \/ (lock'[c] = NoTab /\ tab[u].phase = "closing")
                        /\ lock'[d] = NoTab /\ lock'[c] = u => tab[u].phase \in {"listing", "closing"}
      BY <2>5 DEF Behind
    <3>1. /\ lock[d] = u => lock[c] = u \/ (lock[c] = NoTab /\ tab[u].phase = "closing")
          /\ lock[d] = NoTab /\ lock[c] = u => tab[u].phase \in {"listing", "closing"}
      BY <2>1 DEF Leads, Behind
    <3>2. u # NoTab BY TabAssumption
    <3>3. CASE free /\ k = d BY <1>0, <1>7, <2>1, <2>3, <2>l, <3>3
    <3>4. CASE free /\ k = c
      <4>1. lock'[c] = t /\ lock'[d] = lock[d] /\ lock[c] = NoTab BY <2>1, <2>4, <2>l, <3>4
      <4>2. lock[d] # u
        <5> SUFFICES ASSUME lock[d] = u PROVE FALSE OBVIOUS
        <5>1. tab[u].phase = "closing" BY <3>1, <3>2, <4>1
        <5>2. u = t BY <2>6, <5>1
        <5>3. QED BY <1>0, <5>1, <5>2
      <4>3. QED BY <1>0, <4>1, <4>2
    <3>5. CASE ~(free /\ k \in {c, d}) BY <2>l, <3>1, <3>5
    <3>6. QED BY <3>3, <3>4, <3>5
  <2>8. WaitsIn(s, c, d)
    <3>1. WaitsIn(r, c, d) BY <2>1 DEF Leads, Waits
    <3>2. s.phase # "open" BY <1>0, <1>3
    <3> SUFFICES ASSUME NEW o \in s.older, NEW q \in s.older, o.client = d, q.client = c
                 PROVE  q.savedAt < o.savedAt
      BY <3>2 DEF WaitsIn
    <3>3. CASE o \in r.older /\ q \in r.older BY <3>1, <3>3 DEF WaitsIn
    <3>4. CASE o \notin r.older
      <4>1. free /\ o = copy /\ k = d BY <1>3, <3>4
      <4>2. q \in r.older BY <1>3, <2>1, <4>1
      <4>3. copy \in tab[t].found /\ copy.client = d /\ lock[d] = NoTab BY <1>h, <1>1, <4>1
      <4>4. \A g \in tab[t].older : g.client = c => g.savedAt < copy.savedAt BY <1>11, <4>3, OlderOf
      <4>5. QED BY <4>1, <4>2, <4>4
    <3>5. CASE o \in r.older /\ q \notin r.older
      <4>1. free /\ k = c BY <1>3, <3>5
      <4>2. lock[d] = t
        <5>1. d \in ClientsIn(r) BY <3>5 DEF ClientsIn
        <5>2. QED BY <5>1, OwnClient
      <4>3. lock[c] = NoTab BY <2>4, <4>1
      <4>4. r.phase = "closing" BY <1>7, <2>1, <4>2, <4>3 DEF Leads, Behind
      <4>5. QED BY <1>0, <4>4
    <3>6. QED BY <3>3, <3>4, <3>5
  <2>9. Listed(c, d)'
    <3> SUFFICES ASSUME NEW u \in Tabs, tab[u].phase = "listing", lock'[d] = NoTab
                 PROVE  /\ \E f \in tab'[u].found : f.client = d
                        /\ lock'[c] = u \/ \E f \in tab'[u].found : f.client = c
      BY <2>5 DEF Listed
    <3>1. u = t BY <2>6
    <3>2. lock[d] = NoTab /\ ~(free /\ k = d) BY <1>7, <2>l
    <3>3. k # d BY <1>h, <3>2
    <3>4. PICK f \in r.found : f.client = d BY <1>0, <2>1, <3>2 DEF Leads, Listed
    <3>5. f \in s.found BY <1>3, <3>3, <3>4
    <3>6. lock[c] = t \/ \E g \in r.found : g.client = c BY <1>0, <2>1, <3>2 DEF Leads, Listed
    <3>7. lock'[c] = t \/ \E g \in s.found : g.client = c
      <4>1. CASE k # c BY <1>3, <2>l, <3>6, <4>1
      <4>2. CASE k = c /\ free BY <2>l, <4>2
      <4>3. CASE k = c /\ ~free
        <5>1. lock[c] # NoTab /\ lock[c] \in Tabs BY <1>7, <1>h, <2>1, <4>3
        <5>2. PICK v \in Tabs : v = lock[c] BY <5>1
        <5>3. tab[v].phase \in {"listing", "closing"} BY <2>1, <3>2, <5>2 DEF Leads, Behind
        <5>4. v = t BY <2>6, <5>3
        <5>5. QED BY <2>l, <4>3, <5>2, <5>4
      <4>4. QED BY <4>1, <4>2, <4>3
    <3>8. QED BY <1>5, <3>1, <3>4, <3>5, <3>7
  <2>10. QED BY <1>3, <1>4, <1>9, <2>1, <2>2, <2>7, <2>8, <2>9, LeadsStep
<1>12. QED BY <1>3, <1>4, <1>8, <1>9, <1>10, <1>11, PassStep

\* What is deleted of a free client, with its copy, is nowhere.
LEMMA DropUnusableInTurn ==
  ASSUME IInv, Ledger, IInv', Ledger', InTurn, NEW t \in Tabs, DropUnusable(t)
  PROVE  InTurn'
<1> PICK r : r = tab[t] OBVIOUS
<1> PICK copy : copy = Oldest(r.found) OBVIOUS
<1> PICK k : k = copy.client OBVIOUS
<1>0. r.phase = "listing" /\ r.found # {} /\ r \in Session /\ tab \in [Tabs -> Session] /\ Fit(r) /\ Shape(r)
  BY DEF DropUnusable, IInv, TypeOK, Ledger, Own
<1>1. copy \in r.found BY <1>0, OldestIs, SessionFields
<1>2. copy \in Copy /\ k \in Clients BY <1>1, FoundCopies
<1> PICK s : s = [r EXCEPT !.found = r.found \ {copy}] OBVIOUS
<1>3. /\ s.phase = r.phase /\ s.found = r.found \ {copy} /\ s.older = r.older
      /\ s.main = r.main /\ s.drain = r.drain /\ s.held = r.held
      /\ s.saved = r.saved /\ s.writes = r.writes
  BY <1>0 DEF Session
<1>4. tab' = [tab EXCEPT ![t] = s] /\ device' = Delete(k) /\ waived' = waived \cup EditsIn(copy)
      /\ lock[k] = NoTab
  BY <1>0 DEF DropUnusable, Session
<1>5. \A u \in Tabs : tab'[u] = IF u = t THEN s ELSE tab[u] BY <1>0, <1>4
<1>6. UNCHANGED <<lock, log, edits, gone, before>> BY DEF DropUnusable, room
<1>7. device' \subseteq device /\ \A d \in device' : d.client # k BY <1>4 DEF Delete
<1>8. NothingNew(0)
  <2>1. s.found \subseteq r.found BY <1>3
  <2>2. \A j, n, e : Of(s, j, n, e) => Of(r, j, n, e) BY <1>3, <2>1 DEF Of
  <2>3. QED BY <1>4, <1>7, <2>2, NamedOf, NothingNewBy
<1>9. Onward BY <1>4, <1>6, <1>8, OnwardIs DEF InLog
<1>10. \A n, e : ~Named(k, n, e)'
  <2> SUFFICES ASSUME NEW n, NEW e, Named(k, n, e)' PROVE FALSE OBVIOUS
  <2>1. ~Recorded(k, n, e)' BY <1>7 DEF Recorded
  <2>2. PICK u \in Tabs : \A z : z = tab'[u] => Of(z, k, n, e) BY <2>1 DEF Named, Of
  <2> PICK z : z = tab'[u] OBVIOUS
  <2> PICK y : y = tab[u] OBVIOUS
  <2>3. z.main = y.main /\ z.drain = y.drain /\ z.older = y.older /\ z.saved = y.saved /\ z.writes = y.writes
    BY <1>3, <1>5
  <2>4. Of(z, k, n, e) BY <2>2
  <2>5. \A f \in z.found : f.client # k
    <3>1. CASE u = t
      <4>1. z.found = r.found \ {copy} BY <1>3, <1>5, <3>1
      <4>2. OneEach(r.found \cup r.older) BY <1>0 DEF Shape
      <4>3. QED BY <1>1, <4>1, <4>2 DEF OneEach
    <3>2. CASE u # t
      <4>1. y.found = {} BY <1>0, <3>2, AloneIs, FoundIs
      <4>2. QED BY <1>5, <3>2, <4>1
    <3>3. QED BY <3>1, <3>2
  <2>6. y.main.client # k /\ y.drain.client # k /\ \A o \in y.older : o.client # k BY <1>2, <1>4, FreeIs
  <2>7. \A w \in ToSet(y.writes) : w.client # k BY <2>6, WrittenOwn
  <2>8. y.saved.client = k => y.saved.batches = {}
    <3>1. Fit(y) BY DEF Ledger
    <3>2. QED BY <2>6, <3>1 DEF Fit
  <2>9. \E x \in z.found \cup z.older \cup ToSet(z.writes) \cup {z.saved} : x.client = k /\ Has(x.batches, n, e)
    BY <2>3, <2>4, <2>6 DEF Of
  <2>10. QED BY <2>3, <2>5, <2>6, <2>7, <2>8, <2>9 DEF Has
<1>11. \A e \in EditsIn(copy) : \A c : Mine(c, e) => c = k
  <2> SUFFICES ASSUME NEW e \in EditsIn(copy), NEW c, Mine(c, e) PROVE c = k OBVIOUS
  <2>1. PICK b \in copy.batches : b.edit = e BY DEF EditsIn
  <2>2. Of(r, k, b.n, e) BY <1>1, <2>1 DEF Of, Has
  <2>3. Mine(k, e) BY <2>2, NamedOf DEF Mine
  <2>4. QED BY <2>3, OneClient
<1>12. Dropped'
  <2>1. Dropped BY DEF InTurn
  <2>2. \A e \in EditsIn(copy) : e \in 1..edits
    <3> SUFFICES ASSUME NEW b \in copy.batches PROVE b.edit \in 1..edits BY DEF EditsIn
    <3>1. Of(r, k, b.n, b.edit) BY <1>1 DEF Of, Has
    <3>2. QED BY <3>1, NamedOf, NamedMade
  <2>3. \A c, e : Mine(c, e)' => Mine(c, e) BY <1>8 DEF Mine, NothingNew
  <2>4. ASSUME ~gone', NEW c, NEW e, e \in waived', Mine(c, e)' PROVE FALSE
    <3>1. Mine(c, e) BY <2>3, <2>4
    <3>2. CASE e \in waived BY <1>6, <2>1, <2>4, <3>1, <3>2 DEF Dropped
    <3>3. CASE e \in EditsIn(copy)
      <4>1. c = k BY <1>11, <3>1, <3>3
      <4>2. QED BY <1>10, <2>4, <4>1 DEF Mine
    <3>4. QED BY <1>4, <2>4, <3>2, <3>3
  <2>5. \A e : e \in waived' => e \in 1..edits' BY <1>4, <1>6, <2>1, <2>2 DEF Dropped
  <2>6. QED BY <2>4, <2>5 DEF Dropped
<1>13. Off' BY <1>3, <1>5, <1>6 DEF InTurn, Off
<1>14. Dates'
  <2>1. \A u \in Tabs : tab'[u].main.client = tab[u].main.client BY <1>3, <1>5
  <2>2. \A j : MainHeld(j) => MainHeld(j)' BY <2>1 DEF MainHeld
  <2>3. s.found \subseteq r.found /\ s.older = r.older BY <1>3
  <2>4. s.drain.client = r.drain.client /\ s.drain.age = r.drain.age BY <1>3
  <2>5. QED BY <1>4, <1>7, <2>2, <2>3, <2>4, DatesStep DEF InTurn
<1>15. ASSUME NEW p \in before, NEW c, NEW d, Pair(p, c, d), Live(p)', Mine(d, p[2])' PROVE Leads(c, d, p[2])'
  <2>1. Leads(c, d, p[2]) /\ c \in Clients /\ Mine(c, p[1]) /\ ~Written(p[1]) BY <1>15, PairIs DEF Pair
  <2>2. k # d BY <1>10, <1>15 DEF Mine
  <2>3. k # c
    <3> SUFFICES ASSUME k = c PROVE FALSE OBVIOUS
    <3>1. ~MainHeld(k) BY <1>2, <1>4, FreeIs
    <3>2. Whole(k, copy.next, copy.batches) BY <1>0, <1>1, <3>1 DEF Fit
    <3>3. PICK b \in copy.batches : b.edit = p[1] BY <1>2, <2>1, <3>2, WholeHas
    <3>4. p[1] \in EditsIn(copy) BY <3>3 DEF EditsIn
    <3>5. QED BY <1>4, <1>15, <3>4 DEF Live
  <2>4. r.main.client # c /\ r.drain.client # d BY <2>1 DEF Leads, Apart
  <2>5. Behind(c, d)' BY <1>3, <1>5, <1>6, <2>1 DEF Leads, Behind
  <2>6. WaitsIn(s, c, d) BY <1>3, <2>1 DEF Leads, Waits, WaitsIn
  <2>7. Listed(c, d)'
    <3>1. Listed(c, d) BY <2>1 DEF Leads
    <3>2. \A u \in Tabs : /\ tab'[u].phase = tab[u].phase
                          /\ \A f \in tab[u].found : f.client # k => f \in tab'[u].found
      <4>1. \A f \in r.found : f.client # k => f \in s.found BY <1>3
      <4>2. QED BY <1>3, <1>5, <4>1
    <3>3. QED BY <1>6, <2>2, <2>3, <3>1, <3>2 DEF Listed
  <2>8. QED BY <1>3, <1>4, <1>7, <2>1, <2>4, <2>5, <2>6, <2>7, LeadsStep
<1>16. NewestWins' /\ Order' BY <1>6, <1>9, <1>15, OrderStep
<1>17. QED BY <1>12, <1>13, <1>14, <1>16 DEF InTurn

\* A pair has nothing to do with a session that has no copies.
LEMMA StartFreshInTurn ==
  ASSUME IInv, Ledger, IInv', Ledger', InTurn, NEW t \in Tabs, StartFresh(t)
  PROVE  InTurn'
<1> PICK r : r = tab[t] OBVIOUS
<1>0. /\ r \in Session /\ r.phase = "listing" /\ r.found = {} /\ r.older = {} /\ tab \in [Tabs -> Session]
      /\ r.main = NoEngine /\ r.drain = NoEngine
  BY ListingIs DEF StartFresh, IInv, TypeOK
<1>1. PICK k \in Clients : k = created' /\ created' = created + 1
  BY BoundsAssumption DEF StartFresh, IInv, TypeOK, Clients
<1>2. k > created /\ ~(k <= created) /\ k # 0
  BY <1>1, BoundsAssumption DEF IInv, TypeOK, Clients
<1> PICK e : e = [NoEngine EXCEPT !.client = k] OBVIOUS
<1>3. e.client = k /\ e.batches = {} /\ e.on = FALSE BY DEF NoEngine
<1> PICK s : s = [Closed EXCEPT !.phase = "open", !.main = e] OBVIOUS
<1>4. /\ s.phase = "open" /\ s.main = e /\ s.older = {} /\ s.found = {}
      /\ s.drain = NoEngine /\ s.writes = <<>> /\ s.saved = Closed.saved
  BY DEF Closed
<1>5. Closed.saved.batches = {} /\ ToSet(s.writes) = {} BY <1>4, NoneIn DEF Closed, Nothing
<1>6. tab' = [tab EXCEPT ![t] = s] /\ lock' = [lock EXCEPT ![k] = t] BY <1>1 DEF StartFresh
<1>7. \A u \in Tabs : tab'[u] = IF u = t THEN s ELSE tab[u] BY <1>0, <1>6
<1>8. UNCHANGED <<device, log, edits, gone, waived, before>> BY DEF StartFresh, room
<1>9. \A j, n, f : ~Of(s, j, n, f) BY <1>3, <1>4, <1>5, ClosedOK DEF Of, Has
<1>10. Dates'
  <2>1. \A u \in Tabs : tab[u].main.client # 0 => tab'[u].main.client = tab[u].main.client
    BY <1>0, <1>7, ClosedOK
  <2>2. \A u \in Tabs : \A f \in tab'[u].found : MainHeld(f.client) => MainHeld(f.client)'
    <3>1. \A u \in Tabs : \A f \in tab'[u].found : f \in tab[u].found BY <1>4, <1>7
    <3>2. \A u \in Tabs : \A f \in tab'[u].found : f.client # 0 BY <3>1, FoundCopies
    <3>3. QED BY <2>1, <3>2 DEF MainHeld
  <2>3. s.older = {} /\ s.found = {} /\ s.drain.client = 0 BY <1>4, ClosedOK
  <2>4. QED BY <1>6, <1>8, <2>2, <2>3, DatesStep DEF InTurn
<1>11. ASSUME NEW p \in before, NEW c, NEW d, Pair(p, c, d) PROVE Leads(c, d, p[2])'
  <2>1. Leads(c, d, p[2]) /\ c \in Clients /\ d \in Clients BY <1>11, PairIs DEF Pair
  <2>2. k # c /\ k # d BY <1>2, <1>11, NamedCreated DEF Pair, Mine
  <2>3. lock'[c] = lock[c] /\ lock'[d] = lock[d] BY <1>6, <2>1, <2>2 DEF IInv, TypeOK
  <2>4. lock[d] # NoTab BY <1>0, <2>1 DEF Leads, Listed
  <2>5. lock[c] # t /\ lock[d] # t
    <3>1. ClientsIn(r) = {} BY <1>0, ClosedOK DEF ClientsIn
    <3>2. QED BY <2>1, <3>1 DEF IInv, Own
  <2>6. Behind(c, d)' BY <1>7, <2>1, <2>3, <2>4, <2>5 DEF Leads, Behind
  <2>7. WaitsIn(s, c, d) BY <1>3, <1>4, <2>2 DEF WaitsIn
  <2>8. Listed(c, d)' BY <2>3, <2>4 DEF Listed
  <2>9. s.main.client # c /\ s.drain.client # d
    <3>1. s.main.client = k /\ s.drain.client = 0 BY <1>3, <1>4, ClosedOK
    <3>2. d # 0 BY <2>1 DEF Clients
    <3>3. QED BY <2>2, <3>1, <3>2
  <2>10. QED BY <1>5, <1>6, <1>8, <2>1, <2>6, <2>7, <2>8, <2>9, LeadsStep
<1>12. ~s.main.on /\ ~s.drain.on BY <1>3, <1>4, ClosedOK
<1>13. QED BY <1>6, <1>8, <1>9, <1>10, <1>11, <1>12, PassStep

\* The last state is queued with the date of the day, and nobody lists meanwhile.
LEMMA StopInTurn ==
  ASSUME IInv, Ledger, IInv', Ledger', InTurn, NEW t \in Tabs, Stop(t)
  PROVE  InTurn'
<1> PICK r : r = tab[t] OBVIOUS
<1>0. r \in Session /\ tab \in [Tabs -> Session] /\ r.phase = "open" BY DEF Stop, IInv, TypeOK
<1> PICK q : q = Persisted(t) OBVIOUS
<1>1. /\ q \in Seq(Copy)
      /\ \A w \in ToSet(q) : w \in ToSet(r.writes) \/ w.savedAt = Now
      /\ \A w \in ToSet(q) : w \in ToSet(r.writes) \/
           (w.client = r.main.client /\ \A n, e : Has(w.batches, n, e) <=> Has(r.main.batches, n, e))
  <2>1. q \in Seq(Copy) /\ (~Unsaved(t) => q = r.writes)
        /\ (Unsaved(t) => ToSet(q) = ToSet(r.writes) \cup {CopyOf(r.main, Now)} /\ CopyOf(r.main, Now).savedAt = Now)
    BY <1>0, PersistedIs
  <2>2. \A w \in ToSet(q) : w \in ToSet(r.writes) \/
           (w.client = r.main.client /\ \A n, e : Has(w.batches, n, e) <=> Has(r.main.batches, n, e))
    BY <1>0, Queued
  <2>3. QED BY <2>1, <2>2
<1> PICK m : m = [r.main EXCEPT !.on = FALSE] OBVIOUS
<1> PICK x : x = [r.drain EXCEPT !.on = FALSE] OBVIOUS
<1>2. /\ m.client = r.main.client /\ m.batches = r.main.batches /\ m.on = FALSE
      /\ x.client = r.drain.client /\ x.batches = r.drain.batches /\ x.on = FALSE /\ x.age = r.drain.age
  BY <1>0, SessionFields DEF Engine
<1> PICK s : s = [r EXCEPT !.phase = "closing", !.writes = q, !.main = m, !.drain = x] OBVIOUS
<1>3. /\ s.phase = "closing" /\ s.found = r.found /\ s.older = r.older
      /\ s.main = m /\ s.drain = x /\ s.saved = r.saved /\ s.writes = q
  BY <1>0 DEF Session
<1>4. tab' = [tab EXCEPT ![t] = s] BY <1>0 DEF Stop, Session
<1>5. \A u \in Tabs : tab'[u] = IF u = t THEN s ELSE tab[u] BY <1>0, <1>4
<1>6. UNCHANGED <<device, lock, log, edits, gone, waived, before>> BY DEF Stop, room
<1>7. \A k, n, e : Of(s, k, n, e) => Named(k, n, e)
  <2>1. \A k, n, e : Of(s, k, n, e) => Of(r, k, n, e) BY <1>1, <1>2, <1>3, ZenonT(60) DEF Of
  <2>2. QED BY <2>1, NamedOf
<1>8. Dates'
  <2>1. \A u \in Tabs : tab'[u].main.client = tab[u].main.client BY <1>2, <1>3, <1>5, ZenonT(60)
  <2>2. \A j : MainHeld(j) => MainHeld(j)' BY <2>1 DEF MainHeld
  <2>3. s.found = r.found /\ s.older = r.older /\ s.drain.client = r.drain.client /\ s.drain.age = r.drain.age
    BY <1>2, <1>3
  <2>4. QED BY <1>4, <1>6, <2>2, <2>3, DatesStep DEF InTurn
<1>9. ASSUME NEW p \in before, NEW c, NEW d, Pair(p, c, d) PROVE Leads(c, d, p[2])'
  <2>1. Leads(c, d, p[2]) BY <1>9, PairIs
  <2>2. s.main.client # c /\ s.drain.client # d
    <3>1. s.main.client = r.main.client /\ s.drain.client = r.drain.client BY <1>2, <1>3
    <3>2. r.main.client # c /\ r.drain.client # d BY <2>1 DEF Leads, Apart
    <3>3. QED BY <3>1, <3>2
  <2>3. Behind(c, d)' BY <1>0, <1>3, <1>5, <1>6, <2>1 DEF Leads, Behind
  <2>4. WaitsIn(s, c, d) BY <1>3, <2>1 DEF Leads, Waits, WaitsIn
  <2>5. Listed(c, d)'
    <3>1. \A u \in Tabs : tab'[u].phase = "listing" => tab'[u] = tab[u] BY <1>3, <1>5
    <3>2. Listed(c, d) BY <2>1 DEF Leads
    <3>3. QED BY <1>6, <3>1, <3>2 DEF Listed
  <2>6. QED BY <1>1, <1>3, <1>4, <1>6, <2>1, <2>2, <2>3, <2>4, <2>5, LeadsStep
<1>10. ~s.main.on /\ ~s.drain.on BY <1>2, <1>3
<1>11. QED BY <1>4, <1>6, <1>7, <1>8, <1>9, <1>10, PassStep

\* A session that ends leaves nothing, when nobody lists.
LEMMA LeaveInTurn ==
  ASSUME IInv, Ledger, IInv', Ledger', InTurn, NEW t \in Tabs, tab' = [tab EXCEPT ![t] = Closed],
         \A u \in Tabs : u # t => tab[u].phase # "listing",
         UNCHANGED <<device, log, edits, gone, waived, before>>,
         \A p \in before : \A c, d : Pair(p, c, d) => Behind(c, d)'
  PROVE  InTurn'
<1> PICK r : r = tab[t] OBVIOUS
<1> PICK s : s = Closed OBVIOUS
<1>1. tab \in [Tabs -> Session] BY DEF IInv, TypeOK
<1>2. /\ s.phase = "closed" /\ s.found = {} /\ s.older = {} /\ s.main = NoEngine /\ s.drain = NoEngine
      /\ s.writes = <<>> /\ NoEngine.client = 0 /\ ~NoEngine.on
  BY ClosedOK
<1>3. \A u \in Tabs : tab'[u] = IF u = t THEN s ELSE tab[u] BY <1>1
<1>4. \A k, n, e : ~Of(s, k, n, e)
  <2>1. \A d \in device' : d.client # 0 BY CopyFields DEF IInv, TypeOK, Clients
  <2>2. QED BY <2>1, FitClosed
<1>5. \A u \in Tabs : tab'[u].phase # "listing" /\ tab'[u].found = {} BY <1>2, <1>3, FoundIs
<1>6. Dates' BY <1>2, <1>5, DatesStep DEF InTurn
<1>7. ASSUME NEW p \in before, NEW c, NEW d, Pair(p, c, d) PROVE Leads(c, d, p[2])'
  <2>1. Leads(c, d, p[2]) /\ c # 0 /\ d # 0
    <3>1. c \in Clients /\ d \in Clients BY <1>7 DEF Pair
    <3>2. QED BY <1>7, <3>1, PairIs DEF Clients
  <2>2. s.main.client # c /\ s.drain.client # d BY <1>2, <2>1
  <2>3. ToSet(s.writes) = {} BY <1>2, NoneIn
  <2>4. WaitsIn(s, c, d) BY <1>2 DEF WaitsIn
  <2>5. Listed(c, d)' BY <1>5 DEF Listed
  <2>6. Behind(c, d)' BY <1>7
  <2>7. QED BY <2>1, <2>2, <2>3, <2>4, <2>5, <2>6, LeadsStep
<1>8. QED BY <1>2, <1>4, <1>6, <1>7, PassStep

\* The lock of a session that closed is given back.
LEMMA ReleaseInTurn ==
  ASSUME IInv, Ledger, IInv', Ledger', InTurn, NEW t \in Tabs, Release(t)
  PROVE  InTurn'
<1> PICK r : r = tab[t] OBVIOUS
<1> PICK m : m = r.main.client OBVIOUS
<1>1. r.phase = "closing" /\ r.drain.client = 0 /\ r.older = {} /\ tab \in [Tabs -> Session]
  BY DEF Release, IInv, TypeOK
<1>2. lock' = Free(m) /\ tab' = [tab EXCEPT ![t] = Closed] BY DEF Release
<1>3. UNCHANGED <<device, log, edits, gone, waived, before>> BY DEF Release, room
<1>4. \A u \in Tabs : u # t => tab[u].phase # "listing"
  <2>1. \A u \in Tabs : u # t => ~(tab[u].phase = "listing") BY <1>1 DEF Ledger, OneListing
  <2>2. QED BY <2>1
<1>5. ASSUME NEW p \in before, NEW c, NEW d, Pair(p, c, d) PROVE Behind(c, d)'
  <2>1. Leads(c, d, p[2]) /\ c \in Clients /\ d \in Clients /\ c # 0 /\ d # 0
    <3>1. c \in Clients /\ d \in Clients BY <1>5 DEF Pair
    <3>2. QED BY <1>5, <3>1, PairIs DEF Clients
  <2>2. c # m BY <2>1 DEF Leads, Apart
  <2>3. lock[c] # t
    <3>1. c \notin ClientsIn(r) BY <1>1, <2>2 DEF ClientsIn
    <3>2. QED BY <2>1, <3>1 DEF IInv, Own
  <2>4. lock'[c] = lock[c] /\ lock'[d] = (IF d = m THEN NoTab ELSE lock[d])
    BY <1>2, <2>1, <2>2 DEF IInv, TypeOK, Free
  <2>5. d # m => lock[d] # t
    <3>1. d # m => d \notin ClientsIn(r) BY <1>1 DEF ClientsIn
    <3>2. QED BY <2>1, <3>1 DEF IInv, Own
  <2>6. d = m => lock[d] = t
    <3>1. d = m => d \in ClientsIn(r) BY <2>1 DEF ClientsIn
    <3>2. QED BY <3>1, OwnClient
  <2>7. lock[d] = t => lock[c] = NoTab BY <2>1, <2>3 DEF Leads, Behind
  <2>8. t # NoTab /\ \A u \in Tabs : u # NoTab BY TabAssumption
  <2>9. \A u \in Tabs : u # t => tab'[u] = tab[u] BY <1>1, <1>2
  <2>10. Behind(c, d) BY <2>1 DEF Leads
  <2>11. QED BY <2>3, <2>4, <2>5, <2>6, <2>7, <2>8, <2>9, <2>10 DEF Behind
<1>6. QED BY <1>2, <1>3, <1>4, <1>5, LeaveInTurn

\* The browser frees all the locks of a tab that dies.
LEMMA KillInTurn ==
  ASSUME IInv, Ledger, IInv', Ledger', InTurn, "overlap" \notin Situations, NEW t \in Tabs, Kill(t)
  PROVE  InTurn'
<1>1. tab' = [tab EXCEPT ![t] = Closed] /\ tab \in [Tabs -> Session] BY DEF Kill, IInv, TypeOK
<1>2. lock' = [c \in Clients |-> IF lock[c] = t THEN NoTab ELSE lock[c]] BY DEF Kill
<1>3. UNCHANGED <<device, log, edits, gone, waived, before>> BY DEF Kill, room
<1>4. \A u \in Tabs : u # t => tab[u].phase # "listing"
  <2>1. CASE tab[t].phase = "listing" BY <2>1, AloneIs
  <2>2. CASE tab[t].phase # "listing" BY <2>2 DEF Kill, NoOverlap
  <2>3. QED BY <2>1, <2>2
<1>5. ASSUME NEW p \in before, NEW c, NEW d, Pair(p, c, d) PROVE Behind(c, d)'
  <2>1. Leads(c, d, p[2]) /\ c \in Clients /\ d \in Clients BY <1>5, PairIs DEF Pair
  <2>2. /\ lock'[c] = IF lock[c] = t THEN NoTab ELSE lock[c]
        /\ lock'[d] = IF lock[d] = t THEN NoTab ELSE lock[d]
    BY <1>2, <2>1
  <2>3. t # NoTab /\ \A u \in Tabs : u # NoTab BY TabAssumption
  <2>4. \A u \in Tabs : u # t => tab'[u] = tab[u] BY <1>1
  <2>5. Behind(c, d) BY <2>1 DEF Leads
  <2>6. QED BY <2>2, <2>3, <2>4, <2>5 DEF Behind
<1>6. QED BY <1>1, <1>3, <1>4, <1>5, LeaveInTurn

\* A session that closes gives back a lock: no order depends on it.
LEMMA FreedBehind ==
  ASSUME IInv, NEW c \in Clients, NEW d \in Clients, c # d, Behind(c, d), NEW t \in Tabs,
         tab[t].phase = "closing", NEW k \in Clients, lock[k] = t, lock' = Free(k),
         \A u \in Tabs : tab'[u].phase = tab[u].phase
  PROVE  Behind(c, d)'
<1>1. /\ lock'[c] = IF c = k THEN NoTab ELSE lock[c]
      /\ lock'[d] = IF d = k THEN NoTab ELSE lock[d]
  BY DEF IInv, TypeOK, Free
<1>2. \A u \in Tabs : u # NoTab BY TabAssumption
<1> SUFFICES ASSUME NEW u \in Tabs
             PROVE  /\ lock'[d] = u => lock'[c] = u \/ (lock'[c] = NoTab /\ tab[u].phase = "closing")
                    /\ lock'[d] = NoTab /\ lock'[c] = u => tab[u].phase \in {"listing", "closing"}
  BY DEF Behind
<1>3. /\ lock[d] = u => lock[c] = u \/ (lock[c] = NoTab /\ tab[u].phase = "closing")
      /\ lock[d] = NoTab /\ lock[c] = u => tab[u].phase \in {"listing", "closing"}
  BY DEF Behind
<1>4. lock[d] = t => lock[c] = t \/ lock[c] = NoTab BY DEF Behind
<1>5. QED BY <1>1, <1>2, <1>3, <1>4

\* The next copy is the oldest one: what a pair waits for is not behind it.
LEMMA NextCopyInTurn ==
  ASSUME IInv, Ledger, IInv', Ledger', InTurn, NEW t \in Tabs, NextCopy(t)
  PROVE  InTurn'
<1> PICK r : r = tab[t] OBVIOUS
<1> PICK copy : copy = Oldest(r.older) OBVIOUS
<1> PICK k : k = copy.client OBVIOUS
<1> PICK older : older = r.older \ {copy} OBVIOUS
<1>0. /\ r \in Session /\ r.phase \in {"open", "closing"} /\ r.drain.client = 0 /\ r.older # {}
      /\ tab \in [Tabs -> Session] /\ older \subseteq r.older
  BY DEF NextCopy, IInv, TypeOK
<1>1. copy \in r.older /\ copy \in Copy /\ \A o \in r.older : copy.savedAt <= o.savedAt /\ o.savedAt \in Nat
  <2>1. copy \in r.older /\ r.older \subseteq Copy /\ \A o \in r.older : copy.savedAt <= o.savedAt
    BY <1>0, OldestIs, SessionFields
  <2>2. QED BY <2>1, CopyFields
<1>2. k \in ClientsIn(r) /\ k \in Clients /\ lock[k] = t /\ k # 0
  <2>1. k \in ClientsIn(r) BY <1>1 DEF ClientsIn
  <2>2. QED BY <2>1, OwnClient DEF Clients
<1>3. UNCHANGED <<device, log, edits, gone, waived, before>> BY DEF NextCopy, room
<1>4. CASE r.phase = "open"
  <2> PICK e : e = Restored(copy) OBVIOUS
  <2>1. e.client = k /\ e.age = copy.savedAt /\ ~e.on /\ \A m, f : Has(e.batches, m, f) <=> Has(copy.batches, m, f)
    BY <1>1, RestoredOK, RestoredHas
  <2> PICK s : s = [r EXCEPT !.older = older, !.drain = e] OBVIOUS
  <2>2. /\ s.phase = r.phase /\ s.found = r.found /\ s.older = older /\ s.held = r.held
        /\ s.main = r.main /\ s.drain = e /\ s.saved = r.saved /\ s.writes = r.writes
    BY <1>0 DEF Session
  <2>3. tab' = [tab EXCEPT ![t] = s] /\ lock' = lock BY <1>0, <1>4 DEF NextCopy
  <2>4. \A u \in Tabs : tab'[u] = IF u = t THEN s ELSE tab[u] BY <1>0, <2>3
  <2>5. \A j, n, f : Of(s, j, n, f) => Named(j, n, f)
    <3>1. older \subseteq r.older OBVIOUS
    <3>2. \A j, n, f : Of(s, j, n, f) => Of(r, j, n, f) BY <1>1, <2>1, <2>2, <3>1 DEF Of
    <3>3. QED BY <3>2, NamedOf
  <2>6. Dates'
    <3>1. \A u \in Tabs : tab'[u].main.client = tab[u].main.client BY <2>2, <2>4
    <3>2. \A j : MainHeld(j) => MainHeld(j)' BY <3>1 DEF MainHeld
    <3>3. s.found = r.found /\ s.older \subseteq r.older /\ s.drain.client = copy.client /\ s.drain.age = copy.savedAt
      BY <2>1, <2>2
    <3>4. /\ \E o \in r.older : s.drain.client = o.client /\ s.drain.age = o.savedAt
          /\ \A o \in s.older : o \in r.older
      BY <1>1, <3>3
    <3>5. Dates BY DEF InTurn
    <3>6. \A d \in device' : d \in device BY <1>3
    <3>7. QED BY <2>3, <3>2, <3>3, <3>4, <3>5, <3>6, DatesStep, ZenonT(60)
  <2>7. ASSUME NEW p \in before, NEW c, NEW d, Pair(p, c, d) PROVE Leads(c, d, p[2])'
    <3>1. Leads(c, d, p[2]) BY <2>7, PairIs
    <3>2. k # d
      <4> SUFFICES ASSUME k = d PROVE FALSE OBVIOUS
      <4>1. PICK o \in r.older : o.client = c BY <1>0, <1>2, <1>4, <2>7, HasFirst
      <4>2. o.savedAt < copy.savedAt BY <1>1, <3>1, <4>1 DEF Leads, Waits, WaitsIn
      <4>3. copy.savedAt <= o.savedAt /\ o.savedAt \in Nat /\ copy.savedAt \in Nat BY <1>1, <4>1
      <4>4. QED BY <4>2, <4>3
    <3>3. s.main.client # c /\ s.drain.client # d
      <4>1. r.main.client # c BY <3>1 DEF Leads, Apart
      <4>2. QED BY <2>1, <2>2, <3>2, <4>1
    <3>4. Behind(c, d)' BY <2>2, <2>3, <2>4, <3>1 DEF Leads, Behind
    <3>5. WaitsIn(s, c, d) BY <1>0, <2>2, <3>1 DEF Leads, Waits, WaitsIn
    <3>6. Listed(c, d)'
      <4>1. \A u \in Tabs : tab'[u].phase = tab[u].phase /\ tab'[u].found = tab[u].found BY <2>2, <2>4
      <4>2. QED BY <2>3, <3>1, <4>1 DEF Leads, Listed
    <3>7. QED BY <1>3, <2>2, <2>3, <3>1, <3>3, <3>4, <3>5, <3>6, LeadsStep
  <2>8. ~s.drain.on /\ s.main = r.main BY <2>1, <2>2
  <2>9. QED BY <1>3, <2>3, <2>5, <2>6, <2>7, <2>8, PassStep
<1>5. CASE r.phase = "closing"
  <2> PICK s : s = [r EXCEPT !.older = older] OBVIOUS
  <2>2. /\ s.phase = r.phase /\ s.found = r.found /\ s.older = older /\ s.held = r.held
        /\ s.main = r.main /\ s.drain = r.drain /\ s.saved = r.saved /\ s.writes = r.writes
    BY <1>0 DEF Session
  <2>3. tab' = [tab EXCEPT ![t] = s] /\ lock' = Free(k) BY <1>0, <1>5 DEF NextCopy
  <2>4. \A u \in Tabs : tab'[u] = IF u = t THEN s ELSE tab[u] BY <1>0, <2>3
  <2>5. \A j, n, f : Of(s, j, n, f) => Named(j, n, f)
    <3>1. older \subseteq r.older OBVIOUS
    <3>2. \A j, n, f : Of(s, j, n, f) => Of(r, j, n, f) BY <2>2, <3>1 DEF Of
    <3>3. QED BY <3>2, NamedOf
  <2>6. Dates'
    <3>1. \A u \in Tabs : tab'[u].main.client = tab[u].main.client BY <2>2, <2>4
    <3>2. \A j : MainHeld(j) => MainHeld(j)' BY <3>1 DEF MainHeld
    <3>3. s.found = r.found /\ s.older \subseteq r.older /\ s.drain = r.drain BY <2>2
    <3>4. QED BY <1>3, <2>3, <3>2, <3>3, DatesStep DEF InTurn
  <2>7. ASSUME NEW p \in before, NEW c, NEW d, Pair(p, c, d) PROVE Leads(c, d, p[2])'
    <3>1. Leads(c, d, p[2]) /\ c \in Clients /\ d \in Clients /\ c # d BY <2>7, PairIs DEF Pair
    <3>2. s.main.client # c /\ s.drain.client # d BY <2>2, <3>1 DEF Leads, Apart
    <3>3. \A u \in Tabs : tab'[u].phase = tab[u].phase /\ tab'[u].phase # "listing"
      <4>1. \A u \in Tabs : tab'[u].phase = tab[u].phase BY <2>2, <2>4
      <4>2. \A u \in Tabs : u # t => tab[u].phase # "listing" BY <1>5 DEF Ledger, OneListing
      <4>3. QED BY <1>5, <4>1, <4>2
    <3>4. Behind(c, d)' BY <1>2, <1>5, <2>3, <3>1, <3>3, FreedBehind DEF Leads
    <3>5. WaitsIn(s, c, d) BY <1>5, <2>2, <3>1 DEF Leads, Waits, WaitsIn
    <3>6. Listed(c, d)' BY <3>3 DEF Listed
    <3>7. QED BY <1>3, <2>2, <2>3, <3>1, <3>2, <3>4, <3>5, <3>6, LeadsStep
  <2>9. QED BY <1>3, <2>2, <2>3, <2>5, <2>6, <2>7, PassStep
<1>6. QED BY <1>0, <1>4, <1>5

\* The connection of a copy ends: its record is as it was, or is gone.
LEMMA FinishIs ==
  ASSUME IInv, Ledger, Dates, NEW t \in Tabs, tab[t].drain.client # 0,
         NEW records, FinishDrain(t, records),
         records = Put(Kept(tab[t].drain)) \/ records = Delete(tab[t].drain.client)
  PROVE  \E s :
           /\ tab' = [tab EXCEPT ![t] = s]
           /\ s.phase = tab[t].phase /\ s.found = tab[t].found /\ s.older = tab[t].older
           /\ s.main = tab[t].main /\ s.drain = NoEngine /\ s.held = tab[t].held
           /\ s.saved = tab[t].saved /\ s.writes = tab[t].writes
           /\ \A k, n, e : Of(s, k, n, e) => Named(k, n, e)
           /\ Dates'
           /\ \A d \in device' : \/ d \in device
                                 \/ /\ d.client = tab[t].drain.client /\ d.savedAt = tab[t].drain.age
                                    /\ \A b \in d.batches : Named(d.client, b.n, b.edit)
<1> PICK r : r = tab[t] OBVIOUS
<1>0. r \in Session /\ tab \in [Tabs -> Session] BY DEF IInv, TypeOK
<1> PICK s : s = [r EXCEPT !.drain = NoEngine] OBVIOUS
<1>1. /\ s.phase = r.phase /\ s.found = r.found /\ s.older = r.older
      /\ s.main = r.main /\ s.drain = NoEngine /\ s.held = r.held
      /\ s.saved = r.saved /\ s.writes = r.writes
  BY <1>0 DEF Session
<1>2. tab' = [tab EXCEPT ![t] = s] BY <1>0 DEF FinishDrain
<1>3. \A u \in Tabs : tab'[u] = IF u = t THEN s ELSE tab[u] BY <1>0, <1>2
<1>4. NoEngine.client = 0 /\ NoEngine.batches = {} BY ClosedOK
<1>5. \A k, n, e : Of(s, k, n, e) => Named(k, n, e)
  <2>1. \A k, n, e : Of(s, k, n, e) => Of(r, k, n, e) BY <1>1, <1>4 DEF Of, Has
  <2>2. QED BY <2>1, NamedOf
<1> PICK x : x = Kept(r.drain) OBVIOUS
<1> PICK h : h = r.drain OBVIOUS
<1>6. x.client = h.client /\ x.savedAt = h.age
      /\ \A b \in x.batches : \E a \in h.batches : b.n = a.n /\ b.edit = a.edit
  <2>1. h \in Engine /\ h.age \in Nat /\ h.client # 0 BY <1>0, SessionFields
  <2>2. QED BY <2>1, CopyOfOK, CopyHas DEF Kept
<1>7. \A d \in device' : d \in device \/ d = x
  <2>1. device' = Put(x) \/ device' = Delete(h.client) BY DEF FinishDrain
  <2>2. QED BY <2>1, PutIs DEF Delete
<1>8. \A b \in x.batches : Named(x.client, b.n, b.edit)
  <2> SUFFICES ASSUME NEW b \in x.batches PROVE Named(x.client, b.n, b.edit) OBVIOUS
  <2>1. PICK a \in h.batches : b.n = a.n /\ b.edit = a.edit BY <1>6
  <2>2. Of(r, h.client, b.n, b.edit) BY <2>1 DEF Of, Has
  <2>3. QED BY <1>6, <2>2, NamedOf
<1>9. Dates'
  <2>1. \A u \in Tabs : tab'[u].main.client = tab[u].main.client BY <1>1, <1>3
  <2>2. \A j : MainHeld(j) => MainHeld(j)' BY <2>1 DEF MainHeld
  <2>3. \A d \in device' : d \in device \/
          (d.client = r.drain.client /\ d.savedAt = r.drain.age /\ d.client # 0 /\ s.drain.client = 0)
    BY <1>1, <1>4, <1>6, <1>7
  <2>4. s.found = r.found /\ s.older = r.older /\ s.drain.client = 0 BY <1>1, <1>4
  <2>5. QED BY <1>2, <2>2, <2>3, <2>4, DatesStep
<1>10. \A d \in device' : \/ d \in device
                          \/ /\ d.client = h.client /\ d.savedAt = h.age
                             /\ \A b \in d.batches : Named(d.client, b.n, b.edit)
  BY <1>6, <1>7, <1>8
<1>11. QED BY <1>1, <1>2, <1>5, <1>9, <1>10

\* The pairs of the copy are over when its connection ends, unless the session closes.
LEMMA FinishInTurn ==
  ASSUME IInv, Ledger, IInv', Ledger', InTurn, NEW t \in Tabs, tab[t].drain.client # 0,
         NEW records, FinishDrain(t, records),
         records = Put(Kept(tab[t].drain)) \/ records = Delete(tab[t].drain.client),
         UNCHANGED <<log, edits, gone, waived>>, before' \subseteq before,
         \/ \A p \in before' : \A c, d : Pair(p, c, d) => c # tab[t].drain.client
         \/ tab[t].phase = "closing"
  PROVE  InTurn'
<1> PICK r : r = tab[t] OBVIOUS
<1> PICK k : k = r.drain.client OBVIOUS
<1>0. tab \in [Tabs -> Session] /\ r \in Session BY DEF IInv, TypeOK
<1>1. Dates BY DEF InTurn
<1>2. PICK s :
           /\ tab' = [tab EXCEPT ![t] = s]
           /\ s.phase = r.phase /\ s.found = r.found /\ s.older = r.older
           /\ s.main = r.main /\ s.drain = NoEngine /\ s.held = r.held
           /\ s.saved = r.saved /\ s.writes = r.writes
           /\ \A j, n, e : Of(s, j, n, e) => Named(j, n, e)
           /\ Dates'
           /\ \A d \in device' : \/ d \in device
                                 \/ /\ d.client = k /\ d.savedAt = r.drain.age
                                    /\ \A b \in d.batches : Named(d.client, b.n, b.edit)
  BY <1>1, FinishIs
<1>3. \A u \in Tabs : tab'[u] = IF u = t THEN s ELSE tab[u] BY <1>0, <1>2
<1>4. NoEngine.client = 0 /\ ~NoEngine.on BY ClosedOK
<1>5. k \in Clients /\ lock[k] = t /\ lock' = Free(k)
  <2>1. k \in ClientsIn(r) BY DEF ClientsIn
  <2>2. QED BY <2>1, OwnClient DEF FinishDrain
<1>6. \A u \in Tabs : tab'[u].phase = tab[u].phase /\ tab'[u].found = tab[u].found BY <1>2, <1>3
<1>7. ASSUME NEW p \in before', NEW c, NEW d, Pair(p, c, d) PROVE Leads(c, d, p[2])'
  <2>1. Leads(c, d, p[2]) /\ c \in Clients /\ d \in Clients /\ c # d /\ \E a \in device : a.client = c
    BY <1>7, PairIs DEF Pair
  <2>2. r.main.client # c /\ k # d /\ d # 0
    <3>1. r.main.client # c /\ k # d BY <2>1 DEF Leads, Apart
    <3>2. d # 0 BY <2>1 DEF Clients
    <3>3. QED BY <3>1, <3>2
  <2>3. s.main.client # c /\ s.drain.client # d BY <1>2, <1>4, <2>2
  <2>4. lock'[d] = lock[d] /\ (k # c => lock'[c] = lock[c]) BY <1>5, <2>1, <2>2 DEF Free, IInv, TypeOK
  <2>5. k = c => r.phase = "closing" BY <1>7
  <2>6. Behind(c, d)'
    <3>1. Behind(c, d) BY <2>1 DEF Leads
    <3>2. CASE k # c BY <1>6, <2>4, <3>1, <3>2 DEF Behind
    <3>3. CASE k = c BY <1>5, <1>6, <2>1, <2>5, <3>1, <3>3, FreedBehind
    <3>4. QED BY <3>2, <3>3
  <2>7. WaitsIn(s, c, d) BY <1>2, <2>1 DEF Leads, Waits, WaitsIn
  <2>8. Listed(c, d)'
    <3>1. Listed(c, d) BY <2>1 DEF Leads
    <3>2. CASE k # c BY <1>6, <2>4, <3>1, <3>2 DEF Listed
    <3>3. CASE k = c
      <4>1. \A u \in Tabs : tab[u].phase = "listing" => u # t BY <2>5, <3>3
      <4>2. \A u \in Tabs : tab[u].phase # "listing" BY <2>5, <3>3, <4>1 DEF Ledger, OneListing
      <4>3. QED BY <1>6, <4>2 DEF Listed
    <3>4. QED BY <3>2, <3>3
  <2>9. ASSUME NEW a \in device', a \notin device
        PROVE  a.client # d /\ (a.client = c => \E g \in device : g.client = c /\ g.savedAt = a.savedAt)
    <3>1. a.client = k /\ a.savedAt = r.drain.age BY <1>2, <2>9
    <3>2. PICK g \in device : g.client = c BY <2>1
    <3>3. k = c => r.drain.age = g.savedAt BY <1>1, <3>2 DEF Dates
    <3>4. QED BY <2>2, <3>1, <3>2, <3>3
  <2>10. QED BY <1>2, <2>1, <2>3, <2>6, <2>7, <2>8, <2>9, LeadsStep
<1>8. QED BY <1>2, <1>4, <1>7, PassStep

\* The session closes: what is left of the copy is put back with its own date.
LEMMA StopDrainInTurn ==
  ASSUME IInv, Ledger, IInv', Ledger', InTurn, NEW t \in Tabs, StopDrain(t)
  PROVE  InTurn'
<1> PICK records : records = Put(Kept(tab[t].drain)) OBVIOUS
<1>1. tab[t].drain.client # 0 /\ tab[t].phase = "closing" /\ FinishDrain(t, records) BY DEF StopDrain
<1>2. UNCHANGED <<log, edits, gone, waived>> /\ before' \subseteq before BY DEF StopDrain, room
<1>3. QED BY <1>1, <1>2, FinishInTurn

\* What is written is owed nothing, what is refused loses its place.
LEMMA DrainInTurn ==
  ASSUME IInv, Ledger, IInv', Ledger', InTurn, NEW t \in Tabs, DrainWritten(t) \/ DrainRefused(t)
  PROVE  InTurn'
<1> PICK r : r = tab[t] OBVIOUS
<1> PICK h : h = r.drain OBVIOUS
<1>1. h.client # 0 BY DEF DrainWritten, DrainRefused, Connected
<1>2. Whole(h.client, h.next, h.batches) BY DEF Ledger, Fit
<1>3. UNCHANGED <<log, edits, gone, waived>> /\ before' \subseteq before BY DEF DrainWritten, DrainRefused, room
<1>4. ASSUME NEW p \in before', NEW c, NEW d, Pair(p, c, d), c = h.client
      PROVE  p[1] \in EditsIn(h)
  <2>1. c \in Clients /\ Mine(c, p[1]) /\ ~Written(p[1]) BY <1>4, PairIs DEF Pair
  <2>2. PICK b \in h.batches : b.edit = p[1] BY <1>2, <1>4, <2>1, WholeHas
  <2>3. QED BY <2>2 DEF EditsIn
<1>5. CASE DrainWritten(t)
  <2> PICK records : records = Delete(h.client) OBVIOUS
  <2>1. FinishDrain(t, records) /\ h.batches = {} BY <1>5 DEF DrainWritten, FullySynced
  <2>2. EditsIn(h) = {} BY <2>1 DEF EditsIn
  <2>3. QED BY <1>1, <1>3, <1>4, <2>1, <2>2, FinishInTurn
<1>6. CASE DrainRefused(t)
  <2> PICK records : records = Put(Kept(h)) OBVIOUS
  <2>1. FinishDrain(t, records) BY <1>6 DEF DrainRefused
  <2>2. \A p \in before' : p[1] \notin EditsIn(h) BY <1>6 DEF DrainRefused
  <2>3. QED BY <1>1, <1>3, <1>4, <2>1, <2>2, FinishInTurn
<1>7. QED BY <1>5, <1>6

\* Without access, the copy is deleted.
LEMMA DrainGoneInTurn ==
  ASSUME IInv, Ledger, IInv', Ledger', InTurn, NEW t \in Tabs, DrainGone(t)
  PROVE  InTurn'
<1> PICK r : r = tab[t] OBVIOUS
<1> PICK h : h = r.drain OBVIOUS
<1> PICK records : records = Delete(h.client) OBVIOUS
<1>0. tab \in [Tabs -> Session] /\ r \in Session BY DEF IInv, TypeOK
<1>1. h.client # 0 /\ FinishDrain(t, records) /\ gone BY DEF DrainGone, Connected
<1>2. UNCHANGED <<log, edits, gone, before>> /\ waived' = waived \cup EditsIn(h) BY DEF DrainGone, room
<1>3. Dates BY DEF InTurn
<1>4. PICK s :
           /\ tab' = [tab EXCEPT ![t] = s]
           /\ s.main = r.main /\ s.drain = NoEngine
           /\ \A k, n, e : Of(s, k, n, e) => Named(k, n, e)
           /\ Dates'
           /\ \A d \in device' : \/ d \in device
                                 \/ \A b \in d.batches : Named(d.client, b.n, b.edit)
  BY <1>1, <1>3, FinishIs
<1>5. NothingNew(0) BY <1>4, NothingNewBy
<1>6. Onward BY <1>2, <1>5, OnwardIs DEF InLog
<1>7. \A u \in Tabs : tab'[u] = IF u = t THEN s ELSE tab[u] BY <1>0, <1>4
<1>8. Off' BY <1>1, <1>2, <1>4, <1>7, ClosedOK DEF InTurn, Off
<1>9. \A e \in EditsIn(h) : e \in 1..edits
  <2> SUFFICES ASSUME NEW b \in h.batches PROVE b.edit \in 1..edits BY DEF EditsIn
  <2>1. Of(r, h.client, b.n, b.edit) BY DEF Of, Has
  <2>2. QED BY <2>1, NamedOf, NamedMade
<1>10. QED BY <1>1, <1>2, <1>4, <1>6, <1>8, <1>9, GoneStep

\* What a copy of a session has is its client's, and the rest of it is not elsewhere.
LEMMA OlderMine ==
  ASSUME IInv, NEW t \in Tabs, NEW o \in tab[t].older, NEW e \in EditsIn(o)
  PROVE  Mine(o.client, e)
<1>1. PICK b \in o.batches : b.edit = e BY DEF EditsIn
<1>2. Of(tab[t], o.client, b.n, e) BY <1>1 DEF Of, Has
<1>3. QED BY <1>2, NamedOf DEF Mine

\* The newest copy is the session's own, the others go first.
LEMMA StartFromCopiesInTurn ==
  ASSUME IInv, Ledger, IInv', Ledger', InTurn, NEW t \in Tabs, StartFromCopies(t)
  PROVE  InTurn'
<1> PICK r : r = tab[t] OBVIOUS
<1>0. r \in Session /\ r.phase = "listing" /\ r.found = {} /\ r.older # {} /\ r.older \subseteq Copy
      /\ r.main = NoEngine /\ r.drain = NoEngine /\ tab \in [Tabs -> Session]
  <2>1. r \in Session /\ tab \in [Tabs -> Session] BY DEF IInv, TypeOK
  <2>2. r.phase = "listing" /\ r.found = {} /\ r.older # {} BY DEF StartFromCopies
  <2>3. r.main = NoEngine /\ r.drain = NoEngine BY <2>2, ListingIs
  <2>4. QED BY <2>1, <2>2, <2>3, SessionFields
<1> PICK newest : newest = Newest(r.older) OBVIOUS
<1> PICK k : k = newest.client OBVIOUS
<1> PICK others : others = r.older \ {newest} OBVIOUS
<1>h. PICK held \in BOOLEAN : held = (others # {}) OBVIOUS
<1>1. newest \in r.older /\ newest \in Copy /\ \A a \in r.older : a.savedAt <= newest.savedAt /\ a.savedAt \in Nat
  <2>1. PICK m \in Nat : m = Now /\ \A x \in DatesInUse : x < m BY NowIs
  <2>2. \A a \in r.older : a.savedAt \in Nat /\ a.savedAt < m BY <1>0, <2>1, DatesAre, CopyFields
  <2>3. \A a \in r.older : a.savedAt <= m BY <2>2
  <2>4. QED BY <1>0, <2>2, <2>3, NewestIs
<1>2. OneEach(r.older)
  <2>1. Shape(r) BY DEF IInv, Own
  <2>2. QED BY <2>1 DEF Shape, OneEach
<1> PICK e : e = Restored(newest) OBVIOUS
<1>3. e.client = k /\ ~e.on /\ k # 0 /\ \A m, f : Has(e.batches, m, f) <=> Has(newest.batches, m, f)
  <2>1. e.client = k /\ ~e.on BY <1>1, RestoredOK
  <2>2. k # 0 BY <1>1, FoundCopies
  <2>3. QED BY <1>1, <2>1, <2>2, RestoredHas
<1> PICK s : s = [Closed EXCEPT !.phase = "open", !.main = e, !.saved = newest,
                                !.older = others, !.held = held] OBVIOUS
<1>4. /\ s.phase = "open" /\ s.main = e /\ s.older = others /\ s.found = {} /\ s.held = held
      /\ s.drain = NoEngine /\ s.writes = <<>> /\ s.saved = newest
  BY DEF Closed
<1>5. tab' = [tab EXCEPT ![t] = s]
  <2>1. tab' = [tab EXCEPT ![t] = [Closed EXCEPT !.phase = "open", !.main = e, !.saved = newest,
                                !.older = others, !.held = (others # {})]]
    BY DEF StartFromCopies
  <2>2. QED BY <2>1, <1>h
<1>6. \A u \in Tabs : tab'[u] = IF u = t THEN s ELSE tab[u] BY <1>0, <1>5
<1>7. NoEngine.client = 0 /\ NoEngine.batches = {} /\ ~NoEngine.on /\ ToSet(s.writes) = {} BY <1>4, ClosedOK, NoneIn
<1>8. \A j, n, f : Of(s, j, n, f) => Named(j, n, f)
  <2>1. \A j, n, f : Of(s, j, n, f) => Of(r, j, n, f)
    <3> SUFFICES ASSUME NEW j, NEW n, NEW f, Of(s, j, n, f) PROVE Of(r, j, n, f) OBVIOUS
    <3>1. CASE s.main.client = j /\ Has(s.main.batches, n, f)
      <4>1. k = j /\ Has(newest.batches, n, f) BY <1>3, <1>4, <3>1
      <4>2. QED BY <1>1, <4>1 DEF Of
    <3>2. CASE s.drain.client = j /\ Has(s.drain.batches, n, f) BY <1>4, <1>7, <3>2 DEF Has
    <3>3. CASE \E c \in others \cup {newest} : c.client = j /\ Has(c.batches, n, f) BY <1>1, <3>3 DEF Of
    <3>4. s.found \cup s.older \cup ToSet(s.writes) \cup {s.saved} = others \cup {newest} BY <1>4, <1>7
    <3>5. QED BY <3>1, <3>2, <3>3, <3>4 DEF Of
  <2>2. QED BY <2>1, NamedOf
<1>9. UNCHANGED <<device, lock, log, edits, gone, waived>> BY DEF StartFromCopies, room
<1>10. NothingNew(0) BY <1>5, <1>8, <1>9, NothingNewBy
<1>11. Onward BY <1>9, <1>10, OnwardIs DEF InLog
<1>12. Dates'
  <2>1. \A u \in Tabs : tab[u].main.client # 0 => tab'[u].main.client = tab[u].main.client
    BY <1>0, <1>6, <1>7
  <2>2. \A u \in Tabs : \A f \in tab'[u].found : MainHeld(f.client) => MainHeld(f.client)'
    <3>1. \A u \in Tabs : \A f \in tab'[u].found : f \in tab[u].found BY <1>4, <1>6
    <3>2. \A u \in Tabs : \A f \in tab'[u].found : f.client # 0 BY <3>1, FoundCopies
    <3>3. QED BY <2>1, <3>2 DEF MainHeld
  <2>3. s.older \subseteq r.older /\ s.found \subseteq r.found /\ s.drain.client = 0 BY <1>4, <1>7
  <2>4. QED BY <1>5, <1>9, <2>2, <2>3, DatesStep DEF InTurn
<1>13. Dropped' BY <1>9, <1>11, DroppedStays DEF InTurn, Dropped
<1>14. Off' BY <1>3, <1>4, <1>6, <1>7, <1>9 DEF InTurn, Off
<1>15. \A c \in Clients : lock[c] = t <=> \E o \in r.older : o.client = c
  <2>1. \A c \in Clients : c # 0 BY DEF Clients
  <2>2. \A c \in Clients : c \in ClientsIn(r) <=> \E o \in r.older : o.client = c BY <1>0, <1>7, <2>1 DEF ClientsIn
  <2>3. QED BY <2>2 DEF IInv, Own
<1>16. t # NoTab /\ \A u \in Tabs : tab'[u].phase = "listing" => tab'[u] = tab[u] /\ u # t
  BY <1>4, <1>6, TabAssumption
<1>17. ASSUME NEW p \in before, NEW c, NEW d, Pair(p, c, d) PROVE Leads(c, d, p[2])'
  <2>1. Leads(c, d, p[2]) /\ c \in Clients /\ d \in Clients /\ c # d BY <1>17, PairIs DEF Pair
  <2>2. lock[d] # NoTab BY <1>0, <2>1 DEF Leads, Listed
  <2>3. lock[d] = t => lock[c] = t BY <1>0, <2>1 DEF Leads, Behind
  <2>4. k # c
    <3> SUFFICES ASSUME k = c PROVE FALSE OBVIOUS
    <3>1. lock[c] = t BY <1>1, <1>15, <2>1
    <3>2. lock[d] = t
      <4>1. lock[d] \in Tabs BY <2>1, <2>2 DEF IInv, TypeOK
      <4>2. QED BY <1>16, <2>1, <3>1, <4>1 DEF Leads, Behind
    <3>3. PICK o \in r.older : o.client = d BY <1>15, <2>1, <3>2
    <3>4. newest.savedAt < o.savedAt BY <1>1, <2>1, <3>3 DEF Leads, Waits, WaitsIn
    <3>5. o.savedAt <= newest.savedAt /\ o.savedAt \in Nat /\ newest.savedAt \in Nat BY <1>1, <3>3
    <3>6. QED BY <3>4, <3>5
  <2>5. d # 0 BY <2>1 DEF Clients
  <2>6. s.main.client # c /\ s.drain.client # d BY <1>3, <1>4, <1>7, <2>4, <2>5
  <2>7. Behind(c, d)'
    <3>1. \A u \in Tabs : u # t => tab'[u] = tab[u] BY <1>6
    <3>2. QED BY <1>9, <2>1, <2>2, <2>3, <3>1 DEF Leads, Behind
  <2>8. WaitsIn(s, c, d)
    <3>1. \A o, q \in r.older : o.client = d /\ q.client = c => q.savedAt < o.savedAt
      BY <2>1 DEF Leads, Waits, WaitsIn
    <3>2. k = d => held
      <4> SUFFICES ASSUME k = d PROVE others # {} BY <1>h
      <4>1. lock[c] = t BY <1>1, <1>15, <2>1, <2>3
      <4>2. PICK o \in r.older : o.client = c BY <1>15, <2>1, <4>1
      <4>3. QED BY <2>4, <4>2
    <3>3. QED BY <1>3, <1>4, <3>1, <3>2 DEF WaitsIn
  <2>9. Listed(c, d)' BY <1>9, <2>2 DEF Listed
  <2>10. QED BY <1>5, <1>7, <1>9, <2>1, <2>6, <2>7, <2>8, <2>9, LeadsStep
<1>18. before' = before \cup OrderOf(r.older) BY DEF StartFromCopies
<1>19. ASSUME NEW p \in OrderOf(r.older) PROVE Ordered(p)' /\ ~InLog(p[2])
  <2>1. /\ p[1] \in 1..edits /\ p[2] \in 1..edits /\ p[1] # p[2] /\ ~InLog(p[1]) /\ ~InLog(p[2])
        /\ \E a, b \in r.older : a.savedAt < b.savedAt /\ p[1] \in EditsIn(a) /\ p[2] \in EditsIn(b)
    BY DEF OrderOf
  <2>2. PICK a \in r.older, b \in r.older : a.savedAt < b.savedAt /\ p[1] \in EditsIn(a) /\ p[2] \in EditsIn(b)
    BY <2>1
  <2>3. Mine(a.client, p[1]) /\ Mine(b.client, p[2]) BY <2>2, OlderMine
  <2>4. ASSUME Live(p)', NEW d \in Clients, Mine(d, p[2])'
        PROVE  OnDevice(p[1])' /\ \A c \in Clients : Mine(c, p[1])' => Leads(c, d, p[2])'
    <3>1. \A c, f : Mine(c, f)' => Mine(c, f) BY <1>10 DEF Mine, NothingNew
    <3>2. d = b.client BY <2>3, <2>4, <3>1, OneClient
    <3>3. OnDevice(p[1])'
      <4>1. PICK z \in a.batches : z.edit = p[1] BY <2>2 DEF EditsIn
      <4>2. Safe(p[1]) BY <2>2, <4>1, OlderSafe
      <4>3. p[1] \notin waived BY <1>9, <2>4 DEF Live
      <4>4. ~Written(p[1]) BY <2>1, WrittenLogged
      <4>5. QED BY <1>9, <4>2, <4>3, <4>4 DEF Safe, OnDevice
    <3>4. ASSUME NEW c \in Clients, Mine(c, p[1])' PROVE Leads(c, d, p[2])'
      <4>1. c = a.client BY <2>3, <3>1, <3>4, OneClient
      <4>2. lock[c] = t /\ lock[d] = t BY <1>15, <2>2, <3>2, <4>1
      <4>3. a.savedAt \in Nat /\ b.savedAt \in Nat /\ newest.savedAt \in Nat
            /\ a.savedAt <= newest.savedAt /\ b.savedAt <= newest.savedAt
        BY <1>1, <2>2
      <4>4. a # newest /\ a # b BY <2>2, <4>3
      <4>5. c # d /\ k # c BY <1>1, <1>2, <2>2, <3>2, <4>1, <4>4 DEF OneEach
      <4>6. \A u \in Tabs : /\ tab[u].main.client # c /\ tab[u].main.client # d /\ tab[u].drain.client # d
                            /\ u # t => \A o \in tab[u].older : o.client # d
        <5>1. \A u \in Tabs : tab[u].main.client # c /\ tab[u].main.client # d /\ tab[u].drain.client # d
          BY <2>2, <3>2, <4>1, OlderOwn
        <5>2. ASSUME NEW u \in Tabs, NEW o \in tab[u].older, o.client = d PROVE u = t
          <6>1. d \in ClientsIn(tab[u]) BY <5>2 DEF ClientsIn
          <6>2. QED BY <4>2, <6>1, OwnClient
        <5>3. QED BY <5>1, <5>2
      <4>7. d # 0 BY <2>4 DEF Clients
      <4>8. Apart(c, d)'
        <5>1. ASSUME NEW u \in Tabs PROVE tab'[u].main.client # c /\ tab'[u].drain.client # d
          <6>1. CASE u = t
            <7>1. s.main.client = k /\ s.drain.client = 0 BY ONLY <1>3, <1>4, <1>7
            <7>2. tab'[u] = s BY ONLY <1>6, <6>1, t \in Tabs
            <7>3. QED BY ONLY <4>5, <4>7, <7>1, <7>2
          <6>2. CASE u # t
            <7>1. tab'[u] = tab[u] BY ONLY <1>6, <6>2, u \in Tabs
            <7>2. QED BY ONLY <4>6, <7>1, u \in Tabs
          <6>3. QED BY <6>1, <6>2
        <5>2. QED BY <4>5, <5>1 DEF Apart
      <4>9. Earlier(c, d, p[2])'
        <5>1. \A x \in device : x.client = c => x.savedAt = a.savedAt BY <2>2, <4>1 DEF InTurn, Dates
        <5>2. \A x \in device : x.client = d => x.savedAt = b.savedAt BY <2>2, <3>2 DEF InTurn, Dates
        <5>3. \A u \in Tabs : \A w \in ToSet(tab'[u].writes) : w.client # d
          <6>1. \A u \in Tabs : \A w \in ToSet(tab[u].writes) : w.client # d BY <4>6, WrittenOwn
          <6>2. QED BY <1>6, <1>7, <6>1
        <5>4. QED BY <1>9, <2>2, <5>1, <5>2, <5>3 DEF Earlier
      <4>10. Behind(c, d)' BY <1>9, <1>16, <4>2 DEF Behind
      <4>11. Waits(c, d)'
        <5>1. WaitsIn(s, c, d)
          <6>1. others # {} BY <2>2, <4>4
          <6>2. \A o \in others : (o.client = d => o = b) /\ (o.client = c => o = a)
            BY <1>2, <2>2, <3>2, <4>1 DEF OneEach
          <6>3. QED BY <1>h, <1>4, <2>2, <6>1, <6>2 DEF WaitsIn
        <5>2. \A u \in Tabs : WaitsIn(tab'[u], c, d) BY <1>6, <4>6, <5>1 DEF WaitsIn
        <5>3. QED BY <5>2 DEF Waits, WaitsIn
      <4>12. Listed(c, d)' BY <1>9, <1>16, <4>2 DEF Listed
      <4>13. QED BY <4>8, <4>9, <4>10, <4>11, <4>12 DEF Leads
    <3>5. QED BY <3>3, <3>4
  <2>5. QED BY <1>9, <2>1, <2>4 DEF Ordered
<1>20. Order'
  <2>1. \A p \in before : Ordered(p)' BY <1>11, <1>17, OldPair
  <2>2. QED BY <1>18, <1>19, <2>1 DEF Order
<1>21. NewestWins'
  <2> SUFFICES ASSUME NEW p \in before', InLog(p[2])'
               PROVE  \/ p[1] \in waived'
                      \/ \E i, j \in DOMAIN log' : i < j /\ log'[i] = p[1] /\ log'[j] = p[2]
    BY DEF NewestWins
  <2>1. InLog(p[2]) BY <1>9 DEF InLog
  <2>2. p \in before BY <1>18, <1>19, <2>1
  <2>3. QED BY <1>9, <2>1, <2>2 DEF InTurn, NewestWins
<1>22. QED BY <1>12, <1>13, <1>14, <1>20, <1>21 DEF InTurn

----------------------------------------------------------------------------
(* The order always holds                                                  *)

\* At first, what is left on the device was made in the order of its dates.
LEMMA InitInTurn == Init => InTurn
<1> SUFFICES ASSUME Init PROVE InTurn OBVIOUS
<1>1. /\ tab = [t \in Tabs |-> Closed] /\ edits = NLeft /\ log = <<>> /\ gone = FALSE /\ waived = {}
      /\ NLeft \in Nat /\ lock = [c \in Clients |-> NoTab]
      /\ before = {p \in (1..NLeft) \X (1..NLeft) : p[1] < p[2]}
  BY BoundsAssumption DEF Init
<1>2. \A d \in device : d.client \in 1..NLeft /\ d = [client |-> d.client, next |-> 2,
                          batches |-> {[n |-> 1, edit |-> d.client]}, savedAt |-> d.client]
  BY DEF Init, Left
<1>3. \A d \in device : d.client # 0 /\ d.savedAt = d.client /\ EditsIn(d) = {d.client}
  <2> SUFFICES ASSUME NEW d \in device PROVE d.client # 0 /\ d.savedAt = d.client /\ EditsIn(d) = {d.client}
    OBVIOUS
  <2>1. d.client \in 1..NLeft /\ d.savedAt = d.client /\ d.batches = {[n |-> 1, edit |-> d.client]} BY <1>2
  <2>2. QED BY <1>1, <2>1 DEF EditsIn
<1>4. \A t \in Tabs : tab[t] = Closed BY <1>1
<1>5. Off /\ Dropped BY <1>1 DEF Off, Dropped
<1>6. Dates BY <1>3, <1>4, ClosedOK DEF Dates
<1>7. NewestWins BY <1>1 DEF NewestWins, InLog
<1>8. \A c, e : Mine(c, e) => c = e
  <2> SUFFICES ASSUME NEW c, NEW n, NEW e, Named(c, n, e) PROVE c = e BY DEF Mine
  <2>1. \A k, m, f : ~Of(Closed, k, m, f)
    <3>1. ToSet(Closed.writes) = {} BY ClosedOK, NoneIn
    <3>2. Closed.saved.batches = {} BY DEF Closed, Nothing
    <3>3. QED BY <3>1, <3>2, ClosedOK DEF Of, Has
  <2>2. Recorded(c, n, e) BY <1>4, <2>1 DEF Named
  <2>3. PICK d \in device : d.client = c /\ Has(d.batches, n, e) BY <2>2 DEF Recorded
  <2>4. e \in EditsIn(d) BY <2>3 DEF Has, EditsIn
  <2>5. QED BY <1>3, <2>3, <2>4
<1>9. ASSUME NEW p \in before PROVE Ordered(p)
  <2>1. p[1] \in 1..NLeft /\ p[2] \in 1..NLeft /\ p[1] < p[2] BY <1>1
  <2>2. p[1] \in 1..edits /\ p[2] \in 1..edits /\ p[1] # p[2] BY <1>1, <2>1
  <2> PICK x : x = p[1] OBVIOUS
  <2> PICK y : y = p[2] OBVIOUS
  <2>3. OnDevice(x)
    <3> PICK d : d = [client |-> x, next |-> 2, batches |-> {[n |-> 1, edit |-> x]}, savedAt |-> x] OBVIOUS
    <3>1. d \in device BY <2>1 DEF Init, Left
    <3>2. x \in EditsIn(d) BY DEF EditsIn
    <3>3. QED BY <3>1, <3>2 DEF OnDevice
  <2>4. Leads(x, y, y)
    <3>1. Apart(x, y) BY <1>1, <1>4, <2>1, ClosedOK DEF Apart
    <3>2. Earlier(x, y, y)
      <4>1. \A t \in Tabs : ToSet(tab[t].writes) = {} BY <1>4, ClosedOK, NoneIn
      <4>2. QED BY <1>3, <2>1, <4>1 DEF Earlier
    <3>3. x \in Clients /\ y \in Clients BY <1>1, <2>1, BoundsAssumption DEF Clients
    <3>4. Behind(x, y) BY <1>1, <3>3, TabAssumption DEF Behind
    <3>5. Waits(x, y) BY <1>4, ClosedOK DEF Waits, WaitsIn
    <3>6. Listed(x, y) BY <1>4, ClosedOK DEF Listed
    <3>7. QED BY <3>1, <3>2, <3>4, <3>5, <3>6 DEF Leads
  <2>5. \A c, d : Mine(c, x) /\ Mine(d, y) => Leads(c, d, y) BY <1>8, <2>4
  <2>6. QED BY <2>2, <2>3, <2>5 DEF Ordered
<1>10. QED BY <1>5, <1>6, <1>7, <1>9 DEF InTurn, Order

\* Nothing happens.
LEMMA StutterInTurn ==
  ASSUME IInv, Ledger, IInv', Ledger', InTurn, UNCHANGED vars
  PROVE  InTurn'
<1>1. UNCHANGED <<device, lock, tab, log, edits, gone, waived, before>> BY DEF vars, room
<1>2. \A u \in Tabs : SameView(tab'[u], tab[u]) /\ Fewer(tab'[u], tab[u]) BY <1>1 DEF SameView, Fewer
<1>3. NothingNew(0) BY <1>1, <1>2, NothingNewAll
<1>4. Onward BY <1>1, <1>3, OnwardIs DEF InLog
<1>5. Calm BY <1>1, <1>2 DEF Calm
<1>6. Off' BY <1>1 DEF InTurn, Off
<1>7. QED BY <1>1, <1>4, <1>5, <1>6, CalmStep

\* Every step keeps the order, unless sessions start while others start or close.
LEMMA StepInTurn ==
  "overlap" \notin Situations =>
    ((IInv /\ Ledger /\ InTurn) /\ [Next]_vars => (IInv /\ Ledger /\ InTurn)')
<1> SUFFICES ASSUME "overlap" \notin Situations, IInv, Ledger, InTurn, [Next]_vars
             PROVE  IInv' /\ Ledger' /\ InTurn'
  OBVIOUS
<1>0. IInv' /\ Ledger' BY StepHolds, StepLedger
<1>1. CASE UNCHANGED vars BY <1>0, <1>1, StutterInTurn
<1>2. CASE Journal BY <1>0, <1>2, JournalInTurn
<1>3. CASE RemoveAccess BY <1>0, <1>3, RemoveAccessInTurn
<1>4. ASSUME NEW t \in Tabs, NEW slot \in Slots,
             Welcome(t, slot) \/ Send(t, slot) \/ SendUnanswered(t, slot) \/ Disconnect(t, slot)
      PROVE  InTurn'
  BY <1>0, <1>4, WelcomeInTurn, SendInTurn, SendUnansweredInTurn, DisconnectInTurn
<1>5. ASSUME NEW t \in Tabs,
             \/ List(t) \/ TakeLock(t) \/ DropUnusable(t) \/ StartFromCopies(t) \/ StartFresh(t)
      PROVE  InTurn'
  BY <1>0, <1>5, ListInTurn, TakeLockInTurn, DropUnusableInTurn, StartFromCopiesInTurn, StartFreshInTurn
<1>6. ASSUME NEW t \in Tabs, Edit(t) \/ Persist(t) \/ WriteLands(t) \/ Deadline(t) \/ Drained(t)
      PROVE  InTurn'
  BY <1>0, <1>6, EditInTurn, PersistInTurn, WriteLandsInTurn, HoldInTurn
<1>7. ASSUME NEW t \in Tabs,
             NextCopy(t) \/ DrainWritten(t) \/ DrainRefused(t) \/ DrainGone(t) \/ StopDrain(t)
      PROVE  InTurn'
  BY <1>0, <1>7, NextCopyInTurn, DrainInTurn, DrainGoneInTurn, StopDrainInTurn
<1>8. ASSUME NEW t \in Tabs, Discard(t) \/ Stop(t) \/ Release(t) \/ Kill(t) PROVE InTurn'
  BY <1>0, <1>8, DiscardInTurn, StopInTurn, ReleaseInTurn, KillInTurn
<1>9. QED BY <1>0, <1>1, <1>2, <1>3, <1>4, <1>5, <1>6, <1>7, <1>8 DEF Next

\* Over as many sessions as it takes, what the copies of a device hold reaches the
\* server once, and of two edits that wait for each other the one made last
\* reaches it last.
THEOREM CopiesInOrder ==
  ASSUME "overlap" \notin Situations
  PROVE  Spec => []OnceInOrder
<1>1. Init => IInv /\ Ledger /\ InTurn BY InitHolds, InitLedger, InitInTurn
<1>2. (IInv /\ Ledger /\ InTurn) /\ [Next]_vars => (IInv /\ Ledger /\ InTurn)' BY StepInTurn
<1>3. IInv /\ Ledger /\ InTurn => OnceInOrder BY DEF OnceInOrder, Ledger, Books, InTurn
<1>4. QED BY <1>1, <1>2, <1>3, PTL DEF Spec

====
