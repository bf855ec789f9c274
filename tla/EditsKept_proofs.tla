------------------------- MODULE EditsKept_proofs -------------------------
(***************************************************************************)
(* No edit is lost by a device, and each one shows once (NothingLost and     *)
(* EditsStayVisible of CollabSync), for any clients, edits and faults.       *)
(*                                                                          *)
(* The invariant, beside those of CollabSync_proofs, says of each client     *)
(*   - Hears: what is announced durable to it is so, and what it is or will  *)
(*     be told is a log of batches in the order of their edits;              *)
(*   - Ledger: which of its batches are acknowledged, pending or on their    *)
(*     way up, and what the numbers they carry mean;                         *)
(*   - Holds: wherever a batch of a number of its own goes, it has the edits *)
(*     the device knows under it, so that what is counted as applied is.     *)
(***************************************************************************)
EXTENDS CollabSync_proofs

----------------------------------------------------------------------------
(* What is known of a batch the device keeps                               *)

\* The batches a copy is made of, and those of a client among others.
Own(h)      == h.undurable \cup NotLocal(h.pending)
OwnOf(c, S) == {y \in S : y.client = c}

\* The first n batches of s.
Upto(s, n) == {s[q] : q \in {r \in 1..Len(s) : r <= n}}

\* A batch of V with that number has the edit; those of V have every edit of
\* x, but for what nothing is promised about.
In(V, n, e)     == \E y \in V : y.cseq = n /\ e \in Entries(y.ops)
Void(W, x)      == \A e \in Entries(x.ops) : e \in W
Within(W, V, x) == \A e \in Entries(x.ops) : e \in W \/ In(V, x.cseq, e)

\* V goes as far as the number of x, or further: then it has x.
Reaches(V, n)   == \E y \in V : n <= y.cseq
Covers(W, V, x) == Reaches(V, x.cseq) => Within(W, V, x)

\* What the room has, and will have, of a client.
Arriving(c, lg, u) == OwnOf(c, Entries(lg)) \cup Entries(u)

AnswerFits(c, W, m, x) ==
  /\ m.type = "batch" /\ m.batch.client = c /\ m.batch.cseq = x.cseq =>
       \A e \in Entries(x.ops) : e \in W \/ e \in Entries(m.batch.ops)
  /\ m.type = "reject" /\ m.cseq = x.cseq => Void(W, x)
AnswersFit(c, W, dn, x) == \A m \in Entries(dn) : AnswerFits(c, W, m, x)

WelcomeFits(c, W, cf, dn, x) ==
  Waits(dn) => Covers(W, OwnOf(c, Entries(BaseOf(cf, dn))), x)

Known(c, W, lg, cf, u, dn, x) ==
  Covers(W, Arriving(c, lg, u), x) /\ WelcomeFits(c, W, cf, dn, x) /\ AnswersFit(c, W, dn, x)

AllKnown(c, W, lg, cf, u, dn, h, cp) ==
  \A x \in Own(h) \cup cp.batches : Known(c, W, lg, cf, u, dn, x)

\* The batches on their way up are in the order of their numbers, all new.
Climbs(last, u) ==
  /\ \A i, j \in 1..Len(u) : i < j => u[i].cseq < u[j].cseq
  /\ \A i \in 1..Len(u) : last < u[i].cseq

\* What is known of a batch depends on its number and edits only.
LEMMA KnownDrawn ==
  ASSUME NEW c, NEW W, NEW lg, NEW cf, NEW u, NEW dn, NEW x, Known(c, W, lg, cf, u, dn, x),
         NEW y, y.cseq = x.cseq, y.ops = x.ops
  PROVE  Known(c, W, lg, cf, u, dn, y)
<1>1. \A V : Covers(W, V, x) => Covers(W, V, y)
  BY DEF Covers, Within
<1>2. \A m : AnswerFits(c, W, m, x) => AnswerFits(c, W, m, y)
  BY DEF AnswerFits, Void
<1>3. Covers(W, Arriving(c, lg, u), y) /\ WelcomeFits(c, W, cf, dn, y)
  BY <1>1 DEF Known, WelcomeFits
<1>4. AnswersFit(c, W, dn, y)
  BY <1>2 DEF Known, AnswersFit
<1> QED BY <1>3, <1>4 DEF Known

LEMMA KnownMore ==
  ASSUME NEW c, NEW W, NEW lg, NEW cf, NEW u, NEW dn, NEW x, Known(c, W, lg, cf, u, dn, x),
         NEW X, W \subseteq X
  PROVE  Known(c, X, lg, cf, u, dn, x)
<1>1. \A V : Covers(W, V, x) => Covers(X, V, x)
  BY DEF Covers, Within
<1>2. \A m : AnswerFits(c, W, m, x) => AnswerFits(c, X, m, x)
  BY DEF AnswerFits, Void
<1>3. Covers(X, Arriving(c, lg, u), x) /\ WelcomeFits(c, X, cf, dn, x)
  BY <1>1 DEF Known, WelcomeFits
<1>4. AnswersFit(c, X, dn, x)
  BY <1>2 DEF Known, AnswersFit
<1> QED BY <1>3, <1>4 DEF Known

\* A message is read, a connection ends.
LEMMA KnownRead ==
  ASSUME NEW c, NEW W, NEW lg, NEW cf, NEW u, NEW dn, NEW x, Known(c, W, lg, cf, u, dn, x),
         NEW dm, ~Waits(dm), Entries(dm) \subseteq Entries(dn), NEW cg
  PROVE  Known(c, W, lg, cg, u, dm, x)
BY DEF Known, WelcomeFits, AnswersFit

\* A batch of a number nobody else has seen.
LEMMA KnownNew ==
  ASSUME Types, NEW c \in Clients, NEW W, NEW x, x.cseq \in Nat, \A a \in Abroad(c) : a[1] < x.cseq
  PROVE  Known(c, W, log, engine[c].conf, up[c], down[c], x)
<1> DEFINE dn == down[c]
           cf == engine[c].conf
           A == Abroad(c)
<1>1. /\ \A b \in Entries(log) : b.client = c => Pair(b) \in A
      /\ \A b \in Entries(cf) : b.client = c => Pair(b) \in A
      /\ \A b \in Entries(up[c]) : Pair(b) \in A
      /\ \A m \in Entries(dn) : \A y \in Nat \X Seq(Edits) : Carries(c, m, y) => y \in A
      /\ A \in Away
  BY AbroadHas
<1>2. /\ dn \in Seq(Messages) /\ cf \in Seq(Sequenced) /\ up[c] \in Seq(Unsynced) /\ log \in Seq(Sequenced)
  BY TypesAre, EngineFields DEF ServerTypes, TypesOf
<1>3. ASSUME NEW b, b \in Sequenced \/ b \in Unsynced, Pair(b) \in A PROVE ~(x.cseq <= b.cseq)
  <2>1. b.cseq \in Nat /\ Pair(b)[1] = b.cseq
    BY <1>3 DEF Sequenced, Unsynced, Pair
  <2> QED BY <1>3, <2>1
<1>4. ~Reaches(Arriving(c, log, up[c]), x.cseq)
  <2>1. Entries(log) \subseteq Sequenced /\ Entries(up[c]) \subseteq Unsynced
    BY <1>2, EntriesAre
  <2> QED BY <1>1, <1>3, <2>1 DEF Reaches, Arriving, OwnOf
<1>5. ASSUME NEW m \in Entries(dn), m.type \in {"batch", "welcome"}, NEW b \in BatchesOf(m), b.client = c
      PROVE  b \in Sequenced /\ Pair(b) \in A
  <2>1. m \in Messages
    BY <1>2, EntriesAre
  <2>2. b \in Sequenced
    <3>1. CASE m.type = "batch"
      BY <1>5, <2>1, <3>1, MessageKinds DEF BatchesOf
    <3>2. CASE m.type = "welcome"
      <4>1. m \in Welcome /\ b \in Entries(m.batches)
        BY <1>5, <2>1, <3>2, MessageKinds DEF BatchesOf
      <4>2. m.batches \in Seq(Sequenced)
        BY <4>1 DEF Welcome
      <4> QED BY <4>1, <4>2, EntriesAre
    <3> QED BY <1>5, <3>1, <3>2
  <2>3. Pair(b) \in Nat \X Seq(Edits) /\ Carries(c, m, Pair(b))
    BY <1>5, <2>2 DEF Pair, Sequenced, Carries
  <2> QED BY <1>1, <1>5, <2>2, <2>3
<1>6. ASSUME Waits(dn) PROVE ~Reaches(OwnOf(c, Entries(BaseOf(cf, dn))), x.cseq)
  <2>1. Head(dn) \in Entries(dn) /\ Head(dn).type = "welcome" /\ Head(dn) \in Messages
    BY <1>2, <1>6, EntriesTail DEF Waits
  <2>2. Head(dn).batches \in Seq(Sequenced)
    BY <2>1, MessageKinds DEF Welcome
  <2>3. Entries(BaseOf(cf, dn)) \subseteq Entries(cf) \cup Entries(Head(dn).batches)
    BY <1>2, <1>6, <2>2, EntriesConcat DEF BaseOf
  <2>4. BatchesOf(Head(dn)) = Entries(Head(dn).batches)
    BY <2>1 DEF BatchesOf
  <2>5. Entries(cf) \subseteq Sequenced
    BY <1>2, EntriesAre
  <2>6. ASSUME NEW y \in Entries(BaseOf(cf, dn)), y.client = c PROVE ~(x.cseq <= y.cseq)
    <3>1. CASE y \in Entries(cf)
      BY <1>1, <1>3, <2>5, <2>6, <3>1
    <3>2. CASE y \in Entries(Head(dn).batches)
      <4>1. y \in Sequenced /\ Pair(y) \in A
        BY <1>5, <2>1, <2>4, <2>6, <3>2
      <4> QED BY <1>3, <4>1
    <3> QED BY <2>3, <2>6, <3>1, <3>2
  <2> QED BY <2>6 DEF Reaches, OwnOf
<1>7. ASSUME NEW m \in Entries(dn) PROVE AnswerFits(c, W, m, x)
  <2>1. m \in Messages
    BY <1>2, EntriesAre
  <2>2. ASSUME m.type = "batch", m.batch.client = c PROVE m.batch.cseq # x.cseq
    <3>1. m.batch \in BatchesOf(m)
      BY <2>2 DEF BatchesOf
    <3>2. m.batch \in Sequenced /\ Pair(m.batch) \in A
      BY <1>5, <2>2, <3>1
    <3>3. ~(x.cseq <= m.batch.cseq)
      BY <1>3, <3>2
    <3> QED BY <3>3
  <2>3. ASSUME m.type = "reject" PROVE m.cseq # x.cseq
    <3>1. m.cseq \in Nat
      BY <2>1, <2>3, MessageKinds
    <3>2. <<m.cseq, <<>>>> \in Nat \X Seq(Edits) /\ Carries(c, m, <<m.cseq, <<>>>>)
      <4>1. <<>> \in Seq(Edits)
        OBVIOUS
      <4>2. Carries(c, m, <<m.cseq, <<>>>>)
        BY <2>3 DEF Carries, Names
      <4> QED BY <3>1, <4>1, <4>2
    <3>3. <<m.cseq, <<>>>> \in A
      BY <1>1, <3>2
    <3>4. <<m.cseq, <<>>>>[1] < x.cseq
      BY <3>3
    <3> QED BY <3>1, <3>4
  <2> QED BY <2>2, <2>3 DEF AnswerFits
<1> QED BY <1>4, <1>6, <1>7 DEF Known, Covers, WelcomeFits, AnswersFit

\* What is on its way up is beyond what the room has.
LEMMA ClimbsGives ==
  ASSUME NEW c, NEW lg \in Seq(Sequenced), NEW u \in Seq(Unsynced), Climbs(LastOf(lg, c), u)
  PROVE  \A y \in OwnOf(c, Entries(lg)), b \in Entries(u) : y.cseq < b.cseq
<1> SUFFICES ASSUME NEW y \in OwnOf(c, Entries(lg)), NEW b \in Entries(u) PROVE y.cseq < b.cseq
  OBVIOUS
<1>1. PICK q \in 1..Len(lg) : lg[q] = y
  BY EntriesAre DEF OwnOf
<1>2. y.client = c
  BY DEF OwnOf
<1>3. LastOf(lg, c) \in Nat /\ y.cseq <= LastOf(lg, c)
  BY <1>1, <1>2, LastOfOK
<1>4. PICK i \in 1..Len(u) : u[i] = b
  BY EntriesAre
<1>5. LastOf(lg, c) < b.cseq
  BY <1>4 DEF Climbs
<1>6. y \in Sequenced /\ b \in Unsynced
  BY EntriesAre DEF OwnOf
<1>7. y.cseq \in Nat /\ b.cseq \in Nat
  BY <1>6 DEF Sequenced, Unsynced
<1> QED BY <1>3, <1>5, <1>7

\* A new connection: what an older one had on its way is dropped.
LEMMA KnownJoin ==
  ASSUME NEW c, NEW W, NEW lg \in Seq(Sequenced), NEW cf, NEW u \in Seq(Unsynced), NEW dn, NEW x, x.cseq \in Nat,
         Known(c, W, lg, cf, u, dn, x), Climbs(LastOf(lg, c), u),
         NEW g, g.type = "welcome", BaseOf(cf, <<g>>) = lg
  PROVE  Known(c, W, lg, cf, <<>>, <<g>>, x)
<1> DEFINE L == OwnOf(c, Entries(lg))
           U == Entries(u)
<1>1. Covers(W, L \cup U, x)
  BY DEF Known, Arriving
<1>2. \A y \in L, b \in U : y.cseq < b.cseq
  BY ClimbsGives
<1>3. L \subseteq Sequenced /\ U \subseteq Unsynced
  BY EntriesAre DEF OwnOf
<1> HIDE DEF L, U
<1>4. Covers(W, L, x)
  <2> SUFFICES ASSUME NEW y \in L, x.cseq <= y.cseq PROVE Within(W, L, x)
    BY DEF Covers, Reaches
  <2>1. Within(W, L \cup U, x)
    BY <1>1 DEF Covers, Reaches
  <2>2. \A b \in U : b.cseq # x.cseq
    <3> SUFFICES ASSUME NEW b \in U PROVE b.cseq # x.cseq
      OBVIOUS
    <3>1. y.cseq \in Nat /\ b.cseq \in Nat
      BY <1>3 DEF Sequenced, Unsynced
    <3> QED BY <1>2, <3>1
  <2> QED BY <2>1, <2>2 DEF Within, In
<1>5. Entries(<<>>) = {} /\ Entries(<<g>>) = {g}
  BY DEF Entries
<1>6. Arriving(c, lg, <<>>) = L
  BY <1>5 DEF Arriving, L
<1>7. AnswersFit(c, W, <<g>>, x)
  BY <1>5 DEF AnswersFit, AnswerFits
<1>8. WelcomeFits(c, W, cf, <<g>>, x)
  BY <1>4 DEF WelcomeFits, L
<1> QED BY <1>4, <1>6, <1>7, <1>8 DEF Known

\* The first batch on its way up, and those that follow.
LEMMA ClimbsHead ==
  ASSUME NEW last \in Nat, NEW u \in Seq(Unsynced), u # <<>>, Climbs(last, u)
  PROVE  /\ Climbs(Head(u).cseq, Tail(u)) /\ Climbs(last, Tail(u)) /\ last < Head(u).cseq
         /\ \A b \in Entries(Tail(u)) : Head(u).cseq < b.cseq
<1>1. /\ Head(u) = u[1] /\ Tail(u) \in Seq(Unsynced) /\ 1 \in 1..Len(u) /\ Len(Tail(u)) = Len(u) - 1
      /\ \A i \in 1..Len(u) - 1 : Tail(u)[i] = u[i + 1]
  BY EntriesTail
<1>2. Len(u) \in Nat
  OBVIOUS
<1>3. \A i \in 1..Len(u) - 1 : i + 1 \in 1..Len(u) /\ 1 < i + 1
  BY <1>2
<1>4. \A i, j \in 1..Len(Tail(u)) : i < j => Tail(u)[i].cseq < Tail(u)[j].cseq
  <2> SUFFICES ASSUME NEW i \in 1..Len(u) - 1, NEW j \in 1..Len(u) - 1, i < j
               PROVE  u[i + 1].cseq < u[j + 1].cseq
    BY <1>1
  <2>1. i + 1 \in 1..Len(u) /\ j + 1 \in 1..Len(u) /\ i + 1 < j + 1
    BY <1>3
  <2> QED BY <2>1 DEF Climbs
<1>5. \A i \in 1..Len(Tail(u)) : Head(u).cseq < Tail(u)[i].cseq /\ last < Tail(u)[i].cseq
  BY <1>1, <1>3 DEF Climbs
<1>6. \A b \in Entries(Tail(u)) : Head(u).cseq < b.cseq
  BY <1>1, <1>5, EntriesAre
<1> QED BY <1>1, <1>4, <1>5, <1>6 DEF Climbs

\* No other batch has the number of the first of them.
LEMMA HeadAlone ==
  ASSUME NEW c, NEW lg \in Seq(Sequenced), NEW u \in Seq(Unsynced), u # <<>>, Climbs(LastOf(lg, c), u)
  PROVE  \A y \in Arriving(c, lg, u) : y.cseq = Head(u).cseq => y = Head(u)
<1> SUFFICES ASSUME NEW y \in Arriving(c, lg, u), y.cseq = Head(u).cseq PROVE y = Head(u)
  OBVIOUS
<1>1. /\ Head(u) \in Unsynced /\ Entries(u) = {Head(u)} \cup Entries(Tail(u)) /\ Tail(u) \in Seq(Unsynced)
      /\ Head(u) \in Entries(u)
  BY EntriesTail
<1>2. Head(u).cseq \in Nat
  BY <1>1 DEF Unsynced
<1>3. y \notin OwnOf(c, Entries(lg))
  <2> SUFFICES ASSUME y \in OwnOf(c, Entries(lg)) PROVE FALSE
    OBVIOUS
  <2>1. y.cseq < Head(u).cseq
    BY <1>1, ClimbsGives
  <2> QED BY ONLY <1>2, <2>1, y.cseq = Head(u).cseq
<1>4. y \notin Entries(Tail(u))
  <2> SUFFICES ASSUME y \in Entries(Tail(u)) PROVE FALSE
    OBVIOUS
  <2>1. Head(u).cseq < y.cseq
    BY ClimbsHead, LastOfOK
  <2> QED BY ONLY <1>2, <2>1, y.cseq = Head(u).cseq
<1> QED BY <1>1, <1>3, <1>4 DEF Arriving

\* The room takes the first of them.
LEMMA KnownTaken ==
  ASSUME NEW c \in Clients, NEW W, NEW lg \in Seq(Sequenced), NEW cf \in Seq(Sequenced), NEW u \in Seq(Unsynced),
         u # <<>>, NEW dn \in Seq(Messages), NEW x, x.cseq \in Nat, Known(c, W, lg, cf, u, dn, x),
         Climbs(LastOf(lg, c), u), NEW dm,
         dm = dn \/ dm = Append(dn, [type |-> "batch", batch |-> Accepted(c, lg, Head(u))])
  PROVE  Known(c, W, Append(lg, Accepted(c, lg, Head(u))), cf, Tail(u), dm, x)
<1> DEFINE b == Accepted(c, lg, Head(u))
           m == [type |-> "batch", batch |-> b]
           V == Arriving(c, lg, u)
           N == Arriving(c, Append(lg, b), Tail(u))
<1>1. /\ Head(u) \in Unsynced /\ Entries(u) = {Head(u)} \cup Entries(Tail(u)) /\ Tail(u) \in Seq(Unsynced)
  BY EntriesTail
<1>2. /\ b \in Sequenced /\ b.client = c /\ b.cseq = Head(u).cseq /\ b.ops = Head(u).ops
  BY <1>1, AcceptedOK DEF Accepted
<1>3. Entries(Append(lg, b)) = Entries(lg) \cup {b}
  BY <1>2, EntriesAppend
<1> HIDE DEF b
<1>4. (\A y \in V : y \in N \/ (y.cseq = b.cseq /\ y.ops = b.ops)) /\ b \in N
      /\ \A y \in N : y \in V \/ y = b
  BY <1>1, <1>2, <1>3 DEF Arriving, OwnOf
<1>5. Head(u) \in V
  BY <1>1 DEF Arriving
<1> HIDE DEF V, N
<1>6. Covers(W, V, x)
  BY DEF Known, V
<1>7. Covers(W, N, x)
  <2>1. Reaches(N, x.cseq) => Reaches(V, x.cseq)
    BY <1>2, <1>4, <1>5 DEF Reaches
  <2>2. Within(W, V, x) => Within(W, N, x)
    BY <1>4 DEF Within, In
  <2> QED BY <1>6, <2>1, <2>2 DEF Covers
<1>8. AnswerFits(c, W, m, x)
  <2> SUFFICES ASSUME b.cseq = x.cseq PROVE \A e \in Entries(x.ops) : e \in W \/ e \in Entries(b.ops)
    BY DEF AnswerFits
  <2>0. b.cseq = x.cseq
    OBVIOUS
  <2>1. Within(W, V, x)
    BY <1>2, <1>5, <1>6 DEF Covers, Reaches
  <2>2. ASSUME NEW y \in V, y.cseq = x.cseq PROVE y.ops = b.ops
    <3>1. y.cseq = Head(u).cseq
      BY <1>2, <2>0, <2>2
    <3>2. y = Head(u)
      BY <3>1, HeadAlone DEF V
    <3> QED BY <1>2, <3>2
  <2> QED BY <2>1, <2>2 DEF Within, In
<1>9. m \in Messages /\ m.type # "welcome"
  BY <1>2, MessagesMade
<1> HIDE DEF m
<1>10. CASE dm = dn
  BY <1>7, <1>10 DEF Known, N, b
<1>11. CASE dm = Append(dn, m)
  <2>1. Entries(dm) = Entries(dn) \cup {m}
    BY <1>9, <1>11, EntriesAppend
  <2>2. AnswersFit(c, W, dm, x)
    BY <1>8, <2>1 DEF Known, AnswersFit
  <2>3. (Waits(dm) <=> Waits(dn)) /\ (Waits(dn) => Head(dm) = Head(dn))
    BY <1>9, <1>11, WaitsAppend
  <2>4. WelcomeFits(c, W, cf, dm, x)
    BY <2>3 DEF Known, WelcomeFits, BaseOf
  <2> QED BY <1>7, <2>2, <2>4 DEF Known, N, b
<1> QED BY <1>10, <1>11 DEF m, b

\* The room refuses the first of them.
LEMMA KnownRefused ==
  ASSUME NEW c \in Clients, NEW W, NEW lg \in Seq(Sequenced), NEW cf \in Seq(Sequenced), NEW u \in Seq(Unsynced),
         u # <<>>, NEW dn \in Seq(Messages), NEW x, x.cseq \in Nat, Known(c, W, lg, cf, u, dn, x),
         Climbs(LastOf(lg, c), u), NEW m \in Messages, m.type = "reject", m.cseq = Head(u).cseq,
         NEW dm, dm = dn \/ dm = Append(dn, m)
  PROVE  Known(c, W \cup Entries(Head(u).ops), lg, cf, Tail(u), dm, x)
<1> DEFINE V == Arriving(c, lg, u)
           N == Arriving(c, lg, Tail(u))
           X == W \cup Entries(Head(u).ops)
<1>1. /\ Head(u) \in Unsynced /\ Entries(u) = {Head(u)} \cup Entries(Tail(u)) /\ Tail(u) \in Seq(Unsynced)
  BY EntriesTail
<1>2. Head(u) \in V /\ N \subseteq V /\ \A y \in V : y \in N \/ y = Head(u)
  BY <1>1 DEF Arriving
<1>3. \A y \in V : y.cseq = Head(u).cseq => y = Head(u)
  BY HeadAlone
<1>4. Known(c, X, lg, cf, u, dn, x)
  BY KnownMore
<1>5. Head(u).cseq \in Nat
  BY <1>1 DEF Unsynced
<1>6. Entries(Head(u).ops) \subseteq X
  OBVIOUS
<1> HIDE DEF V, N
<1>7. Covers(W, V, x)
  BY DEF Known, V
<1>8. Covers(X, N, x)
  <2> SUFFICES ASSUME Reaches(N, x.cseq) PROVE Within(X, N, x)
    BY DEF Covers
  <2>1. Within(W, V, x)
    BY <1>2, <1>7 DEF Covers, Reaches
  <2> QED BY <1>2, <2>1 DEF Within, In
<1>9. AnswerFits(c, X, m, x)
  <2> SUFFICES ASSUME x.cseq = Head(u).cseq PROVE Void(X, x)
    BY DEF AnswerFits
  <2>1. Reaches(V, x.cseq)
    BY <1>2, <1>5 DEF Reaches
  <2>2. Within(W, V, x)
    BY <1>7, <2>1 DEF Covers
  <2> QED BY <1>3, <2>2 DEF Within, In, Void
<1> HIDE DEF X
<1>10. CASE dm = dn
  BY <1>4, <1>8, <1>10 DEF Known, N, X
<1>11. CASE dm = Append(dn, m)
  <2>1. Entries(dm) = Entries(dn) \cup {m}
    BY <1>11, EntriesAppend
  <2>2. AnswersFit(c, X, dm, x)
    BY <1>4, <1>9, <2>1 DEF Known, AnswersFit
  <2>3. (Waits(dm) <=> Waits(dn)) /\ (Waits(dn) => Head(dm) = Head(dn))
    BY <1>11, WaitsAppend
  <2>4. WelcomeFits(c, X, cf, dm, x)
    BY <1>4, <2>3 DEF Known, WelcomeFits, BaseOf
  <2> QED BY <1>8, <2>2, <2>4 DEF Known, N, X
<1> QED BY <1>10, <1>11 DEF X

\* A message that is no answer to this client.
Silent(c, m) == m.type # "welcome" /\ m.type # "reject" /\ (m.type = "batch" => m.batch.client # c)

LEMMA KnownTold ==
  ASSUME NEW c \in Clients, NEW W, NEW lg \in Seq(Sequenced), NEW cf, NEW u, NEW dn \in Seq(Messages), NEW x,
         Known(c, W, lg, cf, u, dn, x), NEW lh,
         lh = lg \/ \E b \in Sequenced : b.client # c /\ lh = Append(lg, b),
         NEW dm, dm = dn \/ \E m \in Messages : Silent(c, m) /\ dm = Append(dn, m)
  PROVE  Known(c, W, lh, cf, u, dm, x)
<1>1. Arriving(c, lh, u) = Arriving(c, lg, u)
  <2>1. CASE lh = lg
    BY <2>1
  <2>2. ASSUME NEW b \in Sequenced, b.client # c, lh = Append(lg, b) PROVE Arriving(c, lh, u) = Arriving(c, lg, u)
    <3>1. Entries(lh) = Entries(lg) \cup {b}
      BY <2>2, EntriesAppend
    <3> QED BY <2>2, <3>1 DEF Arriving, OwnOf
  <2> QED BY <2>1, <2>2
<1>2. CASE dm = dn
  BY <1>1, <1>2 DEF Known
<1>3. ASSUME NEW m \in Messages, Silent(c, m), dm = Append(dn, m) PROVE Known(c, W, lh, cf, u, dm, x)
  <2>1. Entries(dm) = Entries(dn) \cup {m}
    BY <1>3, EntriesAppend
  <2>2. AnswerFits(c, W, m, x)
    BY <1>3 DEF AnswerFits, Silent
  <2>3. AnswersFit(c, W, dm, x)
    BY <2>1, <2>2 DEF Known, AnswersFit
  <2>4. (Waits(dm) <=> Waits(dn)) /\ (Waits(dn) => Head(dm) = Head(dn))
    BY <1>3, WaitsAppend DEF Silent
  <2>5. WelcomeFits(c, W, cf, dm, x)
    BY <2>4 DEF Known, WelcomeFits, BaseOf
  <2> QED BY <1>1, <2>3, <2>5 DEF Known
<1> QED BY <1>2, <1>3

\* The numbers of each client rise along the log.
Rising(lg) ==
  \A q, r \in 1..Len(lg) : q < r /\ lg[q].client = lg[r].client => lg[q].cseq < lg[r].cseq

\* A restart keeps the beginning of the log: a batch that is lost takes with it
\* those of its client that have a higher number.
LEMMA KnownRestart ==
  ASSUME NEW c, NEW W, NEW lg \in Seq(Sequenced), NEW cf, NEW u \in Seq(Unsynced), NEW dn, NEW x, x.cseq \in Nat,
         Known(c, W, lg, cf, u, dn, x), Climbs(LastOf(lg, c), u), Rising(lg), NEW n \in 0..Len(lg)
  PROVE  Known(c, W, SubSeq(lg, 1, n), cf, <<>>, dn, x)
<1> DEFINE lh == SubSeq(lg, 1, n)
           V == Arriving(c, lg, u)
           N == OwnOf(c, Entries(lh))
<1>1. lh \in Seq(Sequenced) /\ Len(lh) = n /\ \A i \in 1..n : lh[i] = lg[i]
  OBVIOUS
<1>2. Entries(<<>>) = {}
  BY DEF Entries
<1>3. Arriving(c, lh, <<>>) = N
  BY <1>2 DEF Arriving
<1>4. Covers(W, V, x)
  BY DEF Known
<1> HIDE DEF lh
<1>5. \A y \in N : \E q \in 1..n : lg[q] = y /\ y.client = c
  <2> SUFFICES ASSUME NEW y \in N PROVE \E q \in 1..n : lg[q] = y /\ y.client = c
    OBVIOUS
  <2>1. y \in Entries(lh) /\ y.client = c
    BY DEF OwnOf
  <2>2. PICK q \in 1..Len(lh) : lh[q] = y
    BY <1>1, <2>1, EntriesAre
  <2> QED BY <1>1, <2>1, <2>2
<1>6. \A q \in 1..n : lg[q].client = c => lg[q] \in N
  <2> SUFFICES ASSUME NEW q \in 1..n, lg[q].client = c PROVE lg[q] \in N
    OBVIOUS
  <2>1. lh[q] \in Entries(lh)
    BY <1>1, EntriesAre
  <2> QED BY <1>1, <2>1 DEF OwnOf
<1>7. \A y \in V : y \in Entries(u) \/ \E r \in 1..Len(lg) : lg[r] = y /\ y.client = c
  BY EntriesAre DEF Arriving, OwnOf
<1>8. N \subseteq V
  <2> SUFFICES ASSUME NEW y \in N PROVE y \in V
    OBVIOUS
  <2>1. PICK q \in 1..n : lg[q] = y /\ y.client = c
    BY <1>5
  <2>2. q \in 1..Len(lg)
    OBVIOUS
  <2>3. y \in Entries(lg)
    BY <2>1, <2>2, EntriesAre
  <2> QED BY <2>1, <2>3 DEF Arriving, OwnOf
<1>9. \A y \in OwnOf(c, Entries(lg)), b \in Entries(u) : y.cseq < b.cseq
  BY ClimbsGives
<1>10. \A b \in Entries(u) : b.cseq \in Nat
  <2>1. Entries(u) \subseteq Unsynced
    BY EntriesAre
  <2> QED BY <2>1 DEF Unsynced
<1>11. \A q \in 1..Len(lg) : lg[q].cseq \in Nat
  <2>1. \A q \in 1..Len(lg) : lg[q] \in Sequenced
    OBVIOUS
  <2>2. \A b \in Sequenced : b.cseq \in Nat
    BY DEF Sequenced
  <2> QED BY <2>1, <2>2
<1>12. Covers(W, N, x)
  <2> SUFFICES ASSUME NEW y \in N, x.cseq <= y.cseq PROVE Within(W, N, x)
    BY DEF Covers, Reaches
  <2> HIDE DEF V, N
  <2>1. Within(W, V, x)
    BY <1>4, <1>8 DEF Covers, Reaches
  <2>2. PICK q \in 1..n : lg[q] = y /\ y.client = c
    BY <1>5
  <2>3. ASSUME NEW z \in V, z.cseq = x.cseq PROVE z \in N
    <3>1. y \in OwnOf(c, Entries(lg)) /\ y.cseq \in Nat
      <4>1. q \in 1..Len(lg)
        OBVIOUS
      <4> QED BY <1>11, <2>2, <4>1, EntriesAre DEF OwnOf
    <3>2. z \notin Entries(u)
      <4> SUFFICES ASSUME z \in Entries(u) PROVE FALSE
        OBVIOUS
      <4>1. y.cseq < z.cseq /\ z.cseq \in Nat
        BY <1>9, <1>10, <3>1
      <4>2. x.cseq <= y.cseq /\ z.cseq = x.cseq
        BY <2>3
      <4> QED BY ONLY <3>1, <4>1, <4>2
    <3>3. PICK r \in 1..Len(lg) : lg[r] = z /\ z.client = c
      BY <1>7, <3>2
    <3>4. r <= n
      <4> SUFFICES ASSUME n < r PROVE FALSE
        OBVIOUS
      <4>1. q \in 1..Len(lg) /\ q < r
        OBVIOUS
      <4>2. y.cseq < z.cseq
        BY <2>2, <3>3, <4>1 DEF Rising
      <4>3. x.cseq <= y.cseq /\ z.cseq = x.cseq
        BY <2>3
      <4> QED BY ONLY <3>1, <4>2, <4>3, x.cseq \in Nat
    <3> QED BY <1>6, <3>3, <3>4
  <2> QED BY <2>1, <2>3 DEF Within, In
<1> HIDE DEF N, V
<1> QED BY <1>3, <1>12 DEF Known, lh

\* A batch of the copy has no edit the engine's batch of that number lacks.
Alike(h, cp) ==
  \A x \in cp.batches, p \in Own(h) :
    x.cseq = p.cseq => \A e \in Entries(x.ops) : e \in Entries(p.ops)

\* A batch of the copy the engine has no more is in the log that survives a
\* restart, or was refused.
Backing(c, W, h, lg, dur, x) ==
  \/ \E p \in Own(h) : p.cseq = x.cseq
  \/ Void(W, x)
  \/ \E y \in OwnOf(c, Upto(lg, dur)) : y.cseq = x.cseq
Backed(c, W, h, cp, lg, dur) == \A x \in cp.batches : Backing(c, W, h, lg, dur, x)

\* What the engine waits to be durable is in the log of its room.
Reached(h, last) == \A b \in h.undurable : b.cseq <= last

NoDuplicate(dn) == \A m \in Entries(dn) : m.type # "duplicate"

\* What is sent: the batches of the device sent before have arrived or are on
\* their way, the others leave in the order of their numbers.
LEMMA CoversSent ==
  ASSUME NEW c, NEW W, NEW lg \in Seq(Sequenced), NEW u \in Seq(Unsynced), NEW dn \in Seq(Messages),
         NEW g, EngineOK(g), Docs(g.conf, lg, dn), Flies(c, u, dn, g, LastOf(lg, c)),
         Reached(g, LastOf(lg, c)), NoDuplicate(dn),
         NEW x \in Own(g), 0 < x.cseq, Covers(W, Arriving(c, lg, u), x), AnswersFit(c, W, dn, x)
  PROVE  Covers(W, Arriving(c, lg, u) \cup {Bare(b) : b \in Outgoing(g)}, x)
<1> DEFINE V == Arriving(c, lg, u)
           O == {Bare(b) : b \in Outgoing(g)}
           last == LastOf(lg, c)
<1>1. x \in Local /\ x.cseq \in Nat
  BY EngineFields DEF Own, NotLocal
<1>2. CASE Reaches(V, x.cseq)
  BY <1>2 DEF Covers, Within, In
<1>3. CASE ~Reaches(V, x.cseq)
  <2>1. ~(x.cseq <= last)
    <3> SUFFICES ASSUME x.cseq <= last PROVE FALSE
      OBVIOUS
    <3>1. last \in Nat /\ last # 0
      BY <1>1, LastOfOK
    <3>2. PICK q \in 1..Len(lg) : lg[q].client = c /\ lg[q].cseq = last
      BY <3>1, LastOfOK
    <3>3. lg[q] \in V
      BY <3>2, EntriesAre DEF Arriving, OwnOf
    <3> QED BY <1>3, <3>2, <3>3 DEF Reaches
  <2>2. x \in NotLocal(g.pending)
    BY <2>1 DEF Reached, Own
  <2>3. CASE x.cseq <= g.sentUpTo
    <3>1. Flying(g, x.cseq)
      BY <1>1, <2>2, <2>3 DEF Flying, NotLocal
    <3>2. ~Leaving(u, x.cseq)
      <4> SUFFICES ASSUME NEW b \in Entries(u), b.cseq = x.cseq PROVE FALSE
        BY DEF Leaving
      <4>1. b \in V
        BY DEF Arriving
      <4> QED BY <1>1, <1>3, <4>1 DEF Reaches
    <3>3. Comes(c, dn, x.cseq)
      BY <1>1, <3>1, <3>2 DEF Flies
    <3>4. PICK m \in Entries(dn) : Answers(m, c, x.cseq)
      BY <3>3 DEF Comes
    <3>5. m.type # "batch" \/ m.batch.client # c \/ m.batch.cseq # x.cseq
      <4> SUFFICES ASSUME m.type = "batch", m.batch.client = c, m.batch.cseq = x.cseq PROVE FALSE
        OBVIOUS
      <4>1. PICK i \in 1..Len(dn) : dn[i] = m
        BY EntriesAre
      <4>2. m.batch.seq <= Len(lg) /\ Len(g.conf) < m.batch.seq /\ m.batch = lg[m.batch.seq]
        BY <4>1 DEF Docs
      <4>3. m.batch.seq \in Nat /\ Len(g.conf) \in Nat
        <5>1. m \in Messages /\ m.batch \in Sequenced
          BY EntriesAre, MessageKinds
        <5>2. g.conf \in Seq(Sequenced)
          BY EngineFields
        <5> QED BY <5>1, <5>2 DEF Sequenced
      <4>4. m.batch.seq \in 1..Len(lg)
        BY <4>2, <4>3
      <4>5. m.batch \in Entries(lg)
        BY <4>2, <4>4, EntriesAre
      <4>6. m.batch \in V
        BY <4>5 DEF Arriving, OwnOf
      <4> QED BY <1>1, <1>3, <4>6 DEF Reaches
    <3>6. m.type = "reject" /\ m.cseq = x.cseq
      BY <3>4, <3>5 DEF Answers, NoDuplicate
    <3>7. Void(W, x)
      BY <3>6 DEF AnswersFit, AnswerFits
    <3> QED BY <3>7 DEF Void, Covers, Within
  <2>4. CASE ~(x.cseq <= g.sentUpTo)
    <3>1. x \in Unsent(g)
      <4>1. g.sentUpTo \in Nat
        BY EngineFields
      <4> QED BY <1>1, <2>2, <2>4, <4>1 DEF Unsent
    <3> SUFFICES ASSUME NEW y \in V \cup O, x.cseq <= y.cseq PROVE Within(W, V \cup O, x)
      BY DEF Covers, Reaches
    <3>2. PICK b \in Outgoing(g) : y = Bare(b)
      BY <1>3 DEF Reaches
    <3>3. x \in Outgoing(g)
      <4>1. x \in Outgoing(g) \/ b.cseq < x.cseq
        BY <3>1, OutgoingOK
      <4>2. y.cseq = b.cseq /\ b \in Local
        BY <3>2, OutgoingOK DEF Bare
      <4>3. b.cseq \in Nat
        BY <4>2 DEF Local
      <4> QED BY <1>1, <4>1, <4>2, <4>3
    <3>4. Bare(x) \in O /\ Bare(x).cseq = x.cseq /\ Bare(x).ops = x.ops
      BY <3>3 DEF Bare
    <3> HIDE DEF V, O
    <3> QED BY <3>4 DEF Within, In
  <2> QED BY <2>3, <2>4
<1> QED BY <1>2, <1>3

LEMMA KnownSent ==
  ASSUME NEW c, NEW W, NEW lg \in Seq(Sequenced), NEW u \in Seq(Unsynced), NEW dn \in Seq(Messages),
         NEW g, EngineOK(g), Docs(g.conf, lg, dn), Flies(c, u, dn, g, LastOf(lg, c)),
         Reached(g, LastOf(lg, c)), NoDuplicate(dn), ~Waits(dn),
         \A b \in g.pending \cup g.undurable : 0 < b.cseq,
         NEW cp, Alike(g, cp), NEW dur, dur \in 0..Len(lg), Backed(c, W, g, cp, lg, dur),
         NEW s \in Seq(Unsynced), Entries(s) = {Bare(b) : b \in Outgoing(g)}, NEW cf,
         AllKnown(c, W, lg, cf, u, dn, g, cp)
  PROVE  AllKnown(c, W, lg, g.conf, u \o s, dn, Sent(g), cp)
<1> DEFINE O == {Bare(b) : b \in Outgoing(g)}
           V == Arriving(c, lg, u)
           N == Arriving(c, lg, u \o s)
<1>1. Entries(u \o s) = Entries(u) \cup O
  BY EntriesConcat
<1>2. N = V \cup O
  BY <1>1 DEF Arriving
<1>3. \A x \in Own(g) \cup cp.batches : Covers(W, V, x) /\ AnswersFit(c, W, dn, x)
  BY DEF AllKnown, Known
<1>4. ASSUME NEW x \in Own(g) PROVE Covers(W, N, x)
  <2>1. 0 < x.cseq
    BY DEF Own, NotLocal
  <2> HIDE DEF V, N, O
  <2>2. Covers(W, V \cup O, x)
    BY <1>3, <1>4, <2>1, CoversSent DEF V, O
  <2> QED BY <1>2, <2>2
<1>5. ASSUME NEW x \in cp.batches PROVE Covers(W, N, x)
  <2> HIDE DEF N, O
  <2>1. ASSUME NEW p \in Own(g), p.cseq = x.cseq PROVE Covers(W, N, x)
    <3>1. Covers(W, N, p)
      BY <1>4
    <3>2. \A e \in Entries(x.ops) : e \in Entries(p.ops)
      BY <2>1 DEF Alike
    <3> QED BY <2>1, <3>1, <3>2 DEF Covers, Within
  <2>2. CASE Void(W, x)
    BY <2>2 DEF Void, Covers, Within
  <2>3. ASSUME NEW y \in OwnOf(c, Upto(lg, dur)), y.cseq = x.cseq PROVE Covers(W, N, x)
    <3>1. PICK q \in 1..Len(lg) : lg[q] = y /\ y.client = c
      BY DEF OwnOf, Upto
    <3>2. y \in V /\ y.cseq \in Nat
      <4>1. y \in Entries(lg) /\ y \in Sequenced
        BY <3>1, EntriesAre
      <4>2. y \in V
        BY <3>1, <4>1 DEF Arriving, OwnOf, V
      <4> QED BY <4>1, <4>2 DEF Sequenced
    <3>3. Reaches(V, x.cseq)
      BY <2>3, <3>2 DEF Reaches
    <3>4. Within(W, V, x)
      BY <1>3, <3>3 DEF Covers
    <3> QED BY <1>2, <3>4 DEF Covers, Within, In
  <2> QED BY <2>1, <2>2, <2>3 DEF Backed, Backing
<1>6. \A x \in Own(g) \cup cp.batches : Known(c, W, lg, g.conf, u \o s, dn, x)
  <2> HIDE DEF V, O
  <2> QED BY <1>3, <1>4, <1>5 DEF Known, WelcomeFits
<1>7. \A y \in Own(Sent(g)) : \E x \in Own(g) : y.cseq = x.cseq /\ y.ops = x.ops
  <2> SUFFICES ASSUME NEW y \in Own(Sent(g)) PROVE \E x \in Own(g) : y.cseq = x.cseq /\ y.ops = x.ops
    OBVIOUS
  <2>1. /\ Sent(g).undurable = g.undurable
        /\ Sent(g).pending = (g.pending \ Outgoing(g)) \cup {Transmit(b) : b \in Outgoing(g)}
    BY SentOK
  <2>2. CASE y \in Own(g)
    BY <2>2
  <2>3. CASE y \notin Own(g)
    <3>1. PICK b \in Outgoing(g) : y = Transmit(b)
      BY <2>1, <2>3 DEF Own, NotLocal
    <3>2. b \in Local /\ ~b.localOnly /\ b \in g.pending
      BY OutgoingOK
    <3>3. Transmit(b).cseq = b.cseq /\ Transmit(b).ops = b.ops
      BY <3>2 DEF Transmit, Local
    <3> QED BY <3>1, <3>2, <3>3 DEF Own, NotLocal
  <2> QED BY <2>2, <2>3
<1> HIDE DEF V, N, O
<1>8. ASSUME NEW y \in Own(Sent(g)) \cup cp.batches PROVE Known(c, W, lg, g.conf, u \o s, dn, y)
  BY <1>6, <1>7, KnownDrawn
<1> QED BY <1>8 DEF AllKnown

----------------------------------------------------------------------------
(* What the engine keeps of the device's edits                             *)

\* Batches acknowledged or counted as applied are in what is confirmed, no
\* later than the number they wait for.
Due(c, W, h) == \A b \in h.undurable : Within(W, OwnOf(c, Upto(h.conf, b.seq)), b)

\* An edit is in one of the batches of S; in what the engine keeps.
InSome(S, e) == \E b \in S : e \in Entries(b.ops)
KeptIn(h, e) == InSome(Own(h), e) \/ e \in Entries(h.queued)

\* Each promised edit is in S or kept by the engine.
Safe(P, S, h) == \A e \in P : InSome(S, e) \/ KeptIn(h, e)

\* The batches of g have the numbers and the edits of batches of h.
Drawn(g, h) == \A y \in Own(g) : \E x \in Own(h) : y.cseq = x.cseq /\ y.ops = x.ops

\* g has all that h has, under the same numbers once it has one.
Grows(h, g) ==
  /\ \A p \in Own(h) : \E y \in Own(g) : y.cseq = p.cseq /\ \A e \in Entries(p.ops) : e \in Entries(y.ops)
  /\ \A e \in Entries(h.queued) : e \in Entries(g.queued) \/ InSome(Own(g), e)

LEMMA SealedGrows ==
  ASSUME NEW h, EngineOK(h)
  PROVE  Grows(h, Sealed(h))
<1>1. CASE h.queued = <<>>
  <2>1. Sealed(h) = h
    BY <1>1, SealedOK
  <2> QED BY <2>1 DEF Grows
<1>2. CASE h.queued # <<>>
  <2> DEFINE b == NewBatch(h.next, h.queued)
  <2>1. Sealed(h).pending = h.pending \cup {b} /\ Sealed(h).undurable = h.undurable
    BY <1>2, SealedOK
  <2>2. ~b.localOnly /\ b.ops = h.queued
    BY DEF NewBatch
  <2> HIDE DEF b
  <2>3. b \in Own(Sealed(h)) /\ \A p \in Own(h) : p \in Own(Sealed(h))
    BY <2>1, <2>2 DEF Own, NotLocal
  <2> QED BY <2>2, <2>3 DEF Grows, InSome
<1> QED BY <1>1, <1>2

LEMMA CoalescedGrows ==
  ASSUME NEW h, EngineOK(h), NEW last \in h.pending, ~last.localOnly
  PROVE  Grows(h, Coalesced(h, last))
<1> DEFINE b == [last EXCEPT !.ops = last.ops \o h.queued]
           k == Coalesced(h, last)
<1>1. /\ b.cseq = last.cseq /\ b.localOnly = last.localOnly /\ b.ops = last.ops \o h.queued
      /\ k.pending = (h.pending \ {last}) \cup {b} /\ k.undurable = h.undurable
  BY CoalescedOK
<1>2. last.ops \in Seq(Edits) /\ h.queued \in Seq(Edits)
  BY EngineFields
<1>3. Entries(b.ops) = Entries(last.ops) \cup Entries(h.queued)
  BY <1>1, <1>2, EntriesConcat
<1> HIDE DEF b, k
<1>4. b \in Own(k) /\ \A p \in Own(h) : p \in Own(k) \/ p = last
  BY <1>1 DEF Own, NotLocal
<1> QED BY <1>1, <1>3, <1>4 DEF Grows, InSome, k

LEMMA SentGrows ==
  ASSUME NEW h, EngineOK(h)
  PROVE  Grows(h, Sent(h)) /\ Drawn(Sent(h), h)
<1>1. /\ Sent(h).undurable = h.undurable /\ Sent(h).queued = h.queued
      /\ Sent(h).pending = (h.pending \ Outgoing(h)) \cup {Transmit(b) : b \in Outgoing(h)}
  BY SentOK
<1>2. ASSUME NEW b \in Outgoing(h)
      PROVE  /\ b \in Own(h) /\ Transmit(b) \in Own(Sent(h))
             /\ Transmit(b).cseq = b.cseq /\ Transmit(b).ops = b.ops
  <2>1. b \in Local /\ ~b.localOnly /\ b \in h.pending
    BY OutgoingOK
  <2>2. Transmit(b).cseq = b.cseq /\ Transmit(b).ops = b.ops /\ ~Transmit(b).localOnly
    BY <2>1 DEF Transmit, Local
  <2> QED BY <1>1, <2>1, <2>2 DEF Own, NotLocal
<1>3. \A p \in Own(h) : p \in Own(Sent(h)) \/ p \in Outgoing(h)
  BY <1>1 DEF Own, NotLocal
<1>4. \A y \in Own(Sent(h)) : y \in Own(h) \/ \E b \in Outgoing(h) : y = Transmit(b)
  BY <1>1 DEF Own, NotLocal
<1>5. Grows(h, Sent(h))
  BY <1>1, <1>2, <1>3 DEF Grows
<1>6. Drawn(Sent(h), h)
  BY <1>2, <1>4 DEF Drawn
<1> QED BY <1>5, <1>6

LEMMA GrowsKeeps ==
  ASSUME NEW h, NEW g, Grows(h, g)
  PROVE  /\ \A e : KeptIn(h, e) => KeptIn(g, e)
         /\ \A P, S : Safe(P, S, h) => Safe(P, S, g)
         /\ \A c, W, cp, lg, dur : Backed(c, W, h, cp, lg, dur) => Backed(c, W, g, cp, lg, dur)
<1>1. \A e : KeptIn(h, e) => KeptIn(g, e)
  BY DEF Grows, KeptIn, InSome
<1>2. \A P, S : Safe(P, S, h) => Safe(P, S, g)
  BY <1>1 DEF Safe
<1>3. \A c, W, lg, dur, x : Backing(c, W, h, lg, dur, x) => Backing(c, W, g, lg, dur, x)
  <2> SUFFICES ASSUME NEW c, NEW W, NEW lg, NEW dur, NEW x, Backing(c, W, h, lg, dur, x)
               PROVE  Backing(c, W, g, lg, dur, x)
    OBVIOUS
  <2>1. ASSUME NEW p \in Own(h), p.cseq = x.cseq PROVE Backing(c, W, g, lg, dur, x)
    <3>1. PICK y \in Own(g) : y.cseq = p.cseq
      BY DEF Grows
    <3> QED BY <2>1, <3>1 DEF Backing
  <2> QED BY <2>1 DEF Backing
<1> QED BY <1>1, <1>2, <1>3 DEF Backed

\* s is h after an answer, g is s without the batches that are durable up to d.
Loses(W, h, s) ==
  \A p \in Own(h) : Void(W, p) \/ \E y \in Own(s) : y.cseq = p.cseq /\ y.ops = p.ops
Forgets(s, g, d) ==
  /\ g.pending = s.pending /\ g.conf = s.conf /\ g.queued = s.queued
  /\ g.undurable \subseteq s.undurable
  /\ \A b \in s.undurable : b.seq <= d \/ b \in g.undurable

\* b is where the room has it, if what the room says up to n holds for it.
Stands(lg, n, b) == b.seq <= n => b.seq \in 1..Len(lg) /\ b = lg[b.seq]
Standing(lg, n, S) == \A b \in S : Stands(lg, n, b)

\* What is forgotten is in the log that survives a restart.
LEMMA Forgotten ==
  ASSUME NEW c, NEW W, NEW s, EngineOK(s), NEW g, NEW d \in Nat, Forgets(s, g, d), Due(c, W, s), IsLog(s.conf),
         NEW lg, NEW dur \in 0..Len(lg), d <= dur, Standing(lg, d, Entries(s.conf)), NEW b \in Own(s)
  PROVE  \/ b \in Own(g)
         \/ Within(W, OwnOf(c, Upto(lg, dur)), b) /\ Within(W, OwnOf(c, Upto(g.conf, d)), b)
<1> SUFFICES ASSUME b \notin Own(g)
             PROVE  Within(W, OwnOf(c, Upto(lg, dur)), b) /\ Within(W, OwnOf(c, Upto(g.conf, d)), b)
  OBVIOUS
<1>1. b \in s.undurable /\ b.seq <= d
  BY DEF Forgets, Own
<1>2. Within(W, OwnOf(c, Upto(s.conf, b.seq)), b)
  BY <1>1 DEF Due
<1>3. b.seq \in Nat /\ s.conf \in Seq(Sequenced) /\ Len(s.conf) \in Nat
  BY <1>1, EngineFields
<1>4. ASSUME NEW y \in OwnOf(c, Upto(s.conf, b.seq))
      PROVE  y \in OwnOf(c, Upto(lg, dur)) /\ y \in OwnOf(c, Upto(g.conf, d))
  <2>1. y.client = c
    BY DEF OwnOf
  <2>2. PICK q \in 1..Len(s.conf) : q <= b.seq /\ s.conf[q] = y
    BY DEF OwnOf, Upto
  <2>3. q \in Nat /\ q <= d
    BY <1>1, <1>3, <2>2
  <2>4. y.seq = q /\ y \in Entries(s.conf)
    BY <1>3, <2>2, EntriesAre DEF IsLog
  <2>5. q \in 1..Len(lg) /\ y = lg[q]
    BY <2>3, <2>4 DEF Standing, Stands
  <2>6. q <= dur
    BY <2>3
  <2>7. y \in Upto(lg, dur)
    BY <2>5, <2>6 DEF Upto
  <2>8. y \in Upto(g.conf, d)
    BY <2>2, <2>3 DEF Upto, Forgets
  <2> QED BY <2>1, <2>7, <2>8 DEF OwnOf
<1> QED BY <1>2, <1>4 DEF Within, In

\* An answer, then what it says is durable, take nothing that is promised.
LEMMA AnswerKeeps ==
  ASSUME NEW c, NEW W, NEW h, NEW s, EngineOK(s), NEW g, NEW d \in Nat, Loses(W, h, s), Forgets(s, g, d),
         h.queued = s.queued, Due(c, W, s), IsLog(s.conf),
         NEW lg, NEW dur \in 0..Len(lg), d <= dur, Standing(lg, d, Entries(s.conf))
  PROVE  /\ Due(c, W, g)
         /\ \A cp : Alike(h, cp) /\ Backed(c, W, h, cp, lg, dur) => Backed(c, W, g, cp, lg, dur)
         /\ \A P, S : (\A e \in P : e \notin W) /\ (S = Upto(g.conf, d) \/ S = Upto(lg, dur)) /\ Safe(P, S, h)
              => Safe(P, S, g)
<1>1. Due(c, W, g)
  BY DEF Due, Forgets
<1>2. ASSUME NEW p \in Own(h)
      PROVE  \/ Void(W, p) \/ \E y \in Own(g) : y.cseq = p.cseq /\ y.ops = p.ops
             \/ Within(W, OwnOf(c, Upto(lg, dur)), p) /\ Within(W, OwnOf(c, Upto(g.conf, d)), p)
  <2>1. CASE Void(W, p)
    BY <2>1
  <2>2. ASSUME NEW y \in Own(s), y.cseq = p.cseq, y.ops = p.ops
        PROVE  \/ y \in Own(g)
               \/ Within(W, OwnOf(c, Upto(lg, dur)), p) /\ Within(W, OwnOf(c, Upto(g.conf, d)), p)
    <3>1. \/ y \in Own(g)
          \/ Within(W, OwnOf(c, Upto(lg, dur)), y) /\ Within(W, OwnOf(c, Upto(g.conf, d)), y)
      BY Forgotten
    <3> QED BY <2>2, <3>1 DEF Within
  <2> QED BY <2>1, <2>2 DEF Loses
<1>3. ASSUME NEW cp, Alike(h, cp), Backed(c, W, h, cp, lg, dur), NEW x \in cp.batches
      PROVE  Backing(c, W, g, lg, dur, x)
  <2>1. Backing(c, W, h, lg, dur, x)
    BY <1>3 DEF Backed
  <2>2. ASSUME NEW p \in Own(h), p.cseq = x.cseq PROVE Backing(c, W, g, lg, dur, x)
    <3>1. \A e \in Entries(x.ops) : e \in Entries(p.ops)
      BY <1>3, <2>2 DEF Alike
    <3>2. CASE Void(W, p)
      BY <3>1, <3>2 DEF Void, Backing
    <3>3. CASE \E y \in Own(g) : y.cseq = p.cseq /\ y.ops = p.ops
      BY <2>2, <3>3 DEF Backing
    <3>4. CASE Within(W, OwnOf(c, Upto(lg, dur)), p)
      BY <2>2, <3>1, <3>4 DEF Void, Backing, Within, In
    <3> QED BY <1>2, <3>2, <3>3, <3>4
  <2> QED BY <2>1, <2>2 DEF Backing
<1>4. ASSUME NEW P, NEW S, \A e \in P : e \notin W, S = Upto(g.conf, d) \/ S = Upto(lg, dur), Safe(P, S, h),
             NEW e \in P
      PROVE  InSome(S, e) \/ KeptIn(g, e)
  <2>1. CASE e \in Entries(h.queued)
    BY <2>1 DEF KeptIn, Forgets
  <2>2. ASSUME NEW p \in Own(h), e \in Entries(p.ops) PROVE InSome(S, e) \/ KeptIn(g, e)
    <3>1. ~Void(W, p)
      BY <1>4, <2>2 DEF Void
    <3>2. CASE \E y \in Own(g) : y.cseq = p.cseq /\ y.ops = p.ops
      BY <2>2, <3>2 DEF KeptIn, InSome
    <3>3. CASE Within(W, OwnOf(c, S), p)
      BY <1>4, <2>2, <3>3 DEF Within, In, InSome, OwnOf
    <3>4. \/ \E y \in Own(g) : y.cseq = p.cseq /\ y.ops = p.ops
          \/ Within(W, OwnOf(c, Upto(lg, dur)), p) /\ Within(W, OwnOf(c, Upto(g.conf, d)), p)
      BY <1>2, <3>1
    <3>5. (\E y \in Own(g) : y.cseq = p.cseq /\ y.ops = p.ops) \/ Within(W, OwnOf(c, S), p)
      BY ONLY <1>4, <3>4
    <3> QED BY <3>2, <3>3, <3>5
  <2> QED BY <1>4, <2>1, <2>2 DEF Safe, KeptIn, InSome
<1> QED BY <1>1, <1>3, <1>4 DEF Backed, Safe

\* What s has of its first n batches, a longer sequence has.
LEMMA UptoFollows ==
  ASSUME NEW s \in Seq(Sequenced), NEW t \in Seq(Sequenced), Follows(s, t), NEW c, NEW n
  PROVE  OwnOf(c, Upto(s, n)) \subseteq OwnOf(c, Upto(t, n))
<1>1. Len(s) \in Nat /\ Len(t) \in Nat
  OBVIOUS
<1>2. ASSUME NEW q \in 1..Len(s) PROVE q \in 1..Len(t) /\ s[q] = t[q]
  BY <1>1 DEF Follows
<1>3. Upto(s, n) \subseteq Upto(t, n)
  BY <1>2 DEF Upto
<1> QED BY <1>3 DEF OwnOf

LEMMA WithinMore ==
  ASSUME NEW W, NEW V, NEW N, V \subseteq N, NEW x, Within(W, V, x)
  PROVE  Within(W, N, x)
BY DEF Within, In

LEMMA FollowsConcat ==
  ASSUME NEW s \in Seq(Sequenced), NEW t \in Seq(Sequenced)
  PROVE  Follows(s, s \o t) /\ s \o t \in Seq(Sequenced)
BY DEF Follows

LEMMA Added ==
  ASSUME NEW s \in Seq(Sequenced), NEW b \in Sequenced
  PROVE  /\ s \o <<b>> \in Seq(Sequenced) /\ Len(s \o <<b>>) = Len(s) + 1
         /\ (s \o <<b>>)[Len(s) + 1] = b /\ \A q \in 1..Len(s) : (s \o <<b>>)[q] = s[q]
OBVIOUS

\* A message that is no welcome.
LEMMA ReceivedLoses ==
  ASSUME NEW c, NEW W, NEW h, EngineOK(h), NEW m \in Messages, m.type # "welcome", m.type # "duplicate",
         \A p \in h.pending : ~p.localOnly, \A x \in Own(h) : AnswerFits(c, W, m, x),
         IsLog(h.conf), Due(c, W, h)
  PROVE  \E s : /\ EngineOK(s) /\ Loses(W, h, s) /\ Forgets(s, Received(h, c, m), Received(h, c, m).durable)
                /\ h.queued = s.queued /\ Due(c, W, s) /\ IsLog(s.conf)
<1> DEFINE g == Received(h, c, m)
           Good(s) == /\ EngineOK(s) /\ Loses(W, h, s) /\ Forgets(s, g, g.durable)
                      /\ h.queued = s.queued /\ Due(c, W, s) /\ IsLog(s.conf)
<1>1. Loses(W, h, h) /\ Forgets(h, h, h.durable)
  BY DEF Loses, Forgets
<1>2. \A p \in h.pending : p \in Own(h)
  BY DEF Own, NotLocal
<1>3. CASE m.type = "batch" /\ ~IsNext(h, m.batch)
  <2>1. g = h
    BY <1>3, ReceivedOK
  <2> HIDE DEF g
  <2>2. Good(h)
    BY <1>1, <2>1
  <2> QED BY <2>2 DEF g
<1>4. CASE m.type = "batch" /\ IsNext(h, m.batch)
  <2> DEFINE b == m.batch
             t == <<b>>
  <2>1. g = Applied(h, c, t) /\ b \in Sequenced /\ b.seq = Len(h.conf) + 1
    BY <1>4, ReceivedOK, MessageKinds DEF IsNext
  <2>2. t \in Seq(Sequenced) /\ Entries(t) = {b} /\ Len(t) = 1 /\ t[1] = b
    BY <2>1 DEF Entries
  <2>3. h.conf \in Seq(Sequenced) /\ Len(h.conf) \in Nat /\ h.pending \subseteq Local /\ h.undurable \subseteq Local
    BY EngineFields
  <2> DEFINE a == Applied(h, c, t)
  <2>4. /\ EngineOK(a) /\ a.conf = h.conf \o t /\ h.undurable \subseteq a.undurable /\ a.queued = h.queued
        /\ a.pending = {p \in h.pending : ~AckedIn(c, t, p)}
        /\ \A u \in a.undurable : u \in h.undurable \/
             \E x \in h.pending : AckedBy(c, t, x, b) /\ u = [x EXCEPT !.seq = b.seq]
        /\ \A x \in h.pending : AckedBy(c, t, x, b) => [x EXCEPT !.seq = b.seq] \in a.undurable
    <3> HIDE DEF b
    <3>1. t \in Seq(Sequenced) /\ Entries(t) = {b}
      BY <2>2
    <3> HIDE DEF t
    <3> QED BY <3>1, AppliedOK
  <2>5. a.conf \in Seq(Sequenced) /\ Len(a.conf) = Len(h.conf) + 1 /\ a.conf[Len(h.conf) + 1] = b
        /\ \A q \in 1..Len(h.conf) : a.conf[q] = h.conf[q]
    <3>1. b \in Sequenced /\ h.conf \in Seq(Sequenced) /\ a.conf = h.conf \o <<b>>
      BY <2>1, <2>3, <2>4
    <3> HIDE DEF a, b
    <3> QED BY <3>1, Added
  <2>6. IsLog(a.conf)
    BY <2>1, <2>3, <2>5 DEF IsLog
  <2>7. Follows(h.conf, a.conf)
    BY <2>3, <2>5 DEF Follows
  <2> HIDE DEF a, t
  <2>8. Loses(W, h, a)
    <3> SUFFICES ASSUME NEW p \in Own(h) PROVE \E y \in Own(a) : y.cseq = p.cseq /\ y.ops = p.ops
      BY DEF Loses
    <3>1. CASE p \in h.undurable
      BY <2>4, <3>1 DEF Own
    <3>2. CASE p \in h.pending /\ ~AckedIn(c, t, p)
      <4>1. ~p.localOnly
        BY <3>2
      <4> QED BY <2>4, <3>2, <4>1 DEF Own, NotLocal
    <3>3. CASE p \in h.pending /\ AckedIn(c, t, p)
      <4>1. AckedBy(c, t, p, b)
        BY <2>2, <3>3 DEF AckedIn, AckedBy
      <4>2. [p EXCEPT !.seq = b.seq] \in a.undurable
        BY <2>4, <3>3, <4>1
      <4>3. [p EXCEPT !.seq = b.seq].cseq = p.cseq /\ [p EXCEPT !.seq = b.seq].ops = p.ops
        BY <2>3, <3>3 DEF Local
      <4> QED BY <4>2, <4>3 DEF Own
    <3> QED BY <3>1, <3>2, <3>3 DEF Own, NotLocal
  <2>9. Due(c, W, a)
    <3> SUFFICES ASSUME NEW u \in a.undurable PROVE Within(W, OwnOf(c, Upto(a.conf, u.seq)), u)
      BY DEF Due
    <3>1. CASE u \in h.undurable
      <4>1. Within(W, OwnOf(c, Upto(h.conf, u.seq)), u)
        BY <3>1 DEF Due
      <4>2. OwnOf(c, Upto(h.conf, u.seq)) \subseteq OwnOf(c, Upto(a.conf, u.seq))
        BY <2>3, <2>5, <2>7, UptoFollows
      <4> QED BY <4>1, <4>2, WithinMore
    <3>2. ASSUME NEW x \in h.pending, AckedBy(c, t, x, b), u = [x EXCEPT !.seq = b.seq]
          PROVE Within(W, OwnOf(c, Upto(a.conf, u.seq)), u)
      <4>1. b.client = c /\ x.cseq = b.cseq
        BY <3>2 DEF AckedBy
      <4>2. AnswerFits(c, W, m, x)
        BY <1>2, <3>2
      <4>3. \A e \in Entries(x.ops) : e \in W \/ e \in Entries(b.ops)
        BY <1>4, <4>1, <4>2 DEF AnswerFits
      <4>4. u.cseq = x.cseq /\ u.ops = x.ops /\ u.seq = b.seq
        BY <2>3, <3>2 DEF Local
      <4>5. b \in Upto(a.conf, b.seq)
        <5>1. b.seq \in 1..Len(a.conf) /\ b.seq <= b.seq /\ a.conf[b.seq] = b
          BY <2>1, <2>3, <2>5
        <5> HIDE DEF b
        <5> QED BY <5>1 DEF Upto
      <4>6. b \in OwnOf(c, Upto(a.conf, u.seq))
        BY <4>1, <4>4, <4>5 DEF OwnOf
      <4> QED BY <4>1, <4>3, <4>4, <4>6 DEF Within, In
    <3> QED BY <2>4, <3>1, <3>2
  <2>10. g = a
    BY <2>1 DEF a
  <2> HIDE DEF g
  <2>11. Forgets(a, g, g.durable)
    BY <2>10 DEF Forgets
  <2>12. Good(a)
    BY <2>4, <2>6, <2>8, <2>9, <2>11
  <2> QED BY <2>12 DEF g
<1>5. CASE m.type = "durable"
  <2>1. g = DurableTold(h, m.seq) /\ m.seq \in Nat
    BY <1>5, ReceivedOK, MessageKinds
  <2>2. /\ g.conf = h.conf /\ g.pending = h.pending /\ g.queued = h.queued
        /\ g.undurable = {b \in h.undurable : b.seq > g.durable} /\ g.durable \in Nat
    <3>1. EngineOK(g)
      BY <2>1, DurableToldOK
    <3> HIDE DEF g
    <3>2. g.durable \in Nat
      BY <3>1, EngineFields
    <3> QED BY <2>1, <3>2, DurableToldOK
  <2>3. \A b \in h.undurable : b.seq \in Nat
    BY EngineFields
  <2> HIDE DEF g
  <2>4. Forgets(h, g, g.durable)
    BY <2>2, <2>3 DEF Forgets
  <2>5. Good(h)
    BY <1>1, <2>4
  <2> QED BY <2>5 DEF g
<1>6. CASE m.type = "reject"
  <2>1. g = Answered(h, m) /\ m.cseq \in Nat
    BY <1>6, ReceivedOK, MessageKinds
  <2>2. /\ EngineOK(g) /\ g.conf = h.conf /\ g.pending = {b \in h.pending : b.cseq # m.cseq}
        /\ g.undurable = h.undurable /\ g.queued = h.queued
    BY <1>6, <2>1, AnsweredOK
  <2> HIDE DEF g
  <2>3. Loses(W, h, g)
    <3> SUFFICES ASSUME NEW p \in Own(h) PROVE Void(W, p) \/ p \in Own(g)
      BY DEF Loses
    <3>1. CASE p.cseq = m.cseq
      BY <1>6, <3>1 DEF AnswerFits
    <3>2. CASE p.cseq # m.cseq
      BY <2>2, <3>2 DEF Own, NotLocal
    <3> QED BY <3>1, <3>2
  <2>4. Forgets(g, g, g.durable) /\ Due(c, W, g)
    BY <2>2 DEF Forgets, Due
  <2>5. Good(g)
    BY <2>2, <2>3, <2>4
  <2> QED BY <2>5 DEF g
<1>7. m.type \in {"batch", "durable", "reject"}
  BY MessageKinds
<1> QED BY <1>3, <1>4, <1>5, <1>6, <1>7

\* All of a log, for a batch its last number reaches.
LEMMA ReachedWhole ==
  ASSUME NEW c, NEW W, NEW base \in Seq(Sequenced), NEW x, x.cseq \in Nat, 0 < x.cseq, x.cseq <= LastOf(base, c),
         Covers(W, OwnOf(c, Entries(base)), x)
  PROVE  Within(W, OwnOf(c, Upto(base, Len(base))), x)
<1>1. LastOf(base, c) \in Nat /\ LastOf(base, c) # 0
  BY LastOfOK
<1>2. PICK q \in 1..Len(base) : base[q].client = c /\ base[q].cseq = LastOf(base, c)
  BY <1>1, LastOfOK
<1>3. base[q] \in OwnOf(c, Entries(base))
  BY <1>2, EntriesAre DEF OwnOf
<1>4. Within(W, OwnOf(c, Entries(base)), x)
  BY <1>2, <1>3 DEF Covers, Reaches
<1>5. Entries(base) \subseteq Upto(base, Len(base))
  <2>1. Len(base) \in Nat
    OBVIOUS
  <2> SUFFICES ASSUME NEW y \in Entries(base) PROVE y \in Upto(base, Len(base))
    OBVIOUS
  <2>2. PICK r \in 1..Len(base) : base[r] = y
    BY EntriesAre
  <2> QED BY <2>1, <2>2 DEF Upto
<1>6. OwnOf(c, Entries(base)) \subseteq OwnOf(c, Upto(base, Len(base)))
  BY <1>5 DEF OwnOf
<1> QED BY <1>4, <1>6, WithinMore

\* Its own batch of that number is the only one.
LEMMA ReachedOne ==
  ASSUME NEW c, NEW W, NEW base, IsLog(base), Rising(base), NEW b \in Entries(base), b.client = c,
         NEW x, x.cseq = b.cseq, Covers(W, OwnOf(c, Entries(base)), x)
  PROVE  Within(W, OwnOf(c, Upto(base, b.seq)), x)
<1>1. base \in Seq(Sequenced) /\ Len(base) \in Nat
  BY DEF IsLog
<1>2. PICK q \in 1..Len(base) : base[q] = b
  BY <1>1, EntriesAre
<1>3. b.seq = q /\ b \in Sequenced
  BY <1>1, <1>2 DEF IsLog
<1>4. b.cseq \in Nat
  BY <1>3 DEF Sequenced
<1>5. b \in OwnOf(c, Entries(base))
  BY DEF OwnOf
<1>6. Within(W, OwnOf(c, Entries(base)), x)
  BY <1>4, <1>5 DEF Covers, Reaches
<1>7. ASSUME NEW y \in OwnOf(c, Entries(base)), y.cseq = x.cseq PROVE y = b
  <2>1. PICK r \in 1..Len(base) : base[r] = y
    BY <1>1, EntriesAre DEF OwnOf
  <2>2. y.client = c
    BY DEF OwnOf
  <2>3. ~(r < q)
    BY <1>2, <1>4, <1>7, <2>1, <2>2 DEF Rising
  <2>4. ~(q < r)
    BY <1>2, <1>4, <1>7, <2>1, <2>2 DEF Rising
  <2> QED BY <1>2, <2>1, <2>3, <2>4
<1>8. b \in OwnOf(c, Upto(base, b.seq))
  BY <1>2, <1>3 DEF OwnOf, Upto
<1> QED BY <1>6, <1>7, <1>8 DEF Within, In

\* The welcome of a connection (of an engine that has nothing queued).
LEMMA WelcomedLoses ==
  ASSUME NEW c, NEW W, NEW h, EngineOK(h), h.queued = <<>>, NEW dn \in Seq(Messages), Waits(dn),
         NEW base, base = BaseOf(h.conf, dn), IsLog(base), Rising(base),
         Head(dn).cseq = LastOf(base, c), Head(dn).seq = Len(base),
         ~Head(dn).snapshot => h.ready /\ h.epoch = Head(dn).epoch,
         h.ready /\ h.epoch = Head(dn).epoch => Follows(h.conf, base),
         Head(dn).snapshot /\ h.epoch = Head(dn).epoch => \A p \in h.pending : p.seq = 0,
         ~h.ready => h.undurable = {}, Due(c, W, h),
         \A b \in h.pending \cup h.undurable : 0 < b.cseq,
         \A b \in h.undurable : ~b.localOnly, h.ready => \A p \in h.pending : ~p.localOnly,
         \A x \in Own(h) : Covers(W, OwnOf(c, Entries(base)), x)
  PROVE  \E s : /\ EngineOK(s) /\ Loses(W, h, s)
                /\ Forgets(s, Welcomed(h, c, Head(dn)), Welcomed(h, c, Head(dn)).durable)
                /\ h.queued = s.queued /\ Due(c, W, s) /\ IsLog(s.conf)
<1> DEFINE m == Head(dn)
           f == Opening(h)
           s == Counted(h, c, m)
           w == Welcomed(h, c, m)
<1>1. m \in Welcome /\ m \in Messages /\ m.type = "welcome"
  BY EntriesTail, MessageKinds DEF Waits
<1>2. /\ m.batches \in Seq(Sequenced) /\ m.cseq \in Nat /\ m.seq \in Nat /\ m.durable \in Nat
      /\ m.snapshot \in BOOLEAN /\ m.epoch \in Nat
  BY <1>1 DEF Welcome
<1>3. h.undurable \cup f.pending = Own(h)
  <2>1. Sealed(h) = h
    BY SealedOK
  <2>2. f.pending = IF h.ready THEN h.pending ELSE NotLocal(h.pending)
    BY <2>1, OpeningOK
  <2> QED BY <2>2 DEF Own, NotLocal
<1>4. /\ EngineOK(s) /\ s.queued = <<>>
      /\ s.conf = IF m.snapshot THEN m.batches ELSE h.conf \o m.batches
      /\ s.pending \subseteq Own(h)
      /\ \A u \in s.undurable : \E x \in Own(h) : u = Redated(x, u.seq) /\ Dated(h, c, m, x, u.seq)
      /\ \A x \in Own(h) : \/ x \in s.pending
                           \/ \E q \in Nat : Dated(h, c, m, x, q) /\ Redated(x, q) \in s.undurable
  <2>1. /\ EngineOK(s) /\ s.queued = <<>>
        /\ s.conf = IF m.snapshot THEN m.batches ELSE h.conf \o m.batches
        /\ m.snapshot => s.pending = {p \in h.undurable \cup f.pending : p.cseq > m.cseq}
        /\ ~m.snapshot => s.pending = {p \in f.pending : p.cseq > m.cseq /\ ~AckedIn(c, m.batches, p)}
        /\ \A u \in s.undurable : \E x \in h.undurable \cup f.pending :
             u = Redated(x, u.seq) /\ Dated(h, c, m, x, u.seq)
        /\ \A x \in h.undurable \cup f.pending :
             \/ x \in s.pending
             \/ \E q \in Nat : Dated(h, c, m, x, q) /\ Redated(x, q) \in s.undurable
    <3> HIDE DEF m
    <3> QED BY <1>1, CountedOK
  <2> HIDE DEF s, f, m
  <2> QED BY <1>2, <1>3, <2>1
<1>5. /\ EngineOK(w) /\ w.durable = m.durable /\ w.queued = <<>> /\ w.conf = s.conf /\ w.pending = s.pending
      /\ w.undurable = {b \in s.undurable : b.seq > m.durable}
  <2> HIDE DEF m
  <2> QED BY <1>1, WelcomedOK
<1>6. s.conf = base
  BY <1>4 DEF BaseOf
<1>7. /\ base \in Seq(Sequenced) /\ Len(base) \in Nat /\ h.conf \in Seq(Sequenced)
      /\ \A b \in s.undurable : b.seq \in Nat
      /\ \A x \in Own(h) : x \in Local /\ x.cseq \in Nat /\ x.seq \in Nat
  <2>1. base \in Seq(Sequenced) /\ Len(base) \in Nat
    BY DEF IsLog
  <2>2. \A b \in s.undurable : b.seq \in Nat
    <3> HIDE DEF s
    <3> QED BY <1>4, EngineFields
  <2>3. \A x \in Own(h) : x \in Local /\ x.cseq \in Nat /\ x.seq \in Nat
    BY EngineFields DEF Own, NotLocal
  <2>4. h.conf \in Seq(Sequenced)
    BY EngineFields
  <2> QED BY <2>1, <2>2, <2>3, <2>4
<1>8. \A q : \A x \in Own(h) : Redated(x, q).cseq = x.cseq /\ Redated(x, q).ops = x.ops
                           /\ Redated(x, q).localOnly = x.localOnly
  BY <1>7 DEF Redated, Local
<1>9. \A x \in Own(h) : ~x.localOnly /\ 0 < x.cseq
  BY DEF Own, NotLocal
<1> HIDE DEF s, w, f
<1>10. Loses(W, h, s)
  <2> SUFFICES ASSUME NEW p \in Own(h) PROVE \E y \in Own(s) : y.cseq = p.cseq /\ y.ops = p.ops
    BY DEF Loses
  <2>1. CASE p \in s.pending
    BY <1>9, <2>1 DEF Own, NotLocal
  <2>2. ASSUME NEW q \in Nat, Redated(p, q) \in s.undurable PROVE \E y \in Own(s) : y.cseq = p.cseq /\ y.ops = p.ops
    BY <1>8, <2>2 DEF Own
  <2> QED BY <1>4, <2>1, <2>2
<1>11. Forgets(s, w, w.durable)
  BY <1>2, <1>4, <1>5, <1>7 DEF Forgets
<1>12. Due(c, W, s)
  <2> SUFFICES ASSUME NEW u \in s.undurable PROVE Within(W, OwnOf(c, Upto(base, u.seq)), u)
    BY <1>6 DEF Due
  <2>1. PICK x \in Own(h) : u = Redated(x, u.seq) /\ Dated(h, c, m, x, u.seq)
    BY <1>4
  <2>2. u.cseq = x.cseq /\ u.ops = x.ops
    BY <1>8, <2>1
  <2>3. x.cseq \in Nat /\ 0 < x.cseq /\ Covers(W, OwnOf(c, Entries(base)), x)
    BY <1>7, <1>9
  <2> SUFFICES Within(W, OwnOf(c, Upto(base, u.seq)), x)
    BY <2>2 DEF Within
  <2> HIDE DEF m
  <2>4. CASE x \in h.undurable /\ u.seq = x.seq /\ h.epoch = m.epoch
    <3>1. h.ready
      BY <2>4
    <3>2. Follows(h.conf, base)
      BY <2>4, <3>1 DEF m
    <3>3. Within(W, OwnOf(c, Upto(h.conf, x.seq)), x)
      BY <2>4 DEF Due
    <3>4. OwnOf(c, Upto(h.conf, x.seq)) \subseteq OwnOf(c, Upto(base, x.seq))
      BY <1>7, <3>2, UptoFollows
    <3>5. Within(W, OwnOf(c, Upto(base, x.seq)), x)
      BY <3>3, <3>4, WithinMore
    <3> QED BY <2>4, <3>5
  <2>5. CASE x.cseq <= m.cseq /\ u.seq = m.seq
    <3>1. m.cseq = LastOf(base, c) /\ m.seq = Len(base)
      BY DEF m
    <3>2. x.cseq <= LastOf(base, c)
      BY <2>5, <3>1
    <3>3. Within(W, OwnOf(c, Upto(base, Len(base))), x)
      BY <1>7, <2>3, <3>2, ReachedWhole
    <3> QED BY <2>5, <3>1, <3>3
  <2>6. ASSUME ~m.snapshot, NEW b \in Entries(m.batches), b.client = c, x.cseq = b.cseq, u.seq = b.seq
        PROVE  Within(W, OwnOf(c, Upto(base, u.seq)), x)
    <3>1. base = h.conf \o m.batches
      BY <1>4, <1>6, <2>6
    <3>2. b \in Entries(base)
      BY <1>2, <1>7, <2>6, <3>1, EntriesConcat
    <3>3. Within(W, OwnOf(c, Upto(base, b.seq)), x)
      BY <2>3, <2>6, <3>2, ReachedOne
    <3> QED BY <2>6, <3>3
  <2>7. CASE m.snapshot /\ x.cseq <= m.cseq /\ u.seq = IF m.epoch = h.epoch /\ x.seq # 0 THEN x.seq ELSE m.seq
    <3>1. CASE m.epoch = h.epoch /\ x.seq # 0
      <4>1. x \notin h.pending
        BY <2>7, <3>1 DEF m
      <4>2. x \in h.undurable
        BY <4>1 DEF Own, NotLocal
      <4> QED BY <2>4, <2>7, <3>1, <4>2
    <3>2. CASE ~(m.epoch = h.epoch /\ x.seq # 0)
      BY <2>5, <2>7, <3>2
    <3> QED BY <3>1, <3>2
  <2>8. ~m.snapshot => h.epoch = m.epoch
    BY DEF m
  <2> QED BY <2>1, <2>4, <2>5, <2>6, <2>7, <2>8 DEF Dated
<1>13. EngineOK(s) /\ Loses(W, h, s) /\ Forgets(s, w, w.durable) /\ h.queued = s.queued /\ Due(c, W, s) /\ IsLog(s.conf)
  BY <1>4, <1>6, <1>10, <1>11, <1>12
<1> QED BY <1>13 DEF w

----------------------------------------------------------------------------
(* What a client hears of the room                                         *)

\* The batches it has or will have when it has read what is on its way, and
\* the lengths of the log it is or will be told are durable.
Told(dn)      == {m.batch : m \in {k \in Entries(dn) : k.type = "batch"}}
Heard(cf, dn) == Entries(BaseOf(cf, dn)) \cup Told(dn)
Announced(h, dn) ==
  {m.seq : m \in {k \in Entries(dn) : k.type = "durable"}}
    \cup {IF Waits(dn) THEN Head(dn).durable ELSE h.durable}

\* The edits of an author rise along the numbers of the room.
Well(S) ==
  /\ \A b \in S : Ascends(b.ops) /\ \A i \in DOMAIN b.ops : b.ops[i][1] = b.client
  /\ \A a, b \in S : a.client = b.client /\ a.seq < b.seq => a.cseq < b.cseq /\ Before(a.ops, b.ops)

\* A welcome describes the room the client will be in.
Greets(c, dn, h) ==
  LET base == BaseOf(h.conf, dn)
  IN  Waits(dn) => /\ Head(dn).cseq = LastOf(base, c) /\ Head(dn).seq = Len(base)
                   /\ ~Head(dn).snapshot => h.ready /\ h.epoch = Head(dn).epoch
                   /\ h.ready /\ h.epoch = Head(dn).epoch => Follows(h.conf, base)

\* What is announced durable of S is so in the log.
Sound(lg, dur, n, S) == n <= dur /\ Standing(lg, n, S)

Hears(c, lg, dur, dn, h) ==
  /\ IsLog(h.conf) /\ IsLog(BaseOf(h.conf, dn))
  /\ Well(Entries(h.conf)) /\ Well(Heard(h.conf, dn))
  /\ Sound(lg, dur, h.durable, Entries(h.conf))
  /\ \A n \in Announced(h, dn) : Sound(lg, dur, n, Heard(h.conf, dn))
  /\ NoDuplicate(dn) /\ Greets(c, dn, h)

LEMMA HeardTyped ==
  ASSUME NEW h, EngineOK(h), NEW dn \in Seq(Messages)
  PROVE  /\ Heard(h.conf, dn) \subseteq Sequenced /\ Announced(h, dn) \subseteq Nat
         /\ BaseOf(h.conf, dn) \in Seq(Sequenced) /\ \A b \in Sequenced : b.seq \in Nat
<1>1. h.conf \in Seq(Sequenced) /\ h.durable \in Nat
  BY EngineFields
<1>2. Entries(dn) \subseteq Messages
  BY EntriesAre
<1>3. Waits(dn) => Head(dn).durable \in Nat /\ Head(dn).batches \in Seq(Sequenced)
  BY EntriesTail, MessageKinds DEF Waits, Welcome
<1>4. BaseOf(h.conf, dn) \in Seq(Sequenced)
  BY <1>1, <1>3 DEF BaseOf
<1>5. Told(dn) \subseteq Sequenced
  BY <1>2, MessageKinds DEF Told
<1>6. Entries(BaseOf(h.conf, dn)) \subseteq Sequenced
  BY <1>4, EntriesAre
<1>7. \A m \in Entries(dn) : m.type = "durable" => m.seq \in Nat
  BY <1>2, MessageKinds
<1>8. Announced(h, dn) \subseteq Nat
  BY <1>1, <1>3, <1>7 DEF Announced
<1> QED BY <1>4, <1>5, <1>6, <1>8 DEF Heard, Sequenced

LEMMA WellLess ==
  ASSUME NEW S, NEW T \in SUBSET S, Well(S)
  PROVE  Well(T)
BY DEF Well

LEMMA SoundLess ==
  ASSUME NEW lg, NEW dur, NEW n, NEW S, NEW T \in SUBSET S, Sound(lg, dur, n, S)
  PROVE  Sound(lg, dur, n, T)
BY DEF Sound, Standing

\* The log keeps what is durable of it.
LEMMA SoundMore ==
  ASSUME NEW lg \in Seq(Sequenced), NEW dur \in 0..Len(lg), NEW n \in Nat, NEW S \in SUBSET Sequenced, IsLog(lg),
         Sound(lg, dur, n, S), NEW lh, NEW dux \in Nat, dur <= dux, \A q \in 1..dur : q \in 1..Len(lh) /\ lh[q] = lg[q]
  PROVE  Sound(lh, dux, n, S)
<1>1. n <= dux /\ n <= dur
  BY DEF Sound
<1>2. ASSUME NEW b \in S, b.seq <= n PROVE b.seq \in 1..Len(lh) /\ b = lh[b.seq]
  <2>1. b.seq \in 1..Len(lg) /\ b = lg[b.seq]
    BY <1>2 DEF Sound, Standing, Stands
  <2>2. b.seq \in 1..dur
    BY <1>1, <1>2, <2>1
  <2> QED BY <2>1, <2>2
<1> QED BY <1>1, <1>2 DEF Sound, Standing, Stands

LEMMA SoundLog ==
  ASSUME NEW lg, IsLog(lg), NEW dur, NEW n, n <= dur
  PROVE  Sound(lg, dur, n, Entries(lg))
<1> SUFFICES ASSUME NEW b \in Entries(lg) PROVE b.seq \in 1..Len(lg) /\ b = lg[b.seq]
  BY DEF Sound, Standing, Stands
<1>1. PICK q \in 1..Len(lg) : lg[q] = b
  BY EntriesAre DEF IsLog
<1> QED BY <1>1 DEF IsLog

LEMMA HearsMore ==
  ASSUME NEW c, NEW h, EngineOK(h), NEW dn \in Seq(Messages), NEW lg, IsLog(lg), NEW dur \in 0..Len(lg),
         Hears(c, lg, dur, dn, h),
         NEW lh, NEW dux \in Nat, dur <= dux, \A q \in 1..dur : q \in 1..Len(lh) /\ lh[q] = lg[q]
  PROVE  Hears(c, lh, dux, dn, h)
<1>1. lg \in Seq(Sequenced)
  BY DEF IsLog
<1>2. h.conf \in Seq(Sequenced) /\ h.durable \in Nat
  BY EngineFields
<1>3. Entries(h.conf) \subseteq Sequenced
  BY <1>2, EntriesAre
<1>4. \A n \in Nat : \A S \in SUBSET Sequenced : Sound(lg, dur, n, S) => Sound(lh, dux, n, S)
  BY <1>1, SoundMore
<1>5. Heard(h.conf, dn) \in SUBSET Sequenced /\ Announced(h, dn) \subseteq Nat
  BY HeardTyped
<1> QED BY <1>2, <1>3, <1>4, <1>5 DEF Hears

LEMMA HearsKept ==
  ASSUME NEW c, NEW lg, NEW dur, NEW dn, NEW h, Hears(c, lg, dur, dn, h),
         NEW g, g.conf = h.conf, g.durable = h.durable, g.ready = h.ready, g.epoch = h.epoch
  PROVE  Hears(c, lg, dur, dn, g)
BY DEF Hears, Greets, Announced

\* The connection ends.
LEMMA HearsCut ==
  ASSUME NEW c, NEW lg, NEW dur, NEW dn, NEW h, Hears(c, lg, dur, dn, h),
         NEW g, g.conf = h.conf, g.durable = h.durable
  PROVE  Hears(c, lg, dur, <<>>, g)
<1>1. Entries(<<>>) = {} /\ ~Waits(<<>>)
  BY DEF Entries, Waits
<1>2. BaseOf(g.conf, <<>>) = h.conf /\ Heard(g.conf, <<>>) = Entries(h.conf) /\ Announced(g, <<>>) = {h.durable}
  BY <1>1 DEF BaseOf, Heard, Told, Announced
<1> QED BY <1>1, <1>2 DEF Hears, Greets, NoDuplicate

LEMMA HearsNothing ==
  ASSUME NEW c, NEW lg, NEW dur \in Nat, NEW g, g.conf = <<>>, g.durable = 0
  PROVE  Hears(c, lg, dur, <<>>, g)
<1>1. Entries(<<>>) = {} /\ ~Waits(<<>>) /\ IsLog(<<>>)
  BY DEF Entries, Waits, IsLog
<1>2. BaseOf(g.conf, <<>>) = <<>> /\ Heard(g.conf, <<>>) = {} /\ Announced(g, <<>>) = {0}
  BY <1>1 DEF BaseOf, Heard, Told, Announced
<1>3. Well({}) /\ Sound(lg, dur, 0, {})
  BY DEF Well, Sound, Standing
<1> QED BY <1>1, <1>2, <1>3 DEF Hears, Greets, NoDuplicate

\* A message is read.
LEMMA HearsRead ==
  ASSUME NEW c, NEW lg, NEW dur, NEW dn \in Seq(Messages), dn # <<>>, NEW h, Hears(c, lg, dur, dn, h),
         ~Waits(Tail(dn)), NEW g, IsLog(g.conf), Entries(g.conf) \subseteq Heard(h.conf, dn),
         g.durable \in Announced(h, dn)
  PROVE  Hears(c, lg, dur, Tail(dn), g)
<1> DEFINE dm == Tail(dn)
<1>1. Entries(dm) \subseteq Entries(dn)
  BY EntriesTail
<1> HIDE DEF dm
<1>2. ~Waits(dm)
  BY DEF dm
<1>3. BaseOf(g.conf, dm) = g.conf
  BY <1>2 DEF BaseOf
<1>4. Told(dm) \subseteq Told(dn)
  BY <1>1 DEF Told
<1>5. Heard(g.conf, dm) \subseteq Heard(h.conf, dn)
  BY <1>3, <1>4 DEF Heard
<1>6. Announced(g, dm) \subseteq Announced(h, dn)
  BY <1>1, <1>2 DEF Announced
<1>7. Well(Heard(h.conf, dn)) /\ \A n \in Announced(h, dn) : Sound(lg, dur, n, Heard(h.conf, dn))
  BY DEF Hears
<1>8. Well(Heard(g.conf, dm)) /\ Well(Entries(g.conf))
  BY <1>5, <1>7, WellLess
<1>9. \A n \in Announced(g, dm) : Sound(lg, dur, n, Heard(g.conf, dm))
  BY <1>5, <1>6, <1>7, SoundLess
<1>10. Sound(lg, dur, g.durable, Entries(g.conf))
  BY <1>7, SoundLess
<1>11. NoDuplicate(dm)
  BY <1>1 DEF Hears, NoDuplicate
<1>12. Hears(c, lg, dur, dm, g)
  BY <1>2, <1>3, <1>8, <1>9, <1>10, <1>11 DEF Hears, Greets
<1> QED BY <1>12 DEF dm

\* A connected client hears of nothing the log has not.
LEMMA HeardIn ==
  ASSUME NEW base \in Seq(Sequenced), NEW lg, IsLog(lg), NEW dn \in Seq(Messages), Docs(base, lg, dn)
  PROVE  Entries(base) \cup Told(dn) \subseteq Entries(lg)
<1>1. Len(base) \in Nat /\ lg \in Seq(Sequenced) /\ Len(lg) \in Nat
  BY DEF IsLog
<1>2. ASSUME NEW y \in Entries(base) PROVE y \in Entries(lg)
  <2>1. PICK q \in 1..Len(base) : base[q] = y
    BY EntriesAre
  <2>2. q \in 1..Len(lg) /\ lg[q] = y
    BY <1>1, <2>1 DEF Docs, Follows
  <2> QED BY <1>1, <2>2, EntriesAre
<1>3. ASSUME NEW m \in Entries(dn), m.type = "batch" PROVE m.batch \in Entries(lg)
  <2>1. PICK i \in 1..Len(dn) : dn[i] = m
    BY EntriesAre
  <2>2. Len(base) < m.batch.seq /\ m.batch.seq <= Len(lg) /\ m.batch = lg[m.batch.seq]
    BY <1>3, <2>1 DEF Docs
  <2>3. m \in Messages
    BY EntriesAre
  <2>4. m.batch.seq \in Nat
    BY <1>3, <2>3, MessageKinds DEF Sequenced
  <2>5. m.batch.seq \in 1..Len(lg)
    BY <1>1, <2>2, <2>4
  <2> QED BY <1>1, <2>2, <2>5, EntriesAre
<1> QED BY <1>2, <1>3 DEF Told

LEMMA HearsJoin ==
  ASSUME NEW c, NEW lg, IsLog(lg), NEW dur \in 0..Len(lg), Well(Entries(lg)), NEW dn, NEW h, Hears(c, lg, dur, dn, h),
         NEW g, g.type = "welcome", g.durable = dur, g.cseq = LastOf(lg, c), g.seq = Len(lg),
         BaseOf(h.conf, <<g>>) = lg, ~g.snapshot => h.ready /\ h.epoch = g.epoch,
         h.ready /\ h.epoch = g.epoch => Follows(h.conf, lg)
  PROVE  Hears(c, lg, dur, <<g>>, h)
<1> DEFINE dm == <<g>>
<1>1. Waits(dm) /\ Head(dm) = g /\ Entries(dm) = {g}
  BY DEF Waits, Entries
<1> HIDE DEF dm
<1>2. BaseOf(h.conf, dm) = lg
  BY DEF dm
<1>3. Heard(h.conf, dm) = Entries(lg) /\ Announced(h, dm) = {dur}
  BY <1>1, <1>2 DEF Heard, Told, Announced
<1>4. Sound(lg, dur, dur, Entries(lg))
  BY SoundLog
<1>5. NoDuplicate(dm)
  BY <1>1 DEF NoDuplicate
<1>6. Greets(c, dm, h)
  BY <1>1, <1>2 DEF Greets
<1>7. Hears(c, lg, dur, dm, h)
  BY <1>2, <1>3, <1>4, <1>5, <1>6 DEF Hears
<1> QED BY <1>7 DEF dm

\* A message follows: what it says of the log is so.
LEMMA HearsTold ==
  ASSUME NEW c, NEW lg, IsLog(lg), NEW dur \in 0..Len(lg), Well(Entries(lg)), NEW dn \in Seq(Messages), NEW h,
         EngineOK(h), Hears(c, lg, dur, dn, h), Entries(BaseOf(h.conf, dn)) \cup Told(dn) \subseteq Entries(lg),
         NEW m \in Messages, m.type # "welcome", m.type # "duplicate",
         m.type = "batch" => m.batch \in Entries(lg), m.type = "durable" => m.seq <= dur
  PROVE  Hears(c, lg, dur, Append(dn, m), h)
<1> DEFINE dm == Append(dn, m)
<1>1. Entries(dm) = Entries(dn) \cup {m}
  BY EntriesAppend
<1>2. (Waits(dm) <=> Waits(dn)) /\ (Waits(dn) => Head(dm) = Head(dn))
  BY WaitsAppend
<1> HIDE DEF dm
<1>3. BaseOf(h.conf, dm) = BaseOf(h.conf, dn)
  BY <1>2 DEF BaseOf
<1>4. Heard(h.conf, dm) \subseteq Entries(lg)
  BY <1>1, <1>3 DEF Heard, Told
<1>5. Well(Heard(h.conf, dm))
  BY <1>4, WellLess
<1>6. ASSUME NEW n \in Announced(h, dm) PROVE Sound(lg, dur, n, Heard(h.conf, dm))
  <2>1. n <= dur
    <3>1. CASE n \in Announced(h, dn)
      BY <3>1 DEF Hears, Sound
    <3>2. CASE m.type = "durable" /\ n = m.seq
      BY <3>2
    <3> QED BY <1>1, <1>2, <3>1, <3>2 DEF Announced
  <2>2. Sound(lg, dur, n, Entries(lg))
    BY <2>1, SoundLog
  <2> QED BY <1>4, <2>2, SoundLess
<1>7. NoDuplicate(dm) /\ Greets(c, dm, h)
  BY <1>1, <1>2, <1>3 DEF Hears, NoDuplicate, Greets
<1>8. Hears(c, lg, dur, dm, h)
  BY <1>3, <1>5, <1>6, <1>7 DEF Hears
<1> QED BY <1>8 DEF dm

----------------------------------------------------------------------------
(* Steps of the engine, in what they draw                                  *)

LEMMA SettlesDrawn ==
  ASSUME NEW h, NEW g, NEW A, Settles(h, g, A), \A b \in h.undurable : ~b.localOnly
  PROVE  Drawn(g, h)
<1> SUFFICES ASSUME NEW y \in Own(g) PROVE \E x \in Own(h) : y.cseq = x.cseq /\ y.ops = x.ops
  BY DEF Drawn
<1>1. CASE y \in NotLocal(g.pending)
  <2>1. y \in h.pending \cup h.undurable /\ ~y.localOnly
    BY <1>1 DEF Settles, NotLocal
  <2> QED BY <2>1 DEF Own, NotLocal
<1>2. CASE y \in g.undurable
  <2>1. PICK b \in h.pending \cup h.undurable :
          /\ y.cseq = b.cseq /\ y.ops = b.ops
          /\ b \in h.undurable \/ ~b.localOnly
    BY <1>2 DEF Settles
  <2> QED BY <2>1 DEF Own, NotLocal
<1> QED BY <1>1, <1>2 DEF Own

\* The confirmed batches a message brings, the length it says is durable.
LEMMA ReceivedHears ==
  ASSUME NEW c, NEW h, EngineOK(h), NEW dn \in Seq(Messages), dn # <<>>, ~Waits(dn), IsLog(h.conf),
         Head(dn).type = "batch" => ~Gap(h, Head(dn).batch)
  PROVE  LET g == Received(h, c, Head(dn))
         IN  /\ IsLog(g.conf) /\ Entries(g.conf) \subseteq Heard(h.conf, dn) /\ g.durable \in Announced(h, dn)
             /\ Follows(h.conf, g.conf) /\ h.durable <= g.durable
             /\ g.ready = h.ready /\ g.epoch = h.epoch /\ g.queued = h.queued
             /\ g.pending \subseteq h.pending
             /\ \A u \in g.undurable : u \in h.undurable \/ Head(dn).type = "duplicate" \/
                  (Head(dn).type = "batch" /\ Head(dn).batch.client = c /\ u.cseq = Head(dn).batch.cseq)
             /\ \A b \in Entries(g.conf) : b \in Entries(h.conf) \/
                  (Head(dn).type = "batch" /\ b = Head(dn).batch
                     /\ (b.client = c => \A p \in g.pending : p.cseq # b.cseq))
<1> DEFINE m == Head(dn)
           g == Received(h, c, m)
<1>1. m \in Messages /\ m \in Entries(dn) /\ m.type # "welcome"
  BY EntriesTail DEF Waits
<1>2. /\ h.conf \in Seq(Sequenced) /\ Len(h.conf) \in Nat /\ h.durable \in Nat /\ h.pending \subseteq Local
      /\ Follows(h.conf, h.conf)
  BY EngineFields DEF Follows
<1>3. Entries(h.conf) \subseteq Heard(h.conf, dn) /\ h.durable \in Announced(h, dn)
  BY DEF Heard, BaseOf, Announced
<1> HIDE DEF m
<1>4. CASE m.type = "batch" /\ ~IsNext(h, m.batch)
  <2>1. g = h
    BY <1>1, <1>4, ReceivedOK
  <2> HIDE DEF g
  <2> QED BY <1>2, <1>3, <2>1 DEF g, m
<1>5. CASE m.type = "batch" /\ IsNext(h, m.batch)
  <2> DEFINE b == m.batch
             t == <<b>>
  <2>1. g = Applied(h, c, t) /\ b \in Sequenced /\ b.seq = Len(h.conf) + 1
    BY <1>1, <1>5, ReceivedOK, MessageKinds DEF IsNext
  <2>2. t \in Seq(Sequenced) /\ Entries(t) = {b}
    BY <2>1 DEF Entries
  <2> HIDE DEF b
  <2>3. /\ t \in Seq(Sequenced) /\ g.conf = h.conf \o t
        /\ g.pending = {p \in h.pending : ~AckedIn(c, t, p)}
        /\ \A u \in g.undurable : u \in h.undurable \/
             \E x \in h.pending : AckedBy(c, t, x, b) /\ u = [x EXCEPT !.seq = b.seq]
        /\ g.queued = h.queued /\ g.ready = h.ready /\ g.epoch = h.epoch /\ g.durable = h.durable
    <3> DEFINE a == Applied(h, c, t)
    <3>1. /\ a.conf = h.conf \o t
          /\ a.pending = {p \in h.pending : ~AckedIn(c, t, p)}
          /\ \A u \in a.undurable : u \in h.undurable \/
               \E y \in Entries(t), x \in h.pending : AckedBy(c, t, x, y) /\ u = [x EXCEPT !.seq = y.seq]
          /\ a.queued = h.queued /\ a.ready = h.ready /\ a.epoch = h.epoch /\ a.durable = h.durable
      <4>1. t \in Seq(Sequenced)
        BY <2>2
      <4> HIDE DEF t
      <4> QED BY ONLY EngineOK(h), <4>1, AppliedOK
    <3>2. g = a
      BY <2>1
    <3> HIDE DEF a, g, t
    <3> QED BY <2>2, <3>1, <3>2
  <2> HIDE DEF g
  <2>4. g.conf = h.conf \o <<b>>
    BY <2>3
  <2>5. g.conf \in Seq(Sequenced) /\ Len(g.conf) = Len(h.conf) + 1 /\ g.conf[Len(h.conf) + 1] = b
        /\ \A q \in 1..Len(h.conf) : g.conf[q] = h.conf[q]
    <3> HIDE DEF t
    <3> QED BY <1>2, <2>1, <2>4, Added
  <2>6. IsLog(g.conf) /\ Follows(h.conf, g.conf)
    BY <1>2, <2>1, <2>5, SMTT(30) DEF IsLog, Follows
  <2>7. Entries(g.conf) = Entries(h.conf) \cup {b}
    <3> HIDE DEF t
    <3> QED BY <1>2, <2>2, <2>3, EntriesConcat
  <2>8. b \in Heard(h.conf, dn)
    BY <1>1, <1>5 DEF Heard, Told, b
  <2> HIDE DEF t
  <2>9. ASSUME NEW p \in g.pending, b.client = c PROVE p.cseq # b.cseq
    BY <2>2, <2>3, <2>9 DEF AckedIn
  <2>10. ASSUME NEW u \in g.undurable PROVE u \in h.undurable \/ (b.client = c /\ u.cseq = b.cseq)
    <3>1. ASSUME NEW x \in h.pending, AckedBy(c, t, x, b), u = [x EXCEPT !.seq = b.seq]
          PROVE  b.client = c /\ u.cseq = b.cseq
      BY <1>2, <3>1 DEF AckedBy, Local
    <3> QED BY <2>3, <3>1
  <2>11. h.durable <= g.durable /\ g.durable \in Announced(h, dn) /\ g.pending \subseteq h.pending
    BY <1>2, <1>3, <2>3
  <2>12. Entries(g.conf) \subseteq Heard(h.conf, dn)
    BY <1>3, <2>7, <2>8
  <2> QED BY <1>5, <2>3, <2>6, <2>7, <2>9, <2>10, <2>11, <2>12 DEF g, m, b
<1>6. CASE m.type = "durable"
  <2>1. g = DurableTold(h, m.seq) /\ m.seq \in Nat
    BY <1>1, <1>6, ReceivedOK, MessageKinds
  <2>2. /\ g.durable = IF m.seq > h.durable THEN m.seq ELSE h.durable
        /\ g.undurable \subseteq h.undurable /\ g.conf = h.conf /\ g.pending = h.pending
        /\ g.queued = h.queued /\ g.ready = h.ready /\ g.epoch = h.epoch
    <3> DEFINE n == m.seq
               k == DurableTold(h, n)
    <3>1. /\ k.durable = IF n > h.durable THEN n ELSE h.durable
          /\ k.undurable = {b \in h.undurable : b.seq > k.durable} /\ k.conf = h.conf /\ k.pending = h.pending
          /\ k.queued = h.queued /\ k.ready = h.ready /\ k.epoch = h.epoch
      <4>1. n \in Nat
        BY <2>1
      <4> HIDE DEF n
      <4> QED BY <4>1, DurableToldOK
    <3>2. g = k
      BY <2>1
    <3>3. n = m.seq
      OBVIOUS
    <3> HIDE DEF g, k, n
    <3>4. k.undurable \subseteq h.undurable
      BY <3>1
    <3> QED BY <3>1, <3>2, <3>3, <3>4
  <2>3. m.seq \in Announced(h, dn)
    BY <1>1, <1>6 DEF Announced
  <2> HIDE DEF g
  <2> QED BY <1>2, <1>3, <2>1, <2>2, <2>3 DEF g, m
<1>7. CASE m.type \in {"duplicate", "reject"}
  <2>1. g = Answered(h, m) /\ m.cseq \in Nat
    BY <1>1, <1>7, ReceivedOK, MessageKinds
  <2>2. /\ g.pending \subseteq h.pending /\ (m.type = "reject" => g.undurable = h.undurable)
        /\ g.conf = h.conf /\ g.durable = h.durable
        /\ g.queued = h.queued /\ g.ready = h.ready /\ g.epoch = h.epoch
    BY <2>1, AnsweredOK
  <2> HIDE DEF g
  <2> QED BY <1>2, <1>3, <1>7, <2>2 DEF g, m
<1> QED BY <1>1, <1>4, <1>5, <1>6, <1>7, MessageKinds

\* A welcome counts as applied batches of numbers up to its own.
LEMMA WelcomedReached ==
  ASSUME NEW c, NEW h, EngineOK(h), NEW dn \in Seq(Messages), Waits(dn),
         Head(dn).cseq = LastOf(BaseOf(h.conf, dn), c),
         ~Head(dn).snapshot => \A b \in h.undurable : b.cseq <= Head(dn).cseq
  PROVE  /\ \A u \in Welcomed(h, c, Head(dn)).undurable : u.cseq <= Head(dn).cseq
         /\ \A p \in Welcomed(h, c, Head(dn)).pending :
              p \in Sealed(h).pending \/ (Head(dn).snapshot /\ p \in h.undurable)
<1> DEFINE m == Head(dn)
           f == Opening(h)
           s == Counted(h, c, m)
           w == Welcomed(h, c, m)
           base == BaseOf(h.conf, dn)
<1>1. m \in Welcome
  BY EntriesTail, MessageKinds DEF Waits
<1>2. m.batches \in Seq(Sequenced) /\ m.cseq \in Nat /\ h.conf \in Seq(Sequenced) /\ base \in Seq(Sequenced)
  BY <1>1, HeardTyped, EngineFields DEF Welcome
<1>3. f.pending \subseteq Sealed(h).pending /\ \A x \in h.undurable \cup f.pending : x \in Local /\ x.cseq \in Nat
  <2>1. EngineOK(f) /\ f.pending \subseteq Sealed(h).pending
    BY OpeningOK
  <2> HIDE DEF f
  <2> QED BY <2>1, EngineFields
<1> HIDE DEF m
<1>4. /\ m.snapshot => s.pending = {p \in h.undurable \cup f.pending : p.cseq > m.cseq}
      /\ ~m.snapshot => s.pending = {p \in f.pending : p.cseq > m.cseq /\ ~AckedIn(c, m.batches, p)}
      /\ \A u \in s.undurable : \E x \in h.undurable \cup f.pending :
           u = Redated(x, u.seq) /\ Dated(h, c, m, x, u.seq)
  BY <1>1, CountedOK
<1>5. w.pending = s.pending /\ w.undurable \subseteq s.undurable
  BY <1>1, WelcomedOK
<1> HIDE DEF s, w, f
<1>6. ASSUME NEW u \in s.undurable PROVE u.cseq <= m.cseq
  <2>1. PICK x \in h.undurable \cup f.pending : u = Redated(x, u.seq) /\ Dated(h, c, m, x, u.seq)
    BY <1>4
  <2>2. u.cseq = x.cseq /\ x.cseq \in Nat
    BY <1>3, <2>1 DEF Redated, Local
  <2>3. ASSUME ~m.snapshot, NEW b \in Entries(m.batches), b.client = c, x.cseq = b.cseq PROVE x.cseq <= m.cseq
    <3>1. base = h.conf \o m.batches
      BY <2>3 DEF BaseOf, m
    <3>2. b \in Entries(base)
      BY <1>2, <2>3, <3>1, EntriesConcat
    <3>3. PICK q \in 1..Len(base) : base[q] = b
      BY <1>2, <3>2, EntriesAre
    <3> HIDE DEF base
    <3>4. b.cseq <= LastOf(base, c)
      BY <1>2, <2>3, <3>3, LastOfOK
    <3> QED BY <2>3, <3>4 DEF m, base
  <2>4. ~m.snapshot /\ x \in h.undurable => x.cseq <= m.cseq
    BY DEF m
  <2> QED BY <2>1, <2>2, <2>3, <2>4 DEF Dated
<1>7. ASSUME NEW p \in s.pending PROVE p \in Sealed(h).pending \/ (m.snapshot /\ p \in h.undurable)
  BY <1>3, <1>4
<1> QED BY <1>5, <1>6, <1>7 DEF w, m

----------------------------------------------------------------------------
(* What holds of a client's edits                                          *)

Keeps(P, h, cp, dn, lg, dur, tb) ==
  /\ h.ready => Safe(P, Upto(h.conf, h.durable), h)
  /\ Waits(dn) => Safe(P, Upto(BaseOf(h.conf, dn), Head(dn).durable), h)
  /\ tb = "open" => Safe(P, Upto(lg, dur), h)
  /\ tb = "closed" => \A e \in P : InSome(Upto(lg, dur), e) \/ InSome(cp.batches, e)

Holds(c, P, W, lg, dur, u, dn, h, cp, tb) ==
  /\ AllKnown(c, W, lg, h.conf, u, dn, h, cp) /\ Alike(h, cp) /\ Due(c, W, h)
  /\ tb = "open" => Backed(c, W, h, cp, lg, dur)
  /\ Keeps(P, h, cp, dn, lg, dur, tb)

\* The device seals, merges or marks its batches.
LEMMA HoldsGrows ==
  ASSUME NEW c, NEW P, NEW W, NEW lg, NEW dur, NEW u, NEW dn, NEW h, NEW cp,
         Holds(c, P, W, lg, dur, u, dn, h, cp, "open"), NEW g, Grows(h, g), g.conf = h.conf, g.ready = h.ready,
         g.durable = h.durable, g.undurable = h.undurable,
         \A y \in Own(g) :
           \/ \E x \in Own(h) : y.cseq = x.cseq /\ y.ops = x.ops
           \/ /\ Known(c, W, lg, h.conf, u, dn, y)
              /\ \A x \in cp.batches : x.cseq = y.cseq => \A e \in Entries(x.ops) : e \in Entries(y.ops)
  PROVE  Holds(c, P, W, lg, dur, u, dn, g, cp, "open")
<1>1. AllKnown(c, W, lg, g.conf, u, dn, g, cp)
  <2> SUFFICES ASSUME NEW y \in Own(g) \cup cp.batches PROVE Known(c, W, lg, h.conf, u, dn, y)
    BY DEF AllKnown
  <2>1. \A x \in Own(h) \cup cp.batches : Known(c, W, lg, h.conf, u, dn, x)
    BY DEF Holds, AllKnown
  <2>2. ASSUME NEW x \in Own(h), y.cseq = x.cseq, y.ops = x.ops PROVE Known(c, W, lg, h.conf, u, dn, y)
    BY <2>1, <2>2, KnownDrawn
  <2> QED BY <2>1, <2>2
<1>2. Alike(g, cp)
  <2>1. Alike(h, cp)
    BY DEF Holds
  <2> SUFFICES ASSUME NEW x \in cp.batches, NEW y \in Own(g), x.cseq = y.cseq, NEW e \in Entries(x.ops)
               PROVE  e \in Entries(y.ops)
    BY DEF Alike
  <2>2. ASSUME NEW z \in Own(h), y.cseq = z.cseq, y.ops = z.ops PROVE e \in Entries(y.ops)
    BY <2>1, <2>2 DEF Alike
  <2> QED BY <2>2
<1>3. Due(c, W, g)
  BY DEF Holds, Due
<1>4. Backed(c, W, g, cp, lg, dur)
  BY GrowsKeeps DEF Holds
<1>5. Keeps(P, g, cp, dn, lg, dur, "open")
  BY GrowsKeeps DEF Holds, Keeps
<1> QED BY <1>1, <1>2, <1>3, <1>4, <1>5 DEF Holds

\* What it sends on a connection.
LEMMA HoldsSent ==
  ASSUME NEW c, NEW P, NEW W, NEW lg \in Seq(Sequenced), NEW dur \in 0..Len(lg), NEW u \in Seq(Unsynced),
         NEW dn \in Seq(Messages), NEW g, EngineOK(g), NEW cp, Holds(c, P, W, lg, dur, u, dn, g, cp, "open"),
         Docs(g.conf, lg, dn), Flies(c, u, dn, g, LastOf(lg, c)), Reached(g, LastOf(lg, c)), NoDuplicate(dn),
         ~Waits(dn), \A b \in g.pending \cup g.undurable : 0 < b.cseq,
         NEW s \in Seq(Unsynced), Entries(s) = {Bare(b) : b \in Outgoing(g)}
  PROVE  Holds(c, P, W, lg, dur, u \o s, dn, Sent(g), cp, "open")
<1>1. /\ Sent(g).conf = g.conf /\ Sent(g).ready = g.ready /\ Sent(g).durable = g.durable
      /\ Sent(g).undurable = g.undurable
  BY SentOK
<1>2. Grows(g, Sent(g)) /\ Drawn(Sent(g), g)
  BY SentGrows
<1>3. Holds(c, P, W, lg, dur, u, dn, Sent(g), cp, "open")
  BY <1>1, <1>2, HoldsGrows DEF Drawn
<1>4. Alike(g, cp) /\ Backed(c, W, g, cp, lg, dur) /\ AllKnown(c, W, lg, g.conf, u, dn, g, cp)
  BY DEF Holds
<1>5. AllKnown(c, W, lg, g.conf, u \o s, dn, Sent(g), cp)
  BY <1>4, KnownSent
<1> QED BY <1>1, <1>3, <1>5 DEF Holds

\* The room acts: its log keeps what is durable, fewer edits may be promised.
LEMMA HoldsRoom ==
  ASSUME NEW c, NEW P, NEW W, NEW lg, NEW dur, NEW u, NEW dn, NEW h, NEW cp, NEW tb,
         Holds(c, P, W, lg, dur, u, dn, h, cp, tb),
         NEW Q \in SUBSET P, NEW X, W \subseteq X, NEW lh, NEW dux, Upto(lg, dur) \subseteq Upto(lh, dux), NEW v, NEW dm,
         AllKnown(c, X, lh, h.conf, v, dm, h, cp),
         Waits(dm) => Waits(dn) /\ Head(dm) = Head(dn)
  PROVE  Holds(c, Q, X, lh, dux, v, dm, h, cp, tb)
<1>1. Due(c, X, h)
  BY DEF Holds, Due, Within
<1>2. tb = "open" => Backed(c, X, h, cp, lh, dux)
  <2>1. \A x : Void(W, x) => Void(X, x)
    BY DEF Void
  <2>2. OwnOf(c, Upto(lg, dur)) \subseteq OwnOf(c, Upto(lh, dux))
    BY DEF OwnOf
  <2> QED BY <2>1, <2>2 DEF Holds, Backed, Backing
<1>3. \A S : Safe(P, S, h) => Safe(Q, S, h)
  BY DEF Safe
<1>4. \A e : InSome(Upto(lg, dur), e) => InSome(Upto(lh, dux), e)
  BY DEF InSome
<1>5. Safe(P, Upto(lg, dur), h) => Safe(Q, Upto(lh, dux), h)
  BY <1>4 DEF Safe
<1>6. Waits(dm) => BaseOf(h.conf, dm) = BaseOf(h.conf, dn)
  BY DEF BaseOf
<1>7. Keeps(Q, h, cp, dm, lh, dux, tb)
  BY <1>3, <1>4, <1>5, <1>6 DEF Holds, Keeps
<1> QED BY <1>1, <1>2, <1>7 DEF Holds

\* The same batches, in an engine whose connection ends.
LEMMA HoldsCut ==
  ASSUME NEW c, NEW P, NEW W, NEW lg, NEW dur, NEW u, NEW dn, NEW h, NEW cp,
         Holds(c, P, W, lg, dur, u, dn, h, cp, "open"), NEW g, g.conf = h.conf, g.ready = h.ready,
         g.durable = h.durable, g.pending = h.pending, g.undurable = h.undurable, g.queued = h.queued
  PROVE  Holds(c, P, W, lg, dur, u, <<>>, g, cp, "open")
<1>1. Own(g) = Own(h)
  BY DEF Own
<1>2. Entries(<<>>) = {} /\ ~Waits(<<>>)
  BY DEF Entries, Waits
<1>3. AllKnown(c, W, lg, h.conf, u, <<>>, h, cp)
  <2> SUFFICES ASSUME NEW x \in Own(h) \cup cp.batches PROVE Known(c, W, lg, h.conf, u, <<>>, x)
    BY DEF AllKnown
  <2>1. Known(c, W, lg, h.conf, u, dn, x)
    BY DEF Holds, AllKnown
  <2> QED BY <1>2, <2>1, KnownRead
<1>4. AllKnown(c, W, lg, g.conf, u, <<>>, g, cp)
  BY <1>1, <1>3 DEF AllKnown
<1>5. \A S : Safe(P, S, h) <=> Safe(P, S, g)
  BY <1>1 DEF Safe, KeptIn
<1>6. Backed(c, W, g, cp, lg, dur) /\ Alike(g, cp) /\ Due(c, W, g)
  BY <1>1 DEF Holds, Backed, Backing, Alike, Due
<1>7. Keeps(P, g, cp, <<>>, lg, dur, "open")
  BY <1>2, <1>5 DEF Holds, Keeps
<1> QED BY <1>4, <1>6, <1>7 DEF Holds

\* A message or a welcome is read, an answer to some batches.
LEMMA HoldsRead ==
  ASSUME NEW c, NEW P, NEW W, \A e \in P : e \notin W, NEW lg, NEW dur \in 0..Len(lg), NEW u,
         NEW dn \in Seq(Messages), dn # <<>>, ~Waits(Tail(dn)), NEW h, NEW cp,
         Holds(c, P, W, lg, dur, u, dn, h, cp, "open"),
         NEW s, EngineOK(s), NEW g, g.durable \in Nat, Loses(W, h, s), Forgets(s, g, g.durable),
         h.queued = s.queued, Due(c, W, s), IsLog(s.conf), Sound(lg, dur, g.durable, Entries(s.conf)),
         Drawn(g, h), Safe(P, Upto(g.conf, g.durable), h)
  PROVE  Holds(c, P, W, lg, dur, u, Tail(dn), g, cp, "open")
<1> DEFINE dm == Tail(dn)
<1>1. Entries(dm) \subseteq Entries(dn)
  BY EntriesTail
<1> HIDE DEF dm
<1>2. ~Waits(dm)
  BY DEF dm
<1>3. AllKnown(c, W, lg, g.conf, u, dm, g, cp)
  <2>1. ASSUME NEW x \in Own(h) \cup cp.batches PROVE Known(c, W, lg, g.conf, u, dm, x)
    <3>1. Known(c, W, lg, h.conf, u, dn, x)
      BY DEF Holds, AllKnown
    <3> QED BY <1>1, <1>2, <3>1, KnownRead
  <2>2. ASSUME NEW y \in Own(g) PROVE Known(c, W, lg, g.conf, u, dm, y)
    <3>1. PICK x \in Own(h) : y.cseq = x.cseq /\ y.ops = x.ops
      BY DEF Drawn
    <3> QED BY <2>1, <3>1, KnownDrawn
  <2> QED BY <2>1, <2>2 DEF AllKnown
<1>4. Alike(g, cp)
  <2>1. Alike(h, cp)
    BY DEF Holds
  <2> SUFFICES ASSUME NEW x \in cp.batches, NEW y \in Own(g), x.cseq = y.cseq, NEW e \in Entries(x.ops)
               PROVE  e \in Entries(y.ops)
    BY DEF Alike
  <2>2. PICK z \in Own(h) : y.cseq = z.cseq /\ y.ops = z.ops
    BY DEF Drawn
  <2> QED BY <2>1, <2>2 DEF Alike
<1>5. g.durable <= dur /\ Standing(lg, g.durable, Entries(s.conf))
  BY DEF Sound
<1>6. /\ Due(c, W, g)
      /\ Alike(h, cp) /\ Backed(c, W, h, cp, lg, dur) => Backed(c, W, g, cp, lg, dur)
      /\ \A S : (S = Upto(g.conf, g.durable) \/ S = Upto(lg, dur)) /\ Safe(P, S, h) => Safe(P, S, g)
  <2> DEFINE d == g.durable
  <2>1. d \in Nat /\ Forgets(s, g, d) /\ d <= dur /\ Standing(lg, d, Entries(s.conf))
    BY <1>5
  <2> HIDE DEF d
  <2>2. /\ Due(c, W, g)
        /\ \A k : Alike(h, k) /\ Backed(c, W, h, k, lg, dur) => Backed(c, W, g, k, lg, dur)
        /\ \A Q, S : (\A e \in Q : e \notin W) /\ (S = Upto(g.conf, d) \/ S = Upto(lg, dur)) /\ Safe(Q, S, h)
             => Safe(Q, S, g)
    BY <2>1, AnswerKeeps
  <2> QED BY <2>2 DEF d
<1>7. Keeps(P, g, cp, dm, lg, dur, "open")
  BY <1>2, <1>6 DEF Holds, Keeps
<1>8. Holds(c, P, W, lg, dur, u, dm, g, cp, "open")
  BY <1>3, <1>4, <1>6, <1>7 DEF Holds
<1> QED BY <1>8 DEF dm

\* The copy is written again.
LEMMA CopyIs ==
  ASSUME NEW h, EngineOK(h)
  PROVE  CopyOf(h).batches = {Bare(b) : b \in Own(h)} /\ \A b : Bare(b).cseq = b.cseq /\ Bare(b).ops = b.ops
BY CopyOfOK DEF Own, Bare

LEMMA HoldsCopied ==
  ASSUME NEW c, NEW P, NEW W, NEW lg, NEW dur, NEW u, NEW dn, NEW h, EngineOK(h), NEW cp, Unique(h, cp),
         Holds(c, P, W, lg, dur, u, dn, h, cp, "open")
  PROVE  Holds(c, P, W, lg, dur, u, dn, h, CopyOf(h), "open")
<1> DEFINE k == CopyOf(h)
<1>1. \A x \in k.batches : \E b \in Own(h) : x.cseq = b.cseq /\ x.ops = b.ops
  BY CopyIs
<1> HIDE DEF k
<1>2. AllKnown(c, W, lg, h.conf, u, dn, h, k)
  <2> SUFFICES ASSUME NEW x \in Own(h) \cup k.batches PROVE Known(c, W, lg, h.conf, u, dn, x)
    BY DEF AllKnown
  <2>1. \A b \in Own(h) : Known(c, W, lg, h.conf, u, dn, b)
    BY DEF Holds, AllKnown
  <2>2. PICK b \in Own(h) : x.cseq = b.cseq /\ x.ops = b.ops
    BY <1>1
  <2> QED BY <2>1, <2>2, KnownDrawn
<1>3. Alike(h, k)
  BY <1>1 DEF Alike, Unique, Own, NotLocal
<1>4. Backed(c, W, h, k, lg, dur)
  BY <1>1 DEF Backed, Backing
<1>5. Keeps(P, h, k, dn, lg, dur, "open")
  BY DEF Holds, Keeps
<1>6. Holds(c, P, W, lg, dur, u, dn, h, k, "open")
  BY <1>2, <1>3, <1>4, <1>5 DEF Holds
<1> QED BY <1>6 DEF k

\* The tab is closed, or dies.
LEMMA HoldsGone ==
  ASSUME NEW c, NEW P, NEW W, NEW lg, NEW dur, NEW u, NEW dn, NEW h, NEW cp,
         Holds(c, P, W, lg, dur, u, dn, h, cp, "open"), NEW Q, NEW X, W \subseteq X,
         \A e \in Q : InSome(Upto(lg, dur), e) \/ InSome(cp.batches, e)
  PROVE  Holds(c, Q, X, lg, dur, u, <<>>, FreshEngine, cp, "closed")
<1> DEFINE g == FreshEngine
<1>1. ~g.ready /\ g.pending = {} /\ g.undurable = {} /\ g.conf = <<>>
  BY FreshOK
<1> HIDE DEF g
<1>2. Own(g) = {} /\ Entries(<<>>) = {} /\ ~Waits(<<>>)
  BY <1>1 DEF Own, NotLocal, Entries, Waits
<1>3. ASSUME NEW x \in cp.batches PROVE Known(c, X, lg, g.conf, u, <<>>, x)
  <2>1. Known(c, W, lg, h.conf, u, dn, x)
    BY DEF Holds, AllKnown
  <2>2. Known(c, W, lg, g.conf, u, <<>>, x)
    BY <1>2, <2>1, KnownRead
  <2> QED BY <2>2, KnownMore
<1>4. AllKnown(c, X, lg, g.conf, u, <<>>, g, cp) /\ Alike(g, cp) /\ Due(c, X, g)
  BY <1>1, <1>2, <1>3 DEF AllKnown, Alike, Due
<1>5. Keeps(Q, g, cp, <<>>, lg, dur, "closed")
  BY <1>1, <1>2 DEF Keeps
<1>6. Holds(c, Q, X, lg, dur, u, <<>>, g, cp, "closed")
  BY <1>4, <1>5 DEF Holds
<1> QED BY <1>6 DEF g

\* A tab adopts the copy.
LEMMA HoldsReopened ==
  ASSUME NEW c, NEW P, NEW W, NEW lg, NEW dur, NEW u, NEW h, NEW cp, CopyOK(cp), Unique(h, cp),
         Holds(c, P, W, lg, dur, u, <<>>, h, cp, "closed")
  PROVE  Holds(c, P, W, lg, dur, u, <<>>, Restored(cp), cp, "open")
<1> DEFINE g == Restored(cp)
<1>1. /\ ~g.ready /\ g.undurable = {}
      /\ \A p \in g.pending : ~p.localOnly /\ \E x \in cp.batches : x.cseq = p.cseq /\ x.ops = p.ops
      /\ \A x \in cp.batches : \E p \in g.pending : x.cseq = p.cseq /\ x.ops = p.ops
  BY RestoredOK
<1> HIDE DEF g
<1>2. Own(g) = g.pending /\ Entries(<<>>) = {} /\ ~Waits(<<>>)
  BY <1>1 DEF Own, NotLocal, Entries, Waits
<1>3. ASSUME NEW x \in cp.batches PROVE Known(c, W, lg, g.conf, u, <<>>, x)
  <2>1. Known(c, W, lg, h.conf, u, <<>>, x)
    BY DEF Holds, AllKnown
  <2> QED BY <1>2, <2>1, KnownRead
<1>4. ASSUME NEW p \in Own(g) PROVE Known(c, W, lg, g.conf, u, <<>>, p)
  <2>1. PICK x \in cp.batches : x.cseq = p.cseq /\ x.ops = p.ops
    BY <1>1, <1>2
  <2> QED BY <1>3, <2>1, KnownDrawn
<1>5. Alike(g, cp)
  BY <1>1, <1>2 DEF Alike, Unique
<1>6. Due(c, W, g) /\ Backed(c, W, g, cp, lg, dur)
  BY <1>1, <1>2 DEF Due, Backed, Backing
<1>7. Safe(P, Upto(lg, dur), g)
  <2>1. \A e \in P : InSome(Upto(lg, dur), e) \/ InSome(cp.batches, e)
    BY DEF Holds, Keeps
  <2>2. \A e : InSome(cp.batches, e) => InSome(Own(g), e)
    BY <1>1, <1>2 DEF InSome
  <2> QED BY <2>1, <2>2 DEF Safe, KeptIn
<1>8. Keeps(P, g, cp, <<>>, lg, dur, "open")
  BY <1>1, <1>2, <1>7 DEF Keeps
<1>9. Holds(c, P, W, lg, dur, u, <<>>, g, cp, "open")
  BY <1>3, <1>4, <1>5, <1>6, <1>8 DEF Holds, AllKnown
<1> QED BY <1>9 DEF g

\* The user makes an edit.
LEMMA HoldsEdited ==
  ASSUME NEW c, NEW P, NEW W, NEW lg, NEW dur, NEW u, NEW dn, NEW h, EngineOK(h), NEW cp,
         Holds(c, P, W, lg, dur, u, dn, h, cp, "open"), NEW e \in Edits, NEW Q, Q \subseteq P \cup {e},
         NEW g, g.conf = h.conf, g.ready = h.ready, g.durable = h.durable, g.pending = h.pending,
         g.undurable = h.undurable, g.queued = Append(h.queued, e)
  PROVE  Holds(c, Q, W, lg, dur, u, dn, g, cp, "open")
<1>1. Own(g) = Own(h) /\ Entries(g.queued) = Entries(h.queued) \cup {e}
  BY EngineFields, EntriesAppend DEF Own
<1>2. AllKnown(c, W, lg, g.conf, u, dn, g, cp) /\ Alike(g, cp) /\ Due(c, W, g) /\ Backed(c, W, g, cp, lg, dur)
  BY <1>1 DEF Holds, AllKnown, Alike, Due, Backed, Backing
<1>3. \A S : Safe(P, S, h) => Safe(Q, S, g)
  BY <1>1 DEF Safe, KeptIn
<1>4. Keeps(Q, g, cp, dn, lg, dur, "open")
  BY <1>3 DEF Holds, Keeps
<1> QED BY <1>2, <1>4 DEF Holds

\* A new connection.
LEMMA HoldsJoined ==
  ASSUME NEW c, NEW P, NEW W, NEW lg \in Seq(Sequenced), NEW dur, NEW u \in Seq(Unsynced), NEW dn, NEW h, EngineOK(h),
         NEW cp, CopyOK(cp), Holds(c, P, W, lg, dur, u, dn, h, cp, "open"), Climbs(LastOf(lg, c), u),
         NEW g, g.type = "welcome", BaseOf(h.conf, <<g>>) = lg, g.durable = dur
  PROVE  Holds(c, P, W, lg, dur, <<>>, <<g>>, h, cp, "open")
<1> DEFINE dm == <<g>>
<1>1. Waits(dm) /\ Head(dm) = g
  BY DEF Waits
<1>2. ASSUME NEW x \in Own(h) \cup cp.batches PROVE Known(c, W, lg, h.conf, <<>>, dm, x)
  <2>1. Known(c, W, lg, h.conf, u, dn, x)
    BY DEF Holds, AllKnown
  <2>2. x.cseq \in Nat
    BY EngineFields, CopyFields DEF Own, NotLocal
  <2> QED BY <2>1, <2>2, KnownJoin
<1> HIDE DEF dm
<1>3. Keeps(P, h, cp, dm, lg, dur, "open")
  BY <1>1 DEF Holds, Keeps, dm
<1>4. Holds(c, P, W, lg, dur, <<>>, dm, h, cp, "open")
  BY <1>2, <1>3 DEF Holds, AllKnown
<1> QED BY <1>4 DEF dm

----------------------------------------------------------------------------
(* The invariant                                                           *)

\* No batch of the client is both confirmed and pending.
Apart(c, h) == \A y \in OwnOf(c, Entries(h.conf)), p \in h.pending : y.cseq # p.cseq

\* The room counts what the engine waits to be durable; so will a welcome.
Reckoned(c, e, lg, dn, h) ==
  /\ h.ready /\ h.epoch = e => Reached(h, LastOf(lg, c))
  /\ Waits(dn) /\ h.ready /\ h.epoch = Head(dn).epoch => Reached(h, Head(dn).cseq)

\* A pending batch bears the number of a previous room only after a restart,
\* and no welcome of the same room then brings the whole state.
Unstamped(h) == \A p \in h.pending : p.seq = 0
Stamped(e, dn, h) ==
  /\ Waits(dn) /\ Head(dn).snapshot /\ h.ready /\ h.epoch = Head(dn).epoch => Unstamped(h)
  /\ ~h.ready => h.undurable = {} /\ Unstamped(h)
  /\ "restart" \notin Situations =>
       Unstamped(h) /\ (h.ready => h.epoch = e) /\ (Waits(dn) => Head(dn).epoch = e)

Ledger(c, e, lg, u, dn, h) ==
  Apart(c, h) /\ Climbs(LastOf(lg, c), u) /\ Reckoned(c, e, lg, dn, h) /\ Stamped(e, dn, h)

HearsOf(c)  == Hears(c, log, durable, down[c], engine[c])
LedgerOf(c) == Ledger(c, epoch, log, up[c], down[c], engine[c])
HoldsOf(c)  == Holds(c, Promised(c), waived[c], log, durable, up[c], down[c], engine[c], copy[c], tab[c])

EditsInv == Well(Entries(log)) /\ \A c \in Clients : HearsOf(c) /\ LedgerOf(c) /\ HoldsOf(c)

LEMMA Facts ==
  ASSUME Types, NEW c \in Clients, OrderOf(c)
  PROVE  /\ EngineOK(engine[c]) /\ CopyOK(copy[c]) /\ up[c] \in Seq(Unsynced) /\ down[c] \in Seq(Messages)
         /\ IsLog(log) /\ log \in Seq(Sequenced) /\ Len(log) \in Nat /\ durable \in 0..Len(log) /\ durable \in Nat
         /\ epoch \in Nat /\ conn[c] \in {"off", "on", "dead"} /\ tab[c] \in {"open", "closed"}
         /\ conn[c] = "off" => down[c] = <<>>
         /\ LastOf(log, c) \in Nat /\ LastSeq(c) = LastOf(log, c)
         /\ Numbering(engine[c], copy[c], Abroad(c)) /\ Abroad(c) \in Away /\ Greeted(c)
         /\ \A b \in engine[c].pending \cup engine[c].undurable : 0 < b.cseq
         /\ \A b \in engine[c].undurable : ~b.localOnly
         /\ engine[c].ready => \A p \in engine[c].pending : ~p.localOnly
         /\ ~engine[c].ready => engine[c].conf = <<>>
         /\ tab[c] = "open" => copy[c].next <= engine[c].next
         /\ WelcomeWaits(c) <=> Waits(down[c])
<1>1. ServerTypes /\ TypesOf(c)
  BY TypesAre
<1>2. IsLog(log) /\ Len(log) \in Nat /\ durable \in Nat /\ LastOf(log, c) \in Nat /\ LastSeq(c) = LastOf(log, c)
  BY <1>1, LastOfOK, LastSeqIs DEF ServerTypes, IsLog
<1>3. Numbering(engine[c], copy[c], Abroad(c)) /\ Abroad(c) \in Away /\ Greeted(c)
  BY OrderFields
<1>4. WelcomeWaits(c) <=> Waits(down[c])
  BY DEF WelcomeWaits, Waits
<1>5. /\ \A b \in engine[c].pending \cup engine[c].undurable : 0 < b.cseq
      /\ \A b \in engine[c].undurable : ~b.localOnly
      /\ engine[c].ready => \A p \in engine[c].pending : ~p.localOnly
  BY <1>3 DEF Numbering
<1>6. ~engine[c].ready => engine[c].conf = <<>> 
  BY <1>3 DEF Greeted
<1>7. tab[c] = "open" => copy[c].next <= engine[c].next
  BY <1>3 DEF Greeted
<1> QED BY <1>1, <1>2, <1>3, <1>4, <1>5, <1>6, <1>7 DEF ServerTypes, TypesOf

\* What changes the engine but for what it knows of the room.
LEMMA QuietKeeps ==
  ASSUME Types, NEW c \in Clients, OrderOf(c),
         Edit(c) \/ EditLocally(c) \/ Flush(c) \/ FlushOffline(c) \/ Persist(c)
  PROVE  /\ Alone(c) /\ down'[c] = down[c]
         /\ engine'[c].conf = engine[c].conf /\ engine'[c].durable = engine[c].durable
         /\ engine'[c].ready = engine[c].ready /\ engine'[c].epoch = engine[c].epoch
<1> DEFINE h == engine[c]
           g == engine'[c]
<1>0. EngineOK(h)
  BY Facts
<1>1. CASE Edit(c)
  BY <1>1, EditDoes
<1>2. CASE EditLocally(c)
  <2> DEFINE k == Sealed(h)
  <2>1. /\ Alone(c) /\ down'[c] = down[c] /\ g.ready = k.ready /\ g.epoch = k.epoch /\ g.conf = k.conf
        /\ g.durable = k.durable
    BY <1>2, EditLocallyDoes
  <2>2. k.conf = h.conf /\ k.durable = h.durable /\ k.ready = h.ready /\ k.epoch = h.epoch
    BY <1>0, SealedOK
  <2> HIDE DEF k, h, g
  <2> QED BY <2>1, <2>2 DEF h, g
<1>3. CASE Flush(c)
  <2> DEFINE k == Sealed(h)
  <2>1. EngineOK(k) /\ g = Sent(k) /\ Alone(c) /\ down'[c] = down[c]
    BY <1>3, FlushDoes
  <2>2. k.conf = h.conf /\ k.durable = h.durable /\ k.ready = h.ready /\ k.epoch = h.epoch
    BY <1>0, SealedOK
  <2> HIDE DEF k
  <2> QED BY <2>1, <2>2, SentOK
<1>4. CASE FlushOffline(c)
  <2>1. /\ Alone(c) /\ down'[c] = down[c]
        /\ g = Sealed(h) \/ \E last \in h.pending : g = Coalesced(h, last)
    BY <1>4, FlushOfflineDoes
  <2>2. CASE g = Sealed(h)
    BY <1>0, <2>1, <2>2, SealedOK
  <2>3. ASSUME NEW last \in h.pending, g = Coalesced(h, last) PROVE g.conf = h.conf /\ g.durable = h.durable
           /\ g.ready = h.ready /\ g.epoch = h.epoch
    <3> DEFINE k == Coalesced(h, last)
    <3>1. k.conf = h.conf /\ k.durable = h.durable /\ k.ready = h.ready /\ k.epoch = h.epoch
      <4> HIDE DEF h
      <4> QED BY <1>0, CoalescedOK
    <3>2. g = k
      BY <2>3
    <3> HIDE DEF k, h, g
    <3> QED BY <3>1, <3>2
  <2> QED BY <2>1, <2>2, <2>3
<1>5. CASE Persist(c)
  BY <1>0, <1>5, PersistDoes, SealedOK
<1> QED BY <1>1, <1>2, <1>3, <1>4, <1>5

\* What a client hears, when it acts itself.
LEMMA HearsQuiet ==
  ASSUME Types, NEW c \in Clients, OrderOf(c), HearsOf(c),
         Edit(c) \/ EditLocally(c) \/ Flush(c) \/ FlushOffline(c) \/ Persist(c)
  PROVE  HearsOf(c)'
<1> DEFINE h == engine[c]
           g == engine'[c]
<1>1. Alone(c) /\ down'[c] = down[c] /\ g.conf = h.conf /\ g.durable = h.durable /\ g.ready = h.ready /\ g.epoch = h.epoch
  BY QuietKeeps
<1>2. Hears(c, log, durable, down[c], h)
  BY DEF HearsOf
<1> HIDE DEF h, g
<1>3. Hears(c, log, durable, down[c], g)
  BY <1>1, <1>2, HearsKept
<1> QED BY <1>1, <1>3 DEF HearsOf, Alone, g

LEMMA HearsEnds ==
  ASSUME Types, NEW c \in Clients, OrderOf(c), HearsOf(c),
         Disconnect(c) \/ CloseTab(c) \/ KillTab(c) \/ Reopen(c)
  PROVE  HearsOf(c)'
<1> DEFINE h == engine[c]
           g == engine'[c]
<1>0. EngineOK(h) /\ CopyOK(copy[c]) /\ durable \in Nat
  BY Facts
<1>1. Alone(c) /\ down'[c] = <<>> /\ (\/ g.conf = h.conf /\ g.durable = h.durable
                                      \/ g.conf = <<>> /\ g.durable = 0)
  <2>1. CASE Disconnect(c)
    BY <1>0, <2>1, DisconnectDoes, ResetOK
  <2>2. CASE CloseTab(c) \/ KillTab(c)
    BY <2>2, CloseTabDoes, KillTabDoes, FreshOK
  <2>3. CASE Reopen(c)
    <3>1. Alone(c) /\ tab[c] = "closed" /\ g = Restored(copy[c]) /\ down'[c] = down[c]
      BY <2>3, ReopenDoes
    <3>2. down[c] = <<>>
      BY <3>1, Facts DEF Greeted
    <3> HIDE DEF g
    <3> QED BY <1>0, <3>1, <3>2, RestoredOK
  <2> QED BY <2>1, <2>2, <2>3
<1>2. Hears(c, log, durable, down[c], h)
  BY DEF HearsOf
<1> HIDE DEF h, g
<1>3. Hears(c, log, durable, <<>>, g)
  BY <1>0, <1>1, <1>2, HearsCut, HearsNothing
<1> QED BY <1>1, <1>3 DEF HearsOf, Alone, g

LEMMA HearsJoins ==
  ASSUME Types, NEW c \in Clients, OrderOf(c), LinkOf(c), HearsOf(c), Well(Entries(log)), Join(c)
  PROVE  HearsOf(c)'
<1> DEFINE h == engine[c]
           g == Greeting(c)
<1>1. Alone(c) /\ down'[c] = <<g>> /\ engine'[c] = h
  BY JoinDoes
<1>2. /\ g.type = "welcome" /\ g.durable = durable /\ g.cseq = LastOf(log, c) /\ g.seq = Len(log)
      /\ g.epoch = epoch
      /\ ~g.snapshot => CanCatchUp(h)
  BY Facts DEF Greeting
<1>3. BaseOf(h.conf, <<g>>) = log
  BY JoinsLog
<1>4. CanCatchUp(h) => h.ready /\ h.epoch = epoch
  BY DEF CanCatchUp
<1>5. h.ready /\ h.epoch = epoch => Follows(h.conf, log)
  BY DEF LinkOf, Link
<1>6. Hears(c, log, durable, down[c], h)
  BY DEF HearsOf
<1>7. IsLog(log) /\ durable \in 0..Len(log)
  BY Facts
<1>8. Well(Entries(log))
  OBVIOUS
<1> HIDE DEF h, g
<1>9. /\ ~g.snapshot => h.ready /\ h.epoch = g.epoch
      /\ h.ready /\ h.epoch = g.epoch => Follows(h.conf, log)
  <2>1. g.epoch = epoch
    BY ONLY <1>2
  <2>2. ~g.snapshot => h.ready /\ h.epoch = epoch
    BY ONLY <1>2, <1>4, Zenon
  <2>3. h.epoch = epoch <=> h.epoch = g.epoch
    BY ONLY <2>1
  <2>4. h.ready /\ h.epoch = g.epoch => Follows(h.conf, log)
    BY ONLY <2>3, <1>5, Zenon
  <2> QED BY ONLY <2>2, <2>3, <2>4, Zenon
<1>10. g.type = "welcome" /\ g.durable = durable /\ g.cseq = LastOf(log, c) /\ g.seq = Len(log)
  BY ONLY <1>2
<1>11. Hears(c, log, durable, <<g>>, h)
  BY ONLY <1>3, <1>6, <1>7, <1>8, <1>9, <1>10, HearsJoin
<1> QED BY <1>1, <1>11 DEF HearsOf, Alone, h, g

LEMMA HearsWelcomed ==
  ASSUME Types, NEW c \in Clients, OrderOf(c), HearsOf(c), ReceiveWelcome(c)
  PROVE  HearsOf(c)'
<1> DEFINE h == engine[c]
           dn == down[c]
           w == Welcomed(h, c, Head(dn))
           g == Sent(w)
<1>1. /\ Alone(c) /\ EngineOK(w) /\ engine'[c] = g /\ down'[c] = Tail(dn)
      /\ dn # <<>> /\ Head(dn).type = "welcome" /\ Head(dn) \in Welcome
  BY ReceiveWelcomeDoes
<1>2. ~Waits(Tail(dn))
  <2>1. dn \in Seq(Messages)
    BY Facts
  <2>2. Tail(dn) \in Seq(Messages)
    BY <1>1, <2>1, EntriesTail
  <2>3. \A i \in DOMAIN Tail(dn) : Tail(dn)[i].type # "welcome"
    BY WelcomeTaken
  <2> QED BY <2>2, <2>3, NoneWaits
<1>3. EngineOK(h) /\ dn \in Seq(Messages)
  BY Facts
<1>4. Hears(c, log, durable, dn, h)
  BY DEF HearsOf
<1>5. Waits(dn)
  BY <1>1 DEF Waits
<1>6. w.conf = BaseOf(h.conf, dn) /\ w.durable = Head(dn).durable
  <2> HIDE DEF h, dn
  <2>1. w.conf = BaseOf(h.conf, dn)
    BY <1>3, <1>5, WelcomedGives
  <2>2. w.durable = Head(dn).durable
    BY <1>1, <1>3, WelcomedOK
  <2> QED BY <2>1, <2>2
<1> HIDE DEF h, dn, w
<1>7. g.conf = w.conf /\ g.durable = w.durable
  BY <1>1, SentOK
<1> HIDE DEF g
<1>8. IsLog(g.conf) /\ Entries(g.conf) \subseteq Heard(h.conf, dn) /\ g.durable \in Announced(h, dn)
  BY <1>4, <1>5, <1>6, <1>7 DEF Hears, Heard, Announced
<1>9. Hears(c, log, durable, Tail(dn), g)
  BY <1>1, <1>2, <1>3, <1>4, <1>8, HearsRead
<1> QED BY <1>1, <1>9 DEF HearsOf, Alone

LEMMA HearsReceived ==
  ASSUME Types, NEW c \in Clients, OrderOf(c), HearsOf(c), Receive(c)
  PROVE  HearsOf(c)'
<1> DEFINE h == engine[c]
           dn == down[c]
           r == Received(h, c, Head(dn))
           g == engine'[c]
<1>1. /\ Alone(c) /\ dn # <<>> /\ Head(dn) \in Messages /\ Head(dn).type # "welcome"
      /\ \/ g = Reset(h) /\ down'[c] = <<>>
         \/ /\ Head(dn).type = "batch" => ~Gap(h, Head(dn).batch)
            /\ g = r /\ down'[c] = Tail(dn)
  BY ReceiveDoes
<1>2. ~Waits(Tail(dn))
  <2>1. dn \in Seq(Messages)
    BY Facts
  <2>2. Tail(dn) \in Seq(Messages)
    BY <1>1, <2>1, EntriesTail
  <2>3. \A i \in DOMAIN Tail(dn) : Tail(dn)[i].type # "welcome"
    BY MessageTaken
  <2> QED BY <2>2, <2>3, NoneWaits
<1>3. EngineOK(h) /\ dn \in Seq(Messages)
  BY Facts
<1>4. Hears(c, log, durable, dn, h)
  BY DEF HearsOf
<1>5. ~Waits(dn)
  BY <1>1 DEF Waits
<1>6. log' = log /\ durable' = durable
  BY <1>1 DEF Alone
<1> SUFFICES Hears(c, log, durable, down'[c], g)
  BY <1>6 DEF HearsOf
<1>7. CASE g = Reset(h) /\ down'[c] = <<>>
  <2> HIDE DEF h, g
  <2>1. g.conf = h.conf /\ g.durable = h.durable
    BY <1>3, <1>7, ResetOK
  <2> QED BY <1>4, <1>7, <2>1, HearsCut
<1>8. CASE (Head(dn).type = "batch" => ~Gap(h, Head(dn).batch)) /\ g = r /\ down'[c] = Tail(dn)
  <2> HIDE DEF h, g, dn
  <2>1. IsLog(r.conf) /\ Entries(r.conf) \subseteq Heard(h.conf, dn) /\ r.durable \in Announced(h, dn)
    <3>1. IsLog(h.conf)
      BY <1>4 DEF Hears
    <3> QED BY <1>1, <1>3, <1>5, <1>8, <3>1, ReceivedHears
  <2> HIDE DEF r
  <2>2. Hears(c, log, durable, Tail(dn), r)
    BY <1>1, <1>2, <1>3, <1>4, <2>1, HearsRead
  <2> QED BY <1>8, <2>2
<1> QED BY <1>1, <1>7, <1>8

LEMMA HearsClient ==
  ASSUME Types, NEW c \in Clients, OrderOf(c), LinkOf(c), HearsOf(c), Well(Entries(log)), Client(c) \/ Join(c)
  PROVE  HearsOf(c)'
<1>1. CASE Edit(c) \/ EditLocally(c) \/ Flush(c) \/ FlushOffline(c) \/ Persist(c)
  BY <1>1, HearsQuiet
<1>2. CASE Disconnect(c) \/ CloseTab(c) \/ KillTab(c) \/ Reopen(c)
  BY <1>2, HearsEnds
<1>3. CASE ReceiveWelcome(c)
  BY <1>3, HearsWelcomed
<1>4. CASE Receive(c)
  BY <1>4, HearsReceived
<1>5. CASE Join(c)
  BY <1>5, HearsJoins
<1> QED BY <1>1, <1>2, <1>3, <1>4, <1>5 DEF Client

\* What a connected client hears is in the log.
LEMMA ConnectedHeard ==
  ASSUME Types, NEW d \in Clients, LinkOf(d), conn[d] = "on"
  PROVE  Entries(BaseOf(engine[d].conf, down[d])) \cup Told(down[d]) \subseteq Entries(log)
<1> DEFINE base == BaseOf(engine[d].conf, down[d])
<1>1. Docs(base, log, down[d])
  BY DEF LinkOf, Link
<1>2. EngineOK(engine[d]) /\ down[d] \in Seq(Messages) /\ IsLog(log)
  BY TypesAre DEF TypesOf, ServerTypes, IsLog
<1>3. base \in Seq(Sequenced)
  BY <1>2, HeardTyped
<1> HIDE DEF base
<1>4. Entries(base) \cup Told(down[d]) \subseteq Entries(log)
  BY <1>1, <1>2, <1>3, HeardIn
<1> QED BY <1>4 DEF base

\* The room, or its journal, acts.
LEMMA HearsOfRoom ==
  ASSUME Types, NEW d \in Clients, OrderOf(d), LinkOf(d), HearsOf(d), engine'[d] = engine[d],
         IsLog(log'), durable' \in 0..Len(log'), durable <= durable',
         \A q \in 1..durable : q \in 1..Len(log') /\ log'[q] = log[q],
         \/ down'[d] = down[d]
         \/ /\ conn[d] = "on" /\ Well(Entries(log')) /\ Entries(log) \subseteq Entries(log')
            /\ \E m \in Messages :
                 /\ m.type # "welcome" /\ m.type # "duplicate" /\ down'[d] = Append(down[d], m)
                 /\ (m.type = "batch" => m.batch \in Entries(log')) /\ (m.type = "durable" => m.seq <= durable')
  PROVE  HearsOf(d)'
<1> DEFINE h == engine[d]
           dn == down[d]
           lh == log'
           dux == durable'
<1>1. EngineOK(h) /\ dn \in Seq(Messages) /\ IsLog(log) /\ durable \in 0..Len(log)
  BY Facts
<1>2. Hears(d, log, durable, dn, h)
  BY DEF HearsOf
<1>3. dux \in Nat
  BY DEF IsLog
<1>4. Hears(d, lh, dux, dn, h)
  <2> HIDE DEF h, dn, lh, dux
  <2>1. durable <= dux /\ \A q \in 1..durable : q \in 1..Len(lh) /\ lh[q] = log[q]
    BY DEF lh, dux
  <2> QED BY ONLY <1>1, <1>2, <1>3, <2>1, HearsMore
<1>5. CASE down'[d] = dn
  BY <1>4, <1>5 DEF HearsOf
<1>6. ASSUME conn[d] = "on", Well(Entries(lh)), Entries(log) \subseteq Entries(lh), NEW m \in Messages,
             m.type # "welcome", m.type # "duplicate", down'[d] = Append(dn, m),
             m.type = "batch" => m.batch \in Entries(lh), m.type = "durable" => m.seq <= dux
      PROVE  HearsOf(d)'
  <2>1. Entries(BaseOf(h.conf, dn)) \cup Told(dn) \subseteq Entries(lh)
    BY <1>6, ConnectedHeard
  <2>2. IsLog(lh) /\ dux \in 0..Len(lh)
    OBVIOUS
  <2>3. /\ Well(Entries(lh)) /\ m.type # "welcome" /\ m.type # "duplicate"
        /\ m.type = "batch" => m.batch \in Entries(lh)
        /\ m.type = "durable" => m.seq <= dux
    BY <1>6
  <2> HIDE DEF h, dn, lh, dux
  <2>4. Hears(d, lh, dux, Append(dn, m), h)
    BY ONLY <1>1, <1>4, <2>1, <2>2, <2>3, m \in Messages, HearsTold
  <2> QED BY <1>6, <2>4 DEF HearsOf, h, dn, lh, dux
<1> QED BY <1>5, <1>6

\* No batch that is on its way up was taken before.
LEMMA NotTwice ==
  ASSUME Types, NEW c \in Clients, OrderOf(c), LedgerOf(c), HandleBatch(c)
  PROVE  ~TakenAsDuplicate(c, Head(up[c])) /\ LastOf(log, c) < Head(up[c]).cseq
<1> DEFINE u == up[c]
<1>1. Climbs(LastOf(log, c), u)
  BY DEF LedgerOf, Ledger
<1>2. u # <<>> /\ u \in Seq(Unsynced) /\ LastOf(log, c) \in Nat /\ LastSeq(c) = LastOf(log, c)
  BY HandleBatchDoes, Facts
<1>3. Head(u) \in Unsynced
  BY <1>2, EntriesTail
<1>4. Head(u).cseq \in Nat
  BY <1>3 DEF Unsynced
<1>5. LastOf(log, c) < Head(u).cseq
  <2> HIDE DEF u
  <2> DEFINE last == LastOf(log, c)
  <2>1. last \in Nat /\ Climbs(last, u)
    BY <1>1, <1>2
  <2> HIDE DEF last
  <2>2. last < Head(u).cseq
    BY <1>2, <2>1, ClimbsHead
  <2> QED BY <2>2 DEF last
<1>6. ~TakenAsDuplicate(c, Head(u))
  BY <1>2, <1>4, <1>5 DEF TakenAsDuplicate
<1> QED BY <1>5, <1>6

LEMMA LogGrown ==
  ASSUME Types, NEW c \in Clients, NEW x \in Unsynced, log' = Append(log, Accepted(c, log, x))
  PROVE  /\ IsLog(log') /\ durable \in 0..Len(log') /\ Accepted(c, log, x) \in Sequenced
         /\ Accepted(c, log, x).seq = Len(log) + 1 /\ Accepted(c, log, x).client = c
         /\ Accepted(c, log, x).cseq = x.cseq /\ Accepted(c, log, x).ops = x.ops
         /\ \A q \in 1..durable : q \in 1..Len(log') /\ log'[q] = log[q]
         /\ Entries(log') = Entries(log) \cup {Accepted(c, log, x)}
<1>1. IsLog(log) /\ durable \in 0..Len(log)
  BY TypesAre DEF ServerTypes, IsLog
<1> DEFINE b == Accepted(c, log, x)
<1>2. b.seq = Len(log) + 1 /\ b.client = c /\ b.cseq = x.cseq /\ b.ops = x.ops
  BY DEF Accepted
<1>3. /\ b \in Sequenced /\ log' \in Seq(Sequenced) /\ Len(log') = Len(log) + 1
      /\ \A q \in 1..Len(log) : log'[q] = log[q]
      /\ log'[Len(log) + 1] = b
  BY <1>1, AcceptedOK DEF IsLog
<1>4. Entries(log') = Entries(log) \cup {b}
  BY <1>1, <1>3, EntriesAppend DEF IsLog
<1> HIDE DEF b
<1>5. IsLog(log')
  <2> SUFFICES ASSUME NEW q \in 1..Len(log') PROVE log'[q].seq = q
    BY <1>3 DEF IsLog
  <2>1. CASE q \in 1..Len(log)
    BY <1>1, <1>3, <2>1 DEF IsLog
  <2>2. CASE q = Len(log) + 1
    BY <1>2, <1>3, <2>2
  <2> QED BY <1>1, <1>3, <2>1, <2>2 DEF IsLog
<1>6. durable \in 0..Len(log') /\ \A q \in 1..durable : q \in 1..Len(log') /\ log'[q] = log[q]
  BY <1>1, <1>3
<1> QED BY <1>2, <1>3, <1>4, <1>5, <1>6 DEF b

LEMMA HearsHandleBatch ==
  ASSUME Types, NEW c \in Clients, HandleBatch(c), OrderOf(c), LedgerOf(c), Well(Entries(log)), Well(Entries(log')),
         NEW d \in Clients, OrderOf(d), LinkOf(d), HearsOf(d)
  PROVE  HearsOf(d)'
<1> DEFINE x == Head(up[c])
<1>1. /\ TakenAsRejected(c, x) \/ TakenAsApplied(c, x)
      /\ x \in Unsynced /\ engine'[d] = engine[d]
  BY HandleBatchDoes, NotTwice
<1>2. x.cseq \in Nat
  BY <1>1 DEF Unsynced
<1>3. IsLog(log) /\ durable \in 0..Len(log) /\ durable \in Nat /\ \A q \in 1..durable : q \in 1..Len(log)
  BY Facts
<1> HIDE DEF x
<1>4. CASE TakenAsRejected(c, x)
  <2> DEFINE m == [type |-> "reject", cseq |-> x.cseq]
  <2>1. log' = log /\ durable' = durable /\ (down'[d] = down[d] \/ (conn[d] = "on" /\ down'[d] = Append(down[d], m)))
    BY <1>4 DEF TakenAsRejected, server
  <2>2. m \in Messages /\ m.type = "reject"
    BY <1>2, MessagesMade
  <2> HIDE DEF m
  <2>3. /\ m.type # "welcome" /\ m.type # "duplicate" /\ (m.type = "batch" => m.batch \in Entries(log'))
        /\ (m.type = "durable" => m.seq <= durable')
    BY <2>2
  <2>4. IsLog(log') /\ durable' \in 0..Len(log') /\ durable <= durable'
        /\ \A q \in 1..durable : q \in 1..Len(log') /\ log'[q] = log[q]
    BY <1>3, <2>1
  <2> QED BY <1>1, <2>1, <2>2, <2>3, <2>4, HearsOfRoom
<1>5. CASE TakenAsApplied(c, x)
  <2> DEFINE b == Accepted(c, log, x)
             m == [type |-> "batch", batch |-> b]
  <2>1. log' = Append(log, b) /\ durable' = durable
        /\ (down'[d] = down[d] \/ (conn[d] = "on" /\ down'[d] = Append(down[d], m)))
    BY <1>5 DEF TakenAsApplied
  <2>2. /\ IsLog(log') /\ durable \in 0..Len(log') /\ b \in Sequenced
        /\ \A q \in 1..durable : q \in 1..Len(log') /\ log'[q] = log[q]
        /\ Entries(log') = Entries(log) \cup {b}
    BY <1>1, <2>1, LogGrown
  <2>3. m \in Messages /\ m.type = "batch" /\ m.batch = b
    BY <2>2, MessagesMade
  <2> HIDE DEF m, b
  <2>4. /\ m.type # "welcome" /\ m.type # "duplicate" /\ (m.type = "batch" => m.batch \in Entries(log'))
        /\ (m.type = "durable" => m.seq <= durable')
    BY <2>2, <2>3
  <2> QED BY <1>1, <1>3, <2>1, <2>2, <2>3, <2>4, HearsOfRoom
<1> QED BY <1>1, <1>4, <1>5

LEMMA HearsMarkDurable ==
  ASSUME Types, MarkDurable, Well(Entries(log)), NEW d \in Clients, OrderOf(d), LinkOf(d), HearsOf(d)
  PROVE  HearsOf(d)'
<1> DEFINE m == [type |-> "durable", seq |-> durable']
<1>1. /\ log' = log /\ durable' \in durable + 1 .. Len(log) /\ engine'[d] = engine[d]
      /\ down'[d] = down[d] \/ (conn[d] = "on" /\ down'[d] = Append(down[d], m))
  BY MarkDurableDoes
<1>2. IsLog(log) /\ durable \in 0..Len(log) /\ durable \in Nat /\ Len(log) \in Nat
  BY Facts
<1>3. durable' \in Nat /\ durable' \in 0..Len(log) /\ durable <= durable'
  BY <1>1, <1>2
<1>4. m \in Messages /\ m.type = "durable" /\ m.seq = durable'
  BY <1>3, MessagesMade
<1> HIDE DEF m
<1>5. /\ m.type # "welcome" /\ m.type # "duplicate" /\ (m.type = "batch" => m.batch \in Entries(log'))
      /\ (m.type = "durable" => m.seq <= durable')
  BY <1>3, <1>4
<1>6. /\ IsLog(log') /\ durable' \in 0..Len(log') /\ durable <= durable'
      /\ \A q \in 1..durable : q \in 1..Len(log') /\ log'[q] = log[q]
      /\ Entries(log) \subseteq Entries(log') /\ Well(Entries(log'))
  BY <1>1, <1>2, <1>3
<1> QED BY <1>1, <1>4, <1>5, <1>6, HearsOfRoom

LEMMA HearsRestart ==
  ASSUME Types, Restart, NEW d \in Clients, OrderOf(d), LinkOf(d), HearsOf(d)
  PROVE  HearsOf(d)'
<1>1. /\ Types' /\ \A q \in 1..Len(log') : log'[q] = log[q]
      /\ Len(log') <= Len(log) /\ durable <= durable' /\ durable' = Len(log')
      /\ engine'[d] = engine[d] /\ down'[d] = down[d]
  BY RestartDoes
<1>2. IsLog(log) /\ durable \in Nat
  BY Facts
<1>3. log' \in Seq(Sequenced)
  BY <1>1 DEF Types, TypeOK
<1>4. IsLog(log')
  BY <1>1, <1>2, <1>3 DEF IsLog
<1>5. durable' \in 0..Len(log') /\ \A q \in 1..durable : q \in 1..Len(log') /\ log'[q] = log[q]
  BY <1>1, <1>2, <1>3
<1> QED BY <1>1, <1>4, <1>5, HearsOfRoom

\* The edits of each author rise along the log.
LEMMA WellTaken ==
  ASSUME Types, NEW c \in Clients, HandleBatch(c), OrderOf(c), LedgerOf(c), Well(Entries(log))
  PROVE  Well(Entries(log'))
<1> DEFINE x == Head(up[c])
           M == Mine(engine[c], copy[c], Abroad(c))
           b == Accepted(c, log, x)
<1>1. /\ TakenAsRejected(c, x) \/ TakenAsApplied(c, x)
      /\ x \in Unsynced /\ up[c] # <<>>
  BY HandleBatchDoes, NotTwice
<1>2. CASE TakenAsRejected(c, x)
  BY <1>2 DEF TakenAsRejected, server
<1>3. CASE TakenAsApplied(c, x)
  <2>1. log' = Append(log, b)
    BY <1>3 DEF TakenAsApplied
  <2>2. /\ b \in Sequenced /\ b.client = c /\ b.cseq = x.cseq /\ b.ops = x.ops
        /\ b.seq = Len(log) + 1 /\ Entries(log') = Entries(log) \cup {b}
    BY <1>1, <2>1, LogGrown
  <2>3. Ordered(c, made[c], M) /\ Abroad(c) \subseteq M
    BY OrderFields DEF Mine
  <2>4. Pair(x) \in M /\ \A a \in Entries(log) : a.client = c => Pair(a) \in M
    <3>1. x \in Entries(up[c])
      BY <1>1, EntriesTail, Facts
    <3> QED BY <2>3, <3>1, AbroadHas
  <2>5. \A a \in Entries(log) : a.client = c => a.cseq <= LastOf(log, c)
    BY Facts, LastOfOK, EntriesAre
  <2>6. LastOf(log, c) < x.cseq /\ LastOf(log, c) \in Nat /\ x.cseq \in Nat
    BY <1>1, NotTwice, Facts DEF Unsynced
  <2>7. \A a \in Entries(log) : a.seq <= Len(log) /\ a \in Sequenced
    BY Facts, EntriesAre DEF IsLog
  <2>8. Ascends(b.ops) /\ \A i \in DOMAIN b.ops : b.ops[i][1] = b.client
    BY <2>2, <2>3, <2>4 DEF Ordered, Pair
  <2>9. ASSUME NEW a \in Entries(log), a.client = c PROVE a.cseq < b.cseq /\ Before(a.ops, b.ops)
    <3>1. a.cseq < x.cseq
      BY <2>5, <2>6, <2>7, <2>9 DEF Sequenced
    <3>2. Pair(a)[1] = a.cseq /\ Pair(a)[2] = a.ops /\ Pair(x)[1] = x.cseq /\ Pair(x)[2] = x.ops
      BY DEF Pair
    <3> DEFINE p == Pair(a)
               r == Pair(x)
    <3>3. p \in M /\ r \in M /\ p[1] < r[1]
      BY <2>4, <2>9, <3>1, <3>2
    <3> HIDE DEF p, r, M
    <3>4. Before(p[2], r[2])
      BY <2>3, <3>3 DEF Ordered
    <3> QED BY <2>2, <3>1, <3>2, <3>4 DEF p, r
  <2> HIDE DEF b, x, M
  <2>10. \A a \in Entries(log) : ~(b.seq < a.seq) /\ b.seq \in Nat /\ a.seq \in Nat
    BY <2>2, <2>7, Facts DEF Sequenced
  <2> QED BY <2>2, <2>8, <2>9, <2>10 DEF Well
<1> QED BY <1>1, <1>2, <1>3

LEMMA WellStep ==
  ASSUME Types, OrderInv, EditsInv, Next
  PROVE  Well(Entries(log'))
<1>1. ASSUME NEW c \in Clients, Client(c) \/ Join(c) PROVE Well(Entries(log'))
  BY <1>1, ClientAlone DEF Alone, EditsInv
<1>2. ASSUME NEW c \in Clients, HandleBatch(c) PROVE Well(Entries(log'))
  BY <1>2, WellTaken DEF OrderInv, EditsInv
<1>3. CASE MarkDurable
  BY <1>3, MarkDurableDoes DEF EditsInv
<1>4. CASE Restart
  <2>1. PICK n \in durable..Len(log) : log' = SubSeq(log, 1, n) /\ Len(log') = n
    BY <1>4, RestartDoes
  <2>2. log \in Seq(Sequenced) /\ durable \in Nat
    BY TypesAre DEF ServerTypes
  <2>3. Entries(log') = {log[i] : i \in 1..n}
    BY <2>1, <2>2, EntriesSubSeq
  <2>4. Entries(log') \in SUBSET Entries(log)
    BY <2>1, <2>2, <2>3, EntriesAre
  <2> QED BY <2>4, WellLess DEF EditsInv
<1> QED BY <1>1, <1>2, <1>3, <1>4 DEF Next

----------------------------------------------------------------------------
(* The ledger: which numbers the engine and the room count                 *)

\* The batches of g have the numbers of batches of h, or numbers not confirmed.
Continues(c, h, g) ==
  /\ g.conf = h.conf /\ g.ready = h.ready /\ g.epoch = h.epoch /\ g.undurable = h.undurable
  /\ \A p \in g.pending :
       \/ \E q \in h.pending : p.cseq = q.cseq /\ p.seq = q.seq
       \/ p.seq = 0 /\ \A y \in OwnOf(c, Entries(h.conf)) : y.cseq # p.cseq

LEMMA LedgerContinues ==
  ASSUME NEW c, NEW e, NEW lg, NEW u, NEW dn, NEW h, Ledger(c, e, lg, u, dn, h),
         NEW g, Continues(c, h, g), NEW v, Climbs(LastOf(lg, c), v), NEW dm, dm = dn \/ ~Waits(dm)
  PROVE  Ledger(c, e, lg, v, dm, g)
<1>1. Apart(c, g)
  BY DEF Ledger, Apart, Continues
<1>2. Unstamped(h) => Unstamped(g)
  BY DEF Unstamped, Continues
<1>3. g.ready = h.ready /\ g.epoch = h.epoch /\ g.undurable = h.undurable
  BY DEF Continues
<1>4. Reckoned(c, e, lg, dm, g)
  BY <1>3 DEF Ledger, Reckoned, Reached
<1>5. Stamped(e, dm, g)
  <2>1. Stamped(e, dn, h)
    BY DEF Ledger
  <2> QED BY ONLY <1>2, <1>3, <2>1, dm = dn \/ ~Waits(dm) DEF Stamped
<1> QED BY <1>1, <1>4, <1>5 DEF Ledger

LEMMA LedgerEmpty ==
  ASSUME NEW c, NEW e, NEW lg, NEW u, NEW dn, Climbs(LastOf(lg, c), u), ~Waits(dn),
         NEW g, g.conf = <<>>, ~g.ready, g.undurable = {}, \A p \in g.pending : p.seq = 0
  PROVE  Ledger(c, e, lg, u, dn, g)
<1>1. Apart(c, g)
  BY DEF Apart, OwnOf, Entries
<1>2. Reckoned(c, e, lg, dn, g) /\ Stamped(e, dn, g)
  BY DEF Reckoned, Stamped, Unstamped
<1> QED BY <1>1, <1>2 DEF Ledger

LEMMA LedgerRoom ==
  ASSUME NEW c, NEW e \in Nat, NEW lg \in Seq(Sequenced), NEW u, NEW dn, NEW h, EngineOK(h),
         Ledger(c, e, lg, u, dn, h),
         NEW n \in Nat, n = e \/ "restart" \in Situations, NEW lh \in Seq(Sequenced),
         h.ready /\ h.epoch = n => n = e /\ LastOf(lg, c) <= LastOf(lh, c),
         NEW v, Climbs(LastOf(lh, c), v), NEW dm, Waits(dm) => Waits(dn) /\ Head(dm) = Head(dn)
  PROVE  Ledger(c, n, lh, v, dm, h)
<1>1. \A b \in h.undurable : b.cseq \in Nat
  BY EngineFields
<1>2. LastOf(lg, c) \in Nat /\ LastOf(lh, c) \in Nat
  BY LastOfOK
<1>3. Apart(c, h) /\ Reckoned(c, e, lg, dn, h) /\ Stamped(e, dn, h)
  BY DEF Ledger
<1>4. Reckoned(c, n, lh, dm, h)
  <2>1. ASSUME h.ready, h.epoch = n PROVE Reached(h, LastOf(lh, c))
    BY <1>1, <1>2, <1>3, <2>1 DEF Reckoned, Reached
  <2>2. ASSUME Waits(dm), h.ready, h.epoch = Head(dm).epoch PROVE Reached(h, Head(dm).cseq)
    BY <1>3, <2>2 DEF Reckoned
  <2> QED BY <2>1, <2>2 DEF Reckoned
<1>5. Stamped(n, dm, h)
  BY <1>3 DEF Stamped
<1> QED BY <1>3, <1>4, <1>5 DEF Ledger

LEMMA ContinuesSealed ==
  ASSUME Types, NEW c \in Clients, OrderOf(c)
  PROVE  Continues(c, engine[c], Sealed(engine[c]))
<1> DEFINE h == engine[c]
           g == Sealed(h)
<1>1. EngineOK(h)
  BY Facts
<1>2. h.queued # <<>> => \A y \in OwnOf(c, Entries(h.conf)) : y.cseq < h.next
  <2>1. h.queued # <<>> => \A x \in Abroad(c) : x[1] < h.next
    BY Facts DEF Numbering
  <2>2. \A y \in OwnOf(c, Entries(h.conf)) : Pair(y) \in Abroad(c) /\ Pair(y)[1] = y.cseq
    BY AbroadHas DEF OwnOf, Pair
  <2> QED BY <2>1, <2>2
<1>3. h.next \in Nat /\ \A y \in Entries(h.conf) : y.cseq \in Nat
  <2> HIDE DEF h
  <2>1. h.next \in Nat /\ h.conf \in Seq(Sequenced)
    BY <1>1, EngineFields
  <2>2. Entries(h.conf) \subseteq Sequenced
    BY <2>1, EntriesAre
  <2> QED BY <2>1, <2>2 DEF Sequenced
<1> HIDE DEF h
<1>4. /\ g.ready = h.ready /\ g.epoch = h.epoch /\ g.conf = h.conf /\ g.undurable = h.undurable
      /\ h.queued = <<>> => g = h
      /\ h.queued # <<>> => g.pending = h.pending \cup {NewBatch(h.next, h.queued)}
  BY <1>1, SealedOK
<1>5. NewBatch(h.next, h.queued).seq = 0 /\ NewBatch(h.next, h.queued).cseq = h.next
  BY DEF NewBatch
<1> HIDE DEF g
<1>6. Continues(c, h, g)
  BY <1>2, <1>3, <1>4, <1>5 DEF Continues, OwnOf
<1> QED BY <1>6 DEF h, g

LEMMA ContinuesSent ==
  ASSUME NEW c, NEW h, EngineOK(h)
  PROVE  Continues(c, h, Sent(h))
<1> DEFINE g == Sent(h)
<1>1. /\ g.ready = h.ready /\ g.epoch = h.epoch /\ g.conf = h.conf /\ g.undurable = h.undurable
      /\ g.pending = (h.pending \ Outgoing(h)) \cup {Transmit(b) : b \in Outgoing(h)}
  BY SentOK
<1>2. \A b \in Outgoing(h) : b \in h.pending
  BY OutgoingOK
<1>3. \A b \in h.pending : Transmit(b).cseq = b.cseq /\ Transmit(b).seq = b.seq
  BY EngineFields DEF Transmit, Local
<1> HIDE DEF g
<1>4. Continues(c, h, g)
  BY <1>1, <1>2, <1>3 DEF Continues
<1> QED BY <1>4 DEF g

LEMMA ContinuesOn ==
  ASSUME NEW c, NEW h, NEW g, NEW f, Continues(c, h, g), Continues(c, g, f)
  PROVE  Continues(c, h, f)
BY DEF Continues

\* Batches on their way up, as the link says it.
LEMMA UpClimbs ==
  ASSUME Types', NEW c \in Clients, log' = log, LedgerOf(c), LinkOf(c)', ~Waits(down'[c]),
         up'[c] = up[c] \/ conn'[c] = "on"
  PROVE  Climbs(LastOf(log, c), up'[c])
<1>1. CASE up'[c] = up[c]
  BY <1>1 DEF LedgerOf, Ledger
<1>2. CASE conn'[c] = "on"
  <2>1. Flies(c, up'[c], down'[c], engine'[c], LastOf(log, c))
    BY <1>2 DEF LinkOf, Link
  <2>2. up'[c] \in Seq(Unsynced)
    BY DEF Types, TypeOK
  <2>3. log' \in Seq(Sequenced)
    BY DEF Types, TypeOK
  <2>4. LastOf(log, c) \in Nat
    BY <2>3, LastOfOK
  <2>5. \A i \in 1..Len(up'[c]) : up'[c][i] \in Entries(up'[c]) /\ up'[c][i].cseq \in Nat
    <3> DEFINE v == up'[c]
    <3>1. v \in Seq(Unsynced)
      BY <2>2
    <3> HIDE DEF v
    <3>2. \A i \in 1..Len(v) : v[i] \in Entries(v) /\ v[i] \in Unsynced
      BY <3>1, EntriesAre
    <3>3. \A i \in 1..Len(v) : v[i] \in Entries(v) /\ v[i].cseq \in Nat
      BY <3>2 DEF Unsynced
    <3> QED BY <3>3 DEF v
  <2> QED BY <2>1, <2>4, <2>5 DEF Flies, Climbs
<1> QED BY <1>1, <1>2

LEMMA LedgerQuiet ==
  ASSUME Types, NEW c \in Clients, OrderOf(c), LedgerOf(c), LinkOf(c)',
         Edit(c) \/ EditLocally(c) \/ Flush(c) \/ FlushOffline(c) \/ Persist(c) \/ Disconnect(c)
  PROVE  LedgerOf(c)'
<1> DEFINE h == engine[c]
           g == engine'[c]
           k == Sealed(h)
<1>1. EngineOK(h) /\ EngineOK(k) /\ Continues(c, h, k) /\ Continues(c, h, h)
  <2>1. EngineOK(h) /\ Continues(c, h, k)
    BY Facts, ContinuesSealed
  <2>2. EngineOK(k)
    <3> HIDE DEF h
    <3> QED BY <2>1, SealedOK
  <2>3. Continues(c, h, h)
    BY DEF Continues
  <2> QED BY <2>1, <2>2, <2>3
<1>2. /\ Types' /\ Alone(c) /\ Continues(c, h, g)
      /\ down'[c] = down[c] \/ down'[c] = <<>>
      /\ up'[c] = up[c] \/ (conn'[c] = "on" /\ down'[c] = down[c] /\ ~Waits(down[c]))
  <2>1. CASE Edit(c)
    <3>1. g.conf = h.conf /\ g.ready = h.ready /\ g.epoch = h.epoch /\ g.undurable = h.undurable /\ g.pending = h.pending
      BY <2>1, EditDoes
    <3>2. Continues(c, h, g)
      BY <3>1 DEF Continues
    <3> QED BY <2>1, <3>2, EditDoes
  <2>2. CASE EditLocally(c)
    <3> DEFINE b == LocalEdit(k, <<c, made[c] + 1>>)
    <3>1. /\ Types' /\ Alone(c) /\ down'[c] = down[c] /\ up'[c] = up[c] /\ Early(c)
          /\ g.ready = k.ready /\ g.epoch = k.epoch /\ g.conf = k.conf
          /\ g.undurable = k.undurable /\ g.pending = k.pending \cup {b} /\ b.seq = 0
      BY <2>2, EditLocallyDoes
    <3>2. k.conf = h.conf /\ h.conf = <<>>
      BY <1>1, <3>1, Facts DEF Continues, Early
    <3>3. \A y \in OwnOf(c, Entries(k.conf)) : FALSE
      BY <3>2 DEF OwnOf, Entries
    <3> HIDE DEF b, g, k, h
    <3>4. Continues(c, k, g)
      BY <3>1, <3>3 DEF Continues
    <3> QED BY <1>1, <3>1, <3>4, ContinuesOn
  <2>3. CASE Flush(c)
    <3>1. /\ Types' /\ Alone(c) /\ Online(c) /\ g = Sent(k) /\ Leaves(c, Outgoing(k))
          /\ down'[c] = down[c] /\ conn'[c] = conn[c]
      BY <2>3, FlushDoes
    <3>2. Continues(c, k, g)
      <4> HIDE DEF k
      <4> QED BY <1>1, <3>1, ContinuesSent
    <3>3. ~Waits(down[c])
      BY <3>1 DEF Online, Waits
    <3>4. conn[c] # "on" => up'[c] = up[c]
      BY <3>1 DEF Leaves
    <3> HIDE DEF h, k, g
    <3> QED BY <1>1, <3>1, <3>2, <3>3, <3>4, ContinuesOn
  <2>4. CASE FlushOffline(c)
    <3>1. /\ Types' /\ Alone(c) /\ down'[c] = down[c] /\ up'[c] = up[c]
          /\ g = k \/ \E last \in h.pending : g = Coalesced(h, last)
      BY <2>4, FlushOfflineDoes
    <3>2. ASSUME NEW last \in h.pending, g = Coalesced(h, last) PROVE Continues(c, h, g)
      <4> DEFINE f == Coalesced(h, last)
                 x == [last EXCEPT !.ops = last.ops \o h.queued]
      <4>1. /\ x.cseq = last.cseq /\ x.seq = last.seq
            /\ f.pending = (h.pending \ {last}) \cup {x} /\ f.undurable = h.undurable /\ f.conf = h.conf
            /\ f.ready = h.ready /\ f.epoch = h.epoch
        <5> HIDE DEF h
        <5> QED BY <1>1, CoalescedOK
      <4> HIDE DEF f, x, h
      <4>2. Continues(c, h, f)
        BY <4>1 DEF Continues
      <4> QED BY <3>2, <4>2 DEF f, h
    <3> HIDE DEF h, k, g
    <3> QED BY <1>1, <3>1, <3>2
  <2>5. CASE Persist(c)
    <3>1. Types' /\ Alone(c) /\ down'[c] = down[c] /\ up'[c] = up[c] /\ g = k
      BY <2>5, PersistDoes
    <3> HIDE DEF h, k, g
    <3> QED BY <1>1, <3>1
  <2>6. CASE Disconnect(c)
    <3>1. Types' /\ Alone(c) /\ down'[c] = <<>> /\ up'[c] = up[c] /\ g = Reset(h)
      BY <2>6, DisconnectDoes
    <3> HIDE DEF h, k, g
    <3>2. g.conf = h.conf /\ g.ready = h.ready /\ g.epoch = h.epoch /\ g.undurable = h.undurable /\ g.pending = h.pending
      BY <1>1, <3>1, ResetOK
    <3>3. Continues(c, h, g)
      BY <3>2 DEF Continues
    <3> QED BY <3>1, <3>3
  <2> QED BY <2>1, <2>2, <2>3, <2>4, <2>5, <2>6
<1>3. ~Waits(<<>>)
  BY DEF Waits
<1>4. Climbs(LastOf(log, c), up'[c])
  <2>1. log' = log
    BY <1>2 DEF Alone
  <2>2. CASE up'[c] = up[c]
    BY <2>2 DEF LedgerOf, Ledger
  <2>3. CASE conn'[c] = "on" /\ down'[c] = down[c] /\ ~Waits(down[c])
    BY <1>2, <2>1, <2>3, UpClimbs
  <2> QED BY <1>2, <2>2, <2>3
<1>5. Ledger(c, epoch, log, up[c], down[c], h)
  BY DEF LedgerOf
<1> HIDE DEF h, g, k
<1>6. Ledger(c, epoch, log, up'[c], down'[c], g)
  BY <1>2, <1>3, <1>4, <1>5, LedgerContinues
<1> QED BY <1>2, <1>6 DEF LedgerOf, Alone, g

LEMMA LedgerEnds ==
  ASSUME Types, NEW c \in Clients, OrderOf(c), LedgerOf(c), CloseTab(c) \/ KillTab(c) \/ Reopen(c)
  PROVE  LedgerOf(c)'
<1> DEFINE g == engine'[c]
<1>1. CopyOK(copy[c])
  BY Facts
<1>2. /\ Alone(c) /\ up'[c] = up[c] /\ down'[c] = <<>>
      /\ g.conf = <<>> /\ ~g.ready /\ g.undurable = {} /\ \A p \in g.pending : p.seq = 0
  <2>1. CASE CloseTab(c) \/ KillTab(c)
    BY <2>1, CloseTabDoes, KillTabDoes, FreshOK
  <2>2. CASE Reopen(c)
    <3>1. Alone(c) /\ tab[c] = "closed" /\ g = Restored(copy[c]) /\ up'[c] = up[c] /\ down'[c] = down[c]
      BY <2>2, ReopenDoes
    <3>2. down[c] = <<>>
      BY <3>1, Facts DEF Greeted
    <3> HIDE DEF g
    <3> QED BY <1>1, <3>1, <3>2, RestoredOK
  <2> QED BY <2>1, <2>2
<1>3. Climbs(LastOf(log, c), up[c]) /\ ~Waits(<<>>)
  BY DEF LedgerOf, Ledger, Waits
<1> HIDE DEF g
<1>4. Ledger(c, epoch, log, up[c], <<>>, g)
  BY <1>2, <1>3, LedgerEmpty
<1> QED BY <1>2, <1>4 DEF LedgerOf, Alone, g

\* What is missed since the last connection is still in the room's memory, for
\* a client that has pending batches numbered by a previous room.
RecentSuffices ==
  \A c \in Clients :
    /\ tab[c] = "open" /\ conn[c] = "off" /\ engine[c].ready /\ engine[c].epoch = epoch
    /\ \E p \in engine[c].pending : p.seq # 0
    => CanCatchUp(engine[c])

LEMMA LedgerJoin ==
  ASSUME Types, NEW c \in Clients, OrderOf(c), LedgerOf(c), "restart" \in Situations => RecentSuffices, Join(c)
  PROVE  LedgerOf(c)'
<1> DEFINE h == engine[c]
           g == Greeting(c)
           last == LastOf(log, c)
<1>1. /\ Alone(c) /\ down'[c] = <<g>> /\ up'[c] = <<>> /\ engine'[c] = h
      /\ tab[c] = "open" /\ conn[c] = "off" /\ g \in Welcome
  BY JoinDoes
<1>2. /\ g.type = "welcome" /\ g.cseq = last /\ g.epoch = epoch
      /\ g.snapshot <=> ~CanCatchUp(h)
  BY Facts DEF Greeting
<1>3. Waits(<<g>>) /\ Head(<<g>>) = g
  BY <1>2 DEF Waits
<1>4. Apart(c, h) /\ Reckoned(c, epoch, log, down[c], h) /\ Stamped(epoch, down[c], h)
  BY DEF LedgerOf, Ledger
<1>5. Climbs(last, <<>>)
  BY DEF Climbs
<1>6. CASE "restart" \in Situations
  <2>1. g.snapshot /\ h.ready /\ h.epoch = epoch => Unstamped(h)
    BY <1>1, <1>2, <1>6 DEF RecentSuffices, Unstamped
  <2> HIDE DEF g, h, last
  <2>2. Stamped(epoch, <<g>>, h)
    BY <1>2, <1>3, <1>4, <1>6, <2>1 DEF Stamped
  <2>3. Reckoned(c, epoch, log, <<g>>, h)
    BY <1>2, <1>3, <1>4 DEF Reckoned, last
  <2>4. Ledger(c, epoch, log, <<>>, <<g>>, h)
    BY <1>4, <1>5, <2>2, <2>3 DEF Ledger, last
  <2> QED BY <1>1, <2>4 DEF LedgerOf, Alone, h
<1>7. CASE "restart" \notin Situations
  <2> HIDE DEF g, h, last
  <2>2. Stamped(epoch, <<g>>, h)
    BY <1>2, <1>3, <1>4, <1>7 DEF Stamped
  <2>3. Reckoned(c, epoch, log, <<g>>, h)
    BY <1>2, <1>3, <1>4 DEF Reckoned, last
  <2>4. Ledger(c, epoch, log, <<>>, <<g>>, h)
    BY <1>4, <1>5, <2>2, <2>3 DEF Ledger, last
  <2> QED BY <1>1, <2>4 DEF LedgerOf, Alone, h
<1> QED BY <1>6, <1>7

LEMMA LedgerWelcomed ==
  ASSUME Types, NEW c \in Clients, OrderOf(c), LinkOf(c), LinkOf(c)', HearsOf(c), LedgerOf(c), ReceiveWelcome(c)
  PROVE  LedgerOf(c)'
<1> DEFINE h == engine[c]
           dn == down[c]
           m == Head(dn)
           w == Welcomed(h, c, m)
           g == Sent(w)
           k == Sealed(h)
           base == BaseOf(h.conf, dn)
<1>1. /\ Types' /\ Alone(c) /\ EngineOK(w) /\ engine'[c] = g /\ down'[c] = Tail(dn) /\ Leaves(c, Outgoing(w))
      /\ conn'[c] = conn[c] /\ conn[c] # "off" /\ dn # <<>> /\ m.type = "welcome" /\ m \in Welcome
  BY ReceiveWelcomeDoes
<1>2. ~Waits(Tail(dn))
  <2>1. dn \in Seq(Messages)
    BY Facts
  <2>2. Tail(dn) \in Seq(Messages)
    BY <1>1, <2>1, EntriesTail
  <2>3. \A i \in DOMAIN Tail(dn) : Tail(dn)[i].type # "welcome"
    BY WelcomeTaken
  <2> QED BY <2>2, <2>3, NoneWaits
<1>3. EngineOK(h) /\ dn \in Seq(Messages) /\ Waits(dn) /\ epoch \in Nat /\ log \in Seq(Sequenced)
  BY <1>1, Facts DEF Waits
<1>4. Greets(c, dn, h)
  BY DEF HearsOf, Hears
<1>5. m.cseq = LastOf(base, c) /\ (~m.snapshot => h.ready /\ h.epoch = m.epoch)
  BY <1>3, <1>4 DEF Greets
<1>6. Reckoned(c, epoch, log, dn, h) /\ Stamped(epoch, dn, h)
  BY DEF LedgerOf, Ledger
<1>7. ~m.snapshot => \A b \in h.undurable : b.cseq <= m.cseq
  BY <1>3, <1>5, <1>6 DEF Reckoned, Reached
<1>8. m.epoch = epoch => m.cseq = LastOf(log, c)
  <2>1. CASE conn[c] = "on"
    BY <1>3, <2>1 DEF LinkOf, Link, Opened
  <2>2. CASE conn[c] # "on"
    <3>1. RoomOf(dn, h) < epoch /\ RoomOf(dn, h) = m.epoch
      BY <1>1, <1>3, <2>2, Facts DEF LinkOf, Link, RoomOf
    <3>2. m.epoch \in Nat
      BY <1>1 DEF Welcome
    <3> QED BY <1>3, <3>1, <3>2
  <2> QED BY <2>1, <2>2
<1>9. k.pending = h.pending \/ k.pending = h.pending \cup {NewBatch(h.next, h.queued)}
  <2> HIDE DEF h
  <2> QED BY <1>3, SealedOK
<1>10. NewBatch(h.next, h.queued).seq = 0
  BY DEF NewBatch
<1>11. \A b \in h.undurable : b.cseq \in Nat
  BY <1>3, EngineFields
<1>12. m.cseq \in Nat
  BY <1>1 DEF Welcome
<1>13. /\ w.ready /\ w.epoch = m.epoch /\ w.conf = base
       /\ \A p \in w.pending : p.cseq > m.cseq
  <2> HIDE DEF h, dn
  <2> QED BY <1>3, WelcomedGives
<1>14. /\ \A u \in w.undurable : u.cseq <= m.cseq
       /\ \A p \in w.pending : p \in k.pending \/ (m.snapshot /\ p \in h.undurable)
  <2> HIDE DEF h, dn
  <2> QED BY <1>3, <1>5, <1>7, WelcomedReached
<1>15. Climbs(LastOf(log, c), up'[c])
  <2>1. conn[c] # "on" => up'[c] = up[c]
    BY <1>1 DEF Leaves
  <2>2. up'[c] = up[c] \/ conn'[c] = "on"
    BY <1>1, <2>1
  <2>3. log' = log /\ ~Waits(down'[c])
    BY <1>1, <1>2 DEF Alone
  <2> QED BY <1>1, <2>2, <2>3, UpClimbs
<1>16. w.pending \subseteq Local /\ base \in Seq(Sequenced)
  <2>1. w.pending \subseteq Local
    <3> HIDE DEF w
    <3> QED BY <1>1, EngineFields
  <2>2. base \in Seq(Sequenced)
    <3> HIDE DEF h, dn
    <3> QED BY <1>3, HeardTyped
  <2> QED BY <2>1, <2>2
<1> HIDE DEF h, dn, m, w, g, k, base
<1>17. Apart(c, w)
  <2>1. \A y \in OwnOf(c, Entries(base)) : y.cseq <= m.cseq /\ y.cseq \in Nat
    <3>1. \A q \in 1..Len(base) : base[q].client = c => base[q].cseq <= m.cseq
      BY <1>5, <1>16, LastOfOK
    <3>2. \A y \in Entries(base) : \E q \in 1..Len(base) : base[q] = y
      BY <1>16, EntriesAre
    <3>3. \A y \in Entries(base) : y.cseq \in Nat
      <4>1. Entries(base) \subseteq Sequenced
        BY <1>16, EntriesAre
      <4> QED BY <4>1 DEF Sequenced
    <3> QED BY <3>1, <3>2, <3>3 DEF OwnOf
  <2>2. \A p \in w.pending : p.cseq \in Nat
    BY <1>16 DEF Local
  <2> QED BY <1>12, <1>13, <2>1, <2>2 DEF Apart
<1>18. Reckoned(c, epoch, log, Tail(dn), w)
  BY <1>2, <1>8, <1>13, <1>14 DEF Reckoned, Reached
<1>19. "restart" \notin Situations => Unstamped(w)
  <2> SUFFICES ASSUME "restart" \notin Situations, NEW p \in w.pending PROVE p.seq = 0
    BY DEF Unstamped
  <2>1. Unstamped(h) /\ (h.ready => h.epoch = m.epoch) /\ m.epoch = epoch
    BY <1>3, <1>6 DEF Stamped, m
  <2>2. CASE p \in k.pending
    BY <1>9, <1>10, <2>1, <2>2 DEF Unstamped
  <2>3. CASE p \in h.undurable
    <3>1. h.ready
      BY <1>6, <2>3 DEF Stamped
    <3>2. p.cseq <= m.cseq
      BY <1>3, <1>6, <2>1, <2>3, <3>1 DEF Reckoned, Reached, m
    <3>3. p.cseq > m.cseq /\ p.cseq \in Nat
      BY <1>11, <1>13, <2>3
    <3> QED BY <1>12, <3>2, <3>3
  <2> QED BY <1>14, <2>2, <2>3
<1>20. Stamped(epoch, Tail(dn), w)
  BY <1>2, <1>3, <1>6, <1>13, <1>19 DEF Stamped, m
<1>21. Ledger(c, epoch, log, up'[c], Tail(dn), w)
  BY <1>15, <1>17, <1>18, <1>20 DEF Ledger
<1>22. Continues(c, w, g)
  BY <1>1, ContinuesSent DEF g
<1>23. Ledger(c, epoch, log, up'[c], Tail(dn), g)
  BY <1>15, <1>21, <1>22, LedgerContinues
<1> QED BY <1>1, <1>23 DEF LedgerOf, Alone

LEMMA LedgerReceived ==
  ASSUME Types, NEW c \in Clients, OrderOf(c), LinkOf(c), HearsOf(c), LedgerOf(c), Receive(c)
  PROVE  LedgerOf(c)'
<1> DEFINE h == engine[c]
           dn == down[c]
           m == Head(dn)
           r == Received(h, c, m)
           g == engine'[c]
<1>1. /\ Alone(c) /\ dn # <<>> /\ m \in Messages /\ m.type # "welcome" /\ up'[c] = up[c] /\ conn[c] # "off"
      /\ \/ g = Reset(h) /\ down'[c] = <<>>
         \/ /\ m.type = "batch" => ~Gap(h, m.batch)
            /\ g = r /\ down'[c] = Tail(dn)
  BY ReceiveDoes
<1>2. ~Waits(Tail(dn))
  <2>1. dn \in Seq(Messages)
    BY Facts
  <2>2. Tail(dn) \in Seq(Messages)
    BY <1>1, <2>1, EntriesTail
  <2>3. \A i \in DOMAIN Tail(dn) : Tail(dn)[i].type # "welcome"
    BY MessageTaken
  <2> QED BY <2>2, <2>3, NoneWaits
<1>3. EngineOK(h) /\ dn \in Seq(Messages) /\ epoch \in Nat /\ log \in Seq(Sequenced)
  BY Facts
<1>4. IsLog(h.conf) /\ NoDuplicate(dn)
  BY DEF HearsOf, Hears
<1>5. ~Waits(dn) /\ ~Waits(<<>>)
  BY <1>1 DEF Waits
<1>6. /\ Ledger(c, epoch, log, up[c], dn, h) /\ Apart(c, h) /\ Climbs(LastOf(log, c), up[c])
      /\ Reckoned(c, epoch, log, dn, h) /\ Stamped(epoch, dn, h)
  BY DEF LedgerOf, Ledger
<1>7. log' = log /\ epoch' = epoch
  BY <1>1 DEF Alone
<1> SUFFICES Ledger(c, epoch, log, up[c], down'[c], g)
  BY <1>1, <1>7 DEF LedgerOf
<1>8. m.type = "batch" /\ m.batch.client = c /\ h.epoch = epoch => m.batch.cseq <= LastOf(log, c)
  <2> SUFFICES ASSUME m.type = "batch", m.batch.client = c, h.epoch = epoch PROVE m.batch.cseq <= LastOf(log, c)
    OBVIOUS
  <2>1. conn[c] = "on"
    <3>1. RoomOf(dn, h) = epoch
      BY <1>5 DEF RoomOf
    <3>2. conn[c] = "dead" => RoomOf(dn, h) < epoch
      BY DEF LinkOf, Link
    <3> QED BY <1>1, <1>3, <3>1, <3>2, Facts
  <2>2. m \in Entries(dn)
    BY <1>1, <1>3, EntriesTail
  <2>3. m.batch \in Told(dn)
    BY <2>2 DEF Told
  <2>4. m.batch \in Entries(log)
    BY <2>1, <2>3, ConnectedHeard
  <2>5. PICK q \in 1..Len(log) : log[q] = m.batch
    BY <1>3, <2>4, EntriesAre
  <2> QED BY <1>3, <2>5, LastOfOK
<1>9. CASE g = Reset(h) /\ down'[c] = <<>>
  <2> HIDE DEF h, g
  <2>1. g.conf = h.conf /\ g.ready = h.ready /\ g.epoch = h.epoch /\ g.undurable = h.undurable /\ g.pending = h.pending
    BY <1>3, <1>9, ResetOK
  <2>2. Continues(c, h, g)
    BY <2>1 DEF Continues
  <2> QED BY <1>5, <1>6, <1>9, <2>2, LedgerContinues
<1>10. CASE (m.type = "batch" => ~Gap(h, m.batch)) /\ g = r /\ down'[c] = Tail(dn)
  <2>1. /\ r.ready = h.ready /\ r.epoch = h.epoch /\ r.pending \subseteq h.pending
        /\ \A u \in r.undurable : u \in h.undurable \/ m.type = "duplicate" \/
             (m.type = "batch" /\ m.batch.client = c /\ u.cseq = m.batch.cseq)
        /\ \A b \in Entries(r.conf) : b \in Entries(h.conf) \/
             (m.type = "batch" /\ b = m.batch /\ (b.client = c => \A p \in r.pending : p.cseq # b.cseq))
    <3>1. dn # <<>> /\ (m.type = "batch" => ~Gap(h, m.batch))
      BY <1>1, <1>10
    <3>2. EngineOK(h) /\ dn \in Seq(Messages) /\ IsLog(h.conf) /\ ~Waits(dn)
      BY <1>3, <1>4, <1>5
    <3> HIDE DEF h, dn
    <3>3. /\ IsLog(r.conf) /\ Entries(r.conf) \subseteq Heard(h.conf, dn) /\ r.durable \in Announced(h, dn)
          /\ Follows(h.conf, r.conf) /\ h.durable <= r.durable
          /\ r.ready = h.ready /\ r.epoch = h.epoch /\ r.queued = h.queued
          /\ r.pending \subseteq h.pending
          /\ \A u \in r.undurable : u \in h.undurable \/ Head(dn).type = "duplicate" \/
               (Head(dn).type = "batch" /\ Head(dn).batch.client = c /\ u.cseq = Head(dn).batch.cseq)
          /\ \A b \in Entries(r.conf) : b \in Entries(h.conf) \/
               (Head(dn).type = "batch" /\ b = Head(dn).batch
                  /\ (b.client = c => \A p \in r.pending : p.cseq # b.cseq))
      BY ONLY <3>1, <3>2, ReceivedHears, Zenon
    <3> HIDE DEF r
    <3> QED BY ONLY <3>3, Zenon
  <2>2. m.type # "duplicate"
    <3>1. m \in Entries(dn)
      BY <1>1, <1>3, EntriesTail
    <3> QED BY <1>4, <3>1 DEF NoDuplicate
  <2> HIDE DEF h, dn, m, r, g
  <2>3. Apart(c, r)
    BY <1>6, <2>1 DEF Apart, OwnOf
  <2>4. Reckoned(c, epoch, log, Tail(dn), r)
    <3>1. ASSUME r.ready, r.epoch = epoch, NEW u \in r.undurable PROVE u.cseq <= LastOf(log, c)
      <4>1. h.ready /\ h.epoch = epoch
        BY <2>1, <3>1
      <4>2. CASE u \in h.undurable
        BY <1>6, <4>1, <4>2 DEF Reckoned, Reached
      <4>3. CASE m.type = "batch" /\ m.batch.client = c /\ u.cseq = m.batch.cseq
        BY <1>8, <4>1, <4>3
      <4> QED BY <2>1, <2>2, <4>2, <4>3
    <3> QED BY <1>2, <3>1 DEF Reckoned, Reached
  <2>5. Unstamped(h) => Unstamped(r)
    BY <2>1 DEF Unstamped
  <2>6. h.ready
    BY MessageTaken DEF h
  <2>7. Stamped(epoch, Tail(dn), r)
    BY <1>2, <1>6, <2>1, <2>5, <2>6 DEF Stamped
  <2> QED BY <1>6, <1>10, <2>3, <2>4, <2>7 DEF Ledger
<1> QED BY <1>1, <1>9, <1>10

LEMMA LedgerClient ==
  ASSUME Types, NEW c \in Clients, OrderOf(c), LinkOf(c), LinkOf(c)', HearsOf(c), LedgerOf(c),
         "restart" \in Situations => RecentSuffices, Client(c) \/ Join(c)
  PROVE  LedgerOf(c)'
<1>1. CASE Edit(c) \/ EditLocally(c) \/ Flush(c) \/ FlushOffline(c) \/ Persist(c) \/ Disconnect(c)
  BY <1>1, LedgerQuiet
<1>2. CASE CloseTab(c) \/ KillTab(c) \/ Reopen(c)
  BY <1>2, LedgerEnds
<1>3. CASE ReceiveWelcome(c)
  BY <1>3, LedgerWelcomed
<1>4. CASE Receive(c)
  BY <1>4, LedgerReceived
<1>5. CASE Join(c)
  BY <1>5, LedgerJoin
<1> QED BY <1>1, <1>2, <1>3, <1>4, <1>5 DEF Client

\* What a step of the room gives to the clients.
LEMMA LedgerOfRoom ==
  ASSUME Types, NEW d \in Clients, OrderOf(d), LedgerOf(d), engine'[d] = engine[d], epoch' = epoch,
         log' \in Seq(Sequenced), LastOf(log, d) <= LastOf(log', d), Climbs(LastOf(log', d), up'[d]),
         down'[d] = down[d] \/ \E m \in Messages : m.type # "welcome" /\ down'[d] = Append(down[d], m)
  PROVE  LedgerOf(d)'
<1> DEFINE h == engine[d]
           dn == down[d]
           dm == down'[d]
<1>1. EngineOK(h) /\ dn \in Seq(Messages) /\ epoch \in Nat /\ log \in Seq(Sequenced)
  BY Facts
<1>2. Ledger(d, epoch, log, up[d], dn, h)
  BY DEF LedgerOf
<1>3. Waits(dm) => Waits(dn) /\ Head(dm) = Head(dn)
  <2> HIDE DEF dn
  <2>1. ASSUME NEW m \in Messages, m.type # "welcome", dm = Append(dn, m) PROVE Waits(dm) => Waits(dn) /\ Head(dm) = Head(dn)
    <3> HIDE DEF dm
    <3> QED BY <1>1, <2>1, WaitsAppend
  <2> QED BY <2>1 DEF dn
<1> DEFINE lh == log'
           v == up'[d]
<1>4. lh \in Seq(Sequenced) /\ LastOf(log, d) <= LastOf(lh, d) /\ Climbs(LastOf(lh, d), v)
  OBVIOUS
<1> HIDE DEF h, dn, dm, lh, v
<1>5. Ledger(d, epoch, lh, v, dm, h)
  BY ONLY <1>1, <1>2, <1>3, <1>4, LedgerRoom
<1> QED BY <1>5 DEF LedgerOf, h, dm, lh, v

LEMMA LedgerHandleBatch ==
  ASSUME Types, NEW c \in Clients, HandleBatch(c), OrderOf(c), LedgerOf(c),
         NEW d \in Clients, OrderOf(d), LedgerOf(d)
  PROVE  LedgerOf(d)'
<1> DEFINE u == up[c]
           x == Head(u)
<1>1. /\ TakenAsRejected(c, x) \/ TakenAsApplied(c, x)
      /\ x \in Unsynced /\ engine'[d] = engine[d] /\ u # <<>>
      /\ up'[d] = IF d = c THEN Tail(u) ELSE up[d]
  BY HandleBatchDoes, NotTwice
<1>2. x.cseq \in Nat
  BY <1>1 DEF Unsynced
<1>3. log \in Seq(Sequenced) /\ u \in Seq(Unsynced) /\ LastOf(log, c) \in Nat /\ LastOf(log, d) \in Nat
  BY Facts
<1>4. Climbs(LastOf(log, c), u) /\ Climbs(LastOf(log, d), up[d])
  BY DEF LedgerOf, Ledger
<1>5. Climbs(x.cseq, Tail(u)) /\ Climbs(LastOf(log, c), Tail(u)) /\ LastOf(log, c) < x.cseq
  <2> DEFINE last == LastOf(log, c)
  <2>1. last \in Nat /\ Climbs(last, u)
    BY <1>3, <1>4
  <2> HIDE DEF last, u
  <2>2. Climbs(x.cseq, Tail(u)) /\ Climbs(last, Tail(u)) /\ last < x.cseq
    BY <1>1, <1>3, <2>1, ClimbsHead
  <2> QED BY <2>2 DEF last
<1> HIDE DEF x, u
<1>6. CASE TakenAsRejected(c, x)
  <2> DEFINE m == [type |-> "reject", cseq |-> x.cseq]
  <2>1. log' = log /\ epoch' = epoch /\ (down'[d] = down[d] \/ down'[d] = Append(down[d], m))
    BY <1>6 DEF TakenAsRejected, server
  <2>2. m \in Messages /\ m.type # "welcome"
    BY <1>2, MessagesMade
  <2> HIDE DEF m
  <2>3. Climbs(LastOf(log, d), up'[d])
    BY <1>1, <1>4, <1>5
  <2>4. /\ log' \in Seq(Sequenced) /\ LastOf(log, d) <= LastOf(log', d) /\ Climbs(LastOf(log', d), up'[d])
    BY <1>3, <2>1, <2>3
  <2> QED BY <1>1, <2>1, <2>2, <2>4, LedgerOfRoom
<1>7. CASE TakenAsApplied(c, x)
  <2> DEFINE b == Accepted(c, log, x)
             m == [type |-> "batch", batch |-> b]
  <2>1. log' = Append(log, b) /\ epoch' = epoch
        /\ (down'[d] = down[d] \/ down'[d] = Append(down[d], m))
    BY <1>7 DEF TakenAsApplied
  <2>2. b \in Sequenced /\ b.client = c /\ b.cseq = x.cseq /\ IsLog(log')
    BY <1>1, <2>1, LogGrown
  <2>3. m \in Messages /\ m.type # "welcome"
    BY <2>2, MessagesMade
  <2> HIDE DEF m, b
  <2>4. /\ d # c => LastOf(Append(log, b), d) = LastOf(log, d)
        /\ b.cseq > LastOf(log, c) => LastOf(Append(log, b), c) = b.cseq
    BY <1>3, <2>2, LastOfAppend
  <2>5. LastOf(log, d) <= LastOf(log', d) /\ Climbs(LastOf(log', d), up'[d])
    <3>1. CASE d = c
      <4>1. LastOf(log', c) = x.cseq
        BY <1>2, <1>3, <1>5, <2>1, <2>2, <2>4
      <4> QED BY <1>1, <1>2, <1>3, <1>5, <3>1, <4>1
    <3>2. CASE d # c
      BY <1>1, <1>3, <1>4, <2>1, <2>4, <3>2
    <3> QED BY <3>1, <3>2
  <2>6. log' \in Seq(Sequenced)
    BY <2>2 DEF IsLog
  <2> QED BY <1>1, <2>1, <2>3, <2>5, <2>6, LedgerOfRoom
<1> QED BY <1>1, <1>6, <1>7

LEMMA LedgerMarkDurable ==
  ASSUME Types, MarkDurable, NEW d \in Clients, OrderOf(d), LedgerOf(d)
  PROVE  LedgerOf(d)'
<1> DEFINE m == [type |-> "durable", seq |-> durable']
<1>1. /\ log' = log /\ epoch' = epoch /\ durable' \in durable + 1 .. Len(log) /\ engine'[d] = engine[d]
      /\ up' = up
      /\ down'[d] = down[d] \/ down'[d] = Append(down[d], m)
  BY MarkDurableDoes
<1>2. durable \in Nat /\ Len(log) \in Nat /\ log \in Seq(Sequenced) /\ LastOf(log, d) \in Nat
  BY Facts
<1>3. m \in Messages /\ m.type # "welcome"
  BY <1>1, <1>2, MessagesMade
<1> HIDE DEF m
<1>4. log' \in Seq(Sequenced) /\ LastOf(log, d) <= LastOf(log', d) /\ Climbs(LastOf(log', d), up'[d])
  BY <1>1, <1>2 DEF LedgerOf, Ledger
<1> QED BY <1>1, <1>3, <1>4, LedgerOfRoom

LEMMA LedgerRestart ==
  ASSUME Types, Restart, NEW d \in Clients, OrderOf(d), LinkOf(d), LedgerOf(d)
  PROVE  LedgerOf(d)'
<1> DEFINE h == engine[d]
           lh == log'
           n == epoch'
<1>1. /\ Types' /\ epoch' = epoch + 1 /\ "restart" \in Situations /\ up'[d] = <<>>
      /\ engine'[d] = h /\ down'[d] = down[d]
  BY RestartDoes
<1>2. EngineOK(h) /\ epoch \in Nat /\ log \in Seq(Sequenced)
  BY Facts
<1>3. h.epoch <= epoch /\ h.epoch \in Nat
  BY <1>2, EngineFields DEF LinkOf, Link
<1>4. lh \in Seq(Sequenced)
  BY <1>1 DEF Types, TypeOK
<1>5. Ledger(d, epoch, log, up[d], down[d], h)
  BY DEF LedgerOf
<1>6. n \in Nat /\ h.epoch # n
  BY <1>1, <1>2, <1>3
<1> HIDE DEF h, lh, n
<1>7. Climbs(LastOf(lh, d), <<>>)
  BY DEF Climbs
<1>8. Ledger(d, n, lh, <<>>, down[d], h)
  BY <1>1, <1>2, <1>4, <1>5, <1>6, <1>7, LedgerRoom
<1> QED BY <1>1, <1>8 DEF LedgerOf, h, lh, n

----------------------------------------------------------------------------
(* What holds of the edits, step by step                                   *)

LEMMA PromisedApart ==
  ASSUME NEW c
  PROVE  \A e \in Promised(c) : e \notin waived[c]
BY DEF Promised

\* Fewer edits promised, more given up.
LEMMA HoldsLess ==
  ASSUME NEW c, NEW P, NEW W, NEW lg, NEW dur, NEW u, NEW dn, NEW h, NEW cp, NEW tb,
         Holds(c, P, W, lg, dur, u, dn, h, cp, tb), NEW Q \in SUBSET P, NEW X, W \subseteq X
  PROVE  Holds(c, Q, X, lg, dur, u, dn, h, cp, tb)
<1>1. AllKnown(c, X, lg, h.conf, u, dn, h, cp)
  BY KnownMore DEF Holds, AllKnown
<1> QED BY <1>1, HoldsRoom

\* The engine of a client that seals its edits.
LEMMA HoldsSealed ==
  ASSUME Types, NEW c \in Clients, OrderOf(c), HoldsOf(c), tab[c] = "open"
  PROVE  Holds(c, Promised(c), waived[c], log, durable, up[c], down[c], Sealed(engine[c]), copy[c], "open")
<1> DEFINE h == engine[c]
           g == Sealed(h)
           cp == copy[c]
           b == NewBatch(h.next, h.queued)
           P == Promised(c)
           W == waived[c]
<1>1. EngineOK(h) /\ CopyOK(cp) /\ Numbering(h, cp, Abroad(c)) /\ cp.next <= h.next
  BY Facts
<1>2. Holds(c, P, W, log, durable, up[c], down[c], h, cp, "open")
  BY DEF HoldsOf
<1>3. b.cseq = h.next /\ b.ops = h.queued
  BY DEF NewBatch
<1>4. h.next \in Nat /\ cp.next \in Nat /\ \A x \in cp.batches : x.cseq \in Nat
  <2> HIDE DEF h, cp
  <2> QED BY <1>1, EngineFields, CopyFields
<1>5. ASSUME h.queued # <<>> PROVE Known(c, W, log, h.conf, up[c], down[c], b)
  <2>1. \A a \in Abroad(c) : a[1] < h.next
    BY <1>1, <1>5 DEF Numbering
  <2> HIDE DEF b
  <2>2. b.cseq \in Nat /\ \A a \in Abroad(c) : a[1] < b.cseq
    BY <1>3, <1>4, <2>1
  <2> QED BY <2>2, KnownNew
<1>6. \A x \in cp.batches : x.cseq < h.next
  BY <1>1, <1>4 DEF Numbering
<1> HIDE DEF P, W, cp, h
<1>7. /\ g.ready = h.ready /\ g.conf = h.conf /\ g.undurable = h.undurable /\ g.durable = h.durable
      /\ h.queued = <<>> => g = h
      /\ h.queued # <<>> => g.pending = h.pending \cup {b}
  BY <1>1, SealedOK
<1>8. Grows(h, g)
  BY <1>1, SealedGrows
<1> HIDE DEF g, b
<1>9. ASSUME NEW y \in Own(g)
      PROVE  \/ \E x \in Own(h) : y.cseq = x.cseq /\ y.ops = x.ops
             \/ /\ Known(c, W, log, h.conf, up[c], down[c], y)
                /\ \A x \in cp.batches : x.cseq = y.cseq => \A e \in Entries(x.ops) : e \in Entries(y.ops)
  <2>1. CASE y \in Own(h)
    BY <2>1
  <2>2. CASE y \notin Own(h)
    <3>1. h.queued # <<>> /\ y = b
      BY <1>7, <1>9, <2>2 DEF Own, NotLocal
    <3>2. \A x \in cp.batches : x.cseq # y.cseq
      BY <1>3, <1>4, <1>6, <3>1
    <3> QED BY <1>5, <3>1, <3>2
  <2> QED BY <2>1, <2>2
<1>10. Holds(c, P, W, log, durable, up[c], down[c], g, cp, "open")
  BY <1>2, <1>7, <1>8, <1>9, HoldsGrows
<1> QED BY <1>10 DEF P, W, g, h, cp

\* What it sends, if the connection carries it.
LEMMA HoldsSends ==
  ASSUME Types, NEW c \in Clients, OrderOf(c), NEW dn \in Seq(Messages), NEW g, EngineOK(g),
         NEW P, NEW W, NEW cp,
         Holds(c, P, W, log, durable, up[c], dn, g, cp, "open"), Leaves(c, Outgoing(g)), ~Waits(dn), NoDuplicate(dn),
         Link(c, epoch, log, conn[c], up[c], dn, g), g.ready, g.epoch = epoch => Reached(g, LastOf(log, c)),
         \A b \in g.pending \cup g.undurable : 0 < b.cseq
  PROVE  Holds(c, P, W, log, durable, up'[c], dn, Sent(g), cp, "open")
<1>1. CASE conn[c] = "on"
  <2>1. PICK s \in Seq(Unsynced) : up'[c] = up[c] \o s /\ Entries(s) = {Bare(b) : b \in Outgoing(g)}
    BY <1>1 DEF Leaves
  <2>2. /\ Docs(BaseOf(g.conf, dn), log, dn) /\ Flies(c, up[c], dn, g, LastOf(log, c)) /\ RoomOf(dn, g) = epoch
    BY <1>1 DEF Link
  <2>3. BaseOf(g.conf, dn) = g.conf /\ RoomOf(dn, g) = g.epoch
    BY DEF BaseOf, RoomOf
  <2>4. Docs(g.conf, log, dn) /\ Reached(g, LastOf(log, c))
    BY <2>2, <2>3
  <2>5. log \in Seq(Sequenced) /\ durable \in 0..Len(log) /\ up[c] \in Seq(Unsynced)
    BY Facts
  <2> DEFINE u == up[c]
  <2>6. u \in Seq(Unsynced) /\ Flies(c, u, dn, g, LastOf(log, c)) /\ Holds(c, P, W, log, durable, u, dn, g, cp, "open")
    BY <2>2, <2>5
  <2> HIDE DEF u
  <2>7. Holds(c, P, W, log, durable, u \o s, dn, Sent(g), cp, "open")
    BY <2>1, <2>4, <2>5, <2>6, HoldsSent
  <2> QED BY <2>1, <2>7 DEF u
<1>2. CASE conn[c] # "on"
  <2> DEFINE f == Sent(g)
  <2>1. up'[c] = up[c]
    BY <1>2 DEF Leaves
  <2>2. Grows(g, f) /\ Drawn(f, g)
    BY SentGrows
  <2>3. f.ready = g.ready /\ f.conf = g.conf /\ f.undurable = g.undurable /\ f.durable = g.durable
    BY SentOK
  <2> HIDE DEF f
  <2>4. \A y \in Own(f) : \E x \in Own(g) : y.cseq = x.cseq /\ y.ops = x.ops
    BY <2>2 DEF Drawn
  <2>5. Holds(c, P, W, log, durable, up[c], dn, f, cp, "open")
    BY <2>2, <2>3, <2>4, HoldsGrows
  <2> QED BY <2>1, <2>5 DEF f
<1> QED BY <1>1, <1>2

LEMMA HoldsEdit ==
  ASSUME Types, NEW c \in Clients, OrderOf(c), HoldsOf(c), Edit(c)
  PROVE  HoldsOf(c)'
<1> DEFINE h == engine[c]
           g == engine'[c]
           e == <<c, made[c] + 1>>
           P == Promised(c)
           Q == Promised(c)'
<1>1. /\ Alone(c) /\ e \in Edits /\ tab[c] = "open" /\ made'[c] = made[c] + 1
      /\ g.queued = Append(h.queued, e) /\ g.ready = h.ready /\ g.conf = h.conf
      /\ g.durable = h.durable /\ g.pending = h.pending /\ g.undurable = h.undurable
      /\ up'[c] = up[c] /\ down'[c] = down[c] /\ tab'[c] = tab[c] /\ copy'[c] = copy[c] /\ waived'[c] = waived[c]
  BY EditDoes
<1>2. EngineOK(h) /\ made[c] \in Nat
  BY OrderFields
<1>3. Q \subseteq P \cup {e}
  <2>1. \A k \in 1 .. made[c] + 1 : k \in 1..made[c] \/ k = made[c] + 1
    BY <1>2
  <2> QED BY <1>1, <2>1 DEF Promised
<1>4. Holds(c, P, waived[c], log, durable, up[c], down[c], h, copy[c], "open")
  BY <1>1 DEF HoldsOf
<1> HIDE DEF h, g, e, P, Q
<1>5. Holds(c, Q, waived[c], log, durable, up[c], down[c], g, copy[c], "open")
  BY <1>1, <1>2, <1>3, <1>4, HoldsEdited
<1> QED BY <1>1, <1>5 DEF HoldsOf, Alone, Q, g

LEMMA HoldsEditLocally ==
  ASSUME Types, NEW c \in Clients, OrderOf(c), HoldsOf(c), EditLocally(c)
  PROVE  HoldsOf(c)'
<1> DEFINE h == engine[c]
           g == engine'[c]
           k == Sealed(h)
           e == <<c, made[c] + 1>>
           b == LocalEdit(k, e)
           P == Promised(c)
           Q == Promised(c)'
           W == waived[c]
<1>1. /\ Alone(c) /\ tab[c] = "open" /\ made'[c] = made[c] + 1 /\ waived'[c] = W \cup {e}
      /\ g.pending = k.pending \cup {b} /\ b.localOnly /\ g.queued = <<>> /\ g.ready = k.ready /\ g.conf = k.conf
      /\ g.durable = k.durable /\ g.undurable = k.undurable
      /\ up'[c] = up[c] /\ down'[c] = down[c] /\ tab'[c] = tab[c] /\ copy'[c] = copy[c]
  BY EditLocallyDoes
<1>2. made[c] \in Nat /\ EngineOK(h)
  BY OrderFields
<1>3. Q \in SUBSET P
  <2>1. \A n \in 1 .. made[c] + 1 : n \in 1..made[c] \/ n = made[c] + 1
    BY <1>2
  <2> QED BY <1>1, <2>1 DEF Promised
<1>4. Holds(c, P, W, log, durable, up[c], down[c], k, copy[c], "open")
  BY <1>1, HoldsSealed
<1>5. k.queued = <<>>
  <2> HIDE DEF h
  <2> QED BY <1>2, SealedOK
<1> HIDE DEF h, g, k, e, b, P, Q, W
<1>6. Own(g) = Own(k)
  BY <1>1 DEF Own, NotLocal
<1>7. Grows(k, g)
  BY <1>5, <1>6 DEF Grows, Entries
<1>8. \A y \in Own(g) : \E x \in Own(k) : y.cseq = x.cseq /\ y.ops = x.ops
  BY <1>6
<1>9. Holds(c, P, W, log, durable, up[c], down[c], g, copy[c], "open")
  BY <1>1, <1>4, <1>7, <1>8, HoldsGrows
<1>10. Holds(c, Q, W \cup {e}, log, durable, up[c], down[c], g, copy[c], "open")
  BY <1>3, <1>9, HoldsLess
<1> QED BY <1>1, <1>10 DEF HoldsOf, Alone, Q, g

LEMMA HoldsFlush ==
  ASSUME Types, NEW c \in Clients, OrderOf(c), LinkOf(c), HearsOf(c), LedgerOf(c), HoldsOf(c), Flush(c)
  PROVE  HoldsOf(c)'
<1> DEFINE h == engine[c]
           k == Sealed(h)
           g == Sent(k)
           dn == down[c]
           P == Promised(c)
           W == waived[c]
<1>1. /\ Alone(c) /\ EngineOK(k) /\ tab[c] = "open" /\ Online(c)
      /\ engine'[c] = g /\ Leaves(c, Outgoing(k))
      /\ conn'[c] = conn[c] /\ down'[c] = dn /\ tab'[c] = tab[c] /\ copy'[c] = copy[c]
      /\ made'[c] = made[c] /\ waived'[c] = W
  BY FlushDoes
<1>2. EngineOK(h) /\ dn \in Seq(Messages) /\ CopyOK(copy[c]) /\ Abroad(c) \in Away
      /\ Numbering(h, copy[c], Abroad(c)) /\ copy[c].next <= h.next /\ Greeted(c)
  BY <1>1, Facts
<1>3. k.ready = h.ready /\ k.epoch = h.epoch /\ k.undurable = h.undurable /\ k.conf = h.conf
  <2> HIDE DEF h
  <2> QED BY <1>2, SealedOK
<1>4. ~Waits(dn) /\ conn[c] # "off"
  BY <1>1 DEF Online, Waits
<1>5. h.ready
  <2>1. ~WelcomeWaits(c)
    BY <1>4 DEF WelcomeWaits, Waits
  <2> QED BY <1>2, <1>4, <2>1, NoMoreWelcome
<1>6. \A b \in k.pending \cup k.undurable : 0 < b.cseq
  <2>1. Numbering(k, copy[c], Abroad(c))
    BY <1>2, NumberingSealed
  <2> QED BY <2>1 DEF Numbering
<1>7. k.epoch = epoch => Reached(k, LastOf(log, c))
  BY <1>3, <1>5 DEF LedgerOf, Ledger, Reckoned, Reached
<1>8. NoDuplicate(dn)
  BY DEF HearsOf, Hears
<1>9. Holds(c, P, W, log, durable, up[c], dn, k, copy[c], "open")
  BY <1>1, HoldsSealed
<1>10. Link(c, epoch, log, conn[c], up[c], dn, k)
  BY LinkSealed
<1>11. Promised(c)' = P
  BY <1>1 DEF Promised
<1> HIDE DEF k, P, W, dn
<1>12. Holds(c, P, W, log, durable, up'[c], dn, g, copy[c], "open")
  BY <1>1, <1>2, <1>3, <1>4, <1>5, <1>6, <1>7, <1>8, <1>9, <1>10, HoldsSends
<1> QED BY <1>1, <1>11, <1>12 DEF HoldsOf, Alone

LEMMA HoldsFlushOffline ==
  ASSUME Types, NEW c \in Clients, OrderOf(c), HoldsOf(c), FlushOffline(c)
  PROVE  HoldsOf(c)'
<1> DEFINE h == engine[c]
           g == engine'[c]
           cp == copy[c]
           P == Promised(c)
           W == waived[c]
<1>1. /\ Alone(c) /\ tab[c] = "open"
      /\ \/ g = Sealed(h)
         \/ \E last \in h.pending : MayGrow(h, last) /\ g = Coalesced(h, last)
      /\ up'[c] = up[c] /\ down'[c] = down[c]
      /\ tab'[c] = tab[c] /\ copy'[c] = cp /\ made'[c] = made[c] /\ waived'[c] = W
  BY FlushOfflineDoes
<1>2. Promised(c)' = P
  BY <1>1 DEF Promised
<1>3. EngineOK(h) /\ CopyOK(cp) /\ Numbering(h, cp, Abroad(c))
  BY Facts
<1>4. Holds(c, P, W, log, durable, up[c], down[c], h, cp, "open")
  BY <1>1 DEF HoldsOf
<1>5. ASSUME NEW last \in h.pending, MayGrow(h, last), g = Coalesced(h, last)
      PROVE  Holds(c, P, W, log, durable, up[c], down[c], g, cp, "open")
  <2> DEFINE f == Coalesced(h, last)
             x == [last EXCEPT !.ops = last.ops \o h.queued]
  <2>1. Untouched(last) /\ ~last.localOnly
    BY <1>5 DEF MayGrow, Untouched
  <2>2. \A a \in Abroad(c) : a[1] < last.cseq
    BY <1>3, <2>1 DEF Numbering
  <2>3. last.cseq \in Nat /\ last.ops \in Seq(Edits) /\ h.queued \in Seq(Edits)
    <3> HIDE DEF h
    <3> QED BY <1>3, EngineFields
  <2>4. /\ x.cseq = last.cseq /\ x.localOnly = last.localOnly /\ x.ops = last.ops \o h.queued
        /\ f.pending = (h.pending \ {last}) \cup {x} /\ f.undurable = h.undurable
        /\ f.conf = h.conf /\ f.durable = h.durable /\ f.ready = h.ready
    <3> HIDE DEF h
    <3> QED BY <1>3, CoalescedOK
  <2>5. Grows(h, f)
    <3> HIDE DEF h
    <3> QED BY <1>3, <2>1, CoalescedGrows
  <2>6. Entries(last.ops) \subseteq Entries(x.ops)
    <3> HIDE DEF x
    <3>1. Entries(last.ops \o h.queued) = Entries(last.ops) \cup Entries(h.queued)
      BY <2>3, EntriesConcat
    <3> QED BY <2>4, <3>1
  <2> HIDE DEF x
  <2>7. Known(c, W, log, h.conf, up[c], down[c], x)
    <3>1. x.cseq \in Nat /\ \A a \in Abroad(c) : a[1] < x.cseq
      BY <2>2, <2>3, <2>4
    <3> QED BY <3>1, KnownNew
  <2>8. last \in Own(h)
    BY <2>1 DEF Own, NotLocal
  <2>9. Alike(h, cp)
    BY <1>4 DEF Holds
  <2>10. \A z \in cp.batches : z.cseq = x.cseq => \A e \in Entries(z.ops) : e \in Entries(x.ops)
    BY <2>4, <2>6, <2>8, <2>9 DEF Alike
  <2> HIDE DEF f, h, P, W, cp
  <2>11. \A y \in Own(f) :
           \/ \E z \in Own(h) : y.cseq = z.cseq /\ y.ops = z.ops
           \/ /\ Known(c, W, log, h.conf, up[c], down[c], y)
              /\ \A z \in cp.batches : z.cseq = y.cseq => \A e \in Entries(z.ops) : e \in Entries(y.ops)
    BY <2>4, <2>7, <2>10 DEF Own, NotLocal
  <2>12. Holds(c, P, W, log, durable, up[c], down[c], f, cp, "open")
    BY <1>4, <2>4, <2>5, <2>11, HoldsGrows
  <2> QED BY <1>5, <2>12 DEF f, h
<1>6. Holds(c, P, W, log, durable, up[c], down[c], Sealed(h), cp, "open")
  BY <1>1, HoldsSealed
<1> HIDE DEF P, W, cp, g
<1>7. Holds(c, P, W, log, durable, up[c], down[c], g, cp, "open")
  BY <1>1, <1>5, <1>6
<1> QED BY <1>1, <1>2, <1>7 DEF HoldsOf, Alone, g

LEMMA HoldsDisconnect ==
  ASSUME Types, NEW c \in Clients, OrderOf(c), HoldsOf(c), Disconnect(c)
  PROVE  HoldsOf(c)'
<1> DEFINE h == engine[c]
           g == Reset(h)
           P == Promised(c)
           W == waived[c]
<1>1. /\ Alone(c) /\ tab[c] = "open"
      /\ down'[c] = <<>> /\ engine'[c] = g
      /\ up'[c] = up[c] /\ tab'[c] = tab[c] /\ copy'[c] = copy[c]
      /\ made'[c] = made[c] /\ waived'[c] = W
  BY DisconnectDoes
<1>2. Promised(c)' = P /\ EngineOK(h)
  BY <1>1, Facts DEF Promised
<1>3. Holds(c, P, W, log, durable, up[c], down[c], h, copy[c], "open")
  BY <1>1 DEF HoldsOf
<1> HIDE DEF h
<1>4. /\ g.conf = h.conf /\ g.ready = h.ready /\ g.durable = h.durable /\ g.pending = h.pending
      /\ g.undurable = h.undurable /\ g.queued = h.queued
  BY <1>2, ResetOK
<1> HIDE DEF g, P, W
<1>5. Holds(c, P, W, log, durable, up[c], <<>>, g, copy[c], "open")
  BY <1>3, <1>4, HoldsCut
<1> QED BY <1>1, <1>2, <1>5 DEF HoldsOf, Alone

LEMMA HoldsWritten ==
  ASSUME Types, NEW c \in Clients, OrderOf(c), Unique(engine[c], copy[c]), HoldsOf(c), tab[c] = "open"
  PROVE  Holds(c, Promised(c), waived[c], log, durable, up[c], down[c], Sealed(engine[c]),
               CopyOf(Sealed(engine[c])), "open")
<1> DEFINE k == Sealed(engine[c])
<1>1. EngineOK(engine[c]) /\ Numbering(engine[c], copy[c], Abroad(c))
  BY Facts
<1>2. EngineOK(k) /\ Unique(k, copy[c])
  BY <1>1, SealedOK, UniqueSealed
<1>3. Holds(c, Promised(c), waived[c], log, durable, up[c], down[c], k, copy[c], "open")
  BY HoldsSealed
<1> HIDE DEF k
<1>4. Holds(c, Promised(c), waived[c], log, durable, up[c], down[c], k, CopyOf(k), "open")
  BY <1>2, <1>3, HoldsCopied
<1> QED BY <1>4 DEF k

LEMMA HoldsPersist ==
  ASSUME Types, NEW c \in Clients, OrderOf(c), Unique(engine[c], copy[c]), HoldsOf(c), Persist(c)
  PROVE  HoldsOf(c)'
<1> DEFINE k == Sealed(engine[c])
           P == Promised(c)
<1>1. /\ Alone(c) /\ tab[c] = "open" /\ engine'[c] = k /\ copy'[c] = CopyOf(k)
      /\ up'[c] = up[c] /\ down'[c] = down[c]
      /\ tab'[c] = tab[c] /\ made'[c] = made[c] /\ waived'[c] = waived[c]
  BY PersistDoes
<1>2. Promised(c)' = P
  BY <1>1 DEF Promised
<1>3. Holds(c, P, waived[c], log, durable, up[c], down[c], k, CopyOf(k), "open")
  BY <1>1, HoldsWritten
<1> HIDE DEF k, P
<1> QED BY <1>1, <1>2, <1>3 DEF HoldsOf, Alone

LEMMA HoldsCloseTab ==
  ASSUME Types, NEW c \in Clients, OrderOf(c), Unique(engine[c], copy[c]), HoldsOf(c), CloseTab(c)
  PROVE  HoldsOf(c)'
<1> DEFINE k == Sealed(engine[c])
           P == Promised(c)
           W == waived[c]
           cp == CopyOf(k)
<1>1. /\ Alone(c) /\ tab[c] = "open" /\ engine'[c] = FreshEngine /\ copy'[c] = cp
      /\ up'[c] = up[c] /\ down'[c] = <<>> /\ EngineOK(k)
      /\ tab'[c] = "closed" /\ made'[c] = made[c] /\ waived'[c] = W
  BY CloseTabDoes
<1>2. Promised(c)' = P /\ EngineOK(engine[c])
  BY <1>1, Facts DEF Promised
<1>3. Holds(c, P, W, log, durable, up[c], down[c], k, cp, "open")
  BY <1>1, HoldsWritten
<1>4. k.queued = <<>>
  BY <1>2, SealedOK
<1>5. cp.batches = {Bare(b) : b \in Own(k)} /\ \A b : Bare(b).cseq = b.cseq /\ Bare(b).ops = b.ops
  <2> HIDE DEF k
  <2> QED BY <1>1, CopyIs
<1> HIDE DEF k, P, W, cp
<1>6. Safe(P, Upto(log, durable), k)
  BY <1>3 DEF Holds, Keeps
<1>7. \A e \in P : InSome(Upto(log, durable), e) \/ InSome(cp.batches, e)
  <2> SUFFICES ASSUME NEW e \in P, ~InSome(Upto(log, durable), e) PROVE InSome(cp.batches, e)
    OBVIOUS
  <2>1. e \notin Entries(k.queued)
    BY <1>4 DEF Entries
  <2>2. InSome(Own(k), e)
    BY <1>6, <2>1 DEF Safe, KeptIn
  <2>3. PICK b \in Own(k) : e \in Entries(b.ops)
    BY <2>2 DEF InSome
  <2>4. Bare(b) \in cp.batches /\ Bare(b).ops = b.ops
    BY <1>5
  <2> QED BY <2>3, <2>4 DEF InSome
<1>8. Holds(c, P, W, log, durable, up[c], <<>>, FreshEngine, cp, "closed")
  BY <1>3, <1>7, HoldsGone
<1> QED BY <1>1, <1>2, <1>8 DEF HoldsOf, Alone

LEMMA HoldsKillTab ==
  ASSUME Types, NEW c \in Clients, OrderOf(c), HoldsOf(c), KillTab(c)
  PROVE  HoldsOf(c)'
<1> DEFINE h == engine[c]
           P == Promised(c)
           Q == Promised(c)'
           W == waived[c]
           X == waived'[c]
           cp == copy[c]
<1>1. /\ Alone(c) /\ tab[c] = "open" /\ engine'[c] = FreshEngine /\ copy'[c] = cp
      /\ up'[c] = up[c] /\ down'[c] = <<>> /\ tab'[c] = "closed" /\ made'[c] = made[c]
      /\ X = W \cup ({<<c, k>> : k \in 1..made[c]} \ EditsOf(cp.batches))
  BY KillTabDoes
<1>2. Holds(c, P, W, log, durable, up[c], down[c], h, cp, "open")
  BY <1>1 DEF HoldsOf
<1>3. \A e \in Q : e \in EditsOf(cp.batches)
  BY <1>1 DEF Promised
<1> HIDE DEF h, P, Q, W, X, cp
<1>4. \A e \in Q : InSome(Upto(log, durable), e) \/ InSome(cp.batches, e)
  BY <1>3 DEF EditsOf, InSome
<1>5. Holds(c, Q, X, log, durable, up[c], <<>>, FreshEngine, cp, "closed")
  BY <1>1, <1>2, <1>4, HoldsGone
<1> QED BY <1>1, <1>5 DEF HoldsOf, Alone, Q, X

LEMMA HoldsReopen ==
  ASSUME Types, NEW c \in Clients, OrderOf(c), Unique(engine[c], copy[c]), HoldsOf(c), Reopen(c)
  PROVE  HoldsOf(c)'
<1> DEFINE h == engine[c]
           P == Promised(c)
           W == waived[c]
           cp == copy[c]
<1>1. /\ Alone(c) /\ tab[c] = "closed" /\ tab'[c] = "open" /\ engine'[c] = Restored(cp)
      /\ up'[c] = up[c] /\ down'[c] = down[c]
      /\ copy'[c] = cp /\ made'[c] = made[c] /\ waived'[c] = W
  BY ReopenDoes
<1>2. Promised(c)' = P /\ CopyOK(cp) /\ down[c] = <<>>
  BY <1>1, Facts DEF Promised, Greeted
<1>3. Holds(c, P, W, log, durable, up[c], <<>>, h, cp, "closed") /\ Unique(h, cp)
  BY <1>1, <1>2 DEF HoldsOf
<1> HIDE DEF h, P, W, cp
<1>4. Holds(c, P, W, log, durable, up[c], <<>>, Restored(cp), cp, "open")
  BY <1>2, <1>3, HoldsReopened
<1> QED BY <1>1, <1>2, <1>4 DEF HoldsOf, Alone

LEMMA HoldsJoin ==
  ASSUME Types, NEW c \in Clients, OrderOf(c), LinkOf(c), LedgerOf(c), HoldsOf(c), Join(c)
  PROVE  HoldsOf(c)'
<1> DEFINE h == engine[c]
           g == Greeting(c)
           P == Promised(c)
           W == waived[c]
           cp == copy[c]
<1>1. /\ Alone(c) /\ tab[c] = "open" /\ down'[c] = <<g>> /\ up'[c] = <<>> /\ engine'[c] = h
      /\ tab'[c] = tab[c] /\ copy'[c] = cp /\ made'[c] = made[c] /\ waived'[c] = W
  BY JoinDoes
<1>2. g.type = "welcome" /\ g.durable = durable
  BY DEF Greeting
<1>3. BaseOf(h.conf, <<g>>) = log
  BY JoinsLog
<1>4. Promised(c)' = P /\ EngineOK(h) /\ CopyOK(cp) /\ log \in Seq(Sequenced) /\ up[c] \in Seq(Unsynced)
  BY <1>1, Facts DEF Promised
<1>5. Climbs(LastOf(log, c), up[c])
  BY DEF LedgerOf, Ledger
<1>6. Holds(c, P, W, log, durable, up[c], down[c], h, cp, "open")
  BY <1>1 DEF HoldsOf
<1> DEFINE u == up[c]
<1>7. u \in Seq(Unsynced) /\ Climbs(LastOf(log, c), u) /\ Holds(c, P, W, log, durable, u, down[c], h, cp, "open")
  BY <1>4, <1>5, <1>6
<1> HIDE DEF h, g, P, W, cp, u
<1>8. Holds(c, P, W, log, durable, <<>>, <<g>>, h, cp, "open")
  BY <1>2, <1>3, <1>4, <1>7, HoldsJoined
<1> QED BY <1>1, <1>4, <1>8 DEF HoldsOf, Alone

\* Numbers rise along a log whose edits do.
LEMMA WellRises ==
  ASSUME NEW lg, IsLog(lg), NEW S, Entries(lg) \subseteq S, Well(S)
  PROVE  Rising(lg)
<1> SUFFICES ASSUME NEW q \in 1..Len(lg), NEW r \in 1..Len(lg), q < r, lg[q].client = lg[r].client
             PROVE  lg[q].cseq < lg[r].cseq
  BY DEF Rising
<1>1. lg[q] \in S /\ lg[r] \in S
  BY EntriesAre DEF IsLog
<1>2. lg[q].seq < lg[r].seq
  BY DEF IsLog
<1> QED BY <1>1, <1>2 DEF Well

LEMMA WelcomedSealed ==
  ASSUME NEW h, EngineOK(h), NEW c, NEW m
  PROVE  Welcomed(Sealed(h), c, m) = Welcomed(h, c, m)
<1> DEFINE k == Sealed(h)
<1>1. EngineOK(k) /\ k.queued = <<>> /\ k.ready = h.ready
  BY SealedOK
<1> HIDE DEF k
<1>2. Sealed(k) = k
  BY <1>1 DEF Sealed
<1>3. Opening(k) = Opening(h)
  BY <1>1, <1>2 DEF Opening, k
<1>4. \A f : Welcomed(f, c, m) =
         [(IF m.snapshot THEN FromSnapshot(Opening(f), m) ELSE FromCatchUp(Opening(f), c, m)) EXCEPT
            !.epoch = m.epoch, !.durable = m.durable, !.ready = TRUE, !.undurable = Unwritten(@, m.durable),
            !.next = Max({@, m.cseq + 1}), !.sentUpTo = m.cseq]
  BY Zenon DEF Welcomed, Opening
<1> QED BY <1>3, <1>4, Zenon DEF k

LEMMA HoldsReceiveWelcome ==
  ASSUME Types, NEW c \in Clients, OrderOf(c), LinkOf(c), HearsOf(c), LedgerOf(c), LedgerOf(c)', HoldsOf(c),
         ReceiveWelcome(c)
  PROVE  HoldsOf(c)'
<1> DEFINE h == engine[c]
           k == Sealed(h)
           dn == down[c]
           m == Head(dn)
           w == Welcomed(h, c, m)
           g == Sent(w)
           P == Promised(c)
           W == waived[c]
           cp == copy[c]
           base == BaseOf(h.conf, dn)
<1>1. /\ Types' /\ Alone(c) /\ EngineOK(w) /\ engine'[c] = g /\ down'[c] = Tail(dn) /\ Leaves(c, Outgoing(w))
      /\ tab'[c] = tab[c] /\ copy'[c] = cp /\ made'[c] = made[c] /\ waived'[c] = W
      /\ conn[c] # "off" /\ dn # <<>> /\ m \in Welcome
  BY ReceiveWelcomeDoes
<1>2. /\ EngineOK(h) /\ dn \in Seq(Messages) /\ log \in Seq(Sequenced) /\ durable \in 0..Len(log)
      /\ Tail(dn) \in Seq(Messages) /\ CopyOK(cp) /\ Abroad(c) \in Away /\ Numbering(h, cp, Abroad(c))
  <2>1. dn \in Seq(Messages)
    BY Facts
  <2>2. Tail(dn) \in Seq(Messages)
    BY <1>1, <2>1, EntriesTail
  <2> QED BY <2>2, Facts
<1>3. /\ tab[c] = "open" /\ cp.next <= h.next /\ Numbering(w, cp, Abroad(c)) /\ Settles(k, w, Abroad(c))
  BY WelcomeTaken
<1>4. Link(c, epoch, log, conn[c], up[c], Tail(dn), w) /\ ~Waits(Tail(dn)) /\ Waits(dn)
  BY LinkWelcomed
<1>5. EngineOK(k) /\ k.queued = <<>> /\ k.ready = h.ready /\ k.epoch = h.epoch /\ k.undurable = h.undurable
      /\ k.conf = h.conf
      /\ (k.pending = h.pending \/ k.pending = h.pending \cup {NewBatch(h.next, h.queued)})
  <2> HIDE DEF h
  <2> QED BY <1>2, SealedOK
<1>6. Numbering(k, cp, Abroad(c))
  BY <1>2, <1>3, NumberingSealed
<1>7. Welcomed(k, c, m) = w
  <2> HIDE DEF h, m
  <2> QED BY <1>2, WelcomedSealed
<1>8. Holds(c, P, W, log, durable, up[c], dn, k, cp, "open")
  BY <1>3, HoldsSealed
<1>9. Hears(c, log, durable, dn, h) /\ Ledger(c, epoch, log, up[c], dn, h)
  BY DEF HearsOf, LedgerOf
<1>10. w.ready /\ w.conf = base
  <2> HIDE DEF h, dn
  <2> QED BY <1>2, <1>4, WelcomedGives
<1>11. w.durable = m.durable
  <2> HIDE DEF h, m
  <2> QED BY <1>1, <1>2, WelcomedOK
<1>12. g.undurable = w.undurable /\ g.epoch = w.epoch /\ g.ready = w.ready
  <2> HIDE DEF w
  <2> QED BY <1>1, SentOK
<1>13. w.epoch = epoch => Reached(w, LastOf(log, c))
  <2>1. Reckoned(c, epoch, log, down[c], engine[c])'
    BY DEF LedgerOf, Ledger
  <2>2. Reckoned(c, epoch, log, Tail(dn), g)
    BY <1>1, <2>1 DEF Alone
  <2> HIDE DEF g, w
  <2> QED BY <1>10, <1>12, <2>2 DEF Reckoned, Reached
<1>14. Promised(c)' = P /\ \A e \in P : e \notin W
  BY <1>1, PromisedApart DEF Promised
<1>15. NewBatch(h.next, h.queued).seq = 0 /\ m.durable \in Nat
  BY <1>1 DEF NewBatch, Welcome
<1>16. NoDuplicate(Tail(dn))
  <2>1. Entries(Tail(dn)) \subseteq Entries(dn)
    BY <1>1, <1>2, EntriesTail
  <2> QED BY <1>9, <2>1 DEF Hears, NoDuplicate
<1> HIDE DEF h, k, w, g, P, W, cp
<1>17. IsLog(base) /\ Rising(base)
  <2>1. IsLog(base) /\ Well(Heard(h.conf, dn)) /\ Entries(base) \subseteq Heard(h.conf, dn)
    BY <1>9 DEF Hears, Heard
  <2> HIDE DEF base
  <2> QED BY <2>1, WellRises
<1>18. base = BaseOf(k.conf, dn)
  BY <1>5
<1> HIDE DEF base
<1>19. /\ m.cseq = LastOf(base, c) /\ m.seq = Len(base)
       /\ ~m.snapshot => k.ready /\ k.epoch = m.epoch
       /\ k.ready /\ k.epoch = m.epoch => Follows(k.conf, base)
  BY <1>4, <1>5, <1>9 DEF Hears, Greets, base
<1> HIDE DEF dn
<1>20. /\ m.snapshot /\ k.epoch = m.epoch => \A p \in k.pending : p.seq = 0
       /\ ~k.ready => k.undurable = {}
  <2>1. Stamped(epoch, dn, h)
    BY <1>9 DEF Ledger
  <2>2. m.snapshot /\ h.epoch = m.epoch => \A p \in h.pending : p.seq = 0
    BY <1>4, <2>1 DEF Stamped, Unstamped
  <2> HIDE DEF m
  <2>3. ~k.ready => k.undurable = {}
    BY <1>5, <2>1 DEF Stamped
  <2> QED BY <1>5, <1>15, <2>2, <2>3
<1>21. /\ \A b \in k.pending \cup k.undurable : 0 < b.cseq
       /\ \A b \in k.undurable : ~b.localOnly
       /\ k.ready => \A p \in k.pending : ~p.localOnly
  BY <1>6 DEF Numbering
<1>22. Due(c, W, k) /\ \A x \in Own(k) : Covers(W, OwnOf(c, Entries(base)), x)
  BY <1>4, <1>8, <1>18 DEF Holds, AllKnown, Known, WelcomeFits
<1>23. PICK s : /\ EngineOK(s) /\ Loses(W, k, s) /\ Forgets(s, w, w.durable)
                /\ k.queued = s.queued /\ Due(c, W, s) /\ IsLog(s.conf)
  <2>1. Waits(dn) /\ dn \in Seq(Messages) /\ EngineOK(k) /\ k.queued = <<>>
    BY <1>2, <1>4, <1>5
  <2>2. \E s : /\ EngineOK(s) /\ Loses(W, k, s)
               /\ Forgets(s, Welcomed(k, c, m), Welcomed(k, c, m).durable)
               /\ k.queued = s.queued /\ Due(c, W, s) /\ IsLog(s.conf)
    BY ONLY <1>17, <1>18, <1>19, <1>20, <1>21, <1>22, <2>1, WelcomedLoses
  <2> QED BY <1>7, <2>2
<1> HIDE DEF m
<1>24. w.durable \in Nat /\ Sound(log, durable, w.durable, Entries(s.conf))
  <2>1. s.conf = base
    BY <1>10, <1>23 DEF Forgets
  <2>2. Sound(log, durable, m.durable, Heard(h.conf, dn))
    BY <1>4, <1>9 DEF Hears, Announced, m
  <2>3. Entries(base) \in SUBSET Heard(h.conf, dn)
    BY DEF Heard, base
  <2> QED BY <1>11, <1>15, <2>1, <2>2, <2>3, SoundLess
<1>25. Drawn(w, k)
  BY <1>3, <1>21, SettlesDrawn
<1>26. Safe(P, Upto(w.conf, w.durable), k)
  <2>1. Safe(P, Upto(BaseOf(k.conf, dn), Head(dn).durable), k)
    BY <1>4, <1>8 DEF Holds, Keeps
  <2> QED BY <1>10, <1>11, <1>18, <2>1 DEF m
<1>27. Holds(c, P, W, log, durable, up[c], Tail(dn), w, cp, "open")
  BY <1>1, <1>2, <1>4, <1>8, <1>14, <1>23, <1>24, <1>25, <1>26, HoldsRead
<1>28. \A b \in w.pending \cup w.undurable : 0 < b.cseq
  BY <1>3 DEF Numbering
<1> DEFINE t == Tail(dn)
<1>29. /\ t \in Seq(Messages) /\ ~Waits(t) /\ NoDuplicate(t) /\ Link(c, epoch, log, conn[c], up[c], t, w)
       /\ Holds(c, P, W, log, durable, up[c], t, w, cp, "open") /\ Leaves(c, Outgoing(w)) /\ EngineOK(w) /\ w.ready
  BY <1>1, <1>2, <1>4, <1>10, <1>16, <1>27
<1> HIDE DEF t
<1>30. Holds(c, P, W, log, durable, up'[c], t, g, cp, "open")
  BY <1>13, <1>28, <1>29, HoldsSends DEF g
<1> QED BY <1>1, <1>3, <1>14, <1>30 DEF HoldsOf, Alone, t

LEMMA HoldsReceive ==
  ASSUME Types, NEW c \in Clients, OrderOf(c), HearsOf(c), HoldsOf(c), Receive(c)
  PROVE  HoldsOf(c)'
<1> DEFINE h == engine[c]
           dn == down[c]
           m == Head(dn)
           r == Received(h, c, m)
           g == engine'[c]
           P == Promised(c)
           W == waived[c]
           cp == copy[c]
<1>1. /\ Alone(c) /\ dn # <<>> /\ m \in Messages /\ m.type # "welcome" /\ up'[c] = up[c]
      /\ \/ g = Reset(h) /\ down'[c] = <<>>
         \/ /\ m.type = "batch" => ~Gap(h, m.batch)
            /\ g = r /\ down'[c] = Tail(dn)
      /\ tab'[c] = tab[c] /\ copy'[c] = cp /\ made'[c] = made[c] /\ waived'[c] = W
  BY ReceiveDoes
<1>2. ~Waits(Tail(dn))
  <2>1. dn \in Seq(Messages)
    BY Facts
  <2>2. Tail(dn) \in Seq(Messages)
    BY <1>1, <2>1, EntriesTail
  <2>3. \A i \in DOMAIN Tail(dn) : Tail(dn)[i].type # "welcome"
    BY MessageTaken
  <2> QED BY <2>2, <2>3, NoneWaits
<1>3. EngineOK(h) /\ dn \in Seq(Messages) /\ log \in Seq(Sequenced) /\ durable \in 0..Len(log)
  BY Facts
<1>4. Hears(c, log, durable, dn, h) /\ ~Waits(dn)
  BY <1>1 DEF HearsOf, Waits
<1>5. tab[c] = "open" /\ h.ready /\ Settles(h, r, Abroad(c)) /\ EngineOK(r)
  BY MessageTaken
<1>6. Holds(c, P, W, log, durable, up[c], dn, h, cp, "open")
  BY <1>5 DEF HoldsOf
<1>7. Promised(c)' = P /\ \A e \in P : e \notin W
  BY <1>1, PromisedApart DEF Promised
<1>8. /\ \A b \in h.undurable : ~b.localOnly
      /\ \A p \in h.pending : ~p.localOnly
  BY <1>5, Facts
<1> SUFFICES Holds(c, P, W, log, durable, up[c], down'[c], g, cp, "open")
  BY <1>1, <1>5, <1>7 DEF HoldsOf, Alone
<1>9. CASE g = Reset(h) /\ down'[c] = <<>>
  <2> HIDE DEF h, g, P, W, cp
  <2>1. /\ g.conf = h.conf /\ g.ready = h.ready /\ g.durable = h.durable /\ g.pending = h.pending
        /\ g.undurable = h.undurable /\ g.queued = h.queued
    BY <1>3, <1>9, ResetOK
  <2> QED BY <1>6, <1>9, <2>1, HoldsCut
<1>10. CASE (m.type = "batch" => ~Gap(h, m.batch)) /\ g = r /\ down'[c] = Tail(dn)
  <2>1. IsLog(h.conf) /\ m.type # "duplicate" /\ m \in Entries(dn)
    <3>1. m \in Entries(dn)
      BY <1>1, <1>3, EntriesTail
    <3> QED BY <1>4, <3>1 DEF Hears, NoDuplicate
  <2> HIDE DEF h, g, P, W, cp
  <2>2. (\A x \in Own(h) : AnswerFits(c, W, m, x)) /\ Due(c, W, h)
    BY <1>6, <2>1 DEF Holds, AllKnown, Known, AnswersFit
  <2> HIDE DEF dn
  <2>3. /\ IsLog(r.conf) /\ Entries(r.conf) \subseteq Heard(h.conf, dn) /\ r.durable \in Announced(h, dn)
        /\ Follows(h.conf, r.conf) /\ h.durable <= r.durable
    <3>1. dn # <<>> /\ (Head(dn).type = "batch" => ~Gap(h, Head(dn).batch))
      BY <1>1, <1>10
    <3>2. EngineOK(h) /\ dn \in Seq(Messages) /\ IsLog(h.conf) /\ ~Waits(dn)
      BY <1>3, <1>4, <2>1
    <3>3. LET f == Received(h, c, Head(dn))
          IN  /\ IsLog(f.conf) /\ Entries(f.conf) \subseteq Heard(h.conf, dn) /\ f.durable \in Announced(h, dn)
              /\ Follows(h.conf, f.conf) /\ h.durable <= f.durable
      BY ONLY <3>1, <3>2, ReceivedHears
    <3> QED BY <3>3
  <2> HIDE DEF m
  <2>4. PICK s : /\ EngineOK(s) /\ Loses(W, h, s) /\ Forgets(s, r, r.durable)
                 /\ h.queued = s.queued /\ Due(c, W, s) /\ IsLog(s.conf)
    BY <1>1, <1>3, <1>8, <2>1, <2>2, ReceivedLoses
  <2> HIDE DEF r
  <2>5. r.durable \in Nat /\ h.durable \in Nat /\ r.conf \in Seq(Sequenced) /\ h.conf \in Seq(Sequenced)
    BY <1>3, <1>5, EngineFields
  <2>6. Sound(log, durable, r.durable, Entries(s.conf))
    <3>1. s.conf = r.conf
      BY <2>4 DEF Forgets
    <3>2. Sound(log, durable, r.durable, Heard(h.conf, dn))
      BY <1>4, <2>3 DEF Hears
    <3>3. Entries(r.conf) \in SUBSET Heard(h.conf, dn)
      BY <2>3
    <3> QED BY <3>1, <3>2, <3>3, SoundLess
  <2>7. Drawn(r, h)
    BY <1>5, <1>8, SettlesDrawn
  <2>8. Safe(P, Upto(r.conf, r.durable), h)
    <3>1. Safe(P, Upto(h.conf, h.durable), h)
      BY <1>5, <1>6 DEF Holds, Keeps
    <3>2. Upto(h.conf, h.durable) \subseteq Upto(r.conf, r.durable)
      BY <2>3, <2>5 DEF Follows, Upto
    <3> QED BY <3>1, <3>2 DEF Safe, InSome
  <2>9. Holds(c, P, W, log, durable, up[c], Tail(dn), r, cp, "open")
    BY <1>1, <1>2, <1>3, <1>6, <1>7, <2>4, <2>5, <2>6, <2>7, <2>8, HoldsRead
  <2> QED BY <1>10, <2>9
<1> QED BY <1>1, <1>9, <1>10

LEMMA HoldsClient ==
  ASSUME Types, NEW c \in Clients, OrderOf(c), Unique(engine[c], copy[c]), LinkOf(c), HearsOf(c), LedgerOf(c),
         LedgerOf(c)', HoldsOf(c), Client(c) \/ Join(c)
  PROVE  HoldsOf(c)'
<1>1. CASE Edit(c) \/ EditLocally(c) \/ Flush(c) \/ FlushOffline(c)
  BY <1>1, HoldsEdit, HoldsEditLocally, HoldsFlush, HoldsFlushOffline
<1>2. CASE ReceiveWelcome(c) \/ Receive(c) \/ Disconnect(c) \/ Join(c)
  BY <1>2, HoldsReceiveWelcome, HoldsReceive, HoldsDisconnect, HoldsJoin
<1>3. CASE Persist(c) \/ CloseTab(c) \/ KillTab(c) \/ Reopen(c)
  BY <1>3, HoldsPersist, HoldsCloseTab, HoldsKillTab, HoldsReopen
<1> QED BY <1>1, <1>2, <1>3 DEF Client

\* The room acts.
LEMMA HoldsOfRoom ==
  ASSUME Types, NEW d \in Clients, OrderOf(d), HoldsOf(d), engine'[d] = engine[d], copy'[d] = copy[d],
         tab'[d] = tab[d], made'[d] = made[d], waived[d] \subseteq waived'[d],
         Upto(log, durable) \subseteq Upto(log', durable'),
         down'[d] = down[d] \/ \E m \in Messages : m.type # "welcome" /\ down'[d] = Append(down[d], m),
         \A x \in Own(engine[d]) \cup copy[d].batches :
           /\ x.cseq \in Nat
           /\ Known(d, waived[d], log, engine[d].conf, up[d], down[d], x) =>
                Known(d, waived'[d], log', engine[d].conf, up'[d], down'[d], x)
  PROVE  HoldsOf(d)'
<1> DEFINE h == engine[d]
           cp == copy[d]
           dn == down[d]
           dm == down'[d]
           P == Promised(d)
           Q == Promised(d)'
           W == waived[d]
           X == waived'[d]
           u == up[d]
           v == up'[d]
           tb == tab[d]
           lh == log'
           dux == durable'
<1>1. Holds(d, P, W, log, durable, u, dn, h, cp, tb)
  BY DEF HoldsOf
<1>2. Q \in SUBSET P
  BY DEF Promised
<1>3. dn \in Seq(Messages)
  BY Facts
<1>4. Waits(dm) => Waits(dn) /\ Head(dm) = Head(dn)
  <2> HIDE DEF dn
  <2>1. ASSUME NEW m \in Messages, m.type # "welcome", dm = Append(dn, m) PROVE Waits(dm) => Waits(dn) /\ Head(dm) = Head(dn)
    <3> HIDE DEF dm
    <3> QED BY <1>3, <2>1, WaitsAppend
  <2> QED BY <2>1 DEF dn
<1>5. AllKnown(d, X, lh, h.conf, v, dm, h, cp)
  <2>1. AllKnown(d, W, log, h.conf, u, dn, h, cp)
    BY <1>1 DEF Holds
  <2> QED BY <2>1 DEF AllKnown
<1>6. W \subseteq X /\ Upto(log, durable) \subseteq Upto(lh, dux)
  OBVIOUS
<1>7. engine'[d] = h /\ copy'[d] = cp /\ tab'[d] = tb
  OBVIOUS
<1> HIDE DEF h, cp, dn, dm, P, Q, W, X, u, v, tb, lh, dux
<1>8. Holds(d, Q, X, lh, dux, v, dm, h, cp, tb)
  BY ONLY <1>1, <1>2, <1>4, <1>5, <1>6, HoldsRoom
<1> QED BY <1>7, <1>8 DEF HoldsOf, Q, X, lh, dux, v, dm

LEMMA OwnNumbers ==
  ASSUME Types, NEW d \in Clients, OrderOf(d)
  PROVE  \A x \in Own(engine[d]) \cup copy[d].batches : x.cseq \in Nat
<1> DEFINE h == engine[d]
           cp == copy[d]
<1>1. EngineOK(h) /\ CopyOK(cp)
  BY Facts
<1> HIDE DEF h, cp
<1>2. \A x \in Own(h) \cup cp.batches : x.cseq \in Nat
  BY <1>1, EngineFields, CopyFields DEF Own, NotLocal
<1> QED BY <1>2 DEF h, cp

LEMMA HoldsHandleBatch ==
  ASSUME Types, NEW c \in Clients, HandleBatch(c), OrderOf(c), LedgerOf(c),
         NEW d \in Clients, OrderOf(d), HoldsOf(d)
  PROVE  HoldsOf(d)'
<1> DEFINE u == up[c]
           y == Head(u)
<1>1. /\ TakenAsRejected(c, y) \/ TakenAsApplied(c, y)
      /\ y \in Unsynced /\ u # <<>>
      /\ up'[d] = IF d = c THEN Tail(u) ELSE up[d]
      /\ engine'[d] = engine[d] /\ copy'[d] = copy[d] /\ tab'[d] = tab[d] /\ made'[d] = made[d]
  BY HandleBatchDoes, NotTwice
<1>2. y.cseq \in Nat
  BY <1>1 DEF Unsynced
<1>3. /\ log \in Seq(Sequenced) /\ u \in Seq(Unsynced) /\ EngineOK(engine[d]) /\ durable \in 0..Len(log)
      /\ down[d] \in Seq(Messages)
  BY Facts
<1>4. engine[d].conf \in Seq(Sequenced)
  BY <1>3, EngineFields
<1>5. Climbs(LastOf(log, c), u)
  BY DEF LedgerOf, Ledger
<1>6. \A x \in Own(engine[d]) \cup copy[d].batches : x.cseq \in Nat
  BY OwnNumbers
<1>7. CASE TakenAsRejected(c, y)
  <2> DEFINE m == [type |-> "reject", cseq |-> y.cseq]
  <2>1. /\ log' = log /\ durable' = durable
        /\ waived'[d] = IF d = c THEN waived[d] \cup Entries(y.ops) ELSE waived[d]
        /\ down'[d] = down[d] \/ (d = c /\ down'[d] = Append(down[d], m))
    BY <1>7 DEF TakenAsRejected, server
  <2>2. m \in Messages /\ m.type = "reject" /\ m.cseq = y.cseq
    BY <1>2, MessagesMade
  <2> HIDE DEF m
  <2>3. ASSUME NEW x, x.cseq \in Nat, Known(d, waived[d], log, engine[d].conf, up[d], down[d], x)
        PROVE  Known(d, waived'[d], log', engine[d].conf, up'[d], down'[d], x)
    <3>1. CASE d # c
      BY <1>1, <2>1, <2>3, <3>1
    <3>2. CASE d = c
      <4> DEFINE cf == engine[c].conf
                 dn == down[c]
                 dm == down'[c]
                 W == waived[c]
      <4>1. /\ Known(c, W, log, cf, u, dn, x) /\ cf \in Seq(Sequenced) /\ dn \in Seq(Messages)
            /\ dm = dn \/ dm = Append(dn, m)
        BY <1>3, <1>4, <2>1, <2>3, <3>2
      <4> HIDE DEF cf, dn, dm, W, u
      <4>2. Known(c, W \cup Entries(Head(u).ops), log, cf, Tail(u), dm, x)
        BY <1>1, <1>3, <1>5, <2>2, <2>3, <4>1, KnownRefused
      <4> QED BY <1>1, <2>1, <3>2, <4>2 DEF cf, dm, W
    <3> QED BY <3>1, <3>2
  <2>4. waived[d] \subseteq waived'[d] /\ Upto(log, durable) \subseteq Upto(log', durable')
    BY <2>1
  <2>5. m.type # "welcome"
    BY <2>2
  <2> QED BY <1>1, <1>6, <2>1, <2>2, <2>3, <2>4, <2>5, HoldsOfRoom
<1>8. CASE TakenAsApplied(c, y)
  <2> DEFINE b == Accepted(c, log, y)
             m == [type |-> "batch", batch |-> b]
  <2>1. /\ log' = Append(log, b) /\ durable' = durable /\ waived'[d] = waived[d]
        /\ down'[d] = down[d] \/ down'[d] = Append(down[d], m)
    BY <1>8 DEF TakenAsApplied
  <2>2. b \in Sequenced /\ b.client = c /\ IsLog(log') /\ \A q \in 1..durable : q \in 1..Len(log') /\ log'[q] = log[q]
    BY <1>1, <2>1, LogGrown
  <2>3. m \in Messages /\ m.type = "batch" /\ m.batch = b
    BY <2>2, MessagesMade
  <2>4. ASSUME NEW x, x.cseq \in Nat, Known(d, waived[d], log, engine[d].conf, up[d], down[d], x)
        PROVE  Known(d, waived'[d], log', engine[d].conf, up'[d], down'[d], x)
    <3> DEFINE cf == engine[d].conf
               dn == down[d]
               dm == down'[d]
               W == waived[d]
    <3>1. CASE d # c
      <4> DEFINE v == up[d]
      <4>1. Known(d, W, log, cf, v, dn, x) /\ dn \in Seq(Messages)
        BY <1>3, <2>4
      <4>2. dm = dn \/ \E k \in Messages : Silent(d, k) /\ dm = Append(dn, k)
        <5> HIDE DEF b, m
        <5>1. Silent(d, m)
          BY <2>2, <2>3, <3>1 DEF Silent
        <5> QED BY <2>1, <2>3, <5>1
      <4>3. \E k \in Sequenced : k.client # d /\ log' = Append(log, k)
        <5> HIDE DEF b
        <5> QED BY <2>1, <2>2, <3>1
      <4> DEFINE lh == log'
      <4>4. lh = log \/ \E k \in Sequenced : k.client # d /\ lh = Append(log, k)
        BY <4>3
      <4> HIDE DEF b, m, cf, dn, dm, W, v, lh
      <4>5. Known(d, W, lh, cf, v, dm, x)
        BY <1>3, <2>4, <4>1, <4>2, <4>4, KnownTold
      <4> QED BY <1>1, <2>1, <3>1, <4>5 DEF cf, dm, W, v, lh
    <3>2. CASE d = c
      <4>1. /\ Known(c, W, log, cf, u, dn, x) /\ cf \in Seq(Sequenced) /\ dn \in Seq(Messages)
            /\ dm = dn \/ dm = Append(dn, [type |-> "batch", batch |-> Accepted(c, log, Head(u))])
        BY <1>3, <1>4, <2>1, <2>4, <3>2
      <4> HIDE DEF cf, dn, dm, W, u, b, m
      <4>2. Known(c, W, Append(log, Accepted(c, log, Head(u))), cf, Tail(u), dm, x)
        BY <1>1, <1>3, <1>5, <2>4, <4>1, KnownTaken
      <4> QED BY <1>1, <2>1, <3>2, <4>2 DEF cf, dm, W, b
    <3> QED BY <3>1, <3>2
  <2> HIDE DEF b, m
  <2>5. waived[d] \subseteq waived'[d] /\ Upto(log, durable) \subseteq Upto(log', durable')
    <3>1. Upto(log, durable) \subseteq Upto(log', durable)
      BY <1>3, <2>2 DEF Upto
    <3> QED BY <2>1, <3>1
  <2>6. m.type # "welcome"
    BY <2>3
  <2> QED BY <1>1, <1>6, <2>1, <2>3, <2>4, <2>5, <2>6, HoldsOfRoom
<1> QED BY <1>1, <1>7, <1>8

LEMMA HoldsMarkDurable ==
  ASSUME Types, MarkDurable, NEW d \in Clients, OrderOf(d), HoldsOf(d)
  PROVE  HoldsOf(d)'
<1> DEFINE m == [type |-> "durable", seq |-> durable']
<1>1. /\ log' = log /\ durable' \in durable + 1 .. Len(log) /\ engine'[d] = engine[d]
      /\ copy'[d] = copy[d] /\ tab'[d] = tab[d] /\ made'[d] = made[d] /\ waived'[d] = waived[d] /\ up'[d] = up[d]
      /\ down'[d] = down[d] \/ down'[d] = Append(down[d], m)
  BY MarkDurableDoes
<1>2. durable \in Nat /\ Len(log) \in Nat /\ log \in Seq(Sequenced) /\ down[d] \in Seq(Messages)
  BY Facts
<1>3. m \in Messages /\ m.type = "durable"
  BY <1>1, <1>2, MessagesMade
<1> HIDE DEF m
<1>4. Silent(d, m)
  BY <1>3 DEF Silent
<1>5. ASSUME NEW x, x.cseq \in Nat, Known(d, waived[d], log, engine[d].conf, up[d], down[d], x)
      PROVE  Known(d, waived'[d], log', engine[d].conf, up'[d], down'[d], x)
  <2> DEFINE cf == engine[d].conf
             dn == down[d]
             dm == down'[d]
             W == waived[d]
             v == up[d]
  <2>1. Known(d, W, log, cf, v, dn, x) /\ dn \in Seq(Messages)
    BY <1>2, <1>5
  <2>2. dm = dn \/ \E k \in Messages : Silent(d, k) /\ dm = Append(dn, k)
    BY <1>1, <1>3, <1>4
  <2> HIDE DEF cf, dn, dm, W, v
  <2>3. Known(d, W, log, cf, v, dm, x)
    BY <1>2, <1>5, <2>1, <2>2, KnownTold
  <2> QED BY <1>1, <2>3 DEF cf, dm, W, v
<1>6. \A x \in Own(engine[d]) \cup copy[d].batches : x.cseq \in Nat
  BY OwnNumbers
<1>7. waived[d] \subseteq waived'[d] /\ Upto(log, durable) \subseteq Upto(log', durable')
  BY <1>1, <1>2 DEF Upto
<1>8. m.type # "welcome"
  BY <1>3
<1> QED BY <1>1, <1>3, <1>5, <1>6, <1>7, <1>8, HoldsOfRoom

LEMMA HoldsRestart ==
  ASSUME Types, LogOrdered, Restart, NEW d \in Clients, OrderOf(d), LedgerOf(d), HoldsOf(d)
  PROVE  HoldsOf(d)'
<1>1. PICK n \in durable..Len(log) : log' = SubSeq(log, 1, n) /\ durable' = n /\ Len(log') = n
  BY RestartDoes
<1>2. /\ \A q \in 1..Len(log') : log'[q] = log[q]
      /\ up'[d] = <<>> /\ UNCHANGED <<down, engine, tab, copy, made, waived>>
  BY RestartDoes
<1>3. durable \in Nat /\ Len(log) \in Nat /\ log \in Seq(Sequenced) /\ up[d] \in Seq(Unsynced)
  BY Facts
<1>4. n \in 0..Len(log) /\ Rising(log)
  BY <1>1, <1>3 DEF LogOrdered, Rising
<1>5. Climbs(LastOf(log, d), up[d])
  BY DEF LedgerOf, Ledger
<1>6. ASSUME NEW x, x.cseq \in Nat, Known(d, waived[d], log, engine[d].conf, up[d], down[d], x)
      PROVE  Known(d, waived'[d], log', engine[d].conf, up'[d], down'[d], x)
  <2> DEFINE cf == engine[d].conf
             dn == down[d]
             W == waived[d]
             v == up[d]
  <2>1. Known(d, W, log, cf, v, dn, x) /\ v \in Seq(Unsynced) /\ Climbs(LastOf(log, d), v)
    BY <1>3, <1>5, <1>6
  <2> HIDE DEF cf, dn, W, v
  <2>2. Known(d, W, SubSeq(log, 1, n), cf, <<>>, dn, x)
    BY <1>3, <1>4, <1>6, <2>1, KnownRestart
  <2> QED BY <1>1, <1>2, <2>2 DEF cf, dn, W
<1>7. \A x \in Own(engine[d]) \cup copy[d].batches : x.cseq \in Nat
  BY OwnNumbers
<1>8. Upto(log, durable) \subseteq Upto(log', durable')
  BY <1>1, <1>2, <1>3 DEF Upto
<1> QED BY <1>2, <1>6, <1>7, <1>8, HoldsOfRoom

----------------------------------------------------------------------------
(* Every step                                                              *)

LEMMA EditsStill ==
  ASSUME NEW d \in Clients, Still(d), UNCHANGED <<log, durable, epoch>>, HearsOf(d), LedgerOf(d), HoldsOf(d)
  PROVE  HearsOf(d)' /\ LedgerOf(d)' /\ HoldsOf(d)'
<1>1. Promised(d)' = Promised(d)
  BY DEF Still, Promised
<1> QED BY <1>1 DEF Still, HearsOf, LedgerOf, HoldsOf

LEMMA EditsClient ==
  ASSUME Types, OrderInv, UniqueInv, LinkInv, LinkInv', EditsInv,
         "restart" \in Situations => RecentSuffices, NEW c \in Clients, Client(c) \/ Join(c), NEW d \in Clients
  PROVE  HearsOf(d)' /\ LedgerOf(d)' /\ HoldsOf(d)'
<1>1. CASE d = c
  <2>1. /\ OrderOf(c) /\ Unique(engine[c], copy[c]) /\ LinkOf(c) /\ LinkOf(c)'
        /\ HearsOf(c) /\ LedgerOf(c) /\ HoldsOf(c) /\ Well(Entries(log))
    BY DEF OrderInv, UniqueInv, LinkInv, EditsInv
  <2>2. HearsOf(c)'
    BY <2>1, HearsClient
  <2>3. LedgerOf(c)'
    BY <2>1, LedgerClient
  <2>4. HoldsOf(c)'
    BY <2>1, <2>3, HoldsClient
  <2> QED BY <1>1, <2>2, <2>3, <2>4
<1>2. CASE d # c
  <2>1. Still(d) /\ UNCHANGED <<log, durable, epoch>>
    BY <1>2, ClientAlone DEF Alone
  <2>2. HearsOf(d) /\ LedgerOf(d) /\ HoldsOf(d)
    BY DEF EditsInv
  <2> QED BY <2>1, <2>2, EditsStill
<1> QED BY <1>1, <1>2

LEMMA EditsStep ==
  ASSUME Types, OrderInv, UniqueInv, LinkInv, LinkInv', EditsInv,
         "restart" \in Situations => RecentSuffices, [Next]_vars
  PROVE  EditsInv'
<1>1. CASE UNCHANGED vars
  <2>1. \A d \in Clients : Still(d) /\ HearsOf(d) /\ LedgerOf(d) /\ HoldsOf(d)
    BY <1>1 DEF vars, server, wires, device, Still, EditsInv
  <2>2. UNCHANGED <<log, durable, epoch>>
    BY <1>1 DEF vars, server
  <2>3. \A d \in Clients : HearsOf(d)' /\ LedgerOf(d)' /\ HoldsOf(d)'
    BY <2>1, <2>2, EditsStill
  <2> QED BY <2>2, <2>3 DEF EditsInv
<1>2. CASE Next
  <2> DEFINE Good(d) == HearsOf(d)' /\ LedgerOf(d)' /\ HoldsOf(d)'
  <2>1. Well(Entries(log'))
    BY <1>2, WellStep
  <2>2. /\ \A d \in Clients : OrderOf(d) /\ LinkOf(d) /\ HearsOf(d) /\ LedgerOf(d) /\ HoldsOf(d)
        /\ Well(Entries(log)) /\ LogOrdered
    BY DEF OrderInv, LinkInv, EditsInv
  <2>3. ASSUME NEW c \in Clients, Client(c) \/ Join(c), NEW d \in Clients PROVE Good(d)
    BY <2>3, EditsClient
  <2>4. ASSUME NEW c \in Clients, HandleBatch(c), NEW d \in Clients PROVE Good(d)
    <3>1. HearsOf(d)'
      BY <2>1, <2>2, <2>4, HearsHandleBatch
    <3>2. LedgerOf(d)'
      BY <2>2, <2>4, LedgerHandleBatch
    <3>3. HoldsOf(d)'
      BY <2>2, <2>4, HoldsHandleBatch
    <3> QED BY <3>1, <3>2, <3>3
  <2>5. ASSUME MarkDurable, NEW d \in Clients PROVE Good(d)
    <3>1. HearsOf(d)'
      BY <2>2, <2>5, HearsMarkDurable
    <3>2. LedgerOf(d)'
      BY <2>2, <2>5, LedgerMarkDurable
    <3>3. HoldsOf(d)'
      BY <2>2, <2>5, HoldsMarkDurable
    <3> QED BY <3>1, <3>2, <3>3
  <2>6. ASSUME Restart, NEW d \in Clients PROVE Good(d)
    <3>1. HearsOf(d)'
      BY <2>2, <2>6, HearsRestart
    <3>2. LedgerOf(d)'
      BY <2>2, <2>6, LedgerRestart
    <3>3. HoldsOf(d)'
      BY <2>2, <2>6, HoldsRestart
    <3> QED BY <3>1, <3>2, <3>3
  <2>7. \A d \in Clients : Good(d)
    <3> HIDE DEF Good
    <3> QED BY <1>2, <2>3, <2>4, <2>5, <2>6 DEF Next
  <2> QED BY <2>1, <2>7 DEF EditsInv
<1> QED BY <1>1, <1>2

LEMMA InitEdits == Init => EditsInv
<1> SUFFICES ASSUME Init PROVE EditsInv
  OBVIOUS
<1>1. log = <<>> /\ durable = 0 /\ Entries(<<>>) = {}
  BY DEF Init, Entries
<1>2. Well(Entries(log))
  BY <1>1 DEF Well
<1>3. ASSUME NEW c \in Clients PROVE HearsOf(c) /\ LedgerOf(c) /\ HoldsOf(c)
  <2> DEFINE h == engine[c]
  <2>1. /\ h = FreshEngine /\ copy[c] = NoCopy /\ up[c] = <<>> /\ down[c] = <<>> /\ made[c] = 0 /\ waived[c] = {}
        /\ ~Waits(<<>>) /\ tab[c] = "open"
    BY DEF Init, Waits
  <2>2. h.conf = <<>> /\ h.durable = 0 /\ ~h.ready /\ h.undurable = {} /\ h.pending = {} /\ copy[c].batches = {}
    BY <2>1, FreshOK
  <2> HIDE DEF h
  <2>3. Hears(c, <<>>, 0, <<>>, h)
    BY <2>2, HearsNothing
  <2>4. Ledger(c, epoch, <<>>, <<>>, <<>>, h)
    <3>1. Climbs(LastOf(<<>>, c), <<>>)
      BY DEF Climbs
    <3> QED BY <2>1, <2>2, <3>1, LedgerEmpty
  <2>5. Promised(c) = {}
    BY <2>1 DEF Promised
  <2>6. Own(h) = {}
    BY <2>2 DEF Own, NotLocal
  <2>7. Holds(c, {}, {}, <<>>, 0, <<>>, <<>>, h, copy[c], tab[c])
    BY <2>1, <2>2, <2>6 DEF Holds, AllKnown, Alike, Due, Backed, Keeps, Safe
  <2> QED BY <1>1, <2>1, <2>3, <2>4, <2>5, <2>7 DEF HearsOf, LedgerOf, HoldsOf, h
<1> QED BY <1>2, <1>3 DEF EditsInv

----------------------------------------------------------------------------
(* What the invariant gives                                                *)

LEMMA SomeEdits ==
  ASSUME NEW S, NEW e, InSome(S, e)
  PROVE  e \in EditsOf(S)
BY DEF InSome, EditsOf

LEMMA EditsGiveKept ==
  ASSUME Types, EditsInv
  PROVE  NothingLost
<1> SUFFICES ASSUME NEW c \in Clients, NEW e \in Promised(c) PROVE e \in EditsOf(LogUpTo(durable)) \cup Kept(c)
  BY DEF NothingLost
<1> DEFINE h == engine[c]
           Safely == Upto(log, durable)
<1>1. Safely \subseteq LogUpTo(durable)
  <2>1. durable \in Nat /\ Len(log) \in Nat
    BY TypesAre DEF ServerTypes
  <2> QED BY <2>1 DEF Upto, LogUpTo
<1>2. InSome(Safely, e) => e \in EditsOf(LogUpTo(durable))
  BY <1>1 DEF InSome, EditsOf
<1>3. Keeps(Promised(c), h, copy[c], down[c], log, durable, tab[c])
  BY DEF EditsInv, HoldsOf, Holds
<1>4. tab[c] \in {"open", "closed"}
  BY TypesAre DEF TypesOf
<1> HIDE DEF h, Safely
<1>5. CASE tab[c] = "open"
  <2>1. InSome(Safely, e) \/ KeptIn(h, e)
    BY <1>3, <1>5 DEF Keeps, Safe, Safely
  <2>2. ASSUME KeptIn(h, e) PROVE e \in EditsOf(h.undurable \cup h.pending) \cup Entries(h.queued)
    BY <2>2 DEF KeptIn, InSome, Own, NotLocal, EditsOf
  <2> QED BY <1>2, <1>5, <2>1, <2>2 DEF Kept, h
<1>6. CASE tab[c] = "closed"
  <2>1. InSome(Safely, e) \/ InSome(copy[c].batches, e)
    BY <1>3, <1>6 DEF Keeps, Safely
  <2>2. Kept(c) = EditsOf(copy[c].batches)
    BY <1>6 DEF Kept
  <2> QED BY <1>2, <2>1, <2>2, SomeEdits
<1> QED BY <1>4, <1>5, <1>6

\* An edit is in one of a device's numbers, at one place.
LEMMA SameEdit ==
  ASSUME NEW c, NEW n, NEW M \in Away, Ordered(c, n, M), NEW x \in M, NEW y \in M,
         NEW i \in DOMAIN x[2], NEW j \in DOMAIN y[2], x[2][i] = y[2][j]
  PROVE  x[1] = y[1] /\ (x[2] = y[2] => i = j)
<1> DEFINE p == x[2]
           q == y[2]
<1>1. x[1] \in Nat /\ y[1] \in Nat /\ p \in Seq(Edits) /\ q \in Seq(Edits)
  BY AwayFields
<1>2. Ascends(p) /\ (x[1] < y[1] => Before(p, q)) /\ (y[1] < x[1] => Before(q, p))
  BY DEF Ordered
<1>3. i \in 1..Len(p) /\ j \in 1..Len(q) /\ p[i] = q[j]
  BY <1>1
<1> HIDE DEF p, q
<1>4. p[i] \in Edits
  BY <1>1, <1>3
<1>5. p[i][2] \in Nat
  BY <1>4, BoundsAssumption DEF Edits
<1>6. i \in DOMAIN p /\ j \in DOMAIN q
  BY <1>1, <1>3
<1>7. ~(x[1] < y[1]) /\ ~(y[1] < x[1])
  <2>1. p[i][2] = q[j][2]
    BY <1>3
  <2>2. ~(p[i][2] < q[j][2]) /\ ~(q[j][2] < p[i][2])
    BY <1>5, <2>1
  <2> QED BY <1>2, <1>6, <2>2 DEF Before
<1>8. p = q => i = j
  <2> SUFFICES ASSUME p = q, i # j PROVE FALSE
    OBVIOUS
  <2>1. i < j \/ j < i
    BY <1>1, <1>3
  <2>2. p[i] = p[j] /\ j \in DOMAIN p
    BY <1>3, <1>6
  <2>3. p[i][2] < p[j][2] \/ p[j][2] < p[i][2]
    BY <1>2, <1>6, <2>1, <2>2 DEF Ascends
  <2> QED BY <1>5, <2>2, <2>3
<1> QED BY <1>1, <1>7, <1>8 DEF p, q

\* What an editor shows of its own edits, and under which number: one that the
\* room has not confirmed to it.
Unconfirmed(h, n, x) ==
  \/ \E p \in h.pending : n = p.cseq /\ x = <<"pending", p.cseq, p.ops>>
  \/ n = h.next /\ x = <<"queued", 0, h.queued>>
Confirmed(h, q, x) == q \in 1..Len(h.conf) /\ x = <<"confirmed", q, h.conf[q].ops>>

LEMMA ShownParts ==
  ASSUME NEW h, EngineOK(h), NEW x \in Shown(h)
  PROVE  (\E q : Confirmed(h, q, x)) \/ \E n : Unconfirmed(h, n, x)
<1>1. h.conf \in Seq(Sequenced)
  BY EngineFields
<1>2. CASE \E q \in DOMAIN h.conf : x = <<"confirmed", q, h.conf[q].ops>>
  BY <1>1, <1>2 DEF Confirmed
<1>3. CASE \E p \in h.pending : x = <<"pending", p.cseq, p.ops>>
  BY <1>3 DEF Unconfirmed
<1>4. CASE x = <<"queued", 0, h.queued>>
  BY <1>4 DEF Unconfirmed
<1> QED BY <1>2, <1>3, <1>4 DEF Shown

LEMMA ConfirmedOnce ==
  ASSUME NEW h, EngineOK(h), IsLog(h.conf), Well(Entries(h.conf)), NEW q, NEW x, Confirmed(h, q, x),
         NEW r, NEW y, Confirmed(h, r, y), NEW i \in DOMAIN x[3], NEW j \in DOMAIN y[3], x[3][i] = y[3][j]
  PROVE  x = y /\ i = j
<1> DEFINE a == h.conf[q]
           b == h.conf[r]
<1>1. /\ a \in Sequenced /\ b \in Sequenced /\ a.seq = q /\ b.seq = r /\ q \in Nat /\ r \in Nat
      /\ a \in Entries(h.conf) /\ b \in Entries(h.conf) /\ x[3] = a.ops /\ y[3] = b.ops
      /\ x = <<"confirmed", q, a.ops>> /\ y = <<"confirmed", r, b.ops>>
  <2>1. h.conf \in Seq(Sequenced) /\ q \in 1..Len(h.conf) /\ r \in 1..Len(h.conf)
    BY EngineFields DEF Confirmed
  <2>2. a \in Entries(h.conf) /\ b \in Entries(h.conf)
    BY <2>1, EntriesAre
  <2>3. x = <<"confirmed", q, a.ops>> /\ y = <<"confirmed", r, b.ops>>
    BY DEF Confirmed
  <2> QED BY <2>1, <2>2, <2>3 DEF IsLog
<1> DEFINE s == a.ops
           t == b.ops
<1>2. s \in Seq(Edits) /\ t \in Seq(Edits)
  BY <1>1 DEF Sequenced
<1>3. i \in 1..Len(s) /\ j \in 1..Len(t) /\ s[i] = t[j] /\ i \in DOMAIN s /\ j \in DOMAIN t
  BY <1>1, <1>2, SMTT(30)
<1>4. /\ s[i][1] = a.client /\ t[j][1] = b.client /\ Ascends(s)
      /\ (a.client = b.client /\ q < r => Before(s, t)) /\ (b.client = a.client /\ r < q => Before(t, s))
  BY <1>1, <1>3 DEF Well
<1> HIDE DEF a, b, s, t
<1>5. s[i][2] \in Nat /\ s[i][2] = t[j][2] /\ s[i][1] = t[j][1]
  <2>1. s[i] \in Edits
    BY <1>2, <1>3
  <2> QED BY <1>3, <2>1, BoundsAssumption DEF Edits
<1>6. q = r
  <2>1. ~(q < r) /\ ~(r < q)
    BY <1>3, <1>4, <1>5 DEF Before
  <2> QED BY <1>1, <2>1
<1>7. s = t
  BY <1>6 DEF s, t, a, b
<1>8. i = j
  <2>1. ~(i < j) /\ ~(j < i)
    BY <1>3, <1>4, <1>5, <1>7 DEF Ascends
  <2> QED BY <1>2, <1>3, <2>1
<1> QED BY <1>1, <1>6, <1>7, <1>8 DEF s, t

\* Its number and its edits are among those of the device.
LEMMA UnconfirmedMine ==
  ASSUME NEW h, EngineOK(h), NEW cp, NEW A, NEW n, NEW x, Unconfirmed(h, n, x)
  PROVE  n \in Nat /\ x[3] \in Seq(Edits) /\ <<n, x[3]>> \in Mine(h, cp, A)
<1>1. h.next \in Nat /\ h.queued \in Seq(Edits)
  BY EngineFields
<1>2. CASE n = h.next /\ x = <<"queued", 0, h.queued>>
  BY <1>1, <1>2 DEF Mine
<1>3. ASSUME NEW p \in h.pending, n = p.cseq, x = <<"pending", p.cseq, p.ops>>
      PROVE  n \in Nat /\ x[3] \in Seq(Edits) /\ <<n, x[3]>> \in Mine(h, cp, A)
  <2>1. p.cseq \in Nat /\ p.ops \in Seq(Edits)
    BY EngineFields
  <2>2. <<n, x[3]>> = Pair(p)
    BY <1>3 DEF Pair
  <2> QED BY <1>3, <2>1, <2>2 DEF Mine
<1> QED BY <1>2, <1>3 DEF Unconfirmed

LEMMA UnconfirmedOnce ==
  ASSUME NEW h, EngineOK(h), NEW cp, Unique(h, cp), NEW A, Numbering(h, cp, A), NEW n, NEW x, Unconfirmed(h, n, x),
         NEW y, Unconfirmed(h, n, y)
  PROVE  x = y
<1>1. \A p \in h.pending : p.cseq # h.next
  <2>1. h.next \in Nat /\ \A p \in h.pending : p.cseq \in Nat /\ p.cseq < h.next
    BY EngineFields DEF Numbering
  <2> QED BY <2>1
<1>2. CASE n = h.next
  BY <1>1, <1>2 DEF Unconfirmed
<1>3. ASSUME NEW p \in h.pending, n = p.cseq, x = <<"pending", p.cseq, p.ops>> PROVE x = y
  <2>1. PICK k \in h.pending : n = k.cseq /\ y = <<"pending", k.cseq, k.ops>>
    BY <1>1, <1>3 DEF Unconfirmed
  <2>2. p.ops = k.ops
    BY <1>3, <2>1 DEF Unique
  <2> QED BY <1>3, <2>1, <2>2
<1> QED BY <1>2, <1>3 DEF Unconfirmed

LEMMA EditsGiveOnce ==
  ASSUME Types, OrderInv, UniqueInv, EditsInv, NEW c \in Clients, engine[c].ready,
         NEW x \in Shown(engine[c]), NEW y \in Shown(engine[c]),
         NEW i \in DOMAIN x[3], NEW j \in DOMAIN y[3], x[3][i] = y[3][j]
  PROVE  x = y /\ i = j
<1> DEFINE h == engine[c]
           cp == copy[c]
           A == Abroad(c)
           M == Mine(h, cp, A)
           n == made[c]
<1>1. /\ EngineOK(h) /\ CopyOK(cp) /\ A \in Away /\ Numbering(h, cp, A) /\ Ordered(c, n, M) /\ Unique(h, cp)
      /\ Well(Entries(h.conf)) /\ IsLog(h.conf) /\ Apart(c, h)
      /\ \A b \in Entries(h.conf) : b.client = c => Pair(b) \in A
  <2>1. OrderOf(c) /\ Unique(h, cp) /\ HearsOf(c) /\ LedgerOf(c)
    BY DEF OrderInv, UniqueInv, EditsInv
  <2>2. EngineOK(h) /\ CopyOK(cp) /\ A \in Away /\ Numbering(h, cp, A)
    BY <2>1, Facts
  <2> QED BY <2>1, <2>2, AbroadHas DEF OrderOf, HearsOf, Hears, LedgerOf, Ledger
<1>2. h.ready /\ x \in Shown(h) /\ y \in Shown(h)
  OBVIOUS
<1> HIDE DEF h, cp, A, n
<1>3. M \in Away
  BY <1>1, MineTyped
<1>4. ASSUME NEW q, NEW u, Confirmed(h, q, u), NEW k, NEW v, Unconfirmed(h, k, v),
             NEW s \in DOMAIN u[3], NEW t \in DOMAIN v[3], u[3][s] = v[3][t]
      PROVE  FALSE
  <2> DEFINE b == h.conf[q]
             z == <<k, v[3]>>
             w == <<b.cseq, b.ops>>
  <2>1. b \in Entries(h.conf) /\ u[3] = b.ops /\ b \in Sequenced
    <3>1. h.conf \in Seq(Sequenced) /\ q \in 1..Len(h.conf) /\ u = <<"confirmed", q, b.ops>>
      BY <1>1, <1>4, EngineFields DEF Confirmed
    <3> QED BY <3>1, EntriesAre
  <2>2. k \in Nat /\ v[3] \in Seq(Edits) /\ z \in M
    BY <1>1, <1>4, UnconfirmedMine
  <2>3. b.ops[s][1] = b.client
    BY <1>1, <1>4, <2>1 DEF Well
  <2>4. v[3][t][1] = c
    BY <1>1, <1>4, <2>2 DEF Ordered
  <2>5. b.client = c
    BY <1>4, <2>1, <2>3, <2>4
  <2>6. w \in A /\ w \in M
    BY <1>1, <2>1, <2>5 DEF Pair, Mine
  <2>7. w[1] = b.cseq /\ w[2] = b.ops /\ z[1] = k /\ z[2] = v[3]
    OBVIOUS
  <2>8. s \in DOMAIN w[2] /\ t \in DOMAIN z[2] /\ w[2][s] = z[2][t]
    BY <1>4, <2>1, <2>7
  <2> HIDE DEF w, z, b, M
  <2>9. w[1] = z[1]
    BY <1>1, <1>3, <2>2, <2>6, <2>8, SameEdit
  <2>10. b.cseq = k
    BY <2>7, <2>9
  <2>11. CASE k = h.next
    <3>1. b.cseq < h.next
      BY <1>1, <1>2, <2>6, <2>7 DEF Numbering
    <3> QED BY <2>2, <2>10, <2>11, <3>1
  <2>12. ASSUME NEW p \in h.pending, k = p.cseq PROVE FALSE
    BY <1>1, <2>1, <2>5, <2>10, <2>12 DEF Apart, OwnOf
  <2> QED BY <1>4, <2>11, <2>12 DEF Unconfirmed
<1>5. ASSUME NEW k, NEW l, Unconfirmed(h, k, x), Unconfirmed(h, l, y) PROVE x = y /\ i = j
  <2> DEFINE w == <<k, x[3]>>
             z == <<l, y[3]>>
  <2>1. w \in M /\ z \in M
    BY <1>1, <1>5, UnconfirmedMine
  <2>2. w[1] = k /\ w[2] = x[3] /\ z[1] = l /\ z[2] = y[3]
    OBVIOUS
  <2>3. i \in DOMAIN w[2] /\ j \in DOMAIN z[2] /\ w[2][i] = z[2][j]
    BY <2>2
  <2> HIDE DEF w, z, M
  <2>4. w[1] = z[1] /\ (w[2] = z[2] => i = j)
    BY <1>1, <1>3, <2>1, <2>3, SameEdit
  <2>5. Unconfirmed(h, k, y)
    BY <1>5, <2>2, <2>4
  <2>6. x = y
    BY <1>1, <1>5, <2>5, UnconfirmedOnce
  <2> QED BY <2>2, <2>4, <2>6
<1> HIDE DEF M
<1>6. /\ (\E q : Confirmed(h, q, x)) \/ \E k : Unconfirmed(h, k, x)
      /\ (\E q : Confirmed(h, q, y)) \/ \E k : Unconfirmed(h, k, y)
  BY <1>1, <1>2, ShownParts
<1>7. ASSUME NEW q, NEW r, Confirmed(h, q, x), Confirmed(h, r, y) PROVE x = y /\ i = j
  BY <1>1, <1>7, ConfirmedOnce
<1> QED BY <1>4, <1>5, <1>6, <1>7

LEMMA EditsGiveShown ==
  ASSUME Types, EditsInv, NEW c \in Clients, engine[c].ready, NEW e \in Promised(c)
  PROVE  \E x \in Shown(engine[c]) : e \in Entries(x[3])
<1> DEFINE h == engine[c]
           W == waived[c]
           P == Promised(c)
<1>1. EngineOK(h) /\ Safe(P, Upto(h.conf, h.durable), h) /\ Due(c, W, h)
  <2>1. EngineOK(h)
    BY TypesAre DEF TypesOf
  <2> QED BY <2>1 DEF EditsInv, HoldsOf, Holds, Keeps
<1>2. e \in P /\ e \notin W
  BY PromisedApart
<1> HIDE DEF h, W, P
<1>3. h.conf \in Seq(Sequenced) /\ DOMAIN h.conf = 1..Len(h.conf)
  <2>1. h.conf \in Seq(Sequenced)
    BY <1>1, EngineFields
  <2> QED BY <2>1
<1>4. ASSUME NEW n, NEW b \in Upto(h.conf, n), e \in Entries(b.ops) PROVE \E x \in Shown(h) : e \in Entries(x[3])
  <2>1. PICK q \in DOMAIN h.conf : b = h.conf[q]
    BY <1>3 DEF Upto
  <2> DEFINE x == <<"confirmed", q, h.conf[q].ops>>
  <2>2. x \in Shown(h) /\ x[3] = b.ops
    BY <2>1 DEF Shown
  <2> QED BY <1>4, <2>2
<1>5. ASSUME NEW p \in h.pending, e \in Entries(p.ops) PROVE \E x \in Shown(h) : e \in Entries(x[3])
  <2> DEFINE x == <<"pending", p.cseq, p.ops>>
  <2>1. x \in Shown(h) /\ x[3] = p.ops
    BY DEF Shown
  <2> QED BY <1>5, <2>1
<1>6. ASSUME e \in Entries(h.queued) PROVE \E x \in Shown(h) : e \in Entries(x[3])
  <2> DEFINE x == <<"queued", 0, h.queued>>
  <2>1. x \in Shown(h) /\ x[3] = h.queued
    BY DEF Shown
  <2> QED BY <1>6, <2>1
<1>7. ASSUME NEW b \in h.undurable, e \in Entries(b.ops) PROVE \E x \in Shown(h) : e \in Entries(x[3])
  <2>1. In(OwnOf(c, Upto(h.conf, b.seq)), b.cseq, e)
    BY <1>1, <1>2, <1>7 DEF Due, Within
  <2> QED BY <1>4, <2>1 DEF In, OwnOf
<1>8. InSome(Upto(h.conf, h.durable), e) \/ InSome(Own(h), e) \/ e \in Entries(h.queued)
  BY <1>1, <1>2 DEF Safe, KeptIn
<1>9. \E x \in Shown(h) : e \in Entries(x[3])
  <2>1. CASE InSome(Upto(h.conf, h.durable), e)
    BY <1>4, <2>1 DEF InSome
  <2>2. CASE InSome(Own(h), e)
    BY <1>5, <1>7, <2>2 DEF InSome, Own, NotLocal
  <2> QED BY <1>6, <1>8, <2>1, <2>2
<1> QED BY <1>9 DEF h

LEMMA EditsGiveVisible ==
  ASSUME Types, OrderInv, UniqueInv, EditsInv
  PROVE  EditsStayVisible
<1> SUFFICES ASSUME NEW c \in Clients, engine[c].ready
             PROVE  /\ \A x, y \in Shown(engine[c]) : \A i \in DOMAIN x[3], j \in DOMAIN y[3] :
                         x[3][i] = y[3][j] => x = y /\ i = j
                    /\ Promised(c) \subseteq UNION {Entries(x[3]) : x \in Shown(engine[c])}
  BY DEF EditsStayVisible
<1>1. ASSUME NEW x \in Shown(engine[c]), NEW y \in Shown(engine[c]), NEW i \in DOMAIN x[3], NEW j \in DOMAIN y[3],
             x[3][i] = y[3][j]
      PROVE  x = y /\ i = j
  BY <1>1, EditsGiveOnce
<1>2. \A e \in Promised(c) : \E x \in Shown(engine[c]) : e \in Entries(x[3])
  BY EditsGiveShown
<1> QED BY <1>1, <1>2

EditsKeptInv == Types /\ OrderInv /\ UniqueInv /\ LinkInv /\ EditsInv

LEMMA InitEditsKept == Init => EditsKeptInv
BY InitTypes, InitOrder, InitLink, InitEdits DEF EditsKeptInv

LEMMA EditsKeptStep ==
  ASSUME "stale" \notin Situations, EditsKeptInv, "restart" \in Situations => RecentSuffices, [Next]_vars
  PROVE  EditsKeptInv'
<1>1. Types /\ OrderInv /\ UniqueInv /\ LinkInv /\ EditsInv
  BY DEF EditsKeptInv
<1>2. Types' /\ OrderInv' /\ UniqueInv' /\ LinkInv'
  BY <1>1, TypesStep, OrderStep, UniqueStep, LinkStep
<1>3. EditsInv'
  BY <1>1, <1>2, EditsStep
<1> QED BY <1>2, <1>3 DEF EditsKeptInv

\* A device forgets an edit (an acknowledgement, a `durable', a welcome that
\* counts it as applied) only when it is in the part of the log a restart keeps:
\* persistNow and unsyncedBatches drop nothing too early (syncEngine.ts), what
\* ever breaks and in which order.  Where the server may restart, as long as the
\* batches a device has numbered by an earlier room are not welcomed with a
\* snapshot of the room it knows (RecentSuffices).
THEOREM NoEditLost ==
  ASSUME "stale" \notin Situations
  PROVE  Spec /\ []("restart" \in Situations => RecentSuffices) => []NothingLost
<1> DEFINE R == "restart" \in Situations => RecentSuffices
<1>1. Init => EditsKeptInv
  BY InitEditsKept
<1>2. EditsKeptInv /\ R /\ [Next]_vars => EditsKeptInv'
  BY EditsKeptStep
<1>3. EditsKeptInv => NothingLost
  BY EditsGiveKept DEF EditsKeptInv
<1> QED BY <1>1, <1>2, <1>3, PTL DEF Spec

\* The document an editor shows has each of its user's edits, at one place:
\* none is shown twice while a batch is both confirmed and kept to be sent
\* again, none disappears between an acknowledgement and a welcome
\* (applyServerBatch, welcome: syncEngine.ts); under the same hypotheses.
THEOREM EditsVisible ==
  ASSUME "stale" \notin Situations
  PROVE  Spec /\ []("restart" \in Situations => RecentSuffices) => []EditsStayVisible
<1> DEFINE R == "restart" \in Situations => RecentSuffices
<1>1. Init => EditsKeptInv
  BY InitEditsKept
<1>2. EditsKeptInv /\ R /\ [Next]_vars => EditsKeptInv'
  BY EditsKeptStep
<1>3. EditsKeptInv => EditsStayVisible
  BY EditsGiveVisible DEF EditsKeptInv
<1> QED BY <1>1, <1>2, <1>3, PTL DEF Spec

----------------------------------------------------------------------------
(* Where a room remembers what it accepted, RecentSuffices holds             *)

\* catchUpLimit batches are enough for what the room took since it was loaded.
RoomRemembers == Len(log) - loaded <= CatchUpLimit

\* What a client has of the present room goes as far as what it was loaded with.
Since(ld, e, dn, h) ==
  /\ h.ready /\ h.epoch = e => ld <= Len(h.conf)
  /\ Waits(dn) /\ Head(dn).epoch = e => ld <= Len(BaseOf(h.conf, dn))
SinceOf(c) == Since(loaded, epoch, down[c], engine[c])
SinceInv   == \A c \in Clients : SinceOf(c)

LEMMA SinceWelcomed ==
  ASSUME Types, NEW c \in Clients, OrderOf(c), SinceOf(c), ReceiveWelcome(c)
  PROVE  SinceOf(c)'
<1> DEFINE h == engine[c]
           dn == down[c]
           m == Head(dn)
           w == Welcomed(h, c, m)
           t == Tail(dn)
<1>1. /\ Alone(c) /\ EngineOK(w) /\ engine'[c] = Sent(w) /\ down'[c] = t /\ dn # <<>> /\ m.type = "welcome"
  BY ReceiveWelcomeDoes
<1>2. EngineOK(h) /\ dn \in Seq(Messages) /\ t \in Seq(Messages)
  BY <1>1, Facts
<1>3. Waits(dn) /\ ~Waits(t)
  <2>1. \A i \in DOMAIN t : t[i].type # "welcome"
    BY WelcomeTaken
  <2> QED BY <1>1, <1>2, <2>1, NoneWaits DEF Waits
<1>4. w.epoch = m.epoch /\ w.conf = BaseOf(h.conf, dn)
  <2> HIDE DEF h, dn
  <2> QED BY ONLY <1>2, <1>3, WelcomedGives
<1>5. Since(loaded, epoch, dn, h)
  BY DEF SinceOf
<1> HIDE DEF w
<1>6. Sent(w).epoch = w.epoch /\ Sent(w).conf = w.conf
  BY <1>1, SentOK
<1> HIDE DEF h, dn, t, m
<1>7. w.epoch = epoch => loaded <= Len(w.conf)
  BY <1>3, <1>4, <1>5 DEF Since, m
<1> QED BY <1>1, <1>3, <1>6, <1>7 DEF Alone, SinceOf, Since

LEMMA SinceReceived ==
  ASSUME Types, NEW c \in Clients, OrderOf(c), SinceOf(c), Receive(c)
  PROVE  SinceOf(c)'
<1> DEFINE h == engine[c]
           dn == down[c]
           m == Head(dn)
           t == Tail(dn)
           g == Received(h, c, m)
<1>1. /\ Alone(c) /\ dn # <<>> /\ m \in Messages /\ m.type # "welcome"
      /\ \/ down'[c] = <<>> /\ engine'[c] = Reset(h)
         \/ down'[c] = t /\ engine'[c] = g
  BY ReceiveDoes
<1>2. EngineOK(h) /\ dn \in Seq(Messages) /\ t \in Seq(Messages) /\ loaded \in Nat
  BY <1>1, Facts, TypesAre DEF ServerTypes
<1>3. ~Waits(<<>>) /\ ~Waits(t)
  <2>1. Greeted(c)
    BY Facts
  <2>2. \A i \in DOMAIN t : t[i].type # "welcome"
    <3>1. \A i \in 1..Len(t) : i + 1 \in DOMAIN dn /\ t[i] = dn[i + 1] /\ i + 1 # 1
      BY <1>1, <1>2
    <3>2. \A i \in DOMAIN dn : dn[i].type = "welcome" => i = 1
      BY <2>1 DEF Greeted
    <3>3. DOMAIN t = 1..Len(t)
      BY <1>2
    <3> QED BY <3>1, <3>2, <3>3
  <2> QED BY <1>2, <2>2, NoneWaits DEF Waits
<1>4. h.ready /\ h.epoch = epoch => loaded <= Len(h.conf)
  BY DEF SinceOf, Since
<1> HIDE DEF h, dn, t
<1>5. CASE down'[c] = <<>> /\ engine'[c] = Reset(h)
  BY <1>1, <1>2, <1>3, <1>4, <1>5, ResetOK DEF Alone, SinceOf, Since
<1>6. CASE down'[c] = t /\ engine'[c] = g
  <2> HIDE DEF m
  <2>1. g.ready = h.ready /\ g.epoch = h.epoch /\ Len(h.conf) <= Len(g.conf)
    <3>1. h.conf \in Seq(Sequenced)
      BY <1>2, EngineFields
    <3>2. CASE m.type = "batch" /\ IsNext(h, m.batch)
      <4> DEFINE s == <<m.batch>>
      <4>1. s \in Seq(Sequenced) /\ Len(s) = 1
        BY <1>1, <3>2, MessageKinds
      <4>2. g = Applied(h, c, s)
        BY <1>1, <1>2, <3>2, ReceivedOK
      <4> HIDE DEF s, g
      <4>3. g.ready = h.ready /\ g.epoch = h.epoch /\ g.conf = h.conf \o s
        BY <1>2, <4>1, <4>2, AppliedOK, SMTT(30)
      <4> QED BY <3>1, <4>1, <4>3
    <3>3. CASE m.type = "batch" /\ ~IsNext(h, m.batch)
      <4>1. g = h
        BY <1>1, <1>2, <3>3, ReceivedOK
      <4> QED BY <3>1, <4>1
    <3>4. CASE m.type = "durable"
      <4> DEFINE n == m.seq
      <4>1. g = DurableTold(h, n) /\ n \in Nat
        BY <1>1, <1>2, <3>4, ReceivedOK, MessageKinds
      <4> HIDE DEF n, g
      <4> QED BY <1>2, <3>1, <4>1, DurableToldOK
    <3>5. CASE m.type \in {"duplicate", "reject"}
      <4>1. g = Answered(h, m) /\ m.cseq \in Nat
        BY <1>1, <1>2, <3>5, ReceivedOK, MessageKinds
      <4> HIDE DEF g
      <4> QED BY <1>2, <3>1, <4>1, AnsweredOK
    <3> QED BY <1>1, <3>2, <3>3, <3>4, <3>5, MessageKinds
  <2>2. Len(h.conf) \in Nat /\ Len(g.conf) \in Nat
    <3>1. EngineOK(g)
      BY <1>1, <1>2, ReceivedOK
    <3> HIDE DEF g
    <3>2. h.conf \in Seq(Sequenced) /\ g.conf \in Seq(Sequenced)
      BY <1>2, <3>1, EngineFields
    <3> QED BY <3>2
  <2> HIDE DEF g
  <2>3. g.ready /\ g.epoch = epoch => loaded <= Len(g.conf)
    BY <1>2, <1>4, <2>1, <2>2
  <2> QED BY <1>1, <1>3, <1>6, <2>3 DEF Alone, SinceOf, Since
<1> QED BY <1>1, <1>5, <1>6

LEMMA SinceClient ==
  ASSUME Types, NEW c \in Clients, OrderOf(c), LinkOf(c), SinceOf(c), Client(c) \/ Join(c)
  PROVE  SinceOf(c)'
<1> DEFINE h == engine[c]
           g == engine'[c]
<1>1. Since(loaded, epoch, down[c], h)
  BY DEF SinceOf
<1>2. CASE Edit(c) \/ EditLocally(c) \/ Flush(c) \/ FlushOffline(c) \/ Persist(c)
  <2>1. Alone(c) /\ down'[c] = down[c] /\ g.conf = h.conf /\ g.ready = h.ready /\ g.epoch = h.epoch
    BY <1>2, QuietKeeps
  <2> HIDE DEF h, g
  <2>2. Since(loaded, epoch, down[c], g)
    BY <1>1, <2>1 DEF Since, BaseOf
  <2> QED BY <2>1, <2>2 DEF Alone, SinceOf, g
<1>3. CASE Disconnect(c) \/ CloseTab(c) \/ KillTab(c) \/ Reopen(c)
  <2>1. EngineOK(h) /\ CopyOK(copy[c])
    BY Facts
  <2>2. /\ Alone(c) /\ down'[c] = <<>>
        /\ \/ g.conf = h.conf /\ g.ready = h.ready /\ g.epoch = h.epoch
           \/ ~g.ready
    <3>1. CASE Disconnect(c)
      BY <2>1, <3>1, DisconnectDoes, ResetOK
    <3>2. CASE CloseTab(c) \/ KillTab(c)
      BY <3>2, CloseTabDoes, KillTabDoes, FreshOK
    <3>3. CASE Reopen(c)
      <4>1. Alone(c) /\ tab[c] = "closed" /\ g = Restored(copy[c]) /\ down'[c] = down[c]
        BY <3>3, ReopenDoes
      <4>2. down[c] = <<>>
        BY <4>1, Facts DEF Greeted
      <4> HIDE DEF g
      <4> QED BY <2>1, <4>1, <4>2, RestoredOK
    <3> QED BY <1>3, <3>1, <3>2, <3>3
  <2> HIDE DEF h, g
  <2>3. Since(loaded, epoch, <<>>, g)
    BY <1>1, <2>2 DEF Since, Waits
  <2> QED BY <2>2, <2>3 DEF Alone, SinceOf, g
<1>4. CASE Join(c)
  <2> DEFINE dn == <<Greeting(c)>>
  <2>1. Alone(c) /\ down'[c] = dn /\ engine'[c] = engine[c] /\ BaseOf(h.conf, dn) = log
    BY <1>4, JoinDoes, JoinsLog
  <2>2. loaded <= Len(log)
    BY TypesAre DEF ServerTypes
  <2> HIDE DEF h, dn
  <2>3. Since(loaded, epoch, dn, h)
    BY <1>1, <2>1, <2>2 DEF Since
  <2> QED BY <2>1, <2>3 DEF Alone, SinceOf, h
<1> QED BY <1>2, <1>3, <1>4, SinceWelcomed, SinceReceived DEF Client

LEMMA SinceOfRoom ==
  ASSUME Types, NEW d \in Clients, SinceOf(d), loaded' = loaded, epoch' = epoch, engine'[d] = engine[d],
         \/ down'[d] = down[d]
         \/ \E m \in Messages : m.type # "welcome" /\ down'[d] = Append(down[d], m)
  PROVE  SinceOf(d)'
<1> DEFINE h == engine[d]
           dn == down[d]
           dm == down'[d]
<1>1. dn \in Seq(Messages) /\ Since(loaded, epoch, dn, h)
  BY TypesAre DEF TypesOf, SinceOf
<1>2. (Waits(dm) <=> Waits(dn)) /\ (Waits(dn) => Head(dm) = Head(dn))
  BY <1>1, WaitsAppend
<1> HIDE DEF h, dn, dm
<1>3. Since(loaded, epoch, dm, h)
  BY <1>1, <1>2 DEF Since, BaseOf
<1> QED BY <1>3 DEF SinceOf, h, dm

LEMMA SinceRestart ==
  ASSUME Types, Restart, NEW d \in Clients, LinkOf(d), OrderOf(d)
  PROVE  SinceOf(d)'
<1> DEFINE h == engine[d]
           dn == down[d]
<1>1. epoch' = epoch + 1 /\ engine'[d] = h /\ down'[d] = dn
  BY RestartDoes
<1>2. EngineOK(h) /\ dn \in Seq(Messages) /\ epoch \in Nat /\ (conn[d] = "off" => dn = <<>>)
  BY Facts
<1>3. h.epoch \in Nat /\ h.epoch <= epoch /\ (conn[d] # "off" => RoomOf(dn, h) <= epoch)
  BY <1>2, EngineFields DEF LinkOf, Link
<1> HIDE DEF h, dn
<1>4. ASSUME Waits(dn) PROVE Head(dn).epoch \in Nat /\ Head(dn).epoch <= epoch
  <2>1. Head(dn) \in Messages /\ Head(dn).type = "welcome" /\ dn # <<>>
    BY <1>2, <1>4, EntriesTail DEF Waits
  <2>2. Head(dn) \in Welcome
    BY <2>1, MessageKinds
  <2> QED BY <1>2, <1>3, <1>4, <2>1, <2>2 DEF RoomOf, Welcome
<1>5. Since(loaded', epoch + 1, dn, h)
  BY <1>2, <1>3, <1>4 DEF Since
<1> QED BY <1>1, <1>5 DEF SinceOf

LEMMA SinceStep ==
  ASSUME Types, OrderInv, LinkInv, SinceInv, [Next]_vars
  PROVE  SinceInv'
<1> SUFFICES ASSUME NEW d \in Clients PROVE SinceOf(d)'
  BY DEF SinceInv
<1>1. OrderOf(d) /\ LinkOf(d) /\ SinceOf(d)
  BY DEF OrderInv, LinkInv, SinceInv
<1>2. CASE UNCHANGED vars
  BY <1>1, <1>2 DEF vars, server, wires, SinceOf
<1>3. ASSUME NEW c \in Clients, Client(c) \/ Join(c) PROVE SinceOf(d)'
  <2>1. CASE d = c
    BY <1>1, <1>3, <2>1, SinceClient
  <2>2. CASE d # c
    BY <1>1, <1>3, <2>2, ClientAlone DEF Alone, Still, SinceOf
  <2> QED BY <2>1, <2>2
<1>4. ASSUME NEW c \in Clients, HandleBatch(c) PROVE SinceOf(d)'
  <2> DEFINE y == Head(up[c])
             b == Accepted(c, log, y)
  <2>1. /\ y \in Unsynced /\ engine'[d] = engine[d]
        /\ TakenAsDuplicate(c, y) \/ TakenAsRejected(c, y) \/ TakenAsApplied(c, y)
    BY <1>4, HandleBatchDoes
  <2> HIDE DEF y
  <2>2. loaded' = loaded /\ epoch' = epoch
    BY <2>1 DEF TakenAsDuplicate, TakenAsRejected, TakenAsApplied, server
  <2>3. \/ down'[d] = down[d]
        \/ \E k \in {"duplicate", "reject"} : down'[d] = Append(down[d], [type |-> k, cseq |-> y.cseq])
        \/ down'[d] = Append(down[d], [type |-> "batch", batch |-> b])
    BY <2>1 DEF TakenAsDuplicate, TakenAsRejected, TakenAsApplied
  <2>4. \A k \in {"duplicate", "reject"} : [type |-> k, cseq |-> y.cseq] \in Messages
    <3>1. y.cseq \in Nat
      BY <2>1 DEF Unsynced
    <3> QED BY <3>1, MessagesMade
  <2>5. [type |-> "batch", batch |-> b] \in Messages
    <3>1. log \in Seq(Sequenced)
      BY <1>1, Facts
    <3>2. b \in Sequenced
      BY <2>1, <3>1, AcceptedOK
    <3> QED BY <3>2, MessagesMade
  <2> HIDE DEF b
  <2>6. \/ down'[d] = down[d]
        \/ \E m \in Messages : m.type # "welcome" /\ down'[d] = Append(down[d], m)
    BY <2>3, <2>4, <2>5
  <2> QED BY <1>1, <2>1, <2>2, <2>6, SinceOfRoom
<1>5. CASE MarkDurable
  <2> DEFINE m == [type |-> "durable", seq |-> durable']
  <2>1. /\ loaded' = loaded /\ epoch' = epoch /\ engine'[d] = engine[d] /\ durable' \in durable + 1 .. Len(log)
        /\ down'[d] = down[d] \/ down'[d] = Append(down[d], m)
    BY <1>5, MarkDurableDoes
  <2>2. m \in Messages /\ m.type # "welcome"
    <3>1. durable' \in Nat
      BY <1>1, <2>1, Facts
    <3> QED BY <3>1, MessagesMade
  <2> HIDE DEF m
  <2> QED BY <1>1, <2>1, <2>2, SinceOfRoom
<1>6. CASE Restart
  BY <1>1, <1>6, SinceRestart
<1> QED BY <1>2, <1>3, <1>4, <1>5, <1>6 DEF Next

LEMMA SinceGives ==
  ASSUME Types, OrderInv, LinkInv, SinceInv, RoomRemembers
  PROVE  RecentSuffices
<1> SUFFICES ASSUME NEW c \in Clients, engine[c].ready, engine[c].epoch = epoch PROVE CanCatchUp(engine[c])
  BY DEF RecentSuffices
<1> DEFINE h == engine[c]
           n == Len(log)
           k == Len(h.conf)
<1>1. h.ready /\ h.epoch = epoch /\ k <= n /\ loaded <= k
  BY DEF LinkInv, LinkOf, Link, SinceInv, SinceOf, Since, Follows
<1>2. loaded \in Nat /\ n \in Nat /\ k \in Nat /\ CatchUpLimit \in Nat
  <2>1. h.conf \in Seq(Sequenced) /\ log \in Seq(Sequenced) /\ loaded \in 0..n
    BY TypesAre, EngineFields DEF TypesOf, ServerTypes
  <2> QED BY <2>1, BoundsAssumption
<1>3. FirstRecent <= k + 1
  <2> DEFINE S == {loaded, n - CatchUpLimit}
             z == Max(S)
  <2>1. n - CatchUpLimit \in Int /\ n - CatchUpLimit <= loaded
    BY <1>2 DEF RoomRemembers
  <2>2. z = loaded
    <3>1. \A i \in S : i <= loaded
      BY <1>2, <2>1
    <3>2. loaded \in S /\ \E i \in S : \A j \in S : i >= j
      BY <1>2, <3>1
    <3>3. \A i \in S : (\A j \in S : i >= j) => i = loaded
      BY <1>2, <2>1
    <3> QED BY <3>2, <3>3 DEF Max
  <2>3. FirstRecent = z + 1
    BY DEF FirstRecent
  <2> HIDE DEF z, k
  <2> QED BY <1>1, <1>2, <2>2, <2>3
<1> QED BY <1>1, <1>3 DEF CanCatchUp

\* What NoEditLost and EditsVisible ask of the rooms that restart holds as long
\* as none accepts more batches than it remembers (catchUpLimit, room.ts): a
\* client that comes back to a room it knows is caught up, never reset.
THEOREM MemorySuffices ==
  ASSUME "stale" \notin Situations
  PROVE  Spec /\ []RoomRemembers => []RecentSuffices
<1> DEFINE I == Types /\ OrderInv /\ UniqueInv /\ LinkInv /\ SinceInv
<1>1. Init => I
  <2>1. Init => SinceInv
    BY DEF Init, SinceInv, SinceOf, Since, FreshEngine, Waits
  <2> QED BY <2>1, InitTypes, InitOrder, InitLink
<1>2. I /\ [Next]_vars => I'
  BY TypesStep, OrderStep, UniqueStep, LinkStep, SinceStep
<1>3. I /\ RoomRemembers => RecentSuffices
  BY SinceGives
<1> QED BY <1>1, <1>2, <1>3, PTL DEF Spec

=============================================================================
