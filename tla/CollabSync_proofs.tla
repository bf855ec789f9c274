------------------------- MODULE CollabSync_proofs -------------------------
(***************************************************************************)
(* What is proved of CollabSync for any clients, edits, catch-up window,     *)
(* faults and situations; where a theorem excludes one, it says which.       *)
(***************************************************************************)
EXTENDS CollabSync, WellFoundedInduction, FiniteSetTheorems, SequenceTheorems, TLAPS

----------------------------------------------------------------------------
(* The operators of the model                                              *)

\* A finite set of numbers that is not empty has a largest one.
LEMMA HasMax ==
  ASSUME NEW S, S \subseteq Int, IsFiniteSet(S), S # {}
  PROVE  Max(S) \in S /\ \A y \in S : y <= Max(S)
<1> DEFINE Top(T, x) == x \in T /\ \A y \in T : y <= x
           Bad == {n \in Nat : \E T \in SUBSET Int :
                     IsFiniteSet(T) /\ T # {} /\ Cardinality(T) = n /\ ~\E x \in T : Top(T, x)}
<1>1. Bad = {}
  <2> SUFFICES ASSUME Bad # {} PROVE FALSE
    OBVIOUS
  <2>1. PICK n \in Bad : \A k \in Bad : ~(<<k, n>> \in OpToRel(<, Nat))
    <3>1. IsWellFoundedOn(OpToRel(<, Nat), Nat)
      BY NatLessThanWellFounded
    <3>2. Bad \subseteq Nat
      OBVIOUS
    <3> HIDE DEF Bad
    <3> QED BY <3>1, <3>2, WFMin
  <2>2. PICK T \in SUBSET Int :
          IsFiniteSet(T) /\ T # {} /\ Cardinality(T) = n /\ ~\E x \in T : Top(T, x)
    OBVIOUS
  <2>3. PICK x : x \in T
    BY <2>2
  <2>4. /\ IsFiniteSet(T \ {x}) /\ Cardinality(T \ {x}) = n - 1 /\ n - 1 \in Nat
    <3>1. IsFiniteSet(T \ {x}) /\ Cardinality(T \ {x}) = n - 1
      BY <2>2, <2>3, FS_RemoveElement
    <3>2. Cardinality(T \ {x}) \in Nat
      BY <3>1, FS_CardinalityType
    <3> QED BY <3>1, <3>2
  <2>5. CASE T \ {x} = {}
    BY <2>5, <2>2, <2>3
  <2>6. CASE T \ {x} # {}
    <3>1. n - 1 \notin Bad
      <4>1. n \in Nat /\ n - 1 \in Nat /\ n - 1 < n
        BY <2>4
      <4>2. <<n - 1, n>> \in OpToRel(<, Nat)
        BY <4>1 DEF OpToRel
      <4> HIDE DEF Bad
      <4> QED BY <2>1, <4>2
    <3>2. \E y \in T \ {x} : Top(T \ {x}, y)
      BY <3>1, <2>4, <2>6
    <3>3. PICK y \in T \ {x} : Top(T \ {x}, y)
      BY <3>2
    <3>4. x \in Int /\ y \in Int
      BY <2>3, <3>3
    <3>5. Top(T, x) \/ Top(T, y)
      BY <3>3, <3>4, <2>3
    <3> QED BY <3>5, <2>2
  <2> QED BY <2>5, <2>6
<1>2. \E x \in S : Top(S, x)
  <2>1. Cardinality(S) \in Nat
    BY FS_CardinalityType
  <2> QED BY <1>1, <2>1
<1> QED BY <1>2 DEF Max

LEMMA MaxOfTwo ==
  ASSUME NEW a \in Int, NEW b \in Int
  PROVE  Max({a, b}) = IF a > b THEN a ELSE b
<1> DEFINE S == {a, b}
<1>1. IsFiniteSet(S)
  <2>1. IsFiniteSet({a}) /\ IsFiniteSet({b})
    BY FS_Singleton
  <2>2. S = {a} \cup {b}
    OBVIOUS
  <2> HIDE DEF S
  <2> QED BY <2>1, <2>2, FS_Union
<1>2. S \subseteq Int /\ S # {}
  OBVIOUS
<1> HIDE DEF S
<1>3. Max(S) \in S /\ \A y \in S : y <= Max(S)
  BY <1>1, <1>2, HasMax
<1> QED BY <1>3 DEF S

\* What a function on a finite set takes is finite.
LEMMA ImageFinite ==
  ASSUME NEW f, IsFiniteSet(DOMAIN f)
  PROVE  IsFiniteSet({f[x] : x \in DOMAIN f})
<1> DEFINE T == {f[x] : x \in DOMAIN f}
           g == [x \in DOMAIN f |-> f[x]]
<1>1. g \in Surjection(DOMAIN f, T)
  BY DEF Surjection
<1> HIDE DEF T, g
<1>2. IsFiniteSet(T)
  BY <1>1, FS_Surjection
<1> QED BY <1>2 DEF T

\* The batches sent first have smaller numbers than those left for later.
LEMMA FirstIsSmaller ==
  ASSUME NEW S, IsFiniteSet(S), \A b \in S : b.cseq \in Int,
         NEW b \in FirstOf(S), NEW p \in S, p \notin FirstOf(S)
  PROVE  b \in S /\ b.cseq < p.cseq
<1> DEFINE Below(x) == {y \in S : y.cseq < x.cseq}
<1>1. b \in S /\ Cardinality(Below(b)) < FlushLimit /\ ~(Cardinality(Below(p)) < FlushLimit)
  BY DEF FirstOf
<1>2. FlushLimit \in Nat
  BY BoundsAssumption
<1> SUFFICES ASSUME p.cseq <= b.cseq PROVE FALSE
  BY <1>1
<1>3. Below(p) \subseteq Below(b)
  BY <1>1
<1>4. IsFiniteSet(Below(b)) /\ IsFiniteSet(Below(p))
  <2>1. Below(b) \subseteq S /\ Below(p) \subseteq S
    OBVIOUS
  <2> HIDE DEF Below
  <2> QED BY <2>1, FS_Subset
<1>5. Cardinality(Below(p)) <= Cardinality(Below(b))
  <2> HIDE DEF Below
  <2> QED BY <1>3, <1>4, FS_Subset
<1>6. Cardinality(Below(p)) \in Nat /\ Cardinality(Below(b)) \in Nat
  <2> HIDE DEF Below
  <2> QED BY <1>4, FS_CardinalityType
<1> HIDE DEF Below
<1> QED BY <1>1, <1>2, <1>5, <1>6

\* A set that is not empty has a first batch.
LEMMA FirstExists ==
  ASSUME NEW S, IsFiniteSet(S), \A b \in S : b.cseq \in Nat, S # {}
  PROVE  FirstOf(S) # {}
<1> DEFINE N == {b.cseq : b \in S}
<1>1. PICK n \in N : \A k \in N : ~(<<k, n>> \in OpToRel(<, Nat))
  <2>1. N \subseteq Nat /\ N # {}
    OBVIOUS
  <2> HIDE DEF N
  <2> QED BY <2>1, NatLessThanWellFounded, WFMin
<1>2. PICK b \in S : b.cseq = n
  OBVIOUS
<1>3. \A p \in S : ~(p.cseq < b.cseq)
  <2> SUFFICES ASSUME NEW p \in S, p.cseq < b.cseq PROVE FALSE
    OBVIOUS
  <2>1. <<p.cseq, b.cseq>> \in OpToRel(<, Nat)
    BY DEF OpToRel
  <2>2. p.cseq \in N
    OBVIOUS
  <2> HIDE DEF N
  <2> QED BY <1>1, <1>2, <2>1, <2>2
<1>5. Cardinality({p \in S : p.cseq < b.cseq}) = 0
  <2>1. {} = {p \in S : p.cseq < b.cseq}
    BY <1>3
  <2> QED BY <2>1, FS_EmptySet
<1> QED BY <1>5, BoundsAssumption DEF FirstOf

LEMMA InOrderSeq ==
  ASSUME NEW S, IsFiniteSet(S), NEW s \in InOrder(S)
  PROVE  /\ s \in Seq(S) /\ Entries(s) = S
         /\ \A i, j \in DOMAIN s : i < j => s[i].cseq <= s[j].cseq
         /\ \A i, j \in DOMAIN s : s[i] = s[j] => i = j
         /\ Len(s) = Cardinality(S)
<1>1. Cardinality(S) \in Nat
  BY FS_CardinalityType
<1>2. s \in [1..Cardinality(S) -> S] /\ Entries(s) = S
  BY DEF InOrder
<1>3. s \in Seq(S) /\ Len(s) = Cardinality(S) /\ DOMAIN s = 1..Cardinality(S)
  BY <1>1, <1>2, SeqDef
<1>4. \A i, j \in DOMAIN s : s[i] = s[j] => i = j
  <2>1. IsFiniteSet(1..Cardinality(S)) /\ Cardinality(1..Cardinality(S)) = Cardinality(S)
    BY <1>1, FS_Interval
  <2>2. s \in Surjection(1..Cardinality(S), S)
    BY <1>2 DEF Surjection, Entries
  <2>3. s \in Injection(1..Cardinality(S), S)
    BY <2>1, <2>2, FS_SurjSameCardinalityImpliesInj
  <2> QED BY <1>3, <2>3 DEF Injection, IsInjective
<1> QED BY <1>1, <1>2, <1>3, <1>4 DEF InOrder

LEMMA EntriesAre ==
  ASSUME NEW S, NEW s \in Seq(S)
  PROVE  /\ Entries(s) \subseteq S
         /\ \A i \in 1..Len(s) : s[i] \in Entries(s)
         /\ \A e \in Entries(s) : \E i \in 1..Len(s) : s[i] = e
         /\ DOMAIN s = 1..Len(s)
         /\ IsFiniteSet(Entries(s))
<1>1. DOMAIN s = 1..Len(s) /\ Len(s) \in Nat /\ \A i \in 1..Len(s) : s[i] \in S
  OBVIOUS
<1>2. IsFiniteSet(Entries(s))
  <2>1. IsFiniteSet(1..Len(s))
    BY <1>1, FS_Interval
  <2>2. s \in Surjection(1..Len(s), Entries(s))
    BY <1>1 DEF Surjection, Entries
  <2> QED BY <2>1, <2>2, FS_Surjection
<1> QED BY <1>1, <1>2 DEF Entries

LEMMA EntriesAppend ==
  ASSUME NEW S, NEW s \in Seq(S), NEW e \in S
  PROVE  Entries(Append(s, e)) = Entries(s) \cup {e}
<1>1. /\ DOMAIN s = 1..Len(s) /\ DOMAIN Append(s, e) = 1..Len(s) + 1 /\ Len(s) \in Nat
      /\ \A i \in 1..Len(s) : Append(s, e)[i] = s[i]
      /\ Append(s, e)[Len(s) + 1] = e
  BY AppendProperties, LenProperties
<1>2. Entries(Append(s, e)) \subseteq Entries(s) \cup {e}
  BY <1>1 DEF Entries
<1>3. Entries(s) \subseteq Entries(Append(s, e))
  BY <1>1 DEF Entries
<1>4. e \in Entries(Append(s, e))
  BY <1>1 DEF Entries
<1> QED BY <1>2, <1>3, <1>4

LEMMA EntriesConcat ==
  ASSUME NEW S, NEW s \in Seq(S), NEW t \in Seq(S)
  PROVE  Entries(s \o t) = Entries(s) \cup Entries(t)
<1>1. /\ DOMAIN s = 1..Len(s) /\ DOMAIN t = 1..Len(t) /\ DOMAIN (s \o t) = 1..(Len(s) + Len(t))
      /\ Len(s) \in Nat /\ Len(t) \in Nat
      /\ \A i \in 1 .. Len(s) + Len(t) : (s \o t)[i] = IF i <= Len(s) THEN s[i] ELSE t[i - Len(s)]
  BY ConcatProperties, LenProperties
<1>2. Entries(s \o t) \subseteq Entries(s) \cup Entries(t)
  BY <1>1 DEF Entries
<1>3. Entries(s) \subseteq Entries(s \o t)
  BY <1>1 DEF Entries
<1>4. Entries(t) \subseteq Entries(s \o t)
  <2> SUFFICES ASSUME NEW j \in 1..Len(t) PROVE t[j] \in Entries(s \o t)
    BY <1>1 DEF Entries
  <2>1. Len(s) + j \in 1 .. Len(s) + Len(t) /\ (s \o t)[Len(s) + j] = t[j]
    BY <1>1
  <2> QED BY <1>1, <2>1 DEF Entries
<1> QED BY <1>2, <1>3, <1>4

LEMMA EntriesTail ==
  ASSUME NEW S, NEW s \in Seq(S), s # <<>>
  PROVE  /\ Head(s) \in Entries(s) /\ Head(s) = s[1] /\ Head(s) \in S /\ Tail(s) \in Seq(S)
         /\ 1 \in 1..Len(s) /\ Len(Tail(s)) = Len(s) - 1
         /\ \A i \in 1..Len(s) - 1 : Tail(s)[i] = s[i + 1]
         /\ Entries(s) = {Head(s)} \cup Entries(Tail(s))
<1>1. Head(s) = s[1] /\ Head(s) \in S /\ Tail(s) \in Seq(S) /\ Len(Tail(s)) = Len(s) - 1 /\ 1 \in 1..Len(s)
  OBVIOUS
<1>2. \A i \in 1..Len(s) - 1 : Tail(s)[i] = s[i + 1]
  BY <1>1, HeadTailProperties
<1>3. Entries(s) \subseteq {Head(s)} \cup Entries(Tail(s))
  <2> SUFFICES ASSUME NEW i \in 1..Len(s), i # 1 PROVE s[i] \in Entries(Tail(s))
    BY <1>1 DEF Entries
  <2>1. i - 1 \in 1..Len(s) - 1 /\ i - 1 \in DOMAIN Tail(s)
    BY <1>1
  <2>2. Tail(s)[i - 1] = s[i]
    BY <2>1, <1>2
  <2> QED BY <2>1, <2>2 DEF Entries
<1>4. Entries(Tail(s)) \subseteq Entries(s)
  BY <1>1, <1>2 DEF Entries
<1> QED BY <1>1, <1>2, <1>3, <1>4 DEF Entries

LEMMA EntriesSubSeq ==
  ASSUME NEW S, NEW s \in Seq(S), NEW m \in Nat \ {0}, NEW n \in 0..Len(s)
  PROVE  /\ SubSeq(s, m, n) \in Seq(S)
         /\ Len(SubSeq(s, m, n)) = IF m <= n THEN n - m + 1 ELSE 0
         /\ \A i \in 1 .. n - m + 1 : SubSeq(s, m, n)[i] = s[m + i - 1]
         /\ Entries(SubSeq(s, m, n)) = {s[i] : i \in m..n}
<1>1. \A i \in m..n : s[i] \in S
  OBVIOUS
<1>2. /\ SubSeq(s, m, n) \in Seq(S)
      /\ Len(SubSeq(s, m, n)) = IF m <= n THEN n - m + 1 ELSE 0
      /\ \A i \in 1 .. n - m + 1 : SubSeq(s, m, n)[i] = s[m + i - 1]
  BY <1>1, SubSeqProperties
<1>3. DOMAIN SubSeq(s, m, n) = 1..n - m + 1
  BY <1>2
<1>4. Entries(SubSeq(s, m, n)) \subseteq {s[i] : i \in m..n}
  BY <1>2, <1>3 DEF Entries
<1>5. ASSUME NEW i \in m..n PROVE s[i] \in Entries(SubSeq(s, m, n))
  <2>1. i - m + 1 \in 1..n - m + 1 /\ SubSeq(s, m, n)[i - m + 1] = s[i]
    BY <1>2
  <2> QED BY <2>1, <1>3 DEF Entries
<1> QED BY <1>2, <1>4, <1>5

----------------------------------------------------------------------------
(* What each operation of the engine does to its fields                    *)

EngineOK(h) == h \in Engines /\ IsFiniteSet(h.pending) /\ IsFiniteSet(h.undurable)

LEMMA SealedOK ==
  ASSUME NEW h, EngineOK(h)
  PROVE  /\ EngineOK(Sealed(h))
         /\ Sealed(h).queued = <<>>
         /\ Sealed(h).ready = h.ready /\ Sealed(h).epoch = h.epoch /\ Sealed(h).conf = h.conf
         /\ Sealed(h).durable = h.durable /\ Sealed(h).undurable = h.undurable
         /\ Sealed(h).sentUpTo = h.sentUpTo
         /\ h.queued = <<>> => Sealed(h) = h
         /\ h.queued # <<>> => /\ Sealed(h).pending = h.pending \cup {NewBatch(h.next, h.queued)}
                               /\ Sealed(h).next = h.next + 1
                               /\ NewBatch(h.next, h.queued) \in Local
<1>1. CASE h.queued = <<>>
  BY <1>1 DEF Sealed
<1>2. CASE h.queued # <<>>
  <2>1. NewBatch(h.next, h.queued) \in Local
    BY DEF EngineOK, Engines, NewBatch, Local
  <2>2. IsFiniteSet(h.pending \cup {NewBatch(h.next, h.queued)})
    BY FS_AddElement DEF EngineOK
  <2>3. Sealed(h) = [h EXCEPT !.pending = h.pending \cup {NewBatch(h.next, h.queued)},
                              !.next = h.next + 1, !.queued = <<>>]
    BY <1>2 DEF Sealed
  <2>4. h \in Engines /\ IsFiniteSet(h.undurable)
    BY DEF EngineOK
  <2>5. /\ Sealed(h) \in Engines
        /\ Sealed(h).queued = <<>>
        /\ Sealed(h).ready = h.ready /\ Sealed(h).epoch = h.epoch /\ Sealed(h).conf = h.conf
        /\ Sealed(h).durable = h.durable /\ Sealed(h).undurable = h.undurable
        /\ Sealed(h).sentUpTo = h.sentUpTo
        /\ Sealed(h).pending = h.pending \cup {NewBatch(h.next, h.queued)}
        /\ Sealed(h).next = h.next + 1
    <3> DEFINE pen == h.pending \cup {NewBatch(h.next, h.queued)}
               n   == h.next + 1
    <3>1. pen \in SUBSET Local /\ n \in Nat /\ <<>> \in Seq(Edits)
      BY <2>1, <2>4 DEF Engines
    <3>2. Sealed(h) = [h EXCEPT !.pending = pen, !.next = n, !.queued = <<>>]
      BY <2>3
    <3> HIDE DEF pen, n
    <3>3. /\ Sealed(h) \in Engines
          /\ Sealed(h).queued = <<>>
          /\ Sealed(h).ready = h.ready /\ Sealed(h).epoch = h.epoch /\ Sealed(h).conf = h.conf
          /\ Sealed(h).durable = h.durable /\ Sealed(h).undurable = h.undurable
          /\ Sealed(h).sentUpTo = h.sentUpTo
          /\ Sealed(h).pending = pen /\ Sealed(h).next = n
      BY <3>1, <3>2, <2>4 DEF Engines
    <3> QED BY <3>3 DEF pen, n
  <2>6. EngineOK(Sealed(h))
    BY <2>2, <2>4, <2>5 DEF EngineOK
  <2> QED BY <2>1, <2>5, <2>6, <1>2
<1> QED BY <1>1, <1>2

LEMMA OutgoingOK ==
  ASSUME NEW h, EngineOK(h)
  PROVE  /\ Outgoing(h) \subseteq Unsent(h) /\ Unsent(h) \subseteq h.pending
         /\ IsFiniteSet(Outgoing(h)) /\ IsFiniteSet(Unsent(h))
         /\ \A b \in Outgoing(h) : b \in Local /\ ~b.localOnly /\ b.cseq > h.sentUpTo
         /\ \A b \in Outgoing(h), p \in Unsent(h) : p \in Outgoing(h) \/ b.cseq < p.cseq
<1>1. /\ Outgoing(h) \subseteq Unsent(h) /\ Unsent(h) \subseteq h.pending
  BY DEF Outgoing, FirstOf, Unsent, NotLocal
<1>2. IsFiniteSet(Unsent(h)) /\ IsFiniteSet(Outgoing(h))
  <2>1. IsFiniteSet(Unsent(h))
    BY <1>1, FS_Subset DEF EngineOK
  <2> QED BY <2>1, <1>1, FS_Subset
<1>3. \A b \in Unsent(h) : b \in Local /\ b.cseq \in Int /\ ~b.localOnly /\ b.cseq > h.sentUpTo
  BY DEF Unsent, NotLocal, EngineOK, Engines, Local
<1>4. ASSUME NEW b \in Outgoing(h), NEW p \in Unsent(h), p \notin Outgoing(h)
      PROVE  b.cseq < p.cseq
  BY <1>2, <1>3, <1>4, FirstIsSmaller DEF Outgoing
<1> QED BY <1>1, <1>2, <1>3, <1>4

Transmit(b) == [b EXCEPT !.transmitted = TRUE]

LEMMA SentOK ==
  ASSUME NEW h, EngineOK(h)
  PROVE  /\ EngineOK(Sent(h))
         /\ Sent(h).queued = h.queued /\ Sent(h).ready = h.ready /\ Sent(h).epoch = h.epoch
         /\ Sent(h).conf = h.conf /\ Sent(h).durable = h.durable
         /\ Sent(h).undurable = h.undurable /\ Sent(h).next = h.next
         /\ Sent(h).pending = (h.pending \ Outgoing(h)) \cup {Transmit(b) : b \in Outgoing(h)}
         /\ Outgoing(h) = {} => Sent(h) = h
         /\ \A b \in Outgoing(h) : b.cseq <= Sent(h).sentUpTo
         /\ Outgoing(h) # {} => \E b \in Outgoing(h) : b.cseq = Sent(h).sentUpTo
<1> DEFINE out == Outgoing(h)
           pen == (h.pending \ out) \cup {Transmit(b) : b \in out}
<1>1. /\ out \subseteq h.pending /\ IsFiniteSet(out)
      /\ \A b \in out : b \in Local
  BY OutgoingOK
<1>2. CASE out = {}
  <2>1. Sent(h) = h
    BY <1>2 DEF Sent
  <2>2. pen = h.pending
    BY <1>2
  <2> QED BY <2>1, <2>2, <1>2
<1>3. CASE out # {}
  <2> DEFINE N == {b.cseq : b \in out}
  <2>1. Max(N) \in N /\ \A n \in N : n <= Max(N)
    <3>1. N \subseteq Int /\ N # {}
      BY <1>1, <1>3 DEF Local
    <3>2. IsFiniteSet(N)
      <4> DEFINE f == [b \in out |-> b.cseq]
      <4>1. IsFiniteSet({f[b] : b \in DOMAIN f})
        BY <1>1, ImageFinite
      <4> QED BY <4>1
    <3> HIDE DEF N
    <3> QED BY <3>1, <3>2, HasMax
  <2>2. PICK t \in out : t.cseq = Max(N)
    BY <2>1
  <2>3. Max(N) \in Nat
    BY <2>2, <1>1 DEF Local
  <2>4. Sent(h) = [h EXCEPT !.sentUpTo = Max(N), !.pending = pen]
    BY <1>3 DEF Sent, Transmit
  <2>5. pen \subseteq Local /\ IsFiniteSet(pen)
    <3>1. \A b \in out : Transmit(b) \in Local
      BY <1>1 DEF Transmit, Local
    <3>2. IsFiniteSet({Transmit(b) : b \in out})
      <4> DEFINE f == [b \in out |-> Transmit(b)]
      <4>1. IsFiniteSet({f[b] : b \in DOMAIN f})
        BY <1>1, ImageFinite
      <4> QED BY <4>1
    <3>3. IsFiniteSet(h.pending \ out)
      BY FS_Difference DEF EngineOK
    <3>4. h.pending \subseteq Local
      BY DEF EngineOK, Engines
    <3> QED BY <3>1, <3>2, <3>3, <3>4, FS_Union
  <2>6. h \in Engines /\ IsFiniteSet(h.undurable)
    BY DEF EngineOK
  <2> HIDE DEF N, pen, out
  <2>7. Sent(h) \in Engines /\ Sent(h).pending = pen /\ Sent(h).sentUpTo = Max(N)
        /\ Sent(h).queued = h.queued /\ Sent(h).ready = h.ready /\ Sent(h).epoch = h.epoch
        /\ Sent(h).conf = h.conf /\ Sent(h).durable = h.durable
        /\ Sent(h).undurable = h.undurable /\ Sent(h).next = h.next
    BY <2>3, <2>4, <2>5, <2>6 DEF Engines
  <2>8. \A b \in out : b.cseq <= Max(N)
    BY <2>1 DEF N
  <2> QED BY <1>3, <2>2, <2>5, <2>6, <2>7, <2>8 DEF EngineOK, pen, out
<1> QED BY <1>2, <1>3

LEMMA NumberedOK ==
  ASSUME NEW S, S \subseteq Local, IsFiniteSet(S), NEW q \in Nat
  PROVE  Numbered(S, q) \subseteq Local /\ IsFiniteSet(Numbered(S, q))
<1>1. IsFiniteSet(Numbered(S, q))
  <2> DEFINE f == [b \in S |-> [b EXCEPT !.seq = q]]
  <2>1. IsFiniteSet({f[b] : b \in DOMAIN f})
    BY ImageFinite
  <2> QED BY <2>1 DEF Numbered
<1>2. Numbered(S, q) \subseteq Local
  BY DEF Numbered, Local
<1> QED BY <1>1, <1>2

\* A batch of the client that a run of batches of the room acknowledges.
AckedBy(c, batches, p, b) == b \in Entries(batches) /\ b.client = c /\ p.cseq = b.cseq
AckedIn(c, batches, p)    == \E b \in Entries(batches) : b.client = c /\ p.cseq = b.cseq

LEMMA AppliedOK ==
  ASSUME NEW h, EngineOK(h), NEW c, NEW batches \in Seq(Sequenced)
  PROVE  /\ EngineOK(Applied(h, c, batches))
         /\ Applied(h, c, batches).conf = h.conf \o batches
         /\ Applied(h, c, batches).pending = {p \in h.pending : ~AckedIn(c, batches, p)}
         /\ h.undurable \subseteq Applied(h, c, batches).undurable
         /\ \A u \in Applied(h, c, batches).undurable :
              \/ u \in h.undurable
              \/ \E b \in Entries(batches), x \in h.pending :
                   AckedBy(c, batches, x, b) /\ u = [x EXCEPT !.seq = b.seq]
         /\ \A b \in Entries(batches), x \in h.pending :
              AckedBy(c, batches, x, b) => [x EXCEPT !.seq = b.seq] \in Applied(h, c, batches).undurable
         /\ Applied(h, c, batches).queued = h.queued /\ Applied(h, c, batches).next = h.next
         /\ Applied(h, c, batches).ready = h.ready /\ Applied(h, c, batches).epoch = h.epoch
         /\ Applied(h, c, batches).durable = h.durable
         /\ Applied(h, c, batches).sentUpTo = h.sentUpTo
<1> DEFINE Acked(b) == {p \in h.pending : b.client = c /\ p.cseq = b.cseq}
           news == UNION {Numbered(Acked(b), b.seq) : b \in Entries(batches)}
           rest == h.pending \ UNION {Acked(b) : b \in Entries(batches)}
<1>1. Entries(batches) \subseteq Sequenced /\ IsFiniteSet(Entries(batches))
  BY EntriesAre
<1>2. h \in Engines /\ h.pending \subseteq Local /\ IsFiniteSet(h.pending) /\ h.undurable \subseteq Local
      /\ IsFiniteSet(h.undurable)
  BY DEF EngineOK, Engines
<1>3. ASSUME NEW b \in Entries(batches)
      PROVE  Numbered(Acked(b), b.seq) \subseteq Local /\ IsFiniteSet(Numbered(Acked(b), b.seq))
  <2>1. Acked(b) \subseteq h.pending /\ b.seq \in Nat
    BY <1>1 DEF Sequenced
  <2>2. IsFiniteSet(Acked(b)) /\ Acked(b) \subseteq Local
    <3> HIDE DEF Acked
    <3> QED BY <2>1, <1>2, FS_Subset
  <2> HIDE DEF Acked
  <2> QED BY <2>1, <2>2, NumberedOK
<1>4. news \subseteq Local
  BY <1>3
<1>5. IsFiniteSet(news)
  <2> DEFINE f == [b \in Entries(batches) |-> Numbered(Acked(b), b.seq)]
  <2>1. IsFiniteSet({f[b] : b \in DOMAIN f})
    BY <1>1, ImageFinite
  <2>2. \A T \in {f[b] : b \in DOMAIN f} : IsFiniteSet(T)
    BY <1>3
  <2>3. IsFiniteSet(UNION {f[b] : b \in DOMAIN f})
    <3> HIDE DEF f
    <3> QED BY <2>1, <2>2, FS_UNION
  <2> QED BY <2>3
<1>6. rest \subseteq h.pending /\ rest \subseteq Local /\ IsFiniteSet(rest)
  <2>1. rest \subseteq h.pending
    OBVIOUS
  <2> HIDE DEF rest
  <2> QED BY <2>1, <1>2, FS_Subset
<1>7. rest = {p \in h.pending : ~AckedIn(c, batches, p)}
  BY DEF AckedIn
<1>8. /\ \A u \in news : \E b \in Entries(batches), x \in h.pending :
           AckedBy(c, batches, x, b) /\ u = [x EXCEPT !.seq = b.seq]
      /\ \A b \in Entries(batches), x \in h.pending :
           AckedBy(c, batches, x, b) => [x EXCEPT !.seq = b.seq] \in news
  <2>1. ASSUME NEW u \in news
        PROVE  \E b \in Entries(batches), x \in h.pending :
                 AckedBy(c, batches, x, b) /\ u = [x EXCEPT !.seq = b.seq]
    <3>1. PICK b \in Entries(batches) : u \in Numbered(Acked(b), b.seq)
      OBVIOUS
    <3>2. PICK x \in Acked(b) : u = [x EXCEPT !.seq = b.seq]
      BY <3>1 DEF Numbered
    <3> QED BY <3>2 DEF AckedBy
  <2>2. ASSUME NEW b \in Entries(batches), NEW x \in h.pending, AckedBy(c, batches, x, b)
        PROVE  [x EXCEPT !.seq = b.seq] \in news
    <3>1. [x EXCEPT !.seq = b.seq] \in Numbered(Acked(b), b.seq)
      BY <2>2 DEF Numbered, AckedBy
    <3> QED BY <3>1
  <2> HIDE DEF news
  <2> QED BY <2>1, <2>2
<1>9. Applied(h, c, batches) =
        [h EXCEPT !.conf = h.conf \o batches, !.pending = rest, !.undurable = h.undurable \cup news]
  BY DEF Applied
<1>10. h.conf \o batches \in Seq(Sequenced)
  BY <1>2, ConcatProperties DEF Engines
<1>11. IsFiniteSet(h.undurable \cup news) /\ h.undurable \cup news \subseteq Local
  <2> HIDE DEF news
  <2> QED BY <1>2, <1>4, <1>5, FS_Union
<1> HIDE DEF news, rest
<1>12. /\ Applied(h, c, batches) \in Engines
       /\ Applied(h, c, batches).conf = h.conf \o batches
       /\ Applied(h, c, batches).pending = rest
       /\ Applied(h, c, batches).undurable = h.undurable \cup news
       /\ Applied(h, c, batches).queued = h.queued /\ Applied(h, c, batches).next = h.next
       /\ Applied(h, c, batches).ready = h.ready /\ Applied(h, c, batches).epoch = h.epoch
       /\ Applied(h, c, batches).durable = h.durable
       /\ Applied(h, c, batches).sentUpTo = h.sentUpTo
  BY <1>2, <1>4, <1>6, <1>9, <1>10, <1>11 DEF Engines
<1>13. EngineOK(Applied(h, c, batches))
  BY <1>6, <1>11, <1>12 DEF EngineOK
<1> QED BY <1>7, <1>8, <1>12, <1>13

LEMMA DurableToldOK ==
  ASSUME NEW h, EngineOK(h), NEW n \in Nat
  PROVE  /\ EngineOK(DurableTold(h, n))
         /\ DurableTold(h, n).durable = IF n > h.durable THEN n ELSE h.durable
         /\ DurableTold(h, n).undurable = {b \in h.undurable : b.seq > DurableTold(h, n).durable}
         /\ DurableTold(h, n).conf = h.conf /\ DurableTold(h, n).pending = h.pending
         /\ DurableTold(h, n).queued = h.queued /\ DurableTold(h, n).next = h.next
         /\ DurableTold(h, n).ready = h.ready /\ DurableTold(h, n).epoch = h.epoch
         /\ DurableTold(h, n).sentUpTo = h.sentUpTo
<1> DEFINE d == Max({n, h.durable})
           u == {b \in h.undurable : b.seq > d}
<1>1. h \in Engines /\ h.durable \in Nat /\ h.undurable \subseteq Local /\ IsFiniteSet(h.undurable)
      /\ IsFiniteSet(h.pending)
  BY DEF EngineOK, Engines
<1>2. d = IF n > h.durable THEN n ELSE h.durable
  BY <1>1, MaxOfTwo
<1>3. u \subseteq h.undurable /\ IsFiniteSet(u)
  <2>1. u \subseteq h.undurable
    OBVIOUS
  <2> HIDE DEF u
  <2> QED BY <2>1, <1>1, FS_Subset
<1>4. DurableTold(h, n) = [h EXCEPT !.durable = d, !.undurable = u]
  BY DEF DurableTold, Unwritten
<1>5. d = (IF n > h.durable THEN n ELSE h.durable) /\ d \in Nat
  BY <1>1, <1>2
<1> HIDE DEF d
<1>6. u = {b \in h.undurable : b.seq > d}
  OBVIOUS
<1> HIDE DEF u
<1>7. /\ DurableTold(h, n) \in Engines
      /\ DurableTold(h, n).durable = d /\ DurableTold(h, n).undurable = u
      /\ DurableTold(h, n).conf = h.conf /\ DurableTold(h, n).pending = h.pending
      /\ DurableTold(h, n).queued = h.queued /\ DurableTold(h, n).next = h.next
      /\ DurableTold(h, n).ready = h.ready /\ DurableTold(h, n).epoch = h.epoch
      /\ DurableTold(h, n).sentUpTo = h.sentUpTo
  BY <1>1, <1>3, <1>4, <1>5 DEF Engines
<1>8. EngineOK(DurableTold(h, n))
  BY <1>1, <1>3, <1>7 DEF EngineOK
<1> QED BY <1>5, <1>6, <1>7, <1>8

LEMMA AnsweredOK ==
  ASSUME NEW h, EngineOK(h), NEW m, m.cseq \in Nat
  PROVE  /\ EngineOK(Answered(h, m))
         /\ Answered(h, m).pending = {b \in h.pending : b.cseq # m.cseq}
         /\ m.type = "reject" => Answered(h, m).undurable = h.undurable
         /\ h.undurable \subseteq Answered(h, m).undurable
         /\ \A u \in Answered(h, m).undurable : u \in h.undurable \/
              (m.type # "reject" /\ \E b \in h.pending : b.cseq = m.cseq /\ u = [b EXCEPT !.seq = Len(h.conf)])
         /\ m.type # "reject" => \A b \in h.pending :
              b.cseq = m.cseq => [b EXCEPT !.seq = Len(h.conf)] \in Answered(h, m).undurable
         /\ Answered(h, m).conf = h.conf /\ Answered(h, m).durable = h.durable
         /\ Answered(h, m).queued = h.queued /\ Answered(h, m).next = h.next
         /\ Answered(h, m).ready = h.ready /\ Answered(h, m).epoch = h.epoch
         /\ Answered(h, m).sentUpTo = h.sentUpTo
<1> DEFINE named == {b \in h.pending : b.cseq = m.cseq}
           rest  == h.pending \ named
           unw   == IF m.type = "reject" THEN h.undurable
                    ELSE h.undurable \cup Numbered(named, Len(h.conf))
<1>1. h \in Engines /\ h.undurable \subseteq Local /\ IsFiniteSet(h.undurable)
      /\ h.pending \subseteq Local /\ IsFiniteSet(h.pending) /\ Len(h.conf) \in Nat
  BY DEF EngineOK, Engines
<1>2. /\ named \subseteq Local /\ IsFiniteSet(named)
      /\ rest \subseteq Local /\ IsFiniteSet(rest)
  <2>1. named \subseteq h.pending /\ rest \subseteq h.pending
    OBVIOUS
  <2> HIDE DEF named, rest
  <2> QED BY <2>1, <1>1, FS_Subset
<1>3. unw \subseteq Local /\ IsFiniteSet(unw)
  <2> HIDE DEF named
  <2> QED BY <1>1, <1>2, NumberedOK, FS_Union
<1>4. Answered(h, m) = [h EXCEPT !.pending = rest, !.undurable = unw]
  BY DEF Answered
<1>5. rest = {b \in h.pending : b.cseq # m.cseq}
  OBVIOUS
<1>6. /\ m.type = "reject" => unw = h.undurable
      /\ h.undurable \subseteq unw
      /\ \A u \in unw : u \in h.undurable \/
           (m.type # "reject" /\ \E b \in h.pending : b.cseq = m.cseq /\ u = [b EXCEPT !.seq = Len(h.conf)])
      /\ m.type # "reject" => \A b \in h.pending :
           b.cseq = m.cseq => [b EXCEPT !.seq = Len(h.conf)] \in unw
  BY DEF Numbered
<1> HIDE DEF rest, unw
<1>7. /\ Answered(h, m) \in Engines
      /\ Answered(h, m).pending = rest /\ Answered(h, m).undurable = unw
      /\ Answered(h, m).conf = h.conf /\ Answered(h, m).durable = h.durable
      /\ Answered(h, m).queued = h.queued /\ Answered(h, m).next = h.next
      /\ Answered(h, m).ready = h.ready /\ Answered(h, m).epoch = h.epoch
      /\ Answered(h, m).sentUpTo = h.sentUpTo
  BY <1>1, <1>2, <1>3, <1>4 DEF Engines
<1>8. EngineOK(Answered(h, m))
  BY <1>2, <1>3, <1>7 DEF EngineOK
<1> QED BY <1>5, <1>6, <1>7, <1>8

\* What `welcome' starts from: the edits sealed, what was only local dropped
\* when the state it was computed on is replaced.
Opening(h) == IF h.ready THEN Sealed(h)
              ELSE [Sealed(h) EXCEPT !.pending = NotLocal(@)]

LEMMA OpeningOK ==
  ASSUME NEW h, EngineOK(h)
  PROVE  /\ EngineOK(Opening(h))
         /\ Opening(h).queued = <<>>
         /\ Opening(h).ready = h.ready /\ Opening(h).epoch = h.epoch /\ Opening(h).conf = h.conf
         /\ Opening(h).durable = h.durable /\ Opening(h).undurable = h.undurable
         /\ Opening(h).sentUpTo = h.sentUpTo
         /\ Opening(h).pending = IF h.ready THEN Sealed(h).pending ELSE NotLocal(Sealed(h).pending)
         /\ Opening(h).pending \subseteq Sealed(h).pending
         /\ Opening(h).next = Sealed(h).next
<1> DEFINE s == Sealed(h)
           n == NotLocal(s.pending)
<1>1. /\ EngineOK(s) /\ s.queued = <<>>
      /\ s.ready = h.ready /\ s.epoch = h.epoch /\ s.conf = h.conf
      /\ s.durable = h.durable /\ s.undurable = h.undurable /\ s.sentUpTo = h.sentUpTo
  BY SealedOK
<1>2. n \subseteq s.pending
  BY DEF NotLocal
<1>3. CASE h.ready
  BY <1>1, <1>3 DEF Opening
<1>4. CASE ~h.ready
  <2>1. Opening(h) = [s EXCEPT !.pending = n]
    BY <1>4 DEF Opening
  <2>2. n \in SUBSET Local /\ IsFiniteSet(n)
    <3> HIDE DEF n, s
    <3> QED BY <1>1, <1>2, FS_Subset DEF EngineOK, Engines
  <2> HIDE DEF n, s
  <2>3. /\ Opening(h) \in Engines /\ Opening(h).pending = n
        /\ Opening(h).queued = s.queued
        /\ Opening(h).ready = s.ready /\ Opening(h).epoch = s.epoch /\ Opening(h).conf = s.conf
        /\ Opening(h).durable = s.durable /\ Opening(h).undurable = s.undurable
        /\ Opening(h).sentUpTo = s.sentUpTo /\ Opening(h).next = s.next
    BY <1>1, <2>1, <2>2 DEF EngineOK, Engines
  <2>4. EngineOK(Opening(h))
    BY <1>1, <2>2, <2>3 DEF EngineOK
  <2> QED BY <1>1, <1>2, <1>4, <2>3, <2>4 DEF n, s
<1> QED BY <1>3, <1>4

\* How `welcome' m comes to the number q, in the log, of the batch x.
Dated(h, c, m, x, q) ==
  \/ /\ m.snapshot /\ x.cseq <= m.cseq
     /\ q = IF m.epoch = h.epoch /\ x.seq # 0 THEN x.seq ELSE m.seq
  \/ ~m.snapshot /\ x \in h.undurable /\ q = x.seq
  \/ ~m.snapshot /\ \E b \in Entries(m.batches) : b.client = c /\ x.cseq = b.cseq /\ q = b.seq
  \/ ~m.snapshot /\ ~AckedIn(c, m.batches, x) /\ x.cseq <= m.cseq /\ q = m.seq

Redated(x, q) == [x EXCEPT !.seq = q]

\* The engine after `welcome', before what is durable is dropped.
Counted(h, c, m) ==
  IF m.snapshot THEN FromSnapshot(Opening(h), m) ELSE FromCatchUp(Opening(h), c, m)

LEMMA CountedOK ==
  ASSUME NEW h, EngineOK(h), NEW c, NEW m \in Welcome
  PROVE  LET f == Opening(h)
             w == Counted(h, c, m)
         IN  /\ EngineOK(w)
             /\ w.queued = <<>> /\ w.next = f.next
             /\ w.conf = IF m.snapshot THEN m.batches ELSE h.conf \o m.batches
             /\ m.snapshot => w.pending = {p \in h.undurable \cup f.pending : p.cseq > m.cseq}
             /\ ~m.snapshot => w.pending = {p \in f.pending : p.cseq > m.cseq /\ ~AckedIn(c, m.batches, p)}
             /\ \A u \in w.undurable : \E x \in h.undurable \cup f.pending :
                  u = Redated(x, u.seq) /\ Dated(h, c, m, x, u.seq)
             /\ \A x \in h.undurable \cup f.pending :
                  \/ x \in w.pending
                  \/ \E q \in Nat : Dated(h, c, m, x, q) /\ Redated(x, q) \in w.undurable
<1> DEFINE f == Opening(h)
           w == Counted(h, c, m)
<1>1. /\ f \in Engines /\ f.pending \subseteq Local /\ f.undurable \subseteq Local
      /\ IsFiniteSet(f.pending) /\ IsFiniteSet(f.undurable) /\ EngineOK(f)
      /\ f.undurable = h.undurable /\ f.conf = h.conf /\ f.epoch = h.epoch /\ f.queued = <<>>
  BY OpeningOK DEF EngineOK, Engines
<1>2. /\ m.cseq \in Nat /\ m.seq \in Nat /\ m.batches \in Seq(Sequenced) /\ m.snapshot \in BOOLEAN
  BY DEF Welcome
<1> HIDE DEF f
<1>3. CASE m.snapshot
  <2> DEFINE mine == f.undurable \cup f.pending
             done == UpTo(mine, m.cseq)
             same == {b \in done : m.epoch = f.epoch /\ b.seq # 0}
             unw  == same \cup Numbered(done \ same, m.seq)
             rest == mine \ done
  <2>1. w = [f EXCEPT !.conf = m.batches, !.undurable = unw, !.pending = rest]
    BY <1>3 DEF Counted, FromSnapshot, f
  <2>2. mine \subseteq Local /\ IsFiniteSet(mine)
    BY <1>1, FS_Union
  <2>3. done \subseteq mine /\ same \subseteq done /\ rest \subseteq mine
    BY DEF UpTo
  <2>4. IsFiniteSet(done) /\ IsFiniteSet(same) /\ IsFiniteSet(rest) /\ IsFiniteSet(done \ same)
    <3>1. IsFiniteSet(done) /\ IsFiniteSet(rest)
      <4> HIDE DEF done, mine, rest
      <4> QED BY <2>2, <2>3, FS_Subset
    <3>2. done \ same \subseteq done
      OBVIOUS
    <3> HIDE DEF done, same
    <3> QED BY <2>3, <3>1, <3>2, FS_Subset
  <2>5. unw \subseteq Local /\ IsFiniteSet(unw)
    <3>1. done \ same \subseteq Local /\ same \subseteq Local
      BY <2>2, <2>3
    <3> HIDE DEF done, same
    <3> QED BY <1>2, <2>4, <3>1, NumberedOK, FS_Union
  <2>6. rest \subseteq Local
    BY <2>2, <2>3
  <2>7. \A x \in mine : x \in rest <=> x.cseq > m.cseq
    BY <1>2, <2>2 DEF UpTo, Local
  <2>8. ASSUME NEW u \in unw
        PROVE  \E x \in mine : u = Redated(x, u.seq) /\ Dated(h, c, m, x, u.seq)
    <3>1. CASE u \in same
      <4>1. u \in mine /\ u.cseq <= m.cseq /\ m.epoch = h.epoch /\ u.seq # 0
        BY <3>1, <1>1 DEF UpTo
      <4>2. u = Redated(u, u.seq)
        BY <4>1, <2>2 DEF Redated, Local
      <4>3. Dated(h, c, m, u, u.seq)
        BY <4>1, <1>3 DEF Dated
      <4> QED BY <4>1, <4>2, <4>3
    <3>2. CASE u \in Numbered(done \ same, m.seq)
      <4>1. PICK x \in done \ same : u = [x EXCEPT !.seq = m.seq]
        BY <3>2 DEF Numbered
      <4>2. x \in mine /\ x \in Local /\ x.cseq <= m.cseq /\ ~(m.epoch = h.epoch /\ x.seq # 0)
        BY <1>1, <2>2 DEF UpTo
      <4>3. u.seq = m.seq
        BY <4>1, <4>2 DEF Local
      <4>4. Dated(h, c, m, x, u.seq)
        BY <4>2, <4>3, <1>3 DEF Dated
      <4> QED BY <4>1, <4>2, <4>3, <4>4 DEF Redated
    <3> QED BY <3>1, <3>2
  <2>9. ASSUME NEW x \in mine, x \notin rest
        PROVE  \E q \in Nat : Dated(h, c, m, x, q) /\ Redated(x, q) \in unw
    <3>1. x \in done /\ x.cseq <= m.cseq /\ x \in Local
      BY <2>9, <2>2 DEF UpTo
    <3>2. CASE m.epoch = h.epoch /\ x.seq # 0
      <4>1. x \in same /\ x = Redated(x, x.seq) /\ x.seq \in Nat
        BY <3>1, <3>2, <1>1 DEF Redated, Local
      <4>2. Dated(h, c, m, x, x.seq)
        BY <3>1, <3>2, <1>3 DEF Dated
      <4> QED BY <4>1, <4>2
    <3>3. CASE ~(m.epoch = h.epoch /\ x.seq # 0)
      <4>1. Redated(x, m.seq) \in Numbered(done \ same, m.seq)
        BY <3>1, <3>3, <1>1 DEF Redated, Numbered
      <4>2. Dated(h, c, m, x, m.seq)
        BY <3>1, <3>3, <1>3 DEF Dated
      <4> QED BY <4>1, <4>2, <1>2
    <3> QED BY <3>2, <3>3
  <2>10. rest = {p \in h.undurable \cup f.pending : p.cseq > m.cseq}
    BY <2>3, <2>7, <1>1
  <2> HIDE DEF unw, rest, w
  <2>11. /\ w \in Engines /\ w.conf = m.batches /\ w.undurable = unw /\ w.pending = rest
         /\ w.queued = <<>> /\ w.next = f.next
    BY <1>1, <1>2, <2>1, <2>5, <2>6 DEF Engines
  <2>12. EngineOK(w)
    BY <2>4, <2>5, <2>11 DEF EngineOK
  <2> QED BY <1>1, <1>3, <2>8, <2>9, <2>10, <2>11, <2>12 DEF w, f
<1>4. CASE ~m.snapshot
  <2> DEFINE a    == Applied(f, c, m.batches)
             done == UpTo(a.pending, m.cseq)
             unw  == a.undurable \cup Numbered(done, m.seq)
             rest == a.pending \ done
  <2>1. w = [a EXCEPT !.undurable = unw, !.pending = rest]
    BY <1>4 DEF Counted, FromCatchUp, f
  <2>2. /\ EngineOK(a) /\ a.conf = h.conf \o m.batches /\ a.queued = <<>> /\ a.next = f.next
        /\ a.pending = {p \in f.pending : ~AckedIn(c, m.batches, p)}
        /\ h.undurable \subseteq a.undurable
        /\ \A u \in a.undurable :
             \/ u \in h.undurable
             \/ \E b \in Entries(m.batches), x \in f.pending :
                  AckedBy(c, m.batches, x, b) /\ u = [x EXCEPT !.seq = b.seq]
        /\ \A b \in Entries(m.batches), x \in f.pending :
             AckedBy(c, m.batches, x, b) => [x EXCEPT !.seq = b.seq] \in a.undurable
    <3>1. EngineOK(f) /\ m.batches \in Seq(Sequenced)
      BY <1>1, <1>2
    <3> HIDE DEF a
    <3>2. /\ EngineOK(a) /\ a.conf = f.conf \o m.batches /\ a.queued = f.queued /\ a.next = f.next
      <4>1. a.conf = f.conf \o m.batches
        BY <1>1 DEF a, Applied, Engines
      <4>2. a.queued = f.queued
        BY ONLY <3>1, AppliedOK DEF a
      <4>3. a.next = f.next
        BY ONLY <3>1, AppliedOK DEF a
      <4>4. EngineOK(a)
        BY ONLY <3>1, AppliedOK DEF a
      <4> QED BY <4>1, <4>2, <4>3, <4>4
    <3>4. a.pending = {p \in f.pending : ~AckedIn(c, m.batches, p)}
      BY ONLY <3>1, AppliedOK DEF a
    <3>3. /\ f.undurable \subseteq a.undurable
          /\ \A u \in a.undurable :
               \/ u \in f.undurable
               \/ \E b \in Entries(m.batches), x \in f.pending :
                    AckedBy(c, m.batches, x, b) /\ u = [x EXCEPT !.seq = b.seq]
          /\ \A b \in Entries(m.batches), x \in f.pending :
               AckedBy(c, m.batches, x, b) => [x EXCEPT !.seq = b.seq] \in a.undurable
      BY ONLY <3>1, AppliedOK DEF a
    <3> QED BY <3>2, <3>3, <3>4, <1>1
  <2> HIDE DEF a
  <2>3. /\ a \in Engines /\ a.pending \subseteq Local /\ IsFiniteSet(a.pending)
        /\ a.undurable \subseteq Local /\ IsFiniteSet(a.undurable)
    BY <2>2 DEF EngineOK, Engines
  <2>4. done \subseteq a.pending /\ rest \subseteq a.pending
    BY DEF UpTo
  <2>5. IsFiniteSet(done) /\ IsFiniteSet(rest) /\ done \subseteq Local /\ rest \subseteq Local
    <3> HIDE DEF done, rest
    <3> QED BY <2>3, <2>4, FS_Subset
  <2>6. unw \subseteq Local /\ IsFiniteSet(unw)
    <3> HIDE DEF done
    <3> QED BY <1>2, <2>3, <2>5, NumberedOK, FS_Union
  <2>7. rest = {p \in f.pending : p.cseq > m.cseq /\ ~AckedIn(c, m.batches, p)}
    BY <1>1, <1>2, <2>2 DEF UpTo, Local
  <2>8. ASSUME NEW u \in unw
        PROVE  \E x \in h.undurable \cup f.pending : u = Redated(x, u.seq) /\ Dated(h, c, m, x, u.seq)
    <3>1. CASE u \in h.undurable
      <4>1. u = Redated(u, u.seq)
        BY <3>1, <1>1 DEF Redated, Local
      <4>2. Dated(h, c, m, u, u.seq)
        BY <3>1, <1>4 DEF Dated
      <4> QED BY <3>1, <4>1, <4>2
    <3>2. CASE u \in a.undurable /\ u \notin h.undurable
      <4>2. PICK b \in Entries(m.batches), x \in f.pending :
              AckedBy(c, m.batches, x, b) /\ u = [x EXCEPT !.seq = b.seq]
        BY <2>2, <3>2
      <4>3. u.seq = b.seq
        BY <4>2, <1>1 DEF Local
      <4>4. Dated(h, c, m, x, u.seq)
        BY <4>2, <4>3, <1>4 DEF Dated, AckedBy
      <4> QED BY <4>2, <4>3, <4>4 DEF Redated
    <3>3. CASE u \in Numbered(done, m.seq)
      <4>1. PICK x \in done : u = [x EXCEPT !.seq = m.seq]
        BY <3>3 DEF Numbered
      <4>2. x \in f.pending /\ x.cseq <= m.cseq /\ ~AckedIn(c, m.batches, x) /\ u.seq = m.seq
        BY <4>1, <2>2, <2>5 DEF UpTo, Local
      <4>3. Dated(h, c, m, x, u.seq)
        BY <4>2, <1>4 DEF Dated
      <4> QED BY <4>1, <4>2, <4>3 DEF Redated
    <3> QED BY <3>1, <3>2, <3>3
  <2>9. ASSUME NEW x \in h.undurable \cup f.pending, x \notin rest
        PROVE  \E q \in Nat : Dated(h, c, m, x, q) /\ Redated(x, q) \in unw
    <3>0. x \in Local /\ x.seq \in Nat /\ x.cseq \in Nat
      BY <1>1 DEF Local
    <3>1. CASE x \in h.undurable
      <4>1. x = Redated(x, x.seq)
        BY <3>0 DEF Redated, Local
      <4>2. Dated(h, c, m, x, x.seq) /\ x \in unw
        BY <3>1, <1>4, <2>2 DEF Dated
      <4> QED BY <3>0, <4>1, <4>2
    <3>2. CASE x \in f.pending /\ AckedIn(c, m.batches, x)
      <4>1. PICK b \in Entries(m.batches) : b.client = c /\ x.cseq = b.cseq
        BY <3>2 DEF AckedIn
      <4>2. Redated(x, b.seq) \in a.undurable
        BY <4>1, <3>2, <2>2 DEF Redated, AckedBy
      <4>3. b.seq \in Nat
        <5>1. Entries(m.batches) \subseteq Sequenced
          BY <1>2, EntriesAre
        <5> QED BY <5>1, <4>1 DEF Sequenced
      <4>4. Dated(h, c, m, x, b.seq)
        BY <4>1, <1>4 DEF Dated
      <4> QED BY <4>2, <4>3, <4>4
    <3>3. CASE x \in f.pending /\ ~AckedIn(c, m.batches, x)
      <4>1. x \in done /\ x.cseq <= m.cseq
        BY <3>3, <2>2, <2>9 DEF UpTo
      <4>2. Redated(x, m.seq) \in unw
        BY <4>1 DEF Redated, Numbered
      <4>3. Dated(h, c, m, x, m.seq)
        BY <4>1, <3>3, <1>4 DEF Dated
      <4> QED BY <4>2, <4>3, <1>2
    <3> QED BY <3>1, <3>2, <3>3
  <2> HIDE DEF unw, rest, w
  <2>10. /\ w \in Engines /\ w.conf = a.conf /\ w.undurable = unw /\ w.pending = rest
         /\ w.queued = a.queued /\ w.next = a.next
    BY <2>1, <2>3, <2>5, <2>6 DEF Engines
  <2>11. EngineOK(w)
    BY <2>5, <2>6, <2>10 DEF EngineOK
  <2> QED BY <1>1, <1>4, <2>2, <2>7, <2>8, <2>9, <2>10, <2>11 DEF w, f
<1> QED BY <1>2, <1>3, <1>4

LEMMA WelcomedOK ==
  ASSUME NEW h, EngineOK(h), NEW c, NEW m \in Welcome
  PROVE  LET w == Welcomed(h, c, m)
             s == Counted(h, c, m)
         IN  /\ EngineOK(w)
             /\ w.ready /\ w.epoch = m.epoch /\ w.durable = m.durable /\ w.queued = <<>>
             /\ w.next = IF s.next > m.cseq + 1 THEN s.next ELSE m.cseq + 1
             /\ w.sentUpTo = m.cseq /\ w.conf = s.conf /\ w.pending = s.pending
             /\ w.undurable = {b \in s.undurable : b.seq > m.durable}
<1> DEFINE w == Welcomed(h, c, m)
           s == Counted(h, c, m)
           u == {b \in s.undurable : b.seq > m.durable}
           n == IF s.next > m.cseq + 1 THEN s.next ELSE m.cseq + 1
<1>1. EngineOK(s) /\ s.queued = <<>>
  BY CountedOK
<1>2. m.epoch \in Nat /\ m.durable \in Nat /\ m.cseq \in Nat
  BY DEF Welcome
<1> HIDE DEF s
<1>3. s \in Engines /\ s.next \in Nat /\ s.undurable \subseteq Local /\ IsFiniteSet(s.undurable)
  BY <1>1 DEF EngineOK, Engines
<1>4. u \subseteq Local /\ IsFiniteSet(u)
  <2>1. u \subseteq s.undurable
    OBVIOUS
  <2> HIDE DEF u
  <2> QED BY <2>1, <1>3, FS_Subset
<1>5. Max({s.next, m.cseq + 1}) = n /\ n \in Nat
  BY <1>2, <1>3, MaxOfTwo
<1>6. w = [s EXCEPT !.epoch = m.epoch, !.durable = m.durable, !.ready = TRUE,
                    !.undurable = u, !.next = n, !.sentUpTo = m.cseq]
  <2>1. w = [s EXCEPT !.epoch = m.epoch, !.durable = m.durable, !.ready = TRUE,
               !.undurable = u, !.next = Max({s.next, m.cseq + 1}), !.sentUpTo = m.cseq]
    BY DEF Welcomed, Counted, Opening, Unwritten, s
  <2> QED BY <2>1, <1>5
<1>7. u = {b \in s.undurable : b.seq > m.durable}
  OBVIOUS
<1>8. n = IF s.next > m.cseq + 1 THEN s.next ELSE m.cseq + 1
  OBVIOUS
<1> HIDE DEF u, n, w
<1>9. /\ w \in Engines /\ w.ready /\ w.epoch = m.epoch /\ w.durable = m.durable
      /\ w.queued = s.queued /\ w.next = n /\ w.sentUpTo = m.cseq /\ w.conf = s.conf
      /\ w.pending = s.pending /\ w.undurable = u
  BY <1>2, <1>3, <1>4, <1>5, <1>6 DEF Engines
<1>10. EngineOK(w)
  BY <1>1, <1>4, <1>9 DEF EngineOK
<1> QED BY <1>1, <1>7, <1>8, <1>9, <1>10 DEF w, s

LEMMA CoalescedOK ==
  ASSUME NEW h, EngineOK(h), NEW last \in h.pending
  PROVE  LET g == [last EXCEPT !.ops = last.ops \o h.queued]
         IN  /\ EngineOK(Coalesced(h, last))
             /\ g \in Local /\ g.cseq = last.cseq /\ g.transmitted = last.transmitted
             /\ g.localOnly = last.localOnly /\ g.seq = last.seq
             /\ g.ops = last.ops \o h.queued
             /\ Coalesced(h, last).pending = (h.pending \ {last}) \cup {g}
             /\ Coalesced(h, last).queued = <<>>
             /\ Coalesced(h, last).undurable = h.undurable /\ Coalesced(h, last).conf = h.conf
             /\ Coalesced(h, last).durable = h.durable /\ Coalesced(h, last).next = h.next
             /\ Coalesced(h, last).ready = h.ready /\ Coalesced(h, last).epoch = h.epoch
             /\ Coalesced(h, last).sentUpTo = h.sentUpTo
<1> DEFINE g == [last EXCEPT !.ops = last.ops \o h.queued]
           p == (h.pending \ {last}) \cup {g}
<1>1. /\ h \in Engines /\ h.pending \subseteq Local /\ IsFiniteSet(h.pending) /\ last \in Local
      /\ IsFiniteSet(h.undurable) /\ h.queued \in Seq(Edits) /\ last.ops \in Seq(Edits)
  BY DEF EngineOK, Engines, Local
<1>2. /\ g \in Local /\ g.cseq = last.cseq /\ g.transmitted = last.transmitted
      /\ g.localOnly = last.localOnly /\ g.seq = last.seq /\ g.ops = last.ops \o h.queued
  <2>1. last.ops \o h.queued \in Seq(Edits)
    BY <1>1, ConcatProperties
  <2> QED BY <1>1, <2>1 DEF Local
<1> HIDE DEF g
<1>3. p \subseteq Local /\ IsFiniteSet(p)
  <2>1. IsFiniteSet(h.pending \ {last})
    BY <1>1, FS_Difference
  <2>2. IsFiniteSet(p)
    BY <2>1, FS_AddElement
  <2> QED BY <1>1, <1>2, <2>2
<1>4. Coalesced(h, last) = [h EXCEPT !.pending = p, !.queued = <<>>]
  BY DEF Coalesced, g
<1>5. p = (h.pending \ {last}) \cup {g} /\ <<>> \in Seq(Edits)
  OBVIOUS
<1> HIDE DEF p
<1>6. /\ Coalesced(h, last) \in Engines /\ Coalesced(h, last).pending = p
      /\ Coalesced(h, last).queued = <<>>
      /\ Coalesced(h, last).undurable = h.undurable /\ Coalesced(h, last).conf = h.conf
      /\ Coalesced(h, last).durable = h.durable /\ Coalesced(h, last).next = h.next
      /\ Coalesced(h, last).ready = h.ready /\ Coalesced(h, last).epoch = h.epoch
      /\ Coalesced(h, last).sentUpTo = h.sentUpTo
  BY <1>1, <1>3, <1>4, <1>5 DEF Engines
<1>7. EngineOK(Coalesced(h, last))
  BY <1>1, <1>3, <1>6 DEF EngineOK
<1> QED BY <1>2, <1>5, <1>6, <1>7 DEF g

\* A copy, and the engine that starts from it.
CopyOK(cp) == cp \in Copies /\ IsFiniteSet(cp.batches)

LEMMA CopyOfOK ==
  ASSUME NEW h, EngineOK(h)
  PROVE  LET kept == h.undurable \cup NotLocal(h.pending)
         IN  /\ CopyOK(CopyOf(h)) /\ IsFiniteSet(kept)
             /\ CopyOf(h).next = IF kept = {} THEN 0 ELSE h.next
             /\ CopyOf(h).batches = {Bare(b) : b \in kept}
<1> DEFINE kept == h.undurable \cup NotLocal(h.pending)
<1>1. h \in Engines /\ kept \subseteq Local /\ IsFiniteSet(kept) /\ h.next \in Nat
  <2>1. NotLocal(h.pending) \subseteq h.pending
    BY DEF NotLocal
  <2>2. IsFiniteSet(NotLocal(h.pending)) /\ h \in Engines /\ h.pending \subseteq Local
        /\ IsFiniteSet(h.undurable) /\ h.undurable \subseteq Local /\ h.next \in Nat
    BY <2>1, FS_Subset DEF EngineOK, Engines
  <2> QED BY <2>1, <2>2, FS_Union
<1>2. IsFiniteSet({Bare(b) : b \in kept})
  <2> DEFINE f == [b \in kept |-> Bare(b)]
  <2>1. IsFiniteSet({f[b] : b \in DOMAIN f})
    BY <1>1, ImageFinite
  <2> QED BY <2>1
<1>3. {Bare(b) : b \in kept} \subseteq Unsynced
  BY <1>1 DEF Bare, Unsynced, Local
<1> QED BY <1>1, <1>2, <1>3 DEF CopyOf, CopyOK, Copies

LEMMA RestoredOK ==
  ASSUME NEW cp, CopyOK(cp)
  PROVE  LET h == Restored(cp)
         IN  /\ EngineOK(h)
             /\ ~h.ready /\ h.epoch = 0 /\ h.conf = <<>> /\ h.durable = 0 /\ h.queued = <<>>
             /\ h.undurable = {} /\ h.next = cp.next /\ h.sentUpTo = 0
             /\ \A p \in h.pending : /\ p.transmitted /\ ~p.localOnly /\ p.seq = 0
                                      /\ \E x \in cp.batches : x.cseq = p.cseq /\ x.ops = p.ops
             /\ \A x \in cp.batches : \E p \in h.pending : x.cseq = p.cseq /\ x.ops = p.ops
<1> DEFINE R(b) == [NewBatch(b.cseq, b.ops) EXCEPT !.transmitted = TRUE]
           p == {R(b) : b \in cp.batches}
<1>1. cp.batches \subseteq Unsynced /\ IsFiniteSet(cp.batches) /\ cp.next \in Nat
  BY DEF CopyOK, Copies
<1>2. ASSUME NEW b \in cp.batches
      PROVE  /\ R(b) \in Local /\ R(b).transmitted /\ ~R(b).localOnly /\ R(b).seq = 0
             /\ R(b).cseq = b.cseq /\ R(b).ops = b.ops
  BY <1>1 DEF NewBatch, Local, Unsynced
<1>3. IsFiniteSet(p)
  <2> DEFINE f == [b \in cp.batches |-> R(b)]
  <2>1. IsFiniteSet({f[b] : b \in DOMAIN f})
    BY <1>1, ImageFinite
  <2> QED BY <2>1
<1>4. Restored(cp) = [FreshEngine EXCEPT !.pending = p, !.next = cp.next]
  BY DEF Restored
<1>5. /\ \A x \in p : /\ x.transmitted /\ ~x.localOnly /\ x.seq = 0 /\ x \in Local
                      /\ \E b \in cp.batches : b.cseq = x.cseq /\ b.ops = x.ops
      /\ \A b \in cp.batches : \E x \in p : b.cseq = x.cseq /\ b.ops = x.ops
  BY <1>2
<1>6. IsFiniteSet({})
  BY FS_EmptySet
<1>9. p \in SUBSET Local /\ {} \in SUBSET Local /\ <<>> \in Seq(Edits) /\ <<>> \in Seq(Sequenced)
  BY <1>2
<1> HIDE DEF p
<1>7. /\ Restored(cp) \in Engines /\ Restored(cp).pending = p /\ Restored(cp).undurable = {}
      /\ ~Restored(cp).ready /\ Restored(cp).epoch = 0 /\ Restored(cp).conf = <<>>
      /\ Restored(cp).durable = 0 /\ Restored(cp).queued = <<>>
      /\ Restored(cp).next = cp.next /\ Restored(cp).sentUpTo = 0
  <2>1. Restored(cp) = [ready |-> FALSE, epoch |-> 0, conf |-> <<>>, durable |-> 0,
                        queued |-> <<>>, pending |-> p, undurable |-> {},
                        next |-> cp.next, sentUpTo |-> 0]
    BY <1>4 DEF FreshEngine
  <2> QED BY <1>1, <1>9, <2>1 DEF Engines
<1>8. EngineOK(Restored(cp))
  BY <1>3, <1>6, <1>7 DEF EngineOK
<1> QED BY <1>5, <1>7, <1>8

LEMMA FreshOK ==
  /\ EngineOK(FreshEngine) /\ CopyOK(NoCopy)
  /\ ~FreshEngine.ready /\ FreshEngine.epoch = 0 /\ FreshEngine.conf = <<>>
  /\ FreshEngine.durable = 0 /\ FreshEngine.queued = <<>>
  /\ FreshEngine.pending = {} /\ FreshEngine.undurable = {} /\ FreshEngine.next = 1
  /\ FreshEngine.sentUpTo = 0
  /\ NoCopy.next = 0 /\ NoCopy.batches = {}
<1>1. IsFiniteSet({})
  BY FS_EmptySet
<1> QED BY <1>1 DEF FreshEngine, NoCopy, EngineOK, CopyOK, Engines, Copies

----------------------------------------------------------------------------
(* Types                                                                   *)

LEMMA MessageKinds ==
  ASSUME NEW m \in Messages
  PROVE  /\ m.type \in {"welcome", "batch", "durable", "duplicate", "reject"}
         /\ m.type = "welcome" => m \in Welcome
         /\ m.type = "batch" => m.batch \in Sequenced /\ m = [type |-> "batch", batch |-> m.batch]
         /\ m.type = "durable" => m.seq \in Nat /\ m = [type |-> "durable", seq |-> m.seq]
         /\ m.type \in {"duplicate", "reject"} => m.cseq \in Nat
<1>1. CASE m \in Welcome
  BY <1>1 DEF Welcome
<1>2. CASE m \in [type : {"batch"}, batch : Sequenced]
  BY <1>2
<1>3. CASE m \in [type : {"durable"}, seq : Nat]
  BY <1>3
<1>4. CASE m \in [type : {"duplicate", "reject"}, cseq : Nat]
  BY <1>4
<1> QED BY <1>1, <1>2, <1>3, <1>4 DEF Messages

LEMMA MessagesMade ==
  /\ \A b \in Sequenced : [type |-> "batch", batch |-> b] \in Messages
  /\ \A n \in Nat : [type |-> "durable", seq |-> n] \in Messages
  /\ \A n \in Nat : [type |-> "duplicate", cseq |-> n] \in Messages
  /\ \A n \in Nat : [type |-> "reject", cseq |-> n] \in Messages
  /\ Welcome \subseteq Messages
BY DEF Messages

\* The highest number of the client's batches in a log.
LastOf(lg, c) == Max({0} \cup {lg[q].cseq : q \in {i \in 1..Len(lg) : lg[i].client = c}})

LEMMA LastOfOK ==
  ASSUME NEW lg \in Seq(Sequenced), NEW c
  PROVE  /\ LastOf(lg, c) \in Nat
         /\ \A q \in 1..Len(lg) : lg[q].client = c => lg[q].cseq <= LastOf(lg, c)
         /\ LastOf(lg, c) = 0 \/ \E q \in 1..Len(lg) : lg[q].client = c /\ lg[q].cseq = LastOf(lg, c)
<1> DEFINE I == {i \in 1..Len(lg) : lg[i].client = c}
           N == {lg[q].cseq : q \in I}
           S == {0} \cup N
<1>1. Len(lg) \in Nat /\ \A q \in 1..Len(lg) : lg[q].cseq \in Nat
  <2>1. \A q \in 1..Len(lg) : lg[q] \in Sequenced
    OBVIOUS
  <2> QED BY <2>1 DEF Sequenced
<1>2. IsFiniteSet(I)
  <2>1. IsFiniteSet(1..Len(lg)) /\ I \subseteq 1..Len(lg)
    BY <1>1, FS_Interval
  <2> HIDE DEF I
  <2> QED BY <2>1, FS_Subset
<1>3. IsFiniteSet(N)
  <2> DEFINE f == [q \in I |-> lg[q].cseq]
  <2>1. IsFiniteSet({f[q] : q \in DOMAIN f})
    <3> HIDE DEF I
    <3> QED BY <1>2, ImageFinite
  <2> QED BY <2>1
<1>4. IsFiniteSet(S)
  <2>1. IsFiniteSet({0})
    BY FS_Singleton
  <2> HIDE DEF N
  <2> QED BY <1>3, <2>1, FS_Union
<1>5. S \subseteq Nat /\ S \subseteq Int /\ S # {}
  BY <1>1
<1>6. LastOf(lg, c) = Max(S)
  BY DEF LastOf
<1>7. Max(S) \in S /\ \A y \in S : y <= Max(S)
  <2> HIDE DEF S
  <2> QED BY <1>4, <1>5, HasMax
<1>8. \A q \in 1..Len(lg) : lg[q].client = c => lg[q].cseq \in S
  OBVIOUS
<1>9. \A n \in S : n = 0 \/ \E q \in 1..Len(lg) : lg[q].client = c /\ lg[q].cseq = n
  OBVIOUS
<1> HIDE DEF S
<1> QED BY <1>5, <1>6, <1>7, <1>8, <1>9

LEMMA LastSeqIs ==
  ASSUME NEW c, log \in Seq(Sequenced)
  PROVE  LastSeq(c) = LastOf(log, c)
BY DEF LastSeq, LastOf, NumbersFrom

Types ==
  /\ TypeOK
  /\ \A c \in Clients : EngineOK(engine[c]) /\ CopyOK(copy[c])

LEMMA InitTypes == Init => Types
<1> SUFFICES ASSUME Init PROVE Types
  OBVIOUS
<1>1. /\ log = <<>> /\ durable = 0 /\ loaded = 0 /\ epoch = 1 /\ faults = 0
      /\ conn = [c \in Clients |-> "off"] /\ up = [c \in Clients |-> <<>>]
      /\ down = [c \in Clients |-> <<>>] /\ engine = [c \in Clients |-> FreshEngine]
      /\ tab = [c \in Clients |-> "open"] /\ copy = [c \in Clients |-> NoCopy]
      /\ made = [c \in Clients |-> 0] /\ waived = [c \in Clients |-> {}]
  BY DEF Init
<1>2. FreshEngine \in Engines /\ NoCopy \in Copies
  BY FreshOK DEF EngineOK, CopyOK
<1>3. \A c \in Clients : EngineOK(engine[c]) /\ CopyOK(copy[c])
  BY <1>1, FreshOK
<1>4. log \in Seq(Sequenced) /\ Len(log) = 0 /\ DOMAIN log = {}
  BY <1>1
<1>5. /\ up \in [Clients -> Seq(Unsynced)] /\ down \in [Clients -> Seq(Messages)]
      /\ conn \in [Clients -> {"off", "on", "dead"}] /\ tab \in [Clients -> {"open", "closed"}]
      /\ \A c \in Clients : conn[c] = "off" => down[c] = <<>>
  BY <1>1
<1>6. engine \in [Clients -> Engines] /\ copy \in [Clients -> Copies]
  BY <1>1, <1>2
<1>7. made \in [Clients -> 0..MaxEdits] /\ waived \in [Clients -> SUBSET Edits] /\ faults \in 0..MaxFaults
  BY <1>1, BoundsAssumption
<1> QED BY <1>1, <1>3, <1>4, <1>5, <1>6, <1>7 DEF Types, TypeOK

\* What a batch accepted by the room is.
Accepted(c, lg, x) == [seq |-> Len(lg) + 1, client |-> c, cseq |-> x.cseq, ops |-> x.ops]

LEMMA AcceptedOK ==
  ASSUME NEW c \in Clients, NEW lg \in Seq(Sequenced), NEW x \in Unsynced
  PROVE  /\ Accepted(c, lg, x) \in Sequenced
         /\ Append(lg, Accepted(c, lg, x)) \in Seq(Sequenced)
         /\ Len(Append(lg, Accepted(c, lg, x))) = Len(lg) + 1
         /\ \A q \in 1..Len(lg) : Append(lg, Accepted(c, lg, x))[q] = lg[q]
         /\ Append(lg, Accepted(c, lg, x))[Len(lg) + 1] = Accepted(c, lg, x)
<1>1. Accepted(c, lg, x) \in Sequenced
  BY DEF Accepted, Sequenced, Unsynced
<1> QED BY <1>1, AppendProperties

LEMMA ToEveryoneOK ==
  ASSUME Types, NEW m \in Messages, ToEveryone(m)
  PROVE  /\ down' \in [Clients -> Seq(Messages)]
         /\ \A d \in Clients : down'[d] = IF conn[d] = "on" THEN Append(down[d], m) ELSE down[d]
BY DEF Types, TypeOK, ToEveryone

LEMMA ToOneOK ==
  ASSUME Types, NEW c \in Clients, NEW m \in Messages, ToOne(c, m)
  PROVE  /\ down' \in [Clients -> Seq(Messages)]
         /\ \A d \in Clients : down'[d] = IF d = c /\ conn[d] = "on" THEN Append(down[d], m) ELSE down[d]
BY DEF Types, TypeOK, ToOne

LEMMA SendOK ==
  ASSUME Types, NEW c \in Clients, NEW out, out \subseteq Local, IsFiniteSet(out), Send(c, out)
  PROVE  /\ up' \in [Clients -> Seq(Unsynced)]
         /\ \A d \in Clients : d # c => up'[d] = up[d]
         /\ conn[c] # "on" => up' = up
         /\ conn[c] = "on" => \E s \in Seq(Unsynced) :
              /\ up'[c] = up[c] \o s /\ Entries(s) = {Bare(b) : b \in out}
              /\ \A i, j \in DOMAIN s : i < j => s[i].cseq <= s[j].cseq
              /\ \A i, j \in DOMAIN s : s[i] = s[j] => i = j
<1> DEFINE B == {Bare(b) : b \in out}
<1>1. B \subseteq Unsynced
  BY DEF Bare, Unsynced, Local
<1>2. IsFiniteSet(B)
  <2> DEFINE f == [b \in out |-> Bare(b)]
  <2>1. IsFiniteSet({f[b] : b \in DOMAIN f})
    BY ImageFinite
  <2> QED BY <2>1
<1>3. up \in [Clients -> Seq(Unsynced)]
  BY DEF Types, TypeOK
<1>4. CASE conn[c] = "on"
  <2>1. PICK s \in InOrder(B) : up' = [up EXCEPT ![c] = @ \o s]
    BY <1>4 DEF Send
  <2> HIDE DEF B
  <2>2. /\ s \in Seq(B) /\ Entries(s) = B
        /\ \A i, j \in DOMAIN s : i < j => s[i].cseq <= s[j].cseq
        /\ \A i, j \in DOMAIN s : s[i] = s[j] => i = j
    BY <1>2, <2>1, InOrderSeq
  <2>3. s \in Seq(Unsynced)
    BY <1>1, <2>2, SeqMonotonic
  <2>4. up[c] \o s \in Seq(Unsynced)
    BY <1>3, <2>3, ConcatProperties
  <2> QED BY <1>3, <1>4, <2>1, <2>2, <2>3, <2>4 DEF B
<1>5. CASE conn[c] # "on"
  BY <1>3, <1>5 DEF Send
<1> QED BY <1>4, <1>5

----------------------------------------------------------------------------
(* What each action does                                                   *)

\* What belongs to client d does not change.
Still(d) ==
  /\ engine'[d] = engine[d] /\ conn'[d] = conn[d] /\ up'[d] = up[d] /\ down'[d] = down[d]
  /\ tab'[d] = tab[d] /\ copy'[d] = copy[d] /\ made'[d] = made[d] /\ waived'[d] = waived[d]

\* Only c changes, and not the server.
Alone(c) ==
  /\ log' = log /\ durable' = durable /\ loaded' = loaded /\ epoch' = epoch
  /\ \A d \in Clients : d # c => Still(d)

TypesOf(c) ==
  /\ conn[c] \in {"off", "on", "dead"} /\ up[c] \in Seq(Unsynced) /\ down[c] \in Seq(Messages)
  /\ conn[c] = "off" => down[c] = <<>>
  /\ engine[c] \in Engines /\ EngineOK(engine[c])
  /\ tab[c] \in {"open", "closed"} /\ copy[c] \in Copies /\ CopyOK(copy[c])
  /\ made[c] \in 0..MaxEdits /\ waived[c] \in SUBSET Edits

\* The functions of the clients stay functions of the clients.
Shapes ==
  /\ conn \in [Clients -> {"off", "on", "dead"}]
  /\ up \in [Clients -> Seq(Unsynced)] /\ down \in [Clients -> Seq(Messages)]
  /\ engine \in [Clients -> Engines] /\ tab \in [Clients -> {"open", "closed"}]
  /\ copy \in [Clients -> Copies] /\ made \in [Clients -> 0..MaxEdits]
  /\ waived \in [Clients -> SUBSET Edits]

ServerTypes ==
  /\ log \in Seq(Sequenced) /\ \A q \in DOMAIN log : log[q].seq = q
  /\ durable \in 0..Len(log) /\ loaded \in 0..Len(log) /\ epoch \in Nat /\ faults \in 0..MaxFaults

LEMMA TypesAre ==
  Types <=> Shapes /\ ServerTypes /\ \A c \in Clients : TypesOf(c)
<1>1. ASSUME Types PROVE Shapes /\ ServerTypes
  BY <1>1 DEF Types, TypeOK, Shapes, ServerTypes
<1>2. ASSUME Types, NEW c \in Clients PROVE TypesOf(c)
  BY <1>2 DEF Types, TypeOK, TypesOf
<1>3. ASSUME Shapes, ServerTypes, \A c \in Clients : TypesOf(c) PROVE Types
  BY <1>3 DEF Types, TypeOK, TypesOf, Shapes, ServerTypes
<1> QED BY <1>1, <1>2, <1>3

LEMMA AloneTypes ==
  ASSUME Types, NEW c \in Clients, Alone(c), Shapes', TypesOf(c)', faults' \in 0..MaxFaults
  PROVE  Types'
<1>1. ServerTypes'
  BY TypesAre DEF Alone, ServerTypes
<1>2. \A d \in Clients : TypesOf(d)'
  <2> SUFFICES ASSUME NEW d \in Clients, d # c PROVE TypesOf(d)'
    OBVIOUS
  <2>1. TypesOf(d) /\ Still(d)
    BY TypesAre DEF Alone
  <2> QED BY <2>1 DEF TypesOf, Still
<1> QED BY <1>1, <1>2 DEF Types, TypeOK, TypesOf, Shapes, ServerTypes

\* A step of one client.
LEMMA ClientStep ==
  ASSUME Types, NEW c \in Clients, UNCHANGED server, faults' \in 0..MaxFaults,
         engine' = [engine EXCEPT ![c] = engine'[c]], conn' = [conn EXCEPT ![c] = conn'[c]],
         up' = [up EXCEPT ![c] = up'[c]], down' = [down EXCEPT ![c] = down'[c]],
         tab' = [tab EXCEPT ![c] = tab'[c]], copy' = [copy EXCEPT ![c] = copy'[c]],
         made' = [made EXCEPT ![c] = made'[c]], waived' = [waived EXCEPT ![c] = waived'[c]],
         EngineOK(engine'[c]), conn'[c] \in {"off", "on", "dead"}, up'[c] \in Seq(Unsynced),
         down'[c] \in Seq(Messages), conn'[c] = "off" => down'[c] = <<>>,
         tab'[c] \in {"open", "closed"}, CopyOK(copy'[c]), made'[c] \in 0..MaxEdits,
         waived'[c] \in SUBSET Edits
  PROVE  Types' /\ Alone(c)
<1>1. Shapes
  BY TypesAre
<1>2. engine'[c] \in Engines /\ copy'[c] \in Copies
  BY DEF EngineOK, CopyOK
<1>3. Shapes'
  BY <1>1, <1>2 DEF Shapes
<1>4. Alone(c)
  BY <1>1 DEF Shapes, Alone, Still, server
<1>5. TypesOf(c)'
  BY <1>2 DEF TypesOf
<1>6. Types'
  BY <1>3, <1>4, <1>5, AloneTypes
<1> QED BY <1>4, <1>6

\* What a client's step does not change.
LEMMA Unmoved ==
  ASSUME Types, NEW c \in Clients
  PROVE  /\ TypesOf(c) /\ faults \in 0..MaxFaults /\ MaxFaults \in Nat
         /\ UNCHANGED faults => faults' \in 0..MaxFaults
         /\ Fault => faults' \in 0..MaxFaults
         /\ UNCHANGED engine => engine' = [engine EXCEPT ![c] = engine'[c]] /\ EngineOK(engine'[c])
         /\ UNCHANGED conn => conn' = [conn EXCEPT ![c] = conn'[c]] /\ conn'[c] \in {"off", "on", "dead"}
         /\ UNCHANGED up => up' = [up EXCEPT ![c] = up'[c]] /\ up'[c] \in Seq(Unsynced)
         /\ UNCHANGED down => down' = [down EXCEPT ![c] = down'[c]] /\ down'[c] \in Seq(Messages)
         /\ UNCHANGED <<conn, down>> => (conn'[c] = "off" => down'[c] = <<>>)
         /\ UNCHANGED tab => tab' = [tab EXCEPT ![c] = tab'[c]] /\ tab'[c] \in {"open", "closed"}
         /\ UNCHANGED copy => copy' = [copy EXCEPT ![c] = copy'[c]] /\ CopyOK(copy'[c])
         /\ UNCHANGED made => made' = [made EXCEPT ![c] = made'[c]] /\ made'[c] \in 0..MaxEdits
         /\ UNCHANGED waived => waived' = [waived EXCEPT ![c] = waived'[c]] /\ waived'[c] \in SUBSET Edits
<1>1. Shapes /\ ServerTypes /\ TypesOf(c) /\ MaxFaults \in Nat
  BY TypesAre, BoundsAssumption
<1>2. /\ faults \in 0..MaxFaults
      /\ UNCHANGED faults => faults' \in 0..MaxFaults
      /\ Fault => faults' \in 0..MaxFaults
  BY <1>1 DEF ServerTypes, Fault
<1>3. /\ UNCHANGED engine => engine' = [engine EXCEPT ![c] = engine'[c]] /\ EngineOK(engine'[c])
      /\ UNCHANGED conn => conn' = [conn EXCEPT ![c] = conn'[c]] /\ conn'[c] \in {"off", "on", "dead"}
      /\ UNCHANGED up => up' = [up EXCEPT ![c] = up'[c]] /\ up'[c] \in Seq(Unsynced)
      /\ UNCHANGED down => down' = [down EXCEPT ![c] = down'[c]] /\ down'[c] \in Seq(Messages)
  BY <1>1 DEF Shapes, TypesOf
<1>4. /\ UNCHANGED <<conn, down>> => (conn'[c] = "off" => down'[c] = <<>>)
  BY <1>1 DEF TypesOf
<1>5. /\ UNCHANGED tab => tab' = [tab EXCEPT ![c] = tab'[c]] /\ tab'[c] \in {"open", "closed"}
      /\ UNCHANGED copy => copy' = [copy EXCEPT ![c] = copy'[c]] /\ CopyOK(copy'[c])
      /\ UNCHANGED made => made' = [made EXCEPT ![c] = made'[c]] /\ made'[c] \in 0..MaxEdits
      /\ UNCHANGED waived => waived' = [waived EXCEPT ![c] = waived'[c]] /\ waived'[c] \in SUBSET Edits
  BY <1>1 DEF Shapes, TypesOf
<1> QED BY <1>1, <1>2, <1>3, <1>4, <1>5

\* Only the engine of c changes.
LEMMA EngineStep ==
  ASSUME Types, NEW c \in Clients, NEW g, EngineOK(g), engine' = [engine EXCEPT ![c] = g],
         UNCHANGED <<server, wires, device, made, waived, faults>>
  PROVE  /\ Types' /\ Alone(c)
         /\ engine'[c] = g /\ conn'[c] = conn[c] /\ up'[c] = up[c] /\ down'[c] = down[c]
         /\ tab'[c] = tab[c] /\ copy'[c] = copy[c] /\ made'[c] = made[c] /\ waived'[c] = waived[c]
<1>1. /\ UNCHANGED conn /\ UNCHANGED up /\ UNCHANGED down /\ UNCHANGED tab /\ UNCHANGED copy
      /\ UNCHANGED made /\ UNCHANGED waived /\ UNCHANGED faults /\ UNCHANGED server
  BY DEF wires, device
<1>2. engine'[c] = g /\ engine' = [engine EXCEPT ![c] = engine'[c]]
  BY TypesAre DEF Shapes
<1>3. Types' /\ Alone(c)
  BY <1>1, <1>2, Unmoved, ClientStep
<1> QED BY <1>1, <1>2, <1>3

LEMMA EditDoes ==
  ASSUME Types, NEW c \in Clients, Edit(c)
  PROVE  LET e == <<c, made[c] + 1>>
             h == engine[c]
         IN  /\ Types' /\ Alone(c) /\ e \in Edits
             /\ tab[c] = "open" /\ made[c] < MaxEdits /\ (h.ready \/ Early(c))
             /\ made'[c] = made[c] + 1
             /\ engine'[c].queued = Append(h.queued, e)
             /\ engine'[c].ready = h.ready /\ engine'[c].epoch = h.epoch /\ engine'[c].conf = h.conf
             /\ engine'[c].durable = h.durable /\ engine'[c].pending = h.pending
             /\ engine'[c].undurable = h.undurable /\ engine'[c].next = h.next
             /\ engine'[c].sentUpTo = h.sentUpTo
             /\ conn'[c] = conn[c] /\ up'[c] = up[c] /\ down'[c] = down[c]
             /\ tab'[c] = tab[c] /\ copy'[c] = copy[c] /\ waived'[c] = waived[c]
<1> DEFINE e == <<c, made[c] + 1>>
           h == engine[c]
           g == [h EXCEPT !.queued = Append(@, e)]
<1>1. Shapes /\ TypesOf(c)
  BY TypesAre
<1>2. /\ tab[c] = "open" /\ made[c] < MaxEdits /\ (h.ready \/ Early(c))
      /\ made' = [made EXCEPT ![c] = @ + 1]
      /\ engine' = [engine EXCEPT ![c].queued = Append(@, <<c, made'[c]>>)]
      /\ UNCHANGED <<server, wires, device, waived, faults>>
  BY DEF Edit
<1>3. made[c] + 1 \in 1..MaxEdits /\ made'[c] = made[c] + 1 /\ made' = [made EXCEPT ![c] = made'[c]] /\ e \in Edits
      /\ made'[c] \in 0..MaxEdits
  BY <1>1, <1>2, BoundsAssumption DEF Shapes, Edits
<1>4. /\ g \in Engines /\ g.queued = Append(h.queued, e)
      /\ g.ready = h.ready /\ g.epoch = h.epoch /\ g.conf = h.conf
      /\ g.durable = h.durable /\ g.pending = h.pending
      /\ g.undurable = h.undurable /\ g.next = h.next /\ g.sentUpTo = h.sentUpTo
  <2>1. h \in Engines /\ Append(h.queued, e) \in Seq(Edits)
    BY <1>1, <1>3 DEF TypesOf, Engines
  <2> HIDE DEF e, h
  <2> QED BY <2>1 DEF Engines
<1>5. engine' = [engine EXCEPT ![c] = engine'[c]] /\ engine'[c] = g
  BY <1>1, <1>2, <1>3 DEF Shapes
<1>7. EngineOK(engine'[c])
  BY <1>1, <1>4, <1>5 DEF TypesOf, EngineOK
<1>8. /\ UNCHANGED conn /\ UNCHANGED up /\ UNCHANGED down /\ UNCHANGED tab /\ UNCHANGED copy
      /\ UNCHANGED waived /\ UNCHANGED faults /\ UNCHANGED server
  BY <1>2 DEF wires, device
<1> HIDE DEF g, h, e
<1>9. Types' /\ Alone(c)
  BY <1>3, <1>5, <1>7, <1>8, Unmoved, ClientStep
<1> QED BY <1>2, <1>3, <1>4, <1>5, <1>8, <1>9 DEF g, h, e

LocalEdit(h, e) == [NewBatch(h.next, <<e>>) EXCEPT !.localOnly = TRUE]

LEMMA EditLocallyDoes ==
  ASSUME Types, NEW c \in Clients, EditLocally(c)
  PROVE  LET e == <<c, made[c] + 1>>
             h == Sealed(engine[c])
             b == LocalEdit(h, e)
         IN  /\ Types' /\ Alone(c) /\ e \in Edits
             /\ tab[c] = "open" /\ made[c] < MaxEdits /\ Early(c)
             /\ made'[c] = made[c] + 1 /\ waived'[c] = waived[c] \cup {e}
             /\ engine'[c].pending = h.pending \cup {b} /\ engine'[c].next = h.next + 1
             /\ b \in Local /\ b.cseq = h.next /\ b.ops = <<e>> /\ b.localOnly /\ b.seq = 0
             /\ engine'[c].queued = <<>>
             /\ engine'[c].ready = h.ready /\ engine'[c].epoch = h.epoch /\ engine'[c].conf = h.conf
             /\ engine'[c].durable = h.durable /\ engine'[c].undurable = h.undurable
             /\ engine'[c].sentUpTo = h.sentUpTo
             /\ conn'[c] = conn[c] /\ up'[c] = up[c] /\ down'[c] = down[c]
             /\ tab'[c] = tab[c] /\ copy'[c] = copy[c]
<1> DEFINE e == <<c, made[c] + 1>>
           h == Sealed(engine[c])
           b == LocalEdit(h, e)
           g == [h EXCEPT !.pending = @ \cup {b}, !.next = @ + 1]
<1>1. TypesOf(c) /\ Shapes
  BY TypesAre
<1>2. /\ tab[c] = "open" /\ made[c] < MaxEdits /\ Early(c)
      /\ made' = [made EXCEPT ![c] = made[c] + 1] /\ made'[c] = made[c] + 1
      /\ UNCHANGED <<server, wires, device, faults>>
  BY <1>1 DEF EditLocally, Shapes
<1>3. made[c] + 1 \in 1..MaxEdits /\ made[c] + 1 \in 0..MaxEdits /\ e \in Edits
  BY <1>1, <1>2, BoundsAssumption DEF TypesOf, Edits
<1>4. waived' = [waived EXCEPT ![c] = waived[c] \cup {e}] /\ waived[c] \cup {e} \in SUBSET Edits
  BY <1>1, <1>2, <1>3 DEF EditLocally, TypesOf
<1>5. engine' = [engine EXCEPT ![c] = g]
  BY <1>2 DEF EditLocally, LocalEdit
<1>6. EngineOK(h) /\ h.queued = <<>>
  BY <1>1, SealedOK DEF TypesOf
<1> HIDE DEF h
<1>7. b \in Local /\ b.cseq = h.next /\ b.ops = <<e>> /\ b.localOnly /\ b.seq = 0
  <2>1. h.next \in Nat /\ <<e>> \in Seq(Edits)
    BY <1>3, <1>6 DEF EngineOK, Engines
  <2> HIDE DEF e
  <2> QED BY <2>1 DEF LocalEdit, NewBatch, Local
<1> HIDE DEF b
<1>8. /\ EngineOK(g)
      /\ g.pending = h.pending \cup {b} /\ g.next = h.next + 1 /\ g.queued = <<>>
      /\ g.ready = h.ready /\ g.epoch = h.epoch /\ g.conf = h.conf
      /\ g.durable = h.durable /\ g.undurable = h.undurable /\ g.sentUpTo = h.sentUpTo
  <2> DEFINE p == h.pending \cup {b}
  <2>1. h \in Engines /\ IsFiniteSet(h.undurable) /\ IsFiniteSet(h.pending) /\ h.pending \subseteq Local
        /\ h.next + 1 \in Nat
    BY <1>6 DEF EngineOK, Engines
  <2>2. IsFiniteSet(p) /\ p \in SUBSET Local
    BY <2>1, <1>7, FS_AddElement
  <2>3. g = [h EXCEPT !.pending = p, !.next = h.next + 1]
    OBVIOUS
  <2>4. p = h.pending \cup {b}
    OBVIOUS
  <2> HIDE DEF p, g
  <2>5. /\ g \in Engines /\ g.pending = p /\ g.next = h.next + 1 /\ g.queued = h.queued
        /\ g.ready = h.ready /\ g.epoch = h.epoch /\ g.conf = h.conf
        /\ g.durable = h.durable /\ g.undurable = h.undurable /\ g.sentUpTo = h.sentUpTo
    BY <2>1, <2>2, <2>3 DEF Engines
  <2> QED BY <1>6, <2>1, <2>2, <2>4, <2>5 DEF EngineOK
<1> HIDE DEF g
<1>9. /\ UNCHANGED conn /\ UNCHANGED up /\ UNCHANGED down /\ UNCHANGED tab /\ UNCHANGED copy
      /\ UNCHANGED faults /\ UNCHANGED server
  BY <1>2 DEF wires, device
<1>10. /\ engine'[c] = g /\ engine' = [engine EXCEPT ![c] = engine'[c]]
       /\ made' = [made EXCEPT ![c] = made'[c]] /\ made'[c] \in 0..MaxEdits
       /\ waived'[c] = waived[c] \cup {e} /\ waived' = [waived EXCEPT ![c] = waived'[c]]
       /\ waived'[c] \in SUBSET Edits /\ EngineOK(engine'[c])
  BY <1>1, <1>2, <1>3, <1>4, <1>5, <1>8 DEF Shapes
<1>11. Types' /\ Alone(c)
  BY <1>9, <1>10, Unmoved, ClientStep
<1> QED BY <1>2, <1>3, <1>7, <1>8, <1>9, <1>10, <1>11 DEF g, h, b, e

\* The batches out leave c on its connection.
Leaves(c, out) ==
  /\ conn[c] # "on" => up'[c] = up[c]
  /\ conn[c] = "on" => \E s \in Seq(Unsynced) :
       /\ up'[c] = up[c] \o s /\ Entries(s) = {Bare(b) : b \in out}
       /\ \A i, j \in DOMAIN s : i < j => s[i].cseq <= s[j].cseq
       /\ \A i, j \in DOMAIN s : s[i] = s[j] => i = j

LEMMA SendMoves ==
  ASSUME Types, NEW c \in Clients, NEW out, out \subseteq Local, IsFiniteSet(out), Send(c, out)
  PROVE  up' = [up EXCEPT ![c] = up'[c]] /\ up'[c] \in Seq(Unsynced) /\ Leaves(c, out)
<1>1. /\ up' \in [Clients -> Seq(Unsynced)]
      /\ \A d \in Clients : d # c => up'[d] = up[d]
      /\ conn[c] # "on" => up' = up
      /\ conn[c] = "on" => \E s \in Seq(Unsynced) :
           /\ up'[c] = up[c] \o s /\ Entries(s) = {Bare(b) : b \in out}
           /\ \A i, j \in DOMAIN s : i < j => s[i].cseq <= s[j].cseq
           /\ \A i, j \in DOMAIN s : s[i] = s[j] => i = j
  BY SendOK
<1>2. up \in [Clients -> Seq(Unsynced)]
  BY DEF Types, TypeOK
<1>3. up' = [up EXCEPT ![c] = up'[c]] /\ up'[c] \in Seq(Unsynced)
  BY <1>1, <1>2
<1> QED BY <1>1, <1>3 DEF Leaves

LEMMA FlushDoes ==
  ASSUME Types, NEW c \in Clients, Flush(c)
  PROVE  LET h == Sealed(engine[c])
         IN  /\ Types' /\ Alone(c) /\ EngineOK(h)
             /\ tab[c] = "open" /\ Online(c)
             /\ engine'[c] = Sent(h) /\ Leaves(c, Outgoing(h))
             /\ conn'[c] = conn[c] /\ down'[c] = down[c] /\ tab'[c] = tab[c] /\ copy'[c] = copy[c]
             /\ made'[c] = made[c] /\ waived'[c] = waived[c]
<1> DEFINE h == Sealed(engine[c])
<1>1. Shapes /\ TypesOf(c)
  BY TypesAre
<1>2. EngineOK(h)
  BY <1>1, SealedOK DEF TypesOf
<1> HIDE DEF h
<1>3. EngineOK(Sent(h)) /\ Outgoing(h) \subseteq Local /\ IsFiniteSet(Outgoing(h))
  BY <1>2, SentOK, OutgoingOK
<1>4. /\ tab[c] = "open" /\ Online(c)
      /\ engine' = [engine EXCEPT ![c] = Sent(h)] /\ Send(c, Outgoing(h))
      /\ UNCHANGED server /\ UNCHANGED conn /\ UNCHANGED down /\ UNCHANGED tab /\ UNCHANGED copy
      /\ UNCHANGED made /\ UNCHANGED waived /\ UNCHANGED faults
  BY DEF Flush, h, device
<1>5. engine'[c] = Sent(h) /\ engine' = [engine EXCEPT ![c] = engine'[c]]
  BY <1>1, <1>4 DEF Shapes
<1>6. up' = [up EXCEPT ![c] = up'[c]] /\ up'[c] \in Seq(Unsynced) /\ Leaves(c, Outgoing(h))
  BY <1>3, <1>4, SendMoves
<1>7. Types' /\ Alone(c)
  BY <1>3, <1>4, <1>5, <1>6, Unmoved, ClientStep
<1> QED BY <1>2, <1>4, <1>5, <1>6, <1>7 DEF h

LEMMA FlushOfflineDoes ==
  ASSUME Types, NEW c \in Clients, FlushOffline(c)
  PROVE  /\ Types' /\ Alone(c) /\ tab[c] = "open" /\ ~Online(c) /\ engine[c].queued # <<>>
         /\ \/ engine'[c] = Sealed(engine[c])
            \/ \E last \in engine[c].pending :
                 MayGrow(engine[c], last) /\ engine'[c] = Coalesced(engine[c], last)
         /\ conn'[c] = conn[c] /\ up'[c] = up[c] /\ down'[c] = down[c]
         /\ tab'[c] = tab[c] /\ copy'[c] = copy[c] /\ made'[c] = made[c] /\ waived'[c] = waived[c]
<1>1. /\ tab[c] = "open" /\ ~Online(c) /\ engine[c].queued # <<>>
      /\ UNCHANGED <<server, wires, device, made, waived, faults>>
      /\ \/ engine' = [engine EXCEPT ![c] = Sealed(engine[c])]
         \/ \E last \in engine[c].pending :
              MayGrow(engine[c], last) /\ engine' = [engine EXCEPT ![c] = Coalesced(engine[c], last)]
  BY DEF FlushOffline
<1>2. EngineOK(engine[c])
  BY TypesAre DEF TypesOf
<1>3. CASE engine' = [engine EXCEPT ![c] = Sealed(engine[c])]
  <2>1. EngineOK(Sealed(engine[c]))
    BY <1>2, SealedOK
  <2> QED BY <1>1, <1>3, <2>1, EngineStep
<1>4. ASSUME NEW last \in engine[c].pending, MayGrow(engine[c], last),
             engine' = [engine EXCEPT ![c] = Coalesced(engine[c], last)]
      PROVE  /\ Types' /\ Alone(c) /\ engine'[c] = Coalesced(engine[c], last)
             /\ conn'[c] = conn[c] /\ up'[c] = up[c] /\ down'[c] = down[c]
             /\ tab'[c] = tab[c] /\ copy'[c] = copy[c] /\ made'[c] = made[c] /\ waived'[c] = waived[c]
  <2>1. EngineOK(Coalesced(engine[c], last))
    BY <1>2, CoalescedOK
  <2> QED BY <1>1, <1>4, <2>1, EngineStep
<1> QED BY <1>1, <1>3, <1>4

LEMMA ReceiveWelcomeDoes ==
  ASSUME Types, NEW c \in Clients, ReceiveWelcome(c)
  PROVE  LET m == Head(down[c])
             h == Welcomed(engine[c], c, m)
         IN  /\ Types' /\ Alone(c) /\ EngineOK(h)
             /\ conn[c] # "off" /\ down[c] # <<>> /\ m.type = "welcome" /\ m \in Welcome
             /\ engine'[c] = Sent(h) /\ Leaves(c, Outgoing(h))
             /\ down'[c] = Tail(down[c])
             /\ conn'[c] = conn[c] /\ tab'[c] = tab[c] /\ copy'[c] = copy[c]
             /\ made'[c] = made[c] /\ waived'[c] = waived[c]
<1> DEFINE m == Head(down[c])
           h == Welcomed(engine[c], c, m)
<1>1. Shapes /\ TypesOf(c)
  BY TypesAre
<1>2. /\ conn[c] # "off" /\ down[c] # <<>> /\ m.type = "welcome"
      /\ engine' = [engine EXCEPT ![c] = Sent(h)] /\ Send(c, Outgoing(h))
      /\ down' = [down EXCEPT ![c] = Tail(down[c])]
      /\ UNCHANGED server /\ UNCHANGED conn /\ UNCHANGED tab /\ UNCHANGED copy
      /\ UNCHANGED made /\ UNCHANGED waived /\ UNCHANGED faults
  BY DEF ReceiveWelcome, device
<1>3. m \in Welcome /\ Tail(down[c]) \in Seq(Messages)
  <2>1. m \in Messages /\ Tail(down[c]) \in Seq(Messages)
    BY <1>1, <1>2 DEF TypesOf
  <2> QED BY <1>2, <2>1, MessageKinds
<1> HIDE DEF m
<1>4. EngineOK(h)
  BY <1>1, <1>3, WelcomedOK DEF TypesOf
<1> HIDE DEF h
<1>5. EngineOK(Sent(h)) /\ Outgoing(h) \subseteq Local /\ IsFiniteSet(Outgoing(h))
  BY <1>4, SentOK, OutgoingOK
<1>6. /\ engine'[c] = Sent(h) /\ engine' = [engine EXCEPT ![c] = engine'[c]]
      /\ down'[c] = Tail(down[c]) /\ down' = [down EXCEPT ![c] = down'[c]]
  BY <1>1, <1>2 DEF Shapes
<1>7. up' = [up EXCEPT ![c] = up'[c]] /\ up'[c] \in Seq(Unsynced) /\ Leaves(c, Outgoing(h))
  BY <1>2, <1>5, SendMoves
<1>8. conn'[c] = "off" => down'[c] = <<>>
  BY <1>2
<1>9. EngineOK(engine'[c]) /\ down'[c] \in Seq(Messages)
  BY <1>3, <1>5, <1>6
<1>10. Types' /\ Alone(c)
  BY <1>2, <1>6, <1>7, <1>8, <1>9, Unmoved, ClientStep
<1> QED BY <1>2, <1>3, <1>4, <1>6, <1>7, <1>10 DEF m, h

\* The engine of a client that has left its connection.
Reset(h) == [h EXCEPT !.sentUpTo = 0]

LEMMA ResetOK ==
  ASSUME NEW h, EngineOK(h)
  PROVE  /\ EngineOK(Reset(h))
         /\ Reset(h).ready = h.ready /\ Reset(h).epoch = h.epoch /\ Reset(h).conf = h.conf
         /\ Reset(h).durable = h.durable /\ Reset(h).queued = h.queued
         /\ Reset(h).pending = h.pending /\ Reset(h).undurable = h.undurable
         /\ Reset(h).next = h.next /\ Reset(h).sentUpTo = 0
BY DEF Reset, EngineOK, Engines

LEMMA HangupMoves ==
  ASSUME Types, NEW c \in Clients, Hangup(c)
  PROVE  /\ conn' = [conn EXCEPT ![c] = conn'[c]] /\ conn'[c] = "off"
         /\ down' = [down EXCEPT ![c] = down'[c]] /\ down'[c] = <<>> /\ down'[c] \in Seq(Messages)
         /\ engine' = [engine EXCEPT ![c] = engine'[c]] /\ engine'[c] = Reset(engine[c])
         /\ EngineOK(engine'[c])
<1>1. Shapes /\ TypesOf(c)
  BY TypesAre
<1>2. /\ conn' = [conn EXCEPT ![c] = "off"] /\ down' = [down EXCEPT ![c] = <<>>]
      /\ engine' = [engine EXCEPT ![c] = Reset(engine[c])]
  BY DEF Hangup, Reset
<1>3. /\ conn' = [conn EXCEPT ![c] = conn'[c]] /\ conn'[c] = "off"
      /\ down' = [down EXCEPT ![c] = down'[c]] /\ down'[c] = <<>> /\ down'[c] \in Seq(Messages)
      /\ engine' = [engine EXCEPT ![c] = engine'[c]] /\ engine'[c] = Reset(engine[c])
  BY <1>1, <1>2 DEF Shapes
<1> QED BY <1>1, <1>3, ResetOK DEF TypesOf

LEMMA DisconnectDoes ==
  ASSUME Types, NEW c \in Clients, Disconnect(c)
  PROVE  /\ Types' /\ Alone(c) /\ tab[c] = "open" /\ conn[c] # "off"
         /\ conn'[c] = "off" /\ down'[c] = <<>> /\ engine'[c] = Reset(engine[c])
         /\ up'[c] = up[c] /\ tab'[c] = tab[c] /\ copy'[c] = copy[c]
         /\ made'[c] = made[c] /\ waived'[c] = waived[c]
<1>1. /\ tab[c] = "open" /\ conn[c] # "off" /\ Hangup(c)
      /\ UNCHANGED server /\ UNCHANGED up /\ UNCHANGED tab /\ UNCHANGED copy
      /\ UNCHANGED made /\ UNCHANGED waived /\ faults' \in 0..MaxFaults
  BY Unmoved DEF Disconnect, device
<1>2. Types' /\ Alone(c)
  BY <1>1, HangupMoves, Unmoved, ClientStep
<1> QED BY <1>1, <1>2, HangupMoves

LEMMA ReceivedOK ==
  ASSUME NEW h, EngineOK(h), NEW c, NEW m \in Messages, m.type # "welcome"
  PROVE  /\ EngineOK(Received(h, c, m))
         /\ m.type = "batch" /\ IsNext(h, m.batch) => Received(h, c, m) = Applied(h, c, <<m.batch>>)
         /\ m.type = "batch" /\ ~IsNext(h, m.batch) => Received(h, c, m) = h
         /\ m.type = "durable" => Received(h, c, m) = DurableTold(h, m.seq)
         /\ m.type \in {"duplicate", "reject"} => Received(h, c, m) = Answered(h, m)
<1>1. CASE m.type = "batch"
  <2>1. <<m.batch>> \in Seq(Sequenced)
    BY <1>1, MessageKinds
  <2>2. EngineOK(Applied(h, c, <<m.batch>>))
    BY <2>1, AppliedOK
  <2> QED BY <1>1, <2>2 DEF Received
<1>2. CASE m.type = "durable"
  <2>1. EngineOK(DurableTold(h, m.seq))
    BY <1>2, MessageKinds, DurableToldOK
  <2> QED BY <1>2, <2>1 DEF Received
<1>3. CASE m.type \in {"duplicate", "reject"}
  <2>1. EngineOK(Answered(h, m))
    BY <1>3, MessageKinds, AnsweredOK
  <2> QED BY <1>3, <2>1 DEF Received
<1> QED BY <1>1, <1>2, <1>3, MessageKinds

LEMMA ReceiveDoes ==
  ASSUME Types, NEW c \in Clients, Receive(c)
  PROVE  LET m == Head(down[c])
         IN  /\ Types' /\ Alone(c)
             /\ conn[c] # "off" /\ down[c] # <<>> /\ m \in Messages /\ m.type # "welcome"
             /\ \/ /\ m.type = "batch" /\ Gap(engine[c], m.batch)
                   /\ conn'[c] = "off" /\ down'[c] = <<>> /\ engine'[c] = Reset(engine[c])
                \/ /\ m.type = "batch" => ~Gap(engine[c], m.batch)
                   /\ conn'[c] = conn[c] /\ down'[c] = Tail(down[c])
                   /\ engine'[c] = Received(engine[c], c, m)
             /\ up'[c] = up[c] /\ tab'[c] = tab[c] /\ copy'[c] = copy[c]
             /\ made'[c] = made[c] /\ waived'[c] = waived[c]
<1> DEFINE m == Head(down[c])
           gap == m.type = "batch" /\ Gap(engine[c], m.batch)
<1>1. Shapes /\ TypesOf(c)
  BY TypesAre
<1>2. /\ conn[c] # "off" /\ down[c] # <<>> /\ m.type # "welcome"
      /\ UNCHANGED server /\ UNCHANGED up /\ UNCHANGED tab /\ UNCHANGED copy
      /\ UNCHANGED made /\ UNCHANGED waived /\ UNCHANGED faults
      /\ gap => Hangup(c)
      /\ ~gap => /\ engine' = [engine EXCEPT ![c] = Received(engine[c], c, m)]
                 /\ down' = [down EXCEPT ![c] = Tail(down[c])]
                 /\ UNCHANGED conn
  BY DEF Receive, device
<1>3. m \in Messages /\ Tail(down[c]) \in Seq(Messages)
  BY <1>1, <1>2 DEF TypesOf
<1>4. CASE gap
  <2>1. Hangup(c)
    BY <1>2, <1>4
  <2>2. Types' /\ Alone(c)
    BY <1>2, <2>1, HangupMoves, Unmoved, ClientStep
  <2> QED BY <1>2, <1>3, <1>4, <2>1, <2>2, HangupMoves
<1>5. CASE ~gap
  <2> HIDE DEF m
  <2>1. EngineOK(Received(engine[c], c, m))
    BY <1>1, <1>2, <1>3, ReceivedOK DEF TypesOf
  <2>2. /\ engine'[c] = Received(engine[c], c, m) /\ engine' = [engine EXCEPT ![c] = engine'[c]]
        /\ down'[c] = Tail(down[c]) /\ down' = [down EXCEPT ![c] = down'[c]]
        /\ EngineOK(engine'[c]) /\ down'[c] \in Seq(Messages) /\ UNCHANGED conn
    BY <1>1, <1>2, <1>3, <1>5, <2>1 DEF Shapes
  <2>3. conn'[c] = "off" => down'[c] = <<>>
    BY <1>2, <2>2
  <2>4. Types' /\ Alone(c)
    BY <1>2, <2>2, <2>3, Unmoved, ClientStep
  <2> QED BY <1>2, <1>3, <1>5, <2>2, <2>4 DEF m
<1> QED BY <1>4, <1>5

LEMMA PersistDoes ==
  ASSUME Types, NEW c \in Clients, Persist(c)
  PROVE  LET h == Sealed(engine[c])
         IN  /\ Types' /\ Alone(c) /\ EngineOK(h) /\ tab[c] = "open"
             /\ engine'[c] = h /\ copy'[c] = CopyOf(h)
             /\ conn'[c] = conn[c] /\ up'[c] = up[c] /\ down'[c] = down[c]
             /\ tab'[c] = tab[c] /\ made'[c] = made[c] /\ waived'[c] = waived[c]
<1> DEFINE h == Sealed(engine[c])
<1>1. Shapes /\ TypesOf(c)
  BY TypesAre
<1>2. EngineOK(h) /\ CopyOK(CopyOf(h))
  BY <1>1, SealedOK, CopyOfOK DEF TypesOf
<1>3. /\ tab[c] = "open"
      /\ engine' = [engine EXCEPT ![c] = h] /\ copy' = [copy EXCEPT ![c] = CopyOf(h)]
      /\ UNCHANGED server /\ UNCHANGED conn /\ UNCHANGED up /\ UNCHANGED down /\ UNCHANGED tab
      /\ UNCHANGED made /\ UNCHANGED waived /\ UNCHANGED faults /\ UNCHANGED <<conn, down>>
  BY DEF Persist, wires
<1> HIDE DEF h
<1>4. /\ engine'[c] = h /\ engine' = [engine EXCEPT ![c] = engine'[c]]
      /\ copy'[c] = CopyOf(h) /\ copy' = [copy EXCEPT ![c] = copy'[c]]
      /\ EngineOK(engine'[c]) /\ CopyOK(copy'[c])
  BY <1>1, <1>2, <1>3 DEF Shapes
<1>5. Types' /\ Alone(c)
  BY <1>3, <1>4, Unmoved, ClientStep
<1> QED BY <1>2, <1>3, <1>4, <1>5 DEF h

LEMMA GoneMoves ==
  ASSUME Types, NEW c \in Clients, Gone(c)
  PROVE  /\ conn' = [conn EXCEPT ![c] = conn'[c]] /\ conn'[c] = "off"
         /\ down' = [down EXCEPT ![c] = down'[c]] /\ down'[c] = <<>> /\ down'[c] \in Seq(Messages)
         /\ engine' = [engine EXCEPT ![c] = engine'[c]] /\ engine'[c] = FreshEngine
         /\ EngineOK(engine'[c])
         /\ tab' = [tab EXCEPT ![c] = tab'[c]] /\ tab'[c] = "closed"
<1>1. Shapes
  BY TypesAre
<1>2. /\ tab' = [tab EXCEPT ![c] = "closed"] /\ engine' = [engine EXCEPT ![c] = FreshEngine]
      /\ conn' = [conn EXCEPT ![c] = "off"] /\ down' = [down EXCEPT ![c] = <<>>]
  BY DEF Gone
<1> QED BY <1>1, <1>2, FreshOK DEF Shapes

LEMMA CloseTabDoes ==
  ASSUME Types, NEW c \in Clients, CloseTab(c)
  PROVE  LET h == Sealed(engine[c])
         IN  /\ Types' /\ Alone(c) /\ EngineOK(h) /\ tab[c] = "open"
             /\ engine'[c] = FreshEngine /\ copy'[c] = CopyOf(h)
             /\ conn'[c] = "off" /\ up'[c] = up[c] /\ down'[c] = <<>>
             /\ tab'[c] = "closed" /\ made'[c] = made[c] /\ waived'[c] = waived[c]
<1> DEFINE h == Sealed(engine[c])
<1>1. Shapes /\ TypesOf(c)
  BY TypesAre
<1>2. EngineOK(h) /\ CopyOK(CopyOf(h))
  BY <1>1, SealedOK, CopyOfOK DEF TypesOf
<1>3. /\ tab[c] = "open" /\ Gone(c) /\ Fault
      /\ copy' = [copy EXCEPT ![c] = CopyOf(h)]
      /\ UNCHANGED server /\ UNCHANGED up /\ UNCHANGED made /\ UNCHANGED waived
  BY DEF CloseTab
<1> HIDE DEF h
<1>4. copy'[c] = CopyOf(h) /\ copy' = [copy EXCEPT ![c] = copy'[c]] /\ CopyOK(copy'[c])
  BY <1>1, <1>2, <1>3 DEF Shapes
<1>5. faults' \in 0..MaxFaults
  BY <1>3, Unmoved
<1>6. Types' /\ Alone(c)
  BY <1>3, <1>4, <1>5, GoneMoves, Unmoved, ClientStep
<1> QED BY <1>2, <1>3, <1>4, <1>6, GoneMoves DEF h

LEMMA KillTabDoes ==
  ASSUME Types, NEW c \in Clients, KillTab(c)
  PROVE  /\ Types' /\ Alone(c) /\ tab[c] = "open"
         /\ engine'[c] = FreshEngine /\ copy'[c] = copy[c]
         /\ conn'[c] = "off" /\ up'[c] = up[c] /\ down'[c] = <<>>
         /\ tab'[c] = "closed" /\ made'[c] = made[c]
         /\ waived'[c] = waived[c] \cup ({<<c, k>> : k \in 1..made[c]} \ EditsOf(copy[c].batches))
<1> DEFINE w == waived[c] \cup ({<<c, k>> : k \in 1..made[c]} \ EditsOf(copy[c].batches))
<1>1. Shapes /\ TypesOf(c)
  BY TypesAre
<1>2. /\ tab[c] = "open" /\ Gone(c) /\ Fault
      /\ waived' = [waived EXCEPT ![c] = w]
      /\ UNCHANGED server /\ UNCHANGED up /\ UNCHANGED made /\ UNCHANGED copy
  BY DEF KillTab
<1>3. w \in SUBSET Edits
  <2>1. \A k \in 1..made[c] : <<c, k>> \in Edits
    BY <1>1, BoundsAssumption DEF TypesOf, Edits
  <2> QED BY <1>1, <2>1 DEF TypesOf
<1> HIDE DEF w
<1>4. waived'[c] = w /\ waived' = [waived EXCEPT ![c] = waived'[c]] /\ waived'[c] \in SUBSET Edits
  BY <1>1, <1>2, <1>3 DEF Shapes
<1>5. faults' \in 0..MaxFaults
  BY <1>2, Unmoved
<1>6. Types' /\ Alone(c)
  BY <1>2, <1>4, <1>5, GoneMoves, Unmoved, ClientStep
<1> QED BY <1>2, <1>4, <1>6, GoneMoves DEF w

LEMMA ReopenDoes ==
  ASSUME Types, NEW c \in Clients, Reopen(c)
  PROVE  /\ Types' /\ Alone(c) /\ tab[c] = "closed" /\ copy[c] # NoCopy
         /\ tab'[c] = "open" /\ engine'[c] = Restored(copy[c])
         /\ conn'[c] = conn[c] /\ up'[c] = up[c] /\ down'[c] = down[c]
         /\ copy'[c] = copy[c] /\ made'[c] = made[c] /\ waived'[c] = waived[c]
<1>1. Shapes /\ TypesOf(c)
  BY TypesAre
<1>2. /\ tab[c] = "closed" /\ copy[c] # NoCopy
      /\ tab' = [tab EXCEPT ![c] = "open"] /\ engine' = [engine EXCEPT ![c] = Restored(copy[c])]
      /\ UNCHANGED server /\ UNCHANGED conn /\ UNCHANGED up /\ UNCHANGED down /\ UNCHANGED copy
      /\ UNCHANGED made /\ UNCHANGED waived /\ UNCHANGED faults /\ UNCHANGED <<conn, down>>
  BY DEF Reopen, wires
<1>3. EngineOK(Restored(copy[c]))
  BY <1>1, RestoredOK DEF TypesOf
<1>4. /\ engine'[c] = Restored(copy[c]) /\ engine' = [engine EXCEPT ![c] = engine'[c]]
      /\ tab'[c] = "open" /\ tab' = [tab EXCEPT ![c] = tab'[c]] /\ EngineOK(engine'[c])
  BY <1>1, <1>2, <1>3 DEF Shapes
<1>5. Types' /\ Alone(c)
  BY <1>2, <1>4, Unmoved, ClientStep
<1> QED BY <1>2, <1>4, <1>5

\* The `welcome' of the room to client c.
Greeting(c) ==
  [type |-> "welcome", epoch |-> epoch, seq |-> Len(log), durable |-> durable,
   cseq |-> LastSeq(c), snapshot |-> ~CanCatchUp(engine[c]),
   batches |-> SubSeq(log, (IF CanCatchUp(engine[c]) THEN Len(engine[c].conf) ELSE 0) + 1, Len(log))]

LEMMA GreetingOK ==
  ASSUME Types, NEW c \in Clients
  PROVE  /\ Greeting(c) \in Welcome
         /\ CanCatchUp(engine[c]) => Len(engine[c].conf) \in 0..Len(log)
<1>1. log \in Seq(Sequenced) /\ Len(log) \in Nat /\ durable \in Nat /\ epoch \in Nat
  BY TypesAre DEF ServerTypes
<1>2. LastSeq(c) \in Nat
  BY <1>1, LastSeqIs, LastOfOK
<1>3. engine[c].conf \in Seq(Sequenced) /\ Len(engine[c].conf) \in Nat /\ engine[c].ready \in BOOLEAN
  BY TypesAre DEF TypesOf, Engines
<1>4. CanCatchUp(engine[c]) => Len(engine[c].conf) \in 0..Len(log)
  BY <1>1, <1>3 DEF CanCatchUp
<1>5. CanCatchUp(engine[c]) \in BOOLEAN
  BY <1>3 DEF CanCatchUp
<1> DEFINE known == IF CanCatchUp(engine[c]) THEN Len(engine[c].conf) ELSE 0
<1>6. SubSeq(log, known + 1, Len(log)) \in Seq(Sequenced)
  <2>1. known + 1 \in Nat \ {0} /\ Len(log) \in 0..Len(log)
    BY <1>1, <1>4
  <2> HIDE DEF known
  <2> QED BY <1>1, <2>1, EntriesSubSeq
<1> QED BY <1>1, <1>2, <1>4, <1>5, <1>6 DEF Greeting, Welcome

LEMMA JoinDoes ==
  ASSUME Types, NEW c \in Clients, Join(c)
  PROVE  /\ Types' /\ Alone(c) /\ tab[c] = "open" /\ conn[c] = "off"
         /\ Greeting(c) \in Welcome
         /\ conn'[c] = "on" /\ up'[c] = <<>> /\ down'[c] = <<Greeting(c)>>
         /\ engine'[c] = engine[c] /\ tab'[c] = tab[c] /\ copy'[c] = copy[c]
         /\ made'[c] = made[c] /\ waived'[c] = waived[c]
<1>1. Shapes /\ TypesOf(c)
  BY TypesAre
<1>2. /\ tab[c] = "open" /\ conn[c] = "off"
      /\ down' = [down EXCEPT ![c] = <<Greeting(c)>>]
      /\ conn' = [conn EXCEPT ![c] = "on"] /\ up' = [up EXCEPT ![c] = <<>>]
      /\ UNCHANGED server /\ UNCHANGED engine /\ UNCHANGED tab /\ UNCHANGED copy
      /\ UNCHANGED made /\ UNCHANGED waived /\ UNCHANGED faults
  BY DEF Join, Greeting, device
<1>3. Greeting(c) \in Welcome /\ Greeting(c) \in Messages
  BY GreetingOK, MessagesMade
<1>4. /\ conn'[c] = "on" /\ conn' = [conn EXCEPT ![c] = conn'[c]]
      /\ up'[c] = <<>> /\ up' = [up EXCEPT ![c] = up'[c]] /\ up'[c] \in Seq(Unsynced)
      /\ down'[c] = <<Greeting(c)>> /\ down' = [down EXCEPT ![c] = down'[c]]
      /\ down'[c] \in Seq(Messages)
  BY <1>1, <1>2, <1>3 DEF Shapes
<1>5. Types' /\ Alone(c)
  BY <1>2, <1>4, Unmoved, ClientStep
<1> QED BY <1>2, <1>3, <1>4, <1>5

\* What becomes of the first batch x on its way from c to the room.
TakenAsDuplicate(c, x) ==
  /\ x.cseq <= LastSeq(c) /\ UNCHANGED server /\ UNCHANGED waived
  /\ \A d \in Clients :
       down'[d] = IF d = c /\ conn[d] = "on" THEN Append(down[d], [type |-> "duplicate", cseq |-> x.cseq])
                  ELSE down[d]

TakenAsRejected(c, x) ==
  /\ x.cseq > LastSeq(c) /\ UNCHANGED server
  /\ \A d \in Clients : waived'[d] = IF d = c THEN waived[d] \cup Entries(x.ops) ELSE waived[d]
  /\ \A d \in Clients :
       down'[d] = IF d = c /\ conn[d] = "on" THEN Append(down[d], [type |-> "reject", cseq |-> x.cseq])
                  ELSE down[d]

TakenAsApplied(c, x) ==
  /\ x.cseq > LastSeq(c) /\ log' = Append(log, Accepted(c, log, x))
  /\ durable' = durable /\ loaded' = loaded /\ epoch' = epoch /\ UNCHANGED waived
  /\ \A d \in Clients :
       down'[d] = IF conn[d] = "on"
                  THEN Append(down[d], [type |-> "batch", batch |-> Accepted(c, log, x)])
                  ELSE down[d]

LEMMA HandleBatchDoes ==
  ASSUME Types, NEW c \in Clients, HandleBatch(c)
  PROVE  LET x == Head(up[c])
         IN  /\ Types' /\ up[c] # <<>> /\ x \in Unsynced
             /\ \A d \in Clients : up'[d] = IF d = c THEN Tail(up[d]) ELSE up[d]
             /\ TakenAsDuplicate(c, x) \/ TakenAsRejected(c, x) \/ TakenAsApplied(c, x)
             /\ UNCHANGED <<conn, engine, tab, copy, made>>
<1> DEFINE x == Head(up[c])
<1>1. Shapes /\ ServerTypes /\ \A d \in Clients : TypesOf(d)
  BY TypesAre
<1>2. /\ up[c] # <<>> /\ up' = [up EXCEPT ![c] = Tail(up[c])]
      /\ UNCHANGED <<conn, engine, tab, copy, made, faults>>
      /\ HandleDuplicate(c) \/ HandleRejected(c) \/ HandleApplied(c)
  BY DEF HandleBatch, device
<1>3. x \in Unsynced /\ Tail(up[c]) \in Seq(Unsynced)
  BY <1>1, <1>2 DEF TypesOf
<1>4. /\ \A d \in Clients : up'[d] = IF d = c THEN Tail(up[d]) ELSE up[d]
      /\ up' \in [Clients -> Seq(Unsynced)]
  BY <1>1, <1>2, <1>3 DEF Shapes
<1>5. x.cseq \in Nat /\ x.ops \in Seq(Edits)
  BY <1>3 DEF Unsynced
<1> HIDE DEF x
<1>6. /\ TakenAsDuplicate(c, x) \/ TakenAsRejected(c, x) \/ TakenAsApplied(c, x)
      /\ ServerTypes' /\ down' \in [Clients -> Seq(Messages)]
      /\ waived' \in [Clients -> SUBSET Edits]
      /\ \A d \in Clients : conn[d] = "off" => down'[d] = down[d]
  <2>1. CASE HandleDuplicate(c)
    <3>1. /\ x.cseq <= LastSeq(c) /\ ToOne(c, [type |-> "duplicate", cseq |-> x.cseq])
          /\ UNCHANGED server /\ UNCHANGED waived
      BY <2>1 DEF HandleDuplicate, x
    <3>2. [type |-> "duplicate", cseq |-> x.cseq] \in Messages
      BY <1>5, MessagesMade
    <3>3. /\ down' \in [Clients -> Seq(Messages)]
          /\ \A d \in Clients :
               down'[d] = IF d = c /\ conn[d] = "on" THEN Append(down[d], [type |-> "duplicate", cseq |-> x.cseq])
                          ELSE down[d]
      BY <3>1, <3>2, ToOneOK
    <3>4. ServerTypes'
      BY <1>1, <1>2, <3>1 DEF ServerTypes, server
    <3> QED BY <1>1, <3>1, <3>3, <3>4 DEF TakenAsDuplicate, Shapes
  <2>2. CASE HandleRejected(c)
    <3>1. /\ x.cseq > LastSeq(c) /\ ToOne(c, [type |-> "reject", cseq |-> x.cseq])
          /\ waived' = [waived EXCEPT ![c] = waived[c] \cup Entries(x.ops)]
          /\ UNCHANGED server
      BY <2>2 DEF HandleRejected, x
    <3>2. [type |-> "reject", cseq |-> x.cseq] \in Messages
      BY <1>5, MessagesMade
    <3>3. /\ down' \in [Clients -> Seq(Messages)]
          /\ \A d \in Clients :
               down'[d] = IF d = c /\ conn[d] = "on" THEN Append(down[d], [type |-> "reject", cseq |-> x.cseq])
                          ELSE down[d]
      BY <3>1, <3>2, ToOneOK
    <3>4. Entries(x.ops) \subseteq Edits
      BY <1>5, EntriesAre
    <3>5. /\ waived' \in [Clients -> SUBSET Edits]
          /\ \A d \in Clients : waived'[d] = IF d = c THEN waived[d] \cup Entries(x.ops) ELSE waived[d]
      BY <1>1, <3>1, <3>4 DEF Shapes
    <3>6. ServerTypes'
      BY <1>1, <1>2, <3>1 DEF ServerTypes, server
    <3> QED BY <3>1, <3>3, <3>5, <3>6 DEF TakenAsRejected
  <2>3. CASE HandleApplied(c)
    <3> DEFINE b == Accepted(c, log, x)
    <3>1. /\ x.cseq > LastSeq(c) /\ log' = Append(log, b)
          /\ ToEveryone([type |-> "batch", batch |-> b])
          /\ durable' = durable /\ loaded' = loaded /\ epoch' = epoch /\ UNCHANGED waived
      BY <2>3 DEF HandleApplied, Accepted, x
    <3>2. /\ b \in Sequenced /\ Append(log, b) \in Seq(Sequenced) /\ Len(Append(log, b)) = Len(log) + 1
          /\ \A q \in 1..Len(log) : Append(log, b)[q] = log[q]
          /\ Append(log, b)[Len(log) + 1] = b
      BY <1>1, <1>3, AcceptedOK DEF ServerTypes
    <3>3. [type |-> "batch", batch |-> b] \in Messages
      BY <3>2, MessagesMade
    <3>4. b.seq = Len(log) + 1
      BY DEF Accepted
    <3> HIDE DEF b
    <3>5. /\ down' \in [Clients -> Seq(Messages)]
          /\ \A d \in Clients :
               down'[d] = IF conn[d] = "on" THEN Append(down[d], [type |-> "batch", batch |-> b]) ELSE down[d]
      BY <3>1, <3>3, ToEveryoneOK
    <3>6. ServerTypes'
      <4>1. DOMAIN log = 1..Len(log) /\ DOMAIN log' = 1..Len(log) + 1 /\ Len(log) \in Nat
        BY <1>1, <3>1, <3>2 DEF ServerTypes
      <4>2. \A q \in DOMAIN log' : log'[q].seq = q
        BY <1>1, <3>1, <3>2, <3>4, <4>1 DEF ServerTypes
      <4> QED BY <1>1, <1>2, <3>1, <3>2, <4>1, <4>2 DEF ServerTypes
    <3> QED BY <1>1, <3>1, <3>5, <3>6 DEF TakenAsApplied, Shapes, b
  <2> QED BY <1>2, <2>1, <2>2, <2>3
<1>7. Shapes'
  BY <1>1, <1>2, <1>4, <1>6 DEF Shapes
<1>8. Types'
  BY <1>1, <1>2, <1>4, <1>6, <1>7 DEF Types, TypeOK, Shapes, ServerTypes, TypesOf
<1> QED BY <1>2, <1>3, <1>4, <1>6, <1>8 DEF x

LEMMA MarkDurableDoes ==
  ASSUME Types, MarkDurable
  PROVE  /\ Types' /\ log' = log /\ loaded' = loaded /\ epoch' = epoch
         /\ durable' \in durable + 1 .. Len(log)
         /\ \A d \in Clients :
              down'[d] = IF conn[d] = "on" THEN Append(down[d], [type |-> "durable", seq |-> durable'])
                         ELSE down[d]
         /\ UNCHANGED <<conn, up, engine, tab, copy, made, waived>>
<1>1. Shapes /\ ServerTypes /\ \A d \in Clients : TypesOf(d)
  BY TypesAre
<1>2. /\ log' = log /\ loaded' = loaded /\ epoch' = epoch /\ faults' = faults
      /\ durable' \in durable + 1 .. Len(log)
      /\ ToEveryone([type |-> "durable", seq |-> durable'])
      /\ UNCHANGED <<conn, up, engine, tab, copy, made, waived>>
  BY DEF MarkDurable, device
<1>3. [type |-> "durable", seq |-> durable'] \in Messages
  <2>1. durable' \in Nat
    BY <1>1, <1>2 DEF ServerTypes
  <2> QED BY <2>1, MessagesMade
<1>4. /\ down' \in [Clients -> Seq(Messages)]
      /\ \A d \in Clients :
           down'[d] = IF conn[d] = "on" THEN Append(down[d], [type |-> "durable", seq |-> durable'])
                      ELSE down[d]
  BY <1>2, <1>3, ToEveryoneOK
<1>5. ServerTypes'
  BY <1>1, <1>2 DEF ServerTypes
<1>6. Types'
  BY <1>1, <1>2, <1>4, <1>5 DEF Types, TypeOK, Shapes, ServerTypes, TypesOf
<1> QED BY <1>2, <1>4, <1>6

LEMMA RestartDoes ==
  ASSUME Types, Restart
  PROVE  /\ Types' /\ \E n \in durable..Len(log) : log' = SubSeq(log, 1, n) /\ durable' = n /\ Len(log') = n
         /\ \A q \in 1..Len(log') : log'[q] = log[q]
         /\ Len(log') <= Len(log) /\ durable <= durable' /\ durable' = Len(log')
         /\ epoch' = epoch + 1 /\ "restart" \in Situations
         /\ \A d \in Clients : conn'[d] = IF conn[d] = "on" THEN "dead" ELSE conn[d]
         /\ \A d \in Clients : up'[d] = <<>>
         /\ UNCHANGED <<down, engine, tab, copy, made, waived>>
<1>1. Shapes /\ ServerTypes /\ \A d \in Clients : TypesOf(d)
  BY TypesAre
<1>2. PICK n \in durable..Len(log) : log' = SubSeq(log, 1, n) /\ durable' = n /\ loaded' = n
  BY DEF Restart
<1>3. /\ epoch' = epoch + 1 /\ "restart" \in Situations
      /\ conn' = [d \in Clients |-> IF conn[d] = "on" THEN "dead" ELSE conn[d]]
      /\ up' = [d \in Clients |-> <<>>]
      /\ UNCHANGED <<down, engine, tab, copy, made, waived>> /\ Fault
  BY DEF Restart, device
<1>4. n \in 0..Len(log) /\ log \in Seq(Sequenced) /\ Len(log) \in Nat /\ durable \in Nat
  BY <1>1, <1>2 DEF ServerTypes
<1>5. /\ log' \in Seq(Sequenced) /\ Len(log') = n
      /\ \A q \in 1..n : log'[q] = log[q]
  BY <1>2, <1>4, EntriesSubSeq
<1>6. ServerTypes'
  <2>1. faults' \in 0..MaxFaults
    BY <1>1, <1>3, BoundsAssumption DEF ServerTypes, Fault
  <2> QED BY <1>1, <1>2, <1>3, <1>4, <1>5, <2>1 DEF ServerTypes
<1>7. /\ conn' \in [Clients -> {"off", "on", "dead"}]
      /\ up' \in [Clients -> Seq(Unsynced)]
  BY <1>1, <1>3 DEF Shapes
<1>8. Types'
  BY <1>1, <1>3, <1>6, <1>7 DEF Types, TypeOK, Shapes, ServerTypes, TypesOf
<1> QED BY <1>2, <1>3, <1>4, <1>5, <1>8

LEMMA TypesStep ==
  ASSUME Types, [Next]_vars
  PROVE  Types'
<1>1. CASE UNCHANGED vars
  BY <1>1 DEF vars, server, wires, device, Types, TypeOK
<1>2. ASSUME NEW c \in Clients, Client(c) \/ Join(c) \/ HandleBatch(c)
      PROVE  Types'
  BY <1>2, EditDoes, EditLocallyDoes, FlushDoes, FlushOfflineDoes, ReceiveWelcomeDoes, ReceiveDoes,
     DisconnectDoes, PersistDoes, CloseTabDoes, KillTabDoes, ReopenDoes, JoinDoes, HandleBatchDoes
     DEF Client
<1> QED BY <1>1, <1>2, MarkDurableDoes, RestartDoes DEF Next

\* Engines, copies, messages and the room keep their types, and the batches an
\* engine or a copy keeps are finitely many, whatever is lost, restarted,
\* closed, killed or adopted (the methods of syncEngine.ts, collabClient.ts,
\* session.ts and room.ts).
THEOREM Typed == Spec => []Types
<1>1. Init => Types
  BY InitTypes
<1>2. Types /\ [Next]_vars => Types'
  BY TypesStep
<1> QED BY <1>1, <1>2, PTL DEF Spec

----------------------------------------------------------------------------
(* Numbers and their order.  What the code relies on: a number names one    *)
(* batch for ever once it has left the device, so a batch that may still    *)
(* grow, or has no number yet, comes after all that left.                   *)

Untouched(b) == ~b.transmitted /\ ~b.localOnly

Pair(b)      == <<b.cseq, b.ops>>
Before(s, t) == \A i \in DOMAIN s, j \in DOMAIN t : s[i][2] < t[j][2]
Ascends(s)   == \A i, j \in DOMAIN s : i < j => s[i][2] < s[j][2]

\* The numbers of c, with their edits, that a message carries.
BatchesOf(m)  == IF m.type = "batch" THEN {m.batch}
                 ELSE IF m.type = "welcome" THEN Entries(m.batches) ELSE {}
Names(m)      == m.type \in {"welcome", "duplicate", "reject"}
Carries(c, m, x) ==
  \/ Names(m) /\ x = <<m.cseq, <<>>>>
  \/ \E b \in BatchesOf(m) : b.client = c /\ x = Pair(b)

\* All that the room or a connection holds, or the room has sent, of c.
IsAbroad(c, lg, cf, u, dn, x) ==
  \/ x = <<0, <<>>>>
  \/ \E b \in Entries(lg) : b.client = c /\ x = Pair(b)
  \/ \E b \in Entries(cf) : b.client = c /\ x = Pair(b)
  \/ \E b \in Entries(u) : x = Pair(b)
  \/ \E m \in Entries(dn) : Carries(c, m, x)

Abroad(c) ==
  {x \in Nat \X Seq(Edits) : IsAbroad(c, log, engine[c].conf, up[c], down[c], x)}

\* These, and what the device holds.
Mine(h, cp, A) ==
  A \cup {Pair(b) : b \in h.pending \cup h.undurable \cup cp.batches}
    \cup {<<h.next, h.queued>>}

\* A batch with a larger number holds later edits, and edits of c only.
Ordered(c, n, M) ==
  \A x \in M :
    /\ Ascends(x[2])
    /\ \A i \in DOMAIN x[2] : x[2][i][1] = c /\ x[2][i][2] <= n
    /\ \A y \in M : x[1] < y[1] => Before(x[2], y[2])

\* The batches of an engine h, its copy cp, and what has left the device, A.
Numbering(h, cp, A) ==
  /\ \A b \in h.pending \cup h.undurable : 0 < b.cseq /\ b.cseq < h.next
  /\ \A x \in cp.batches : 0 < x.cseq /\ x.cseq < cp.next
  /\ h.ready \/ h.queued # <<>> => h.sentUpTo < h.next /\ \A x \in A : x[1] < h.next
  /\ \A p \in h.pending : Untouched(p) =>
       /\ h.sentUpTo < p.cseq
       /\ \A x \in A : x[1] < p.cseq
       /\ \A b \in h.pending : Untouched(b) \/ b.localOnly \/ b.cseq < p.cseq
       /\ \A b \in h.undurable : b.cseq < p.cseq
       /\ \A x \in cp.batches : x.cseq <= p.cseq \/ \E r \in h.pending : Untouched(r) /\ r.cseq = x.cseq
  /\ \A b \in h.undurable : b.transmitted /\ ~b.localOnly
  /\ \A b \in h.pending : b.localOnly => ~h.ready

\* A client that has not read its first welcome: the welcome comes first on its
\* connection, before anything else leaves, and counts all that left before.
Greeted(c) ==
  /\ ~engine[c].ready => engine[c].conf = <<>> /\ engine[c].sentUpTo = 0
  /\ ~engine[c].ready /\ conn[c] # "off" => WelcomeWaits(c)
  /\ \A i \in DOMAIN down[c] : down[c][i].type = "welcome" => i = 1
  /\ WelcomeWaits(c) => up[c] = <<>>
  /\ WelcomeWaits(c) /\ ~engine[c].ready => \A x \in Abroad(c) : x[1] <= Head(down[c]).cseq
  /\ tab[c] = "open" => copy[c].next <= engine[c].next
  /\ tab[c] = "closed" => conn[c] = "off"

\* The batches of a client are accepted in the order of their numbers.
LogOrdered ==
  \A q, r \in DOMAIN log : q < r /\ log[q].client = log[r].client => log[q].cseq < log[r].cseq

OrderOf(c) ==
  /\ Numbering(engine[c], copy[c], Abroad(c)) /\ Greeted(c)
  /\ Ordered(c, made[c], Mine(engine[c], copy[c], Abroad(c)))

OrderInv == LogOrdered /\ \A c \in Clients : OrderOf(c)

LEMMA EngineFields ==
  ASSUME NEW h, EngineOK(h)
  PROVE  /\ h \in Engines /\ h.next \in Nat /\ h.sentUpTo \in Nat /\ h.queued \in Seq(Edits) /\ h.ready \in BOOLEAN
         /\ h.conf \in Seq(Sequenced) /\ h.epoch \in Nat /\ h.durable \in Nat
         /\ h.pending \subseteq Local /\ h.undurable \subseteq Local
         /\ \A b \in h.pending \cup h.undurable :
              /\ b \in Local /\ b.cseq \in Nat /\ b.ops \in Seq(Edits) /\ b.seq \in Nat
              /\ b.transmitted \in BOOLEAN /\ b.localOnly \in BOOLEAN
<1>1. h \in Engines /\ h.pending \subseteq Local /\ h.undurable \subseteq Local
  BY DEF EngineOK, Engines
<1> QED BY <1>1 DEF Engines, Local

LEMMA CopyFields ==
  ASSUME NEW cp, CopyOK(cp)
  PROVE  cp.next \in Nat /\ \A x \in cp.batches : x.cseq \in Nat /\ x.ops \in Seq(Edits) /\ x \in Unsynced
BY DEF CopyOK, Copies, Unsynced

Away == SUBSET (Nat \X Seq(Edits))

LEMMA AwayFields ==
  ASSUME NEW A \in Away
  PROVE  \A x \in A : x[1] \in Nat /\ x[2] \in Seq(Edits) /\ x = <<x[1], x[2]>>
BY DEF Away

LEMMA NumberingShrinks ==
  ASSUME NEW h, NEW cp, NEW A, NEW B, Numbering(h, cp, A), \A x \in B : \E y \in A : y[1] = x[1]
  PROVE  Numbering(h, cp, B)
<1>1. ASSUME NEW p \in h.pending, Untouched(p), NEW x \in B PROVE x[1] < p.cseq
  BY <1>1 DEF Numbering
<1>2. ASSUME h.ready \/ h.queued # <<>>, NEW x \in B PROVE x[1] < h.next
  BY <1>2 DEF Numbering
<1> QED BY <1>1, <1>2 DEF Numbering

LEMMA NumberingSealed ==
  ASSUME NEW h, EngineOK(h), NEW cp, CopyOK(cp), NEW A \in Away, Numbering(h, cp, A), cp.next <= h.next
  PROVE  Numbering(Sealed(h), cp, A)
<1>1. CASE h.queued = <<>>
  BY <1>1, SealedOK
<1>2. CASE h.queued # <<>>
  <2> DEFINE s == Sealed(h)
             n == NewBatch(h.next, h.queued)
  <2>1. /\ s.queued = <<>> /\ s.ready = h.ready /\ s.undurable = h.undurable /\ s.sentUpTo = h.sentUpTo
        /\ s.pending = h.pending \cup {n} /\ s.next = h.next + 1
    BY <1>2, SealedOK
  <2>2. n.cseq = h.next /\ Untouched(n) /\ ~n.localOnly
    BY DEF NewBatch, Untouched
  <2> HIDE DEF s, n
  <2>3. /\ h.next \in Nat /\ h.sentUpTo \in Nat /\ cp.next \in Nat
        /\ \A b \in h.pending \cup h.undurable : b.cseq \in Nat
        /\ \A x \in cp.batches : x.cseq \in Nat
        /\ \A x \in A : x[1] \in Nat
    BY EngineFields, CopyFields, AwayFields
  <2>4. h.sentUpTo < h.next /\ \A x \in A : x[1] < h.next
    BY <1>2 DEF Numbering
  <2>5. ASSUME NEW p \in s.pending, Untouched(p)
        PROVE  /\ s.sentUpTo < p.cseq
               /\ \A x \in A : x[1] < p.cseq
               /\ \A b \in s.pending : Untouched(b) \/ b.localOnly \/ b.cseq < p.cseq
               /\ \A b \in s.undurable : b.cseq < p.cseq
               /\ \A x \in cp.batches : x.cseq <= p.cseq \/ \E r \in s.pending : Untouched(r) /\ r.cseq = x.cseq
    <3>1. CASE p = n
      BY <3>1, <2>1, <2>2, <2>3, <2>4 DEF Numbering
    <3>2. CASE p \in h.pending
      BY <3>2, <2>5, <2>1, <2>2 DEF Numbering
    <3> QED BY <3>1, <3>2, <2>1
  <2>6. /\ \A b \in s.pending \cup s.undurable : 0 < b.cseq /\ b.cseq < s.next
        /\ s.sentUpTo < s.next /\ \A x \in A : x[1] < s.next
    BY <2>1, <2>2, <2>3, <2>4 DEF Numbering
  <2>7. /\ \A x \in cp.batches : 0 < x.cseq /\ x.cseq < cp.next
        /\ \A b \in s.undurable : b.transmitted /\ ~b.localOnly
        /\ \A b \in s.pending : b.localOnly => ~s.ready
    BY <2>1, <2>2 DEF Numbering
  <2> QED BY <2>5, <2>6, <2>7 DEF Numbering, s
<1> QED BY <1>1, <1>2

LEMMA NumberingSent ==
  ASSUME NEW h, EngineOK(h), NEW cp, CopyOK(cp), NEW A \in Away, Numbering(h, cp, A), h.queued = <<>>
  PROVE  Numbering(Sent(h), cp, A \cup {Pair(b) : b \in Outgoing(h)})
<1> DEFINE s == Sent(h)
           O == Outgoing(h)
           B == A \cup {Pair(b) : b \in O}
<1>1. /\ s.queued = h.queued /\ s.ready = h.ready /\ s.undurable = h.undurable /\ s.next = h.next
      /\ s.pending = (h.pending \ O) \cup {Transmit(b) : b \in O}
      /\ O = {} => s = h
      /\ \A b \in O : b.cseq <= s.sentUpTo
      /\ O # {} => \E b \in O : b.cseq = s.sentUpTo
  BY SentOK
<1>2. /\ O \subseteq Unsent(h) /\ O \subseteq h.pending
      /\ \A b \in O : b \in Local /\ ~b.localOnly /\ b.cseq > h.sentUpTo
      /\ \A b \in O, p \in Unsent(h) : p \in O \/ b.cseq < p.cseq
  BY OutgoingOK
<1>3. /\ h.next \in Nat /\ h.sentUpTo \in Nat /\ cp.next \in Nat
      /\ \A b \in h.pending \cup h.undurable : b.cseq \in Nat
      /\ \A x \in cp.batches : x.cseq \in Nat
      /\ \A x \in A : x[1] \in Nat
  BY EngineFields, CopyFields, AwayFields
<1>4. \A x \in B : x \in A \/ \E b \in O : x[1] = b.cseq
  BY DEF Pair
<1>5. \A b \in s.pending : \/ b \in h.pending /\ b \notin O
                           \/ \E r \in O : b.cseq = r.cseq /\ b.transmitted /\ ~b.localOnly
  BY <1>1, <1>2 DEF Transmit, Local
<1> HIDE DEF s, O, B
<1>6. ASSUME NEW p \in s.pending, Untouched(p)
      PROVE  /\ s.sentUpTo < p.cseq
             /\ \A x \in B : x[1] < p.cseq
             /\ \A b \in s.pending : Untouched(b) \/ b.localOnly \/ b.cseq < p.cseq
             /\ \A b \in s.undurable : b.cseq < p.cseq
             /\ \A x \in cp.batches : x.cseq <= p.cseq \/ \E r \in s.pending : Untouched(r) /\ r.cseq = x.cseq
  <2>1. p \in h.pending /\ p \notin O
    BY <1>5, <1>6 DEF Untouched
  <2>2. p \in Unsent(h)
    BY <1>6, <2>1 DEF Unsent, NotLocal, Untouched, Numbering
  <2>3. \A b \in O : b.cseq < p.cseq
    BY <1>2, <2>1, <2>2
  <2>4. s.sentUpTo < p.cseq
    BY <1>1, <1>6, <2>1, <2>3 DEF Numbering
  <2>5. \A x \in B : x[1] < p.cseq
    BY <1>4, <1>6, <2>1, <2>3 DEF Numbering
  <2>6. \A b \in s.pending : Untouched(b) \/ b.localOnly \/ b.cseq < p.cseq
    BY <1>5, <1>6, <2>1, <2>3 DEF Numbering
  <2>7. \A b \in s.undurable : b.cseq < p.cseq
    BY <1>1, <1>6, <2>1 DEF Numbering
  <2>8. ASSUME NEW x \in cp.batches, ~(x.cseq <= p.cseq)
        PROVE  \E r \in s.pending : Untouched(r) /\ r.cseq = x.cseq
    <3>1. PICK r \in h.pending : Untouched(r) /\ r.cseq = x.cseq
      BY <1>6, <2>1, <2>8 DEF Numbering
    <3>2. r \notin O
      BY <1>3, <2>1, <2>3, <2>8, <3>1
    <3> QED BY <1>1, <3>1, <3>2
  <2> QED BY <2>4, <2>5, <2>6, <2>7, <2>8
<1>7. \A b \in s.pending \cup s.undurable : 0 < b.cseq /\ b.cseq < s.next
  BY <1>1, <1>2, <1>5 DEF Numbering
<1>8. ASSUME s.ready \/ s.queued # <<>> PROVE s.sentUpTo < s.next /\ \A x \in B : x[1] < s.next
  BY <1>1, <1>2, <1>3, <1>4, <1>8 DEF Numbering
<1>9. /\ \A x \in cp.batches : 0 < x.cseq /\ x.cseq < cp.next
      /\ \A b \in s.undurable : b.transmitted /\ ~b.localOnly
      /\ \A b \in s.pending : b.localOnly => ~s.ready
  BY <1>1, <1>5 DEF Numbering
<1>10. Numbering(s, cp, B)
  BY <1>6, <1>7, <1>8, <1>9 DEF Numbering
<1> QED BY <1>10 DEF s, O, B

\* What has reached the room is not untouched.
LEMMA KnownIsTouched ==
  ASSUME NEW h, EngineOK(h), NEW cp, NEW A \in Away, Numbering(h, cp, A),
         NEW p \in h.pending, NEW x \in A, p.cseq <= x[1]
  PROVE  ~Untouched(p)
<1>1. p.cseq \in Nat /\ x[1] \in Nat
  BY EngineFields, AwayFields
<1> QED BY <1>1 DEF Numbering

\* The engine g holds batches of h, and those it takes for acknowledged are
\* batches of h that have reached the room.
Settles(h, g, A) ==
  /\ \A b \in g.pending : b \in h.pending \cup h.undurable
  /\ \A p \in h.pending : p \in g.pending \/ p.localOnly \/ \E x \in A : p.cseq <= x[1]
  /\ \A u \in g.undurable : \E b \in h.pending \cup h.undurable :
       /\ u.cseq = b.cseq /\ u.ops = b.ops /\ u.transmitted = b.transmitted /\ u.localOnly = b.localOnly
       /\ b \in h.undurable \/ (~b.localOnly /\ \E x \in A : b.cseq <= x[1])

LEMMA NumberingSettles ==
  ASSUME NEW h, EngineOK(h), NEW g, EngineOK(g), NEW cp, CopyOK(cp), NEW A \in Away,
         Numbering(h, cp, A), Settles(h, g, A), h.next <= g.next,
         g.ready => \A b \in g.pending : ~b.localOnly,
         g.ready \/ g.queued # <<>> => g.sentUpTo < g.next /\ \A x \in A : x[1] < g.next,
         g.sentUpTo = h.sentUpTo \/ \E x \in A : g.sentUpTo <= x[1]
  PROVE  Numbering(g, cp, A)
<1>1. /\ h.next \in Nat /\ g.next \in Nat /\ h.sentUpTo \in Nat /\ g.sentUpTo \in Nat /\ cp.next \in Nat
      /\ \A b \in h.pending \cup h.undurable : b.cseq \in Nat
      /\ \A b \in h.pending \cup h.undurable : b.transmitted \in BOOLEAN /\ b.localOnly \in BOOLEAN
      /\ \A b \in g.pending \cup g.undurable : b.cseq \in Nat
      /\ \A x \in cp.batches : x.cseq \in Nat
      /\ \A x \in A : x[1] \in Nat
  BY EngineFields, CopyFields, AwayFields
<1>2. \A b \in g.pending \cup g.undurable : 0 < b.cseq /\ b.cseq < g.next
  BY <1>1 DEF Numbering, Settles
<1>3. ASSUME NEW u \in g.undurable PROVE u.transmitted /\ ~u.localOnly
  <2>1. PICK b \in h.pending \cup h.undurable :
          /\ u.cseq = b.cseq /\ u.ops = b.ops /\ u.transmitted = b.transmitted /\ u.localOnly = b.localOnly
          /\ b \in h.undurable \/ (~b.localOnly /\ \E x \in A : b.cseq <= x[1])
    BY DEF Settles
  <2>2. CASE b \in h.undurable
    BY <2>1, <2>2 DEF Numbering
  <2>3. CASE b \in h.pending /\ ~b.localOnly /\ \E x \in A : b.cseq <= x[1]
    <3>1. ~Untouched(b)
      BY <2>3, KnownIsTouched
    <3> QED BY <2>1, <2>3, <3>1 DEF Untouched
  <2> QED BY <2>1, <2>2, <2>3
<1>4. ASSUME NEW p \in g.pending, Untouched(p)
      PROVE  /\ g.sentUpTo < p.cseq
             /\ \A x \in A : x[1] < p.cseq
             /\ \A b \in g.pending : Untouched(b) \/ b.localOnly \/ b.cseq < p.cseq
             /\ \A b \in g.undurable : b.cseq < p.cseq
             /\ \A x \in cp.batches : x.cseq <= p.cseq \/ \E r \in g.pending : Untouched(r) /\ r.cseq = x.cseq
  <2>1. p \in h.pending
    BY <1>4 DEF Settles, Numbering, Untouched
  <2>2. /\ h.sentUpTo < p.cseq
        /\ \A x \in A : x[1] < p.cseq
        /\ \A b \in h.pending : Untouched(b) \/ b.localOnly \/ b.cseq < p.cseq
        /\ \A b \in h.undurable : b.cseq < p.cseq
        /\ \A x \in cp.batches : x.cseq <= p.cseq \/ \E r \in h.pending : Untouched(r) /\ r.cseq = x.cseq
    BY <1>4, <2>1 DEF Numbering
  <2>3. g.sentUpTo < p.cseq
    BY <1>1, <2>1, <2>2
  <2>4. \A b \in g.pending : Untouched(b) \/ b.localOnly \/ b.cseq < p.cseq
    BY <2>2 DEF Settles
  <2>5. ASSUME NEW u \in g.undurable PROVE u.cseq < p.cseq
    <3>1. PICK b \in h.pending \cup h.undurable :
            u.cseq = b.cseq /\ (b \in h.undurable \/ \E x \in A : b.cseq <= x[1])
      BY DEF Settles
    <3> QED BY <1>1, <2>1, <2>2, <3>1
  <2>6. ASSUME NEW x \in cp.batches, ~(x.cseq <= p.cseq)
        PROVE  \E r \in g.pending : Untouched(r) /\ r.cseq = x.cseq
    <3>1. PICK r \in h.pending : Untouched(r) /\ r.cseq = x.cseq
      BY <2>2, <2>6
    <3>2. ~\E y \in A : r.cseq <= y[1]
      BY <3>1, KnownIsTouched
    <3> QED BY <3>1, <3>2 DEF Settles, Untouched
  <2> QED BY <2>2, <2>3, <2>4, <2>5, <2>6
<1>5. /\ \A x \in cp.batches : 0 < x.cseq /\ x.cseq < cp.next
      /\ \A b \in g.undurable : b.transmitted /\ ~b.localOnly
      /\ \A b \in g.pending : b.localOnly => ~g.ready
  BY <1>3 DEF Numbering
<1> QED BY <1>2, <1>4, <1>5 DEF Numbering

LEMMA NumberingWelcomed ==
  ASSUME NEW h, EngineOK(h), NEW cp, CopyOK(cp), NEW A \in Away, Numbering(h, cp, A),
         cp.next <= h.next, NEW c, NEW m \in Welcome, <<m.cseq, <<>>>> \in A,
         \A b \in Entries(m.batches) : b.client = c => Pair(b) \in A,
         ~h.ready => \A x \in A : x[1] <= m.cseq
  PROVE  Numbering(Welcomed(h, c, m), cp, A) /\ Settles(Sealed(h), Welcomed(h, c, m), A)
<1> DEFINE s == Sealed(h)
           f == Opening(h)
           w == Welcomed(h, c, m)
<1>1. Numbering(s, cp, A) /\ EngineOK(s) /\ s.queued = <<>> /\ s.ready = h.ready /\ s.undurable = h.undurable
      /\ s.next = f.next
  BY NumberingSealed, SealedOK, OpeningOK
<1>2. /\ f.pending \subseteq s.pending
      /\ \A p \in s.pending : p \in f.pending \/ (p.localOnly /\ ~h.ready)
      /\ ~h.ready => \A p \in f.pending : ~p.localOnly
  BY OpeningOK DEF NotLocal
<1>3. /\ Counted(h, c, m).next = f.next
      /\ m.snapshot => Counted(h, c, m).pending = {p \in h.undurable \cup f.pending : p.cseq > m.cseq}
      /\ ~m.snapshot => Counted(h, c, m).pending =
                         {p \in f.pending : p.cseq > m.cseq /\ ~AckedIn(c, m.batches, p)}
      /\ \A u \in Counted(h, c, m).undurable : \E x \in h.undurable \cup f.pending :
           u = Redated(x, u.seq) /\ Dated(h, c, m, x, u.seq)
  <2>1. EngineOK(h) /\ m \in Welcome
    OBVIOUS
  <2> QED BY ONLY <2>1, CountedOK DEF f
<1>4. /\ EngineOK(w) /\ w.ready /\ w.queued = <<>> /\ w.sentUpTo = m.cseq
      /\ w.next = IF f.next > m.cseq + 1 THEN f.next ELSE m.cseq + 1
      /\ w.pending = Counted(h, c, m).pending
      /\ w.undurable \subseteq Counted(h, c, m).undurable
  BY <1>3, WelcomedOK
<1> HIDE DEF s, f, w
<1>5. /\ m.cseq \in Nat /\ m.snapshot \in BOOLEAN
      /\ \A b \in s.pending \cup s.undurable : b.cseq \in Nat /\ b \in Local
      /\ \A x \in A : x[1] \in Nat
      /\ s.next \in Nat /\ w.next \in Nat
  BY <1>1, <1>4, EngineFields, AwayFields DEF Welcome
<1>6. \A p \in s.pending : ~(p.cseq > m.cseq) => \E x \in A : p.cseq <= x[1]
  BY <1>5
<1>7. \A p \in s.pending : AckedIn(c, m.batches, p) => \E x \in A : p.cseq <= x[1]
  <2> SUFFICES ASSUME NEW p \in s.pending, AckedIn(c, m.batches, p) PROVE \E x \in A : p.cseq <= x[1]
    OBVIOUS
  <2>1. PICK b \in Entries(m.batches) : b.client = c /\ p.cseq = b.cseq
    BY DEF AckedIn
  <2>2. Pair(b) \in A /\ Pair(b)[1] = p.cseq
    BY <2>1 DEF Pair
  <2> QED BY <1>5, <2>2
<1>8. \A p \in f.pending : ~p.localOnly
  BY <1>1, <1>2 DEF Numbering
<1>9. ASSUME NEW u \in w.undurable
      PROVE  \E b \in s.pending \cup s.undurable :
               /\ u.cseq = b.cseq /\ u.ops = b.ops /\ u.transmitted = b.transmitted /\ u.localOnly = b.localOnly
               /\ b \in s.undurable \/ (~b.localOnly /\ \E x \in A : b.cseq <= x[1])
  <2>1. PICK b \in h.undurable \cup f.pending : u = Redated(b, u.seq) /\ Dated(h, c, m, b, u.seq)
    BY <1>3, <1>4
  <2>2. b \in s.pending \cup s.undurable /\ b \in Local
    BY <1>1, <1>2, <1>5, <2>1
  <2>3. u.cseq = b.cseq /\ u.ops = b.ops /\ u.transmitted = b.transmitted /\ u.localOnly = b.localOnly
    BY <2>1, <2>2 DEF Redated, Local
  <2>4. CASE b \in s.undurable
    BY <2>2, <2>3, <2>4
  <2>5. CASE b \notin s.undurable
    <3>1. b \in f.pending /\ b \in s.pending /\ ~b.localOnly
      BY <1>1, <1>2, <1>8, <2>1, <2>5
    <3>2. b.cseq <= m.cseq \/ AckedIn(c, m.batches, b)
      BY <1>1, <2>1, <2>5 DEF Dated, AckedIn
    <3>3. \E x \in A : b.cseq <= x[1]
      BY <1>5, <1>7, <3>1, <3>2
    <3> QED BY <2>2, <2>3, <3>1, <3>3
  <2> QED BY <2>4, <2>5
<1>10. Settles(s, w, A)
  <2>1. \A b \in w.pending : b \in s.pending \cup s.undurable
    BY <1>1, <1>2, <1>3, <1>4
  <2>2. \A p \in s.pending : p \in w.pending \/ p.localOnly \/ \E x \in A : p.cseq <= x[1]
    BY <1>2, <1>3, <1>4, <1>5, <1>6, <1>7
  <2> QED BY <1>9, <2>1, <2>2 DEF Settles
<1>11. \A b \in w.pending : ~b.localOnly
  BY <1>1, <1>3, <1>4, <1>8 DEF Numbering
<1>12. \A x \in A : x[1] < w.next
  <2>1. CASE h.ready
    BY <1>1, <1>4, <1>5, <2>1 DEF Numbering
  <2>2. CASE ~h.ready
    BY <1>1, <1>4, <1>5, <2>2
  <2> QED BY <2>1, <2>2
<1>13. w.sentUpTo < w.next /\ s.next <= w.next
  BY <1>1, <1>4, <1>5
<1>14. \E x \in A : w.sentUpTo <= x[1]
  BY <1>4, <1>5
<1>15. Numbering(w, cp, A)
  BY <1>1, <1>4, <1>10, <1>11, <1>12, <1>13, <1>14, NumberingSettles
<1> QED BY <1>10, <1>15 DEF w, s

Brings(c, m, A) == \A x \in Nat \X Seq(Edits) : Carries(c, m, x) => x \in A

LEMMA NumberingReceived ==
  ASSUME NEW h, EngineOK(h), h.ready, NEW cp, CopyOK(cp), NEW A \in Away, Numbering(h, cp, A), NEW c,
         NEW m \in Messages, m.type # "welcome", Brings(c, m, A)
  PROVE  /\ Numbering(Received(h, c, m), cp, A) /\ Settles(h, Received(h, c, m), A)
         /\ Received(h, c, m).next = h.next /\ Received(h, c, m).queued = h.queued
         /\ Received(h, c, m).ready = h.ready /\ Received(h, c, m).sentUpTo = h.sentUpTo
<1> DEFINE g == Received(h, c, m)
<1>1. EngineOK(g)
  BY ReceivedOK
<1>2. \A p \in h.pending : ~p.localOnly /\ p.cseq \in Nat /\ p.ops \in Seq(Edits) /\ p \in Local
  BY EngineFields DEF Numbering
<1>3. \A u \in h.undurable : u.cseq \in Nat
  BY EngineFields
<1>4. /\ g.ready = h.ready /\ g.next = h.next /\ g.sentUpTo = h.sentUpTo /\ g.queued = h.queued
      /\ Settles(h, g, A)
  <2>1. CASE m.type = "batch" /\ IsNext(h, m.batch)
    <3>1. g = Applied(h, c, <<m.batch>>) /\ m.batch \in Sequenced /\ <<m.batch>> \in Seq(Sequenced)
      BY <2>1, ReceivedOK, MessageKinds
    <3>2. Entries(<<m.batch>>) = {m.batch}
      BY DEF Entries
    <3> DEFINE bs == <<m.batch>>
    <3> HIDE DEF bs, g
    <3>3. /\ g.pending = {p \in h.pending : ~AckedIn(c, bs, p)}
          /\ \A u \in g.undurable :
               \/ u \in h.undurable
               \/ \E b \in Entries(bs), x \in h.pending :
                    AckedBy(c, bs, x, b) /\ u = [x EXCEPT !.seq = b.seq]
          /\ g.queued = h.queued /\ g.next = h.next /\ g.ready = h.ready /\ g.sentUpTo = h.sentUpTo
      <4>1. EngineOK(h) /\ g = Applied(h, c, bs) /\ bs \in Seq(Sequenced)
        BY <3>1 DEF bs
      <4> QED BY ONLY <4>1, AppliedOK
    <3>4. \A b \in Entries(bs) : b = m.batch
      BY <3>2 DEF bs
    <3>5. ASSUME NEW p \in h.pending, m.batch.client = c, p.cseq = m.batch.cseq
          PROVE  \E x \in A : p.cseq <= x[1]
      <4>1. Pair(m.batch) \in Nat \X Seq(Edits) /\ Pair(m.batch)[1] = p.cseq
        BY <3>1, <3>5 DEF Pair, Sequenced
      <4>2. Carries(c, m, Pair(m.batch))
        BY <2>1, <3>5 DEF Carries, BatchesOf
      <4> QED BY <1>2, <4>1, <4>2 DEF Brings
    <3>6. \A p \in h.pending : AckedIn(c, bs, p) => \E x \in A : p.cseq <= x[1]
      BY <3>4, <3>5 DEF AckedIn
    <3>7. ASSUME NEW u \in g.undurable
          PROVE  \E b \in h.pending \cup h.undurable :
                   /\ u.cseq = b.cseq /\ u.ops = b.ops /\ u.transmitted = b.transmitted /\ u.localOnly = b.localOnly
                   /\ b \in h.undurable \/ (~b.localOnly /\ \E x \in A : b.cseq <= x[1])
      <4>1. CASE u \in h.undurable
        BY <4>1
      <4>2. CASE u \notin h.undurable
        <5>1. PICK b \in Entries(bs), x \in h.pending : AckedBy(c, bs, x, b) /\ u = [x EXCEPT !.seq = b.seq]
          BY <3>3, <4>2
        <5>2. u.cseq = x.cseq /\ u.ops = x.ops /\ u.transmitted = x.transmitted /\ u.localOnly = x.localOnly
          BY <1>2, <5>1 DEF Local
        <5>3. AckedIn(c, bs, x)
          BY <5>1 DEF AckedIn, AckedBy
        <5> QED BY <1>2, <3>6, <5>2, <5>3
      <4> QED BY <4>1, <4>2
    <3> QED BY <3>3, <3>6, <3>7 DEF Settles
  <2>2. CASE m.type = "batch" /\ ~IsNext(h, m.batch)
    BY <2>2, ReceivedOK DEF Settles
  <2>3. CASE m.type = "durable"
    <3>1. g = DurableTold(h, m.seq) /\ m.seq \in Nat
      BY <2>3, ReceivedOK, MessageKinds
    <3> HIDE DEF g
    <3>2. /\ g.pending = h.pending /\ g.undurable \subseteq h.undurable
          /\ g.queued = h.queued /\ g.next = h.next /\ g.ready = h.ready /\ g.sentUpTo = h.sentUpTo
      <4>1. EngineOK(h) /\ g = DurableTold(h, m.seq) /\ m.seq \in Nat
        BY <3>1
      <4>2. /\ g.pending = h.pending /\ g.undurable = {b \in h.undurable : b.seq > g.durable}
            /\ g.queued = h.queued /\ g.next = h.next /\ g.ready = h.ready /\ g.sentUpTo = h.sentUpTo
        BY ONLY <4>1, DurableToldOK
      <4> QED BY <4>2
    <3> QED BY <3>2 DEF Settles
  <2>4. CASE m.type \in {"duplicate", "reject"}
    <3>1. g = Answered(h, m) /\ m.cseq \in Nat
      BY <2>4, ReceivedOK, MessageKinds
    <3> HIDE DEF g
    <3>2. /\ g.pending = {b \in h.pending : b.cseq # m.cseq}
          /\ \A u \in g.undurable : u \in h.undurable \/
               \E b \in h.pending : b.cseq = m.cseq /\ u = [b EXCEPT !.seq = Len(h.conf)]
          /\ g.queued = h.queued /\ g.next = h.next /\ g.ready = h.ready /\ g.sentUpTo = h.sentUpTo
      <4>1. EngineOK(h) /\ g = Answered(h, m) /\ m.cseq \in Nat
        BY <3>1
      <4> QED BY ONLY <4>1, AnsweredOK
    <3>3. \A p \in h.pending : p.cseq = m.cseq => \E x \in A : p.cseq <= x[1]
      <4>1. m.cseq \in Nat /\ <<>> \in Seq(Edits)
        BY <3>1
      <4> DEFINE x == <<m.cseq, <<>>>>
      <4>2. Carries(c, m, x)
        BY <2>4 DEF Carries, Names
      <4>3. x \in Nat \X Seq(Edits) /\ x[1] = m.cseq
        BY ONLY <4>1
      <4> HIDE DEF x
      <4> QED BY <1>2, <4>2, <4>3 DEF Brings
    <3>4. ASSUME NEW u \in g.undurable, u \notin h.undurable
          PROVE  \E b \in h.pending :
                   /\ u.cseq = b.cseq /\ u.ops = b.ops /\ u.transmitted = b.transmitted /\ u.localOnly = b.localOnly
                   /\ ~b.localOnly /\ \E x \in A : b.cseq <= x[1]
      <4>1. PICK b \in h.pending : b.cseq = m.cseq /\ u = [b EXCEPT !.seq = Len(h.conf)]
        BY <3>2, <3>4
      <4>2. u.cseq = b.cseq /\ u.ops = b.ops /\ u.transmitted = b.transmitted /\ u.localOnly = b.localOnly
        BY <1>2, <4>1 DEF Local
      <4> QED BY <1>2, <3>3, <4>1, <4>2
    <3>5. \A p \in h.pending : p \in g.pending \/ p.localOnly \/ \E x \in A : p.cseq <= x[1]
      BY <3>2, <3>3
    <3>6. \A b \in g.pending : b \in h.pending \cup h.undurable
      BY <3>2
    <3>7. \A u \in g.undurable : \E b \in h.pending \cup h.undurable :
            /\ u.cseq = b.cseq /\ u.ops = b.ops /\ u.transmitted = b.transmitted /\ u.localOnly = b.localOnly
            /\ b \in h.undurable \/ (~b.localOnly /\ \E x \in A : b.cseq <= x[1])
      BY <3>4
    <3> QED BY <3>2, <3>5, <3>6, <3>7 DEF Settles
  <2> QED BY <2>1, <2>2, <2>3, <2>4, MessageKinds
<1> HIDE DEF g
<1>5. \A b \in g.pending : ~b.localOnly
  BY <1>2, <1>4 DEF Settles, Numbering
<1>6. h.next \in Nat /\ (h.sentUpTo < h.next /\ \A x \in A : x[1] < h.next)
  BY EngineFields DEF Numbering
<1>7. h.next <= g.next
  BY <1>4, <1>6
<1>8. Numbering(g, cp, A)
  BY <1>1, <1>4, <1>5, <1>6, <1>7, NumberingSettles
<1> QED BY <1>4, <1>8 DEF g

LEMMA NumberingReset ==
  ASSUME NEW h, EngineOK(h), NEW cp, CopyOK(cp), NEW A \in Away, Numbering(h, cp, A), <<0, <<>>>> \in A
  PROVE  Numbering(Reset(h), cp, A)
<1>1. /\ Reset(h).ready = h.ready /\ Reset(h).queued = h.queued
      /\ Reset(h).pending = h.pending /\ Reset(h).undurable = h.undurable
      /\ Reset(h).next = h.next /\ Reset(h).sentUpTo = 0
  BY ResetOK
<1>2. <<0, <<>>>>[1] = 0
  OBVIOUS
<1> QED BY <1>1, <1>2 DEF Numbering

LEMMA NumberingCoalesced ==
  ASSUME NEW h, EngineOK(h), NEW last \in h.pending, NEW cp, NEW A, Numbering(h, cp, A)
  PROVE  Numbering(Coalesced(h, last), cp, A)
<1> DEFINE g == [last EXCEPT !.ops = last.ops \o h.queued]
           k == Coalesced(h, last)
<1>1. /\ g \in Local /\ g.cseq = last.cseq /\ g.transmitted = last.transmitted
      /\ g.localOnly = last.localOnly
      /\ k.pending = (h.pending \ {last}) \cup {g}
      /\ k.queued = <<>> /\ k.undurable = h.undurable /\ k.next = h.next
      /\ k.ready = h.ready /\ k.sentUpTo = h.sentUpTo
  BY CoalescedOK
<1> HIDE DEF g, k
<1>2. \A b \in k.pending : \E a \in h.pending :
        /\ b.cseq = a.cseq /\ b.localOnly = a.localOnly /\ (Untouched(b) <=> Untouched(a))
  BY <1>1 DEF Untouched
<1>3. \A a \in h.pending : \E b \in k.pending : b.cseq = a.cseq /\ (Untouched(b) <=> Untouched(a))
  BY <1>1 DEF Untouched
<1>4. \A b \in k.pending \cup k.undurable : 0 < b.cseq /\ b.cseq < k.next
  BY <1>1, <1>2 DEF Numbering
<1>5. ASSUME NEW p \in k.pending, Untouched(p)
      PROVE  /\ k.sentUpTo < p.cseq
             /\ \A x \in A : x[1] < p.cseq
             /\ \A b \in k.pending : Untouched(b) \/ b.localOnly \/ b.cseq < p.cseq
             /\ \A b \in k.undurable : b.cseq < p.cseq
             /\ \A x \in cp.batches : x.cseq <= p.cseq \/ \E r \in k.pending : Untouched(r) /\ r.cseq = x.cseq
  <2>1. PICK a \in h.pending : p.cseq = a.cseq /\ Untouched(a)
    BY <1>2, <1>5
  <2>2. /\ h.sentUpTo < p.cseq
        /\ \A x \in A : x[1] < p.cseq
        /\ \A b \in h.pending : Untouched(b) \/ b.localOnly \/ b.cseq < p.cseq
        /\ \A b \in h.undurable : b.cseq < p.cseq
        /\ \A x \in cp.batches : x.cseq <= p.cseq \/ \E r \in h.pending : Untouched(r) /\ r.cseq = x.cseq
    BY <2>1 DEF Numbering
  <2>3. \A b \in k.pending : Untouched(b) \/ b.localOnly \/ b.cseq < p.cseq
    BY <1>2, <2>2
  <2>4. \A x \in cp.batches : x.cseq <= p.cseq \/ \E r \in k.pending : Untouched(r) /\ r.cseq = x.cseq
    BY <1>3, <2>2
  <2> QED BY <1>1, <2>2, <2>3, <2>4
<1>6. /\ k.ready \/ k.queued # <<>> => k.sentUpTo < k.next /\ \A x \in A : x[1] < k.next
      /\ \A x \in cp.batches : 0 < x.cseq /\ x.cseq < cp.next
      /\ \A b \in k.undurable : b.transmitted /\ ~b.localOnly
      /\ \A b \in k.pending : b.localOnly => ~k.ready
  BY <1>1, <1>2 DEF Numbering
<1> QED BY <1>4, <1>5, <1>6 DEF Numbering, k

LEMMA NumberingCopied ==
  ASSUME NEW h, EngineOK(h), NEW cp, NEW A, Numbering(h, cp, A)
  PROVE  Numbering(h, CopyOf(h), A) /\ CopyOf(h).next <= h.next
<1> DEFINE kept == h.undurable \cup NotLocal(h.pending)
           k == CopyOf(h)
<1>1. k.next = (IF kept = {} THEN 0 ELSE h.next) /\ k.batches = {Bare(b) : b \in kept}
  BY CopyOfOK
<1>2. \A x \in k.batches : \E b \in kept : x.cseq = b.cseq
  BY <1>1 DEF Bare
<1>3. h.next \in Nat /\ \A b \in h.pending \cup h.undurable : b.cseq \in Nat
  BY EngineFields
<1>4. \A b \in kept : b \in h.undurable \/ (b \in h.pending /\ ~b.localOnly)
  BY DEF NotLocal
<1> HIDE DEF k, kept
<1>5. \A x \in k.batches : 0 < x.cseq /\ x.cseq < k.next
  BY <1>1, <1>2, <1>4 DEF Numbering
<1>6. ASSUME NEW p \in h.pending, Untouched(p), NEW x \in k.batches
      PROVE  x.cseq <= p.cseq \/ \E r \in h.pending : Untouched(r) /\ r.cseq = x.cseq
  <2>1. PICK b \in kept : x.cseq = b.cseq
    BY <1>2
  <2>2. CASE b \in h.undurable
    BY <1>3, <1>6, <2>1, <2>2 DEF Numbering
  <2>3. CASE b \in h.pending /\ ~b.localOnly
    BY <1>3, <1>6, <2>1, <2>3 DEF Numbering
  <2> QED BY <1>4, <2>2, <2>3
<1>7. Numbering(h, k, A)
  BY <1>5, <1>6 DEF Numbering
<1>8. k.next <= h.next
  BY <1>1, <1>3
<1> QED BY <1>7, <1>8 DEF k

\* The engine of a closed tab, and that of a tab opened on a copy.
LEMMA NumberingEmpty ==
  ASSUME NEW h, NEW cp, CopyOK(cp), NEW A, Numbering(h, cp, A)
  PROVE  Numbering(FreshEngine, cp, A) /\ Numbering(Restored(cp), cp, A)
<1>1. \A x \in cp.batches : 0 < x.cseq /\ x.cseq < cp.next
  BY DEF Numbering
<1>2. Numbering(FreshEngine, cp, A)
  BY <1>1, FreshOK DEF Numbering
<1>3. /\ ~Restored(cp).ready /\ Restored(cp).queued = <<>> /\ Restored(cp).undurable = {}
      /\ Restored(cp).next = cp.next
      /\ \A p \in Restored(cp).pending :
           p.transmitted /\ ~p.localOnly /\ \E x \in cp.batches : x.cseq = p.cseq
  BY RestoredOK
<1>4. Numbering(Restored(cp), cp, A)
  BY <1>1, <1>3 DEF Numbering, Untouched
<1> QED BY <1>2, <1>4

\* ------ the order of the edits

LEMMA OrderedShrinks ==
  ASSUME NEW c, NEW n \in Nat, NEW k \in Nat, n <= k, NEW M \in Away, NEW N \in Away, Ordered(c, n, M),
         \A x \in N : x \in M \/ x[2] = <<>>
  PROVE  Ordered(c, k, N)
<1> SUFFICES ASSUME NEW x \in N
             PROVE  /\ Ascends(x[2])
                    /\ \A i \in DOMAIN x[2] : x[2][i][1] = c /\ x[2][i][2] <= k
                    /\ \A y \in N : x[1] < y[1] => Before(x[2], y[2])
  BY DEF Ordered
<1>1. CASE x[2] = <<>>
  BY <1>1 DEF Ascends, Before
<1>2. CASE x \in M
  <2>1. ASSUME NEW i \in DOMAIN x[2] PROVE x[2][i][2] \in Nat
    <3>1. x[2] \in Seq(Edits)
      BY AwayFields
    <3>2. x[2][i] \in Edits
      BY <3>1
    <3> QED BY <3>2, BoundsAssumption DEF Edits
  <2>2. Ascends(x[2]) /\ \A i \in DOMAIN x[2] : x[2][i][1] = c /\ x[2][i][2] <= n
    BY <1>2 DEF Ordered
  <2>3. ASSUME NEW y \in N, x[1] < y[1] PROVE Before(x[2], y[2])
    <3>1. CASE y \in M
      BY <1>2, <2>3, <3>1 DEF Ordered
    <3>2. CASE y[2] = <<>>
      BY <3>2 DEF Before
    <3> QED BY <3>1, <3>2
  <2> QED BY <2>1, <2>2, <2>3
<1> QED BY <1>1, <1>2

\* The next edit of c is added to the batch k, which nothing follows.
LEMMA OrderedGrows ==
  ASSUME NEW c, NEW n \in Nat, NEW M \in Away, NEW N \in Away, Ordered(c, n, M),
         NEW k \in Nat, NEW q \in Seq(Edits), <<k, q>> \in M, <<c, n + 1>> \in Edits,
         \A x \in N : x \in M \/ x[2] = <<>> \/ x = <<k, Append(q, <<c, n + 1>>)>>,
         \A x \in M : x[1] <= k
  PROVE  Ordered(c, n + 1, N)
<1> DEFINE e == <<c, n + 1>>
           s == Append(q, e)
<1>1. /\ s \in Seq(Edits) /\ DOMAIN q = 1..Len(q) /\ DOMAIN s = 1..Len(q) + 1 /\ Len(q) \in Nat
      /\ \A i \in 1..Len(q) : s[i] = q[i]
      /\ s[Len(q) + 1] = e
  BY AppendProperties, LenProperties
<1>2. e[1] = c /\ e[2] = n + 1
  OBVIOUS
<1> HIDE DEF e, s
<1>3. /\ Ascends(q) /\ \A i \in DOMAIN q : q[i][1] = c /\ q[i][2] <= n
      /\ \A x \in M : x[1] < k => Before(x[2], q)
  <2>1. <<k, q>>[1] = k /\ <<k, q>>[2] = q
    OBVIOUS
  <2> QED BY <2>1 DEF Ordered
<1>4. ASSUME NEW t \in Seq(Edits), NEW i \in DOMAIN t PROVE t[i][2] \in Nat
  <2>1. t[i] \in Edits
    OBVIOUS
  <2> QED BY <2>1, BoundsAssumption DEF Edits
<1>5. Ascends(s)
  <2> SUFFICES ASSUME NEW i \in DOMAIN s, NEW j \in DOMAIN s, i < j PROVE s[i][2] < s[j][2]
    BY DEF Ascends
  <2>1. i \in 1..Len(q) /\ s[i] = q[i] /\ q[i][2] <= n /\ q[i][2] \in Nat
    BY <1>1, <1>3, <1>4
  <2>2. CASE j = Len(q) + 1
    BY <1>1, <1>2, <2>1, <2>2
  <2>3. CASE j \in 1..Len(q)
    BY <1>1, <1>3, <2>1, <2>3 DEF Ascends
  <2> QED BY <1>1, <2>2, <2>3
<1>6. \A i \in DOMAIN s : s[i][1] = c /\ s[i][2] <= n + 1
  <2> SUFFICES ASSUME NEW i \in DOMAIN s PROVE s[i][1] = c /\ s[i][2] <= n + 1
    OBVIOUS
  <2>1. CASE i = Len(q) + 1
    BY <1>1, <1>2, <2>1
  <2>2. CASE i \in 1..Len(q)
    BY <1>1, <1>3, <1>4, <2>2
  <2> QED BY <1>1, <2>1, <2>2
<1>7. ASSUME NEW x \in M, x[1] < k PROVE Before(x[2], s)
  <2> SUFFICES ASSUME NEW i \in DOMAIN x[2], NEW j \in DOMAIN s PROVE x[2][i][2] < s[j][2]
    BY DEF Before
  <2>1. x[2] \in Seq(Edits) /\ x[2][i][2] \in Nat /\ x[2][i][2] <= n
    BY <1>4, AwayFields DEF Ordered
  <2>2. CASE j = Len(q) + 1
    BY <1>1, <1>2, <2>1, <2>2
  <2>3. CASE j \in 1..Len(q)
    <3>1. Before(x[2], q)
      BY <1>3, <1>7
    <3> QED BY <1>1, <2>3, <3>1 DEF Before
  <2> QED BY <1>1, <2>2, <2>3
<1>8. \A x \in N : x \in M \/ x[2] = <<>> \/ x = <<k, s>>
  BY DEF s, e
<1> SUFFICES ASSUME NEW x \in N
             PROVE  /\ Ascends(x[2])
                    /\ \A i \in DOMAIN x[2] : x[2][i][1] = c /\ x[2][i][2] <= n + 1
                    /\ \A y \in N : x[1] < y[1] => Before(x[2], y[2])
  BY DEF Ordered
<1>9. CASE x[2] = <<>>
  BY <1>9 DEF Ascends, Before
<1>10. CASE x = <<k, s>>
  <2>1. x[1] = k /\ x[2] = s
    BY <1>10
  <2>2. ASSUME NEW y \in N, x[1] < y[1] PROVE Before(x[2], y[2])
    <3>1. y[1] \in Nat
      BY AwayFields
    <3>2. y \notin M /\ y # <<k, s>>
      BY <2>1, <2>2, <3>1
    <3>3. y[2] = <<>>
      BY <1>8, <3>2
    <3> QED BY <3>3 DEF Before
  <2> QED BY <1>5, <1>6, <2>1, <2>2
<1>11. CASE x \in M
  <2>1. x[1] \in Nat /\ x[2] \in Seq(Edits)
    BY AwayFields
  <2>2. /\ Ascends(x[2]) /\ \A i \in DOMAIN x[2] : x[2][i][1] = c /\ x[2][i][2] <= n
        /\ \A i \in DOMAIN x[2] : x[2][i][2] \in Nat
    BY <1>4, <1>11, <2>1 DEF Ordered
  <2>3. ASSUME NEW y \in N, x[1] < y[1] PROVE Before(x[2], y[2])
    <3>1. CASE y \in M
      BY <1>11, <2>3, <3>1 DEF Ordered
    <3>2. CASE y[2] = <<>>
      BY <3>2 DEF Before
    <3>3. CASE y = <<k, s>>
      <4>1. y[1] = k /\ y[2] = s
        BY <3>3
      <4> QED BY <1>7, <1>11, <2>3, <4>1
    <3> QED BY <1>8, <3>1, <3>2, <3>3
  <2> QED BY <2>2, <2>3
<1> QED BY <1>8, <1>9, <1>10, <1>11

\* The edits q, of number k, join the batch s of number l, which nothing else
\* follows.
LEMMA OrderedMerges ==
  ASSUME NEW c, NEW n \in Nat, NEW M \in Away, NEW N \in Away, Ordered(c, n, M),
         NEW k \in Nat, NEW q \in Seq(Edits), <<k, q>> \in M,
         NEW l \in Nat, NEW s \in Seq(Edits), <<l, s>> \in M, l < k,
         \A x \in N : (x \in M /\ x[1] <= l) \/ x[2] = <<>> \/ x = <<l, s \o q>>
  PROVE  Ordered(c, n, N)
<1> DEFINE t == s \o q
<1>1. /\ t \in Seq(Edits) /\ DOMAIN s = 1..Len(s) /\ DOMAIN q = 1..Len(q)
      /\ DOMAIN t = 1 .. Len(s) + Len(q) /\ Len(q) \in Nat /\ Len(s) \in Nat
      /\ \A i \in 1 .. Len(s) + Len(q) : t[i] = IF i <= Len(s) THEN s[i] ELSE q[i - Len(s)]
  BY ConcatProperties, LenProperties
<1>2. \A x \in N : (x \in M /\ x[1] <= l) \/ x[2] = <<>> \/ x = <<l, t>>
  OBVIOUS
<1> HIDE DEF t
<1>3. /\ Ascends(q) /\ \A i \in DOMAIN q : q[i][1] = c /\ q[i][2] <= n
      /\ \A x \in M : x[1] < k => Before(x[2], q)
      /\ Ascends(s) /\ \A i \in DOMAIN s : s[i][1] = c /\ s[i][2] <= n
      /\ \A x \in M : x[1] < l => Before(x[2], s)
      /\ Before(s, q)
  <2>1. <<k, q>>[1] = k /\ <<k, q>>[2] = q /\ <<l, s>>[1] = l /\ <<l, s>>[2] = s
    OBVIOUS
  <2> QED BY <2>1 DEF Ordered
<1>4. \A i \in DOMAIN t : \/ i \in 1..Len(s) /\ t[i] = s[i]
                          \/ i - Len(s) \in 1..Len(q) /\ i > Len(s) /\ t[i] = q[i - Len(s)]
  BY <1>1
<1>5. Ascends(t)
  <2> SUFFICES ASSUME NEW i \in DOMAIN t, NEW j \in DOMAIN t, i < j PROVE t[i][2] < t[j][2]
    BY DEF Ascends
  <2>1. i \in Int /\ j \in Int /\ Len(s) \in Nat
    BY <1>1
  <2>2. CASE i \in 1..Len(s) /\ t[i] = s[i] /\ j \in 1..Len(s) /\ t[j] = s[j]
    BY <1>1, <1>3, <2>2 DEF Ascends
  <2>3. CASE i \in 1..Len(s) /\ t[i] = s[i] /\ j - Len(s) \in 1..Len(q) /\ t[j] = q[j - Len(s)]
    BY <1>1, <1>3, <2>3 DEF Before
  <2>4. CASE i - Len(s) \in 1..Len(q) /\ t[i] = q[i - Len(s)] /\ j - Len(s) \in 1..Len(q) /\ t[j] = q[j - Len(s)]
    <3>1. i - Len(s) < j - Len(s)
      BY <2>1
    <3> QED BY <1>1, <1>3, <2>4, <3>1 DEF Ascends
  <2> QED BY <1>4, <2>1, <2>2, <2>3, <2>4
<1>6. \A i \in DOMAIN t : t[i][1] = c /\ t[i][2] <= n
  BY <1>1, <1>3, <1>4
<1>7. ASSUME NEW x \in M, x[1] < l PROVE Before(x[2], t)
  <2>1. x[1] \in Nat
    BY AwayFields
  <2>2. Before(x[2], s) /\ Before(x[2], q)
    BY <1>3, <1>7, <2>1
  <2> QED BY <1>1, <1>4, <2>2 DEF Before
<1> SUFFICES ASSUME NEW x \in N
             PROVE  /\ Ascends(x[2])
                    /\ \A i \in DOMAIN x[2] : x[2][i][1] = c /\ x[2][i][2] <= n
                    /\ \A y \in N : x[1] < y[1] => Before(x[2], y[2])
  BY DEF Ordered
<1>8. \A y \in N : y[1] \in Nat
  BY AwayFields
<1>9. CASE x[2] = <<>>
  BY <1>9 DEF Ascends, Before
<1>10. CASE x = <<l, t>>
  <2>1. x[1] = l /\ x[2] = t
    BY <1>10
  <2>2. ASSUME NEW y \in N, x[1] < y[1] PROVE Before(x[2], y[2])
    <3>1. ~(y[1] <= l) /\ y # <<l, t>>
      BY <1>8, <2>1, <2>2
    <3>2. y[2] = <<>>
      BY <1>2, <3>1
    <3> QED BY <3>2 DEF Before
  <2> QED BY <1>5, <1>6, <2>1, <2>2
<1>11. CASE x \in M
  <2>1. Ascends(x[2]) /\ \A i \in DOMAIN x[2] : x[2][i][1] = c /\ x[2][i][2] <= n
    BY <1>11 DEF Ordered
  <2>2. ASSUME NEW y \in N, x[1] < y[1] PROVE Before(x[2], y[2])
    <3>1. CASE y \in M
      BY <1>11, <2>2, <3>1 DEF Ordered
    <3>2. CASE y[2] = <<>>
      BY <3>2 DEF Before
    <3>3. CASE y = <<l, t>>
      <4>1. y[1] = l /\ y[2] = t
        BY <3>3
      <4> QED BY <1>7, <1>11, <2>2, <4>1
    <3> QED BY <1>2, <3>1, <3>2, <3>3
  <2> QED BY <2>1, <2>2
<1> QED BY <1>2, <1>9, <1>10, <1>11

LEMMA MineTyped ==
  ASSUME NEW h, EngineOK(h), NEW cp, CopyOK(cp), NEW A \in Away
  PROVE  Mine(h, cp, A) \in Away
<1>1. \A b \in h.pending \cup h.undurable \cup cp.batches : b.cseq \in Nat /\ b.ops \in Seq(Edits)
  BY EngineFields, CopyFields
<1>2. h.next \in Nat /\ h.queued \in Seq(Edits)
  BY EngineFields
<1>3. \A b \in h.pending \cup h.undurable \cup cp.batches : Pair(b) \in Nat \X Seq(Edits)
  BY <1>1 DEF Pair
<1> QED BY <1>2, <1>3 DEF Mine, Away

LEMMA MineSealed ==
  ASSUME NEW h, EngineOK(h), NEW cp, NEW A
  PROVE  \A x \in Mine(Sealed(h), cp, A) : x \in Mine(h, cp, A) \/ x[2] = <<>>
<1>1. CASE h.queued = <<>>
  BY <1>1, SealedOK
<1>2. CASE h.queued # <<>>
  <2>1. /\ Sealed(h).queued = <<>> /\ Sealed(h).undurable = h.undurable
        /\ Sealed(h).pending = h.pending \cup {NewBatch(h.next, h.queued)}
    BY <1>2, SealedOK
  <2>2. Pair(NewBatch(h.next, h.queued)) = <<h.next, h.queued>>
    BY DEF Pair, NewBatch
  <2> QED BY <2>1, <2>2 DEF Mine
<1> QED BY <1>1, <1>2

LEMMA MineSent ==
  ASSUME NEW h, EngineOK(h), NEW cp, NEW A
  PROVE  Mine(Sent(h), cp, A \cup {Pair(b) : b \in Outgoing(h)}) \subseteq Mine(h, cp, A)
<1>1. /\ Sent(h).queued = h.queued /\ Sent(h).undurable = h.undurable /\ Sent(h).next = h.next
      /\ Sent(h).pending = (h.pending \ Outgoing(h)) \cup {Transmit(b) : b \in Outgoing(h)}
  BY SentOK
<1>2. Outgoing(h) \subseteq h.pending /\ \A b \in Outgoing(h) : b \in Local
  BY OutgoingOK
<1>3. \A b \in Outgoing(h) : Pair(Transmit(b)) = Pair(b)
  BY <1>2 DEF Pair, Transmit, Local
<1> QED BY <1>1, <1>2, <1>3 DEF Mine

LEMMA MineSettles ==
  ASSUME NEW h, NEW g, NEW cp, NEW A, Settles(h, g, A)
  PROVE  \A x \in Mine(g, cp, A) : x \in Mine(h, cp, A) \/ x = <<g.next, g.queued>>
BY DEF Mine, Settles, Pair

LEMMA MineCopied ==
  ASSUME NEW h, EngineOK(h), NEW cp, NEW A
  PROVE  Mine(h, CopyOf(h), A) \subseteq Mine(h, cp, A)
<1>1. CopyOf(h).batches = {Bare(b) : b \in h.undurable \cup NotLocal(h.pending)}
  BY CopyOfOK
<1>2. \A b : Pair(Bare(b)) = Pair(b)
  BY DEF Pair, Bare
<1> QED BY <1>1, <1>2 DEF Mine, NotLocal

LEMMA MineEmpty ==
  ASSUME NEW h, NEW cp, CopyOK(cp), NEW A
  PROVE  /\ \A x \in Mine(FreshEngine, cp, A) : x \in Mine(h, cp, A) \/ x[2] = <<>>
         /\ \A x \in Mine(Restored(cp), cp, A) : x \in Mine(h, cp, A) \/ x[2] = <<>>
<1>1. \A x \in Mine(FreshEngine, cp, A) : x \in Mine(h, cp, A) \/ x[2] = <<>>
  BY FreshOK DEF Mine
<1>2. /\ Restored(cp).queued = <<>> /\ Restored(cp).undurable = {}
      /\ \A p \in Restored(cp).pending : \E x \in cp.batches : x.cseq = p.cseq /\ x.ops = p.ops
  BY RestoredOK
<1> QED BY <1>1, <1>2 DEF Mine, Pair

\* ------ the steps

LEMMA AbroadHas ==
  ASSUME Types, NEW c \in Clients
  PROVE  /\ Abroad(c) \in Away /\ <<0, <<>>>> \in Abroad(c)
         /\ \A b \in Entries(log) : b.client = c => Pair(b) \in Abroad(c)
         /\ \A b \in Entries(engine[c].conf) : b.client = c => Pair(b) \in Abroad(c)
         /\ \A b \in Entries(up[c]) : Pair(b) \in Abroad(c)
         /\ \A m \in Entries(down[c]) : \A x \in Nat \X Seq(Edits) : Carries(c, m, x) => x \in Abroad(c)
<1>1. /\ log \in Seq(Sequenced) /\ engine[c].conf \in Seq(Sequenced) /\ up[c] \in Seq(Unsynced)
  BY TypesAre, EngineFields DEF ServerTypes, TypesOf
<1>2. /\ Entries(log) \subseteq Sequenced /\ Entries(engine[c].conf) \subseteq Sequenced
      /\ Entries(up[c]) \subseteq Unsynced
  BY <1>1, EntriesAre
<1>3. /\ \A b \in Sequenced : Pair(b) \in Nat \X Seq(Edits)
      /\ \A b \in Unsynced : Pair(b) \in Nat \X Seq(Edits)
  BY DEF Pair, Sequenced, Unsynced
<1>4. <<0, <<>>>> \in Nat \X Seq(Edits)
  <2>1. 0 \in Nat /\ <<>> \in Seq(Edits)
    OBVIOUS
  <2> QED BY ONLY <2>1
<1> QED BY <1>2, <1>3, <1>4 DEF Abroad, IsAbroad, Away

LEMMA AllBelow ==
  ASSUME NEW h, EngineOK(h), NEW cp, CopyOK(cp), NEW A \in Away, Numbering(h, cp, A), cp.next <= h.next,
         \A x \in A : x[1] < h.next
  PROVE  \A x \in Mine(h, cp, A) : x[1] <= h.next
<1>1. /\ h.next \in Nat /\ cp.next \in Nat /\ \A x \in A : x[1] \in Nat
      /\ \A b \in h.pending \cup h.undurable \cup cp.batches : b.cseq \in Nat
  BY EngineFields, CopyFields, AwayFields
<1>2. \A b \in h.pending \cup h.undurable \cup cp.batches : b.cseq <= h.next
  BY <1>1 DEF Numbering
<1> QED BY <1>1, <1>2 DEF Mine, Pair

\* The number of the next batch comes after all that has left the device, when
\* the user may edit.
LEMMA NextIsFree ==
  ASSUME Types, NEW c \in Clients, OrderOf(c), engine[c].ready \/ Early(c), "stale" \notin Situations
  PROVE  engine[c].sentUpTo < engine[c].next /\ \A x \in Abroad(c) : x[1] < engine[c].next
<1> DEFINE h == engine[c]
<1>1. CASE h.ready
  BY <1>1 DEF OrderOf, Numbering
<1>2. CASE ~h.ready
  <2>1. ~CopyIsStale(c)
    BY <1>2 DEF Early
  <2>2. /\ LastSeq(c) < h.next
        /\ \A b \in Entries(up[c]) : b.cseq < h.next
        /\ \A m \in Entries(down[c]) : m.type = "welcome" => m.cseq < h.next
    <3>1. LastSeq(c) \in Nat /\ h.next \in Nat
      BY TypesAre, LastSeqIs, LastOfOK, EngineFields DEF ServerTypes, TypesOf
    <3>2. \A b \in Entries(up[c]) : b.cseq \in Nat
      <4>1. Entries(up[c]) \subseteq Unsynced
        BY TypesAre, EntriesAre DEF TypesOf
      <4> QED BY <4>1 DEF Unsynced
    <3>3. \A m \in Entries(down[c]) : m.type = "welcome" => m.cseq \in Nat
      <4>1. Entries(down[c]) \subseteq Messages
        BY TypesAre, EntriesAre DEF TypesOf
      <4>2. \A m \in Entries(down[c]) : m.type = "welcome" => m \in Welcome
        BY <4>1, MessageKinds
      <4> QED BY <4>2 DEF Welcome
    <3> QED BY <2>1, <3>1, <3>2, <3>3 DEF CopyIsStale, Entries
  <2>3. h.conf = <<>> /\ h.sentUpTo = 0
    BY <1>2 DEF OrderOf, Greeted
  <2>4. \A b \in Entries(log) : b.client = c => b.cseq < h.next
    <3>1. log \in Seq(Sequenced) /\ h.next \in Nat
      BY TypesAre, EngineFields DEF ServerTypes, TypesOf
    <3>2. /\ LastOf(log, c) \in Nat /\ LastOf(log, c) < h.next
          /\ \A q \in 1..Len(log) : log[q].client = c => log[q].cseq <= LastOf(log, c)
      BY <2>2, <3>1, LastSeqIs, LastOfOK
    <3>3. \A b \in Entries(log) : b \in Sequenced /\ \E q \in 1..Len(log) : log[q] = b
      BY <3>1, EntriesAre
    <3>4. \A b \in Sequenced : b.cseq \in Nat
      BY DEF Sequenced
    <3> SUFFICES ASSUME NEW b \in Entries(log), b.client = c PROVE b.cseq < h.next
      OBVIOUS
    <3>5. b.cseq <= LastOf(log, c) /\ b.cseq \in Nat
      BY <3>2, <3>3, <3>4
    <3> QED BY <3>1, <3>2, <3>5
  <2>5. 0 < h.next
    <3>1. LastSeq(c) \in Nat /\ h.next \in Nat
      BY TypesAre, LastSeqIs, LastOfOK, EngineFields DEF ServerTypes, TypesOf
    <3> QED BY <2>2, <3>1
  <2>6. CASE conn[c] # "off"
    <3>1. WelcomeWaits(c) /\ \A x \in Abroad(c) : x[1] <= Head(down[c]).cseq
      BY <1>2, <2>6 DEF OrderOf, Greeted
    <3>2. Head(down[c]) \in Entries(down[c]) /\ Head(down[c]).type = "welcome" /\ Head(down[c]) \in Welcome
      <4>1. down[c] \in Seq(Messages) /\ down[c] # <<>> /\ Head(down[c]).type = "welcome"
        BY <3>1, TypesAre DEF TypesOf, WelcomeWaits
      <4> QED BY <4>1, EntriesTail, MessageKinds
    <3>3. Head(down[c]).cseq < h.next /\ Head(down[c]).cseq \in Nat /\ h.next \in Nat
      BY <2>2, <3>2, TypesAre, EngineFields DEF Welcome, TypesOf
    <3>4. \A x \in Abroad(c) : x[1] \in Nat
      BY AbroadHas, AwayFields
    <3> QED BY <2>3, <2>5, <3>1, <3>3, <3>4
  <2>7. CASE conn[c] = "off"
    <3>1. down[c] = <<>>
      BY <2>7, TypesAre DEF TypesOf
    <3>2. Entries(down[c]) = {} /\ Entries(h.conf) = {}
      BY <2>3, <3>1 DEF Entries
    <3>3. \A x \in Abroad(c) : IsAbroad(c, log, h.conf, up[c], down[c], x)
      BY DEF Abroad
    <3>4. \A x \in Abroad(c) : x[1] < h.next
      BY <2>2, <2>4, <2>5, <3>2, <3>3 DEF IsAbroad, Pair
    <3> QED BY <2>3, <2>5, <3>4
  <2> QED BY <2>6, <2>7
<1> QED BY <1>1, <1>2

\* What a step of client c does to what has left its device, when nothing new
\* leaves.
LEMMA AbroadKept ==
  ASSUME Types, NEW c \in Clients, log' = log,
         engine'[c].conf = engine[c].conf \/ engine'[c].conf = <<>>,
         up'[c] = up[c] \/ up'[c] = <<>>, down'[c] = down[c] \/ down'[c] = <<>>
  PROVE  Abroad(c)' \subseteq Abroad(c)
<1>1. Entries(<<>>) = {}
  BY DEF Entries
<1>2. \A x : IsAbroad(c, log', engine'[c].conf, up'[c], down'[c], x) =>
               IsAbroad(c, log, engine[c].conf, up[c], down[c], x)
  BY <1>1 DEF IsAbroad
<1> QED BY <1>2 DEF Abroad

\* The edits of what leaves the device were on it.
LEMMA AbroadSent ==
  ASSUME Types, NEW c \in Clients, log' = log, NEW out, Leaves(c, out),
         \A x \in Nat \X Seq(Edits) :
           \/ \E b \in Entries(engine'[c].conf) : b.client = c /\ x = Pair(b)
           \/ \E m \in Entries(down'[c]) : Carries(c, m, x)
           => x \in Abroad(c)
  PROVE  Abroad(c)' \subseteq Abroad(c) \cup {Pair(b) : b \in out}
<1>1. \A y \in Entries(up'[c]) : y \in Entries(up[c]) \/ \E b \in out : y = Bare(b)
  <2>1. CASE conn[c] # "on"
    BY <2>1 DEF Leaves
  <2>2. CASE conn[c] = "on"
    <3>1. PICK s \in Seq(Unsynced) : up'[c] = up[c] \o s /\ Entries(s) = {Bare(b) : b \in out}
      BY <2>2 DEF Leaves
    <3>2. up[c] \in Seq(Unsynced)
      BY TypesAre DEF TypesOf
    <3>3. Entries(up'[c]) = Entries(up[c]) \cup Entries(s)
      BY <3>1, <3>2, EntriesConcat
    <3> QED BY <3>1, <3>3
  <2> QED BY <2>1, <2>2
<1>2. \A b : Pair(Bare(b)) = Pair(b)
  BY DEF Pair, Bare
<1>3. SUFFICES ASSUME NEW x \in Nat \X Seq(Edits),
                      IsAbroad(c, log', engine'[c].conf, up'[c], down'[c], x)
               PROVE  x \in Abroad(c) \/ \E b \in out : x = Pair(b)
  BY DEF Abroad
<1>4. CASE x = <<0, <<>>>> \/ \E b \in Entries(log') : b.client = c /\ x = Pair(b)
  BY <1>4, AbroadHas
<1>5. CASE \E b \in Entries(engine'[c].conf) : b.client = c /\ x = Pair(b)
  BY <1>5
<1>6. CASE \E b \in Entries(up'[c]) : x = Pair(b)
  BY <1>1, <1>2, <1>6, AbroadHas
<1>7. CASE \E m \in Entries(down'[c]) : Carries(c, m, x)
  BY <1>7
<1> QED BY <1>3, <1>4, <1>5, <1>6, <1>7 DEF IsAbroad

LEMMA GreetedSame ==
  ASSUME Types, NEW c \in Clients, Greeted(c),
         engine'[c].ready = engine[c].ready, engine'[c].conf = engine[c].conf,
         engine'[c].sentUpTo = engine[c].sentUpTo,
         conn'[c] = conn[c], down'[c] = down[c], up'[c] = up[c], Abroad(c)' \subseteq Abroad(c),
         tab'[c] = tab[c], tab[c] = "open" => copy'[c].next <= engine'[c].next
  PROVE  Greeted(c)'
BY DEF Greeted, WelcomeWaits

LEMMA GreetedOff ==
  ASSUME Types, NEW c \in Clients, conn'[c] = "off", down'[c] = <<>>,
         ~engine'[c].ready => engine'[c].conf = <<>>, engine'[c].sentUpTo = 0,
         tab'[c] = "open" => copy'[c].next <= engine'[c].next
  PROVE  Greeted(c)'
BY DEF Greeted, WelcomeWaits

LEMMA GreetedOn ==
  ASSUME Types', NEW c \in Clients, engine'[c].ready,
         \A i \in DOMAIN down'[c] : down'[c][i].type # "welcome",
         tab'[c] = "open", copy'[c].next <= engine'[c].next
  PROVE  Greeted(c)'
<1>1. ~WelcomeWaits(c)'
  <2> SUFFICES ASSUME WelcomeWaits(c)' PROVE FALSE
    OBVIOUS
  <2>1. down'[c] \in Seq(Messages) /\ down'[c] # <<>> /\ Head(down'[c]).type = "welcome"
    BY TypesAre DEF WelcomeWaits, Types, TypeOK
  <2>2. Head(down'[c]) = down'[c][1] /\ 1 \in DOMAIN down'[c]
    BY <2>1
  <2> QED BY <2>1, <2>2
<1> QED BY <1>1 DEF Greeted

LEMMA AbroadTyped ==
  ASSUME NEW c \in Clients PROVE Abroad(c) \in Away /\ Abroad(c)' \in Away
BY DEF Abroad, Away

\* What c's state gives to the lemmas above.
LEMMA OrderFields ==
  ASSUME Types, NEW c \in Clients, OrderOf(c)
  PROVE  /\ EngineOK(engine[c]) /\ CopyOK(copy[c]) /\ Abroad(c) \in Away /\ made[c] \in Nat
         /\ Numbering(engine[c], copy[c], Abroad(c)) /\ Greeted(c)
         /\ Mine(engine[c], copy[c], Abroad(c)) \in Away
         /\ Ordered(c, made[c], Mine(engine[c], copy[c], Abroad(c)))
         /\ tab[c] = "open" => copy[c].next <= engine[c].next
         /\ engine[c].next \in Nat /\ copy[c].next \in Nat
<1>1. EngineOK(engine[c]) /\ CopyOK(copy[c]) /\ Abroad(c) \in Away /\ made[c] \in Nat
  BY TypesAre, AbroadTyped, BoundsAssumption DEF TypesOf
<1>2. engine[c].next \in Nat /\ copy[c].next \in Nat
  BY <1>1, EngineFields, CopyFields
<1>3. Mine(engine[c], copy[c], Abroad(c)) \in Away
  BY <1>1, MineTyped
<1> QED BY <1>1, <1>2, <1>3 DEF OrderOf, Greeted

LEMMA OrderEdit ==
  ASSUME Types, NEW c \in Clients, OrderOf(c), Edit(c), "stale" \notin Situations
  PROVE  OrderOf(c)'
<1> DEFINE e == <<c, made[c] + 1>>
           h == engine[c]
           g == engine'[c]
           cp == copy[c]
           A == Abroad(c)
           B == Abroad(c)'
<1>1. /\ Types' /\ e \in Edits
      /\ tab[c] = "open" /\ (h.ready \/ Early(c))
      /\ made'[c] = made[c] + 1
      /\ g.queued = Append(h.queued, e)
      /\ g.ready = h.ready /\ g.conf = h.conf /\ g.pending = h.pending
      /\ g.undurable = h.undurable /\ g.next = h.next /\ g.sentUpTo = h.sentUpTo
      /\ conn'[c] = conn[c] /\ up'[c] = up[c] /\ down'[c] = down[c]
      /\ tab'[c] = tab[c] /\ copy'[c] = cp /\ log' = log
  BY EditDoes DEF Alone
<1>2. h.sentUpTo < h.next /\ \A x \in A : x[1] < h.next
  BY <1>1, NextIsFree
<1>3. B \subseteq A
  BY <1>1, AbroadKept
<1>4. /\ EngineOK(h) /\ CopyOK(cp) /\ A \in Away /\ made[c] \in Nat /\ Numbering(h, cp, A) /\ Greeted(c)
      /\ Mine(h, cp, A) \in Away /\ Ordered(c, made[c], Mine(h, cp, A)) /\ cp.next <= h.next
      /\ h.next \in Nat /\ h.queued \in Seq(Edits)
  BY <1>1, OrderFields, EngineFields
<1>5. EngineOK(g) /\ B \in Away
  BY <1>1, TypesAre, AbroadTyped DEF Types
<1>6. Greeted(c)'
  BY <1>1, <1>3, <1>4, GreetedSame
<1> HIDE DEF h, g, cp, A, B
<1>7. Numbering(g, cp, B)
  <2>1. Numbering(g, cp, A)
    BY <1>1, <1>2, <1>4 DEF Numbering
  <2> QED BY <1>3, <2>1, NumberingShrinks
<1>8. Ordered(c, made[c] + 1, Mine(g, cp, B))
  <2>1. \A x \in Mine(h, cp, A) : x[1] <= h.next
    BY <1>2, <1>4, AllBelow
  <2>2. \A x \in Mine(g, cp, B) : x \in Mine(h, cp, A) \/ x[2] = <<>> \/ x = <<h.next, Append(h.queued, e)>>
    BY <1>1, <1>3 DEF Mine
  <2>3. Mine(g, cp, B) \in Away
    BY <1>4, <1>5, MineTyped
  <2>4. <<h.next, h.queued>> \in Mine(h, cp, A)
    BY DEF Mine
  <2> QED BY <1>1, <1>4, <2>1, <2>2, <2>3, <2>4, OrderedGrows
<1> QED BY <1>1, <1>6, <1>7, <1>8 DEF OrderOf, g, B, cp

LEMMA OrderEditLocally ==
  ASSUME Types, NEW c \in Clients, OrderOf(c), EditLocally(c), "stale" \notin Situations
  PROVE  OrderOf(c)'
<1> DEFINE e == <<c, made[c] + 1>>
           s == Sealed(engine[c])
           b == LocalEdit(s, e)
           g == engine'[c]
           cp == copy[c]
           A == Abroad(c)
           B == Abroad(c)'
<1>1. /\ Types' /\ e \in Edits
      /\ tab[c] = "open" /\ Early(c) /\ made'[c] = made[c] + 1
      /\ g.pending = s.pending \cup {b} /\ g.next = s.next + 1
      /\ b \in Local /\ b.cseq = s.next /\ b.ops = <<e>> /\ b.localOnly
      /\ g.queued = <<>> /\ g.ready = s.ready /\ g.conf = s.conf
      /\ g.undurable = s.undurable /\ g.sentUpTo = s.sentUpTo
      /\ conn'[c] = conn[c] /\ up'[c] = up[c] /\ down'[c] = down[c]
      /\ tab'[c] = tab[c] /\ copy'[c] = cp /\ log' = log
  BY EditLocallyDoes DEF Alone
<1>2. engine[c].sentUpTo < engine[c].next /\ \A x \in A : x[1] < engine[c].next
  BY <1>1, NextIsFree
<1>3. /\ EngineOK(engine[c]) /\ CopyOK(cp) /\ A \in Away /\ made[c] \in Nat /\ Numbering(engine[c], cp, A)
      /\ Greeted(c) /\ Mine(engine[c], cp, A) \in Away /\ Ordered(c, made[c], Mine(engine[c], cp, A))
      /\ cp.next <= engine[c].next /\ engine[c].next \in Nat /\ <<0, <<>>>> \in A /\ cp.next \in Nat
  BY <1>1, OrderFields, AbroadHas
<1>4. /\ EngineOK(s) /\ s.queued = <<>> /\ s.ready = engine[c].ready /\ s.conf = engine[c].conf
      /\ s.sentUpTo = engine[c].sentUpTo /\ engine[c].next <= s.next
  BY <1>3, SealedOK
<1>5. B \subseteq A
  BY <1>1, <1>4, AbroadKept
<1>6. EngineOK(g) /\ B \in Away
  BY <1>1, TypesAre, AbroadTyped DEF Types
<1>7. Greeted(c)'
  <2>1. s.next \in Nat
    BY <1>4, EngineFields
  <2>2. cp.next <= g.next
    BY <1>1, <1>3, <1>4, <2>1
  <2> QED BY <1>1, <1>3, <1>4, <1>5, <2>2, GreetedSame
<1>8. ~s.ready
  BY <1>1, <1>4 DEF Early
<1>9. Numbering(s, cp, A)
  BY <1>3, NumberingSealed
<1>10. \A x \in Mine(s, cp, A) : x \in Mine(engine[c], cp, A) \/ x[2] = <<>>
  BY <1>3, MineSealed
<1> HIDE DEF s, g, cp, A, B, b
<1>11. /\ s.next \in Nat /\ cp.next \in Nat /\ cp.next <= s.next /\ \A x \in A : x[1] \in Nat
       /\ \A p \in s.pending \cup s.undurable : p.cseq \in Nat
  BY <1>3, <1>4, EngineFields, AwayFields
<1>12. \A x \in A : x[1] < s.next
  BY <1>2, <1>3, <1>4, <1>11
<1>13. Numbering(g, cp, B)
  <2>1. 0 < s.next
    <3>1. <<0, <<>>>>[1] = 0
      OBVIOUS
    <3> QED BY <1>3, <1>12, <3>1
  <2>2. \A p \in g.pending \cup g.undurable : 0 < p.cseq /\ p.cseq < g.next
    BY <1>1, <1>9, <1>11, <2>1 DEF Numbering
  <2>3. ASSUME NEW p \in g.pending, Untouched(p)
        PROVE  /\ p \in s.pending
               /\ \A r \in g.pending : Untouched(r) \/ r.localOnly \/ r.cseq < p.cseq
               /\ \A x \in cp.batches : x.cseq <= p.cseq \/ \E r \in g.pending : Untouched(r) /\ r.cseq = x.cseq
    BY <1>1, <1>9, <2>3 DEF Numbering, Untouched
  <2>4. Numbering(g, cp, A)
    BY <1>1, <1>8, <1>9, <2>2, <2>3 DEF Numbering
  <2> QED BY <1>5, <2>4, NumberingShrinks
<1>14. Ordered(c, made[c] + 1, Mine(g, cp, B))
  <2>1. Mine(s, cp, A) \in Away /\ Mine(g, cp, B) \in Away
    BY <1>3, <1>4, <1>6, MineTyped
  <2>2. Ordered(c, made[c], Mine(s, cp, A))
    BY <1>3, <1>10, <2>1, OrderedShrinks
  <2>3. \A x \in Mine(s, cp, A) : x[1] <= s.next
    BY <1>3, <1>4, <1>9, <1>11, <1>12, AllBelow
  <2>4. <<s.next, <<>>>> \in Mine(s, cp, A)
    BY <1>4 DEF Mine
  <2>5. <<>> \in Seq(Edits) /\ Append(<<>>, e) = <<e>>
    OBVIOUS
  <2>6. \A x \in Mine(g, cp, B) : x \in Mine(s, cp, A) \/ x[2] = <<>> \/ x = <<s.next, Append(<<>>, e)>>
    <3>1. Pair(b) = <<s.next, Append(<<>>, e)>>
      BY <1>1, <2>5 DEF Pair
    <3>2. <<g.next, g.queued>>[2] = <<>>
      BY <1>1
    <3> QED BY <1>1, <1>5, <3>1, <3>2 DEF Mine
  <2> QED BY <1>1, <1>3, <1>11, <2>1, <2>2, <2>3, <2>4, <2>5, <2>6, OrderedGrows
<1> QED BY <1>1, <1>7, <1>13, <1>14 DEF OrderOf, g, B, cp

LEMMA OrderFlushOffline ==
  ASSUME Types, NEW c \in Clients, OrderOf(c), FlushOffline(c)
  PROVE  OrderOf(c)'
<1> DEFINE h == engine[c]
           g == engine'[c]
           cp == copy[c]
           A == Abroad(c)
           B == Abroad(c)'
<1>1. /\ Types' /\ tab[c] = "open" /\ h.queued # <<>>
      /\ g = Sealed(h) \/ \E last \in h.pending : MayGrow(h, last) /\ g = Coalesced(h, last)
      /\ conn'[c] = conn[c] /\ up'[c] = up[c] /\ down'[c] = down[c] /\ made'[c] = made[c]
      /\ tab'[c] = tab[c] /\ copy'[c] = cp /\ log' = log
  BY FlushOfflineDoes DEF Alone
<1>2. /\ EngineOK(h) /\ CopyOK(cp) /\ A \in Away /\ made[c] \in Nat /\ Numbering(h, cp, A) /\ Greeted(c)
      /\ Mine(h, cp, A) \in Away /\ Ordered(c, made[c], Mine(h, cp, A)) /\ cp.next <= h.next
      /\ h.next \in Nat /\ h.queued \in Seq(Edits) /\ cp.next \in Nat
  BY <1>1, OrderFields, EngineFields
<1>3. EngineOK(g) /\ B \in Away
  BY <1>1, TypesAre, AbroadTyped DEF Types
<1>4. /\ g.ready = h.ready /\ g.conf = h.conf /\ g.sentUpTo = h.sentUpTo /\ h.next <= g.next /\ g.queued = <<>>
  <2>1. CASE g = Sealed(h)
    <3>1. /\ Sealed(h).ready = h.ready /\ Sealed(h).conf = h.conf /\ Sealed(h).sentUpTo = h.sentUpTo
          /\ h.next <= Sealed(h).next /\ Sealed(h).queued = <<>>
      BY <1>2, SealedOK
    <3> QED BY <2>1, <3>1
  <2>2. CASE \E last \in h.pending : MayGrow(h, last) /\ g = Coalesced(h, last)
    <3>1. PICK last \in h.pending : g = Coalesced(h, last)
      BY <2>2
    <3>2. /\ Coalesced(h, last).ready = h.ready /\ Coalesced(h, last).conf = h.conf
          /\ Coalesced(h, last).sentUpTo = h.sentUpTo
          /\ Coalesced(h, last).next = h.next /\ Coalesced(h, last).queued = <<>>
      BY <1>2, CoalescedOK
    <3> QED BY <1>2, <3>1, <3>2
  <2> QED BY <1>1, <2>1, <2>2
<1>5. B \subseteq A
  BY <1>1, <1>4, AbroadKept
<1>6. Greeted(c)'
  <2>1. cp.next <= g.next
    BY <1>2, <1>3, <1>4, EngineFields
  <2> QED BY <1>1, <1>2, <1>4, <1>5, <2>1, GreetedSame
<1> HIDE DEF h, g, cp, A, B
<1>7. Mine(g, cp, B) \in Away /\ Mine(g, cp, B) \subseteq Mine(g, cp, A)
  BY <1>2, <1>3, <1>5, MineTyped DEF Mine
<1>8. Numbering(g, cp, A) /\ Ordered(c, made[c], Mine(g, cp, B))
  <2>1. CASE g = Sealed(h)
    <3>1. Numbering(g, cp, A)
      BY <1>2, <2>1, NumberingSealed
    <3>2. \A x \in Mine(g, cp, B) : x \in Mine(h, cp, A) \/ x[2] = <<>>
      BY <1>2, <1>7, <2>1, MineSealed
    <3> QED BY <1>2, <1>7, <3>1, <3>2, OrderedShrinks
  <2>2. ASSUME NEW last \in h.pending, MayGrow(h, last), g = Coalesced(h, last)
        PROVE  Numbering(g, cp, A) /\ Ordered(c, made[c], Mine(g, cp, B))
    <3>1. Numbering(g, cp, A)
      BY <1>2, <2>2, NumberingCoalesced
    <3> DEFINE n == [last EXCEPT !.ops = last.ops \o h.queued]
    <3>2. /\ n.cseq = last.cseq /\ n.ops = last.ops \o h.queued
          /\ g.pending = (h.pending \ {last}) \cup {n} /\ g.undurable = h.undurable /\ g.next = h.next
      BY <1>2, <2>2, CoalescedOK
    <3> HIDE DEF n
    <3>3. last.cseq \in Nat /\ last.ops \in Seq(Edits)
      BY <1>2, EngineFields
    <3>4. /\ Untouched(last) /\ \A b \in h.pending : b.cseq <= last.cseq
      BY <2>2 DEF MayGrow, Untouched
    <3>5. /\ last.cseq < h.next /\ \A x \in A : x[1] < last.cseq
          /\ \A b \in h.undurable : b.cseq < last.cseq
          /\ \A x \in cp.batches : x.cseq <= last.cseq \/ \E r \in h.pending : Untouched(r) /\ r.cseq = x.cseq
      BY <1>2, <3>4 DEF Numbering
    <3>6. /\ \A x \in A : x[1] <= last.cseq
          /\ \A b \in h.pending \cup h.undurable \cup cp.batches : b.cseq <= last.cseq
      <4>1. /\ \A x \in A : x[1] \in Nat /\ \A b \in h.undurable : b.cseq \in Nat
            /\ \A b \in cp.batches : b.cseq \in Nat
        BY <1>2, AwayFields, EngineFields, CopyFields
      <4>2. \A x \in cp.batches : x.cseq <= last.cseq
        BY <3>4, <3>5
      <4>3. \A b \in h.undurable : b.cseq <= last.cseq
        BY <1>2, <3>3, <3>5, EngineFields
      <4>4. \A x \in A : x[1] <= last.cseq
        BY <1>2, <3>3, <3>5, AwayFields
      <4> QED BY <3>4, <4>2, <4>3, <4>4
    <3>7. ASSUME NEW x \in Mine(g, cp, B)
          PROVE  (x \in Mine(h, cp, A) /\ x[1] <= last.cseq) \/ x[2] = <<>> \/ x = <<last.cseq, last.ops \o h.queued>>
      <4>1. CASE x \in A
        BY <3>6, <4>1 DEF Mine
      <4>2. ASSUME NEW b \in g.pending \cup g.undurable \cup cp.batches, x = Pair(b)
            PROVE  (x \in Mine(h, cp, A) /\ x[1] <= last.cseq) \/ x = <<last.cseq, last.ops \o h.queued>>
        <5>1. CASE b = n
          BY <3>2, <4>2, <5>1 DEF Pair
        <5>2. CASE b \in h.pending \cup h.undurable \cup cp.batches
          BY <3>6, <4>2, <5>2 DEF Pair, Mine
        <5> QED BY <3>2, <5>1, <5>2
      <4>3. CASE x = <<g.next, g.queued>>
        BY <1>4, <4>3
      <4> QED BY <1>7, <4>1, <4>2, <4>3 DEF Mine
    <3>8. <<h.next, h.queued>> \in Mine(h, cp, A) /\ <<last.cseq, last.ops>> \in Mine(h, cp, A)
      BY DEF Mine, Pair
    <3>9. Ordered(c, made[c], Mine(g, cp, B))
      <4>1. /\ made[c] \in Nat /\ Mine(h, cp, A) \in Away /\ Mine(g, cp, B) \in Away
            /\ Ordered(c, made[c], Mine(h, cp, A)) /\ h.next \in Nat /\ h.queued \in Seq(Edits)
            /\ last.cseq < h.next
        BY <1>2, <1>7, <3>5
      <4> QED BY ONLY <4>1, <3>3, <3>7, <3>8, OrderedMerges
    <3> QED BY <3>1, <3>9
  <2> QED BY <1>1, <2>1, <2>2
<1>9. Numbering(g, cp, B)
  BY <1>5, <1>8, NumberingShrinks
<1> QED BY <1>1, <1>6, <1>8, <1>9 DEF OrderOf, g, B, cp

\* What every step keeps when it makes no edit.
LEMMA OrderKept ==
  ASSUME Types, Types', NEW c \in Clients, OrderOf(c), made'[c] = made[c],
         Numbering(engine'[c], copy'[c], Abroad(c)'), Greeted(c)',
         \A x \in Mine(engine'[c], copy'[c], Abroad(c)') :
           x \in Mine(engine[c], copy[c], Abroad(c)) \/ x[2] = <<>>
  PROVE  OrderOf(c)'
<1> DEFINE M == Mine(engine[c], copy[c], Abroad(c))
           N == Mine(engine'[c], copy'[c], Abroad(c)')
<1>1. /\ EngineOK(engine'[c]) /\ CopyOK(copy'[c]) /\ Abroad(c)' \in Away
  BY AbroadTyped DEF Types
<1>2. made[c] \in Nat /\ made[c] <= made[c] /\ M \in Away /\ N \in Away /\ Ordered(c, made[c], M)
  BY <1>1, OrderFields, MineTyped
<1>3. \A x \in N : x \in M \/ x[2] = <<>>
  OBVIOUS
<1> HIDE DEF M, N
<1>4. Ordered(c, made[c], N)
  BY ONLY <1>2, <1>3, OrderedShrinks
<1> QED BY <1>4 DEF OrderOf, N

LEMMA MineGrows ==
  ASSUME NEW h, NEW cp, NEW A, NEW B, B \subseteq A
  PROVE  Mine(h, cp, B) \subseteq Mine(h, cp, A)
BY DEF Mine

LEMMA OrderDisconnect ==
  ASSUME Types, NEW c \in Clients, OrderOf(c), Disconnect(c)
  PROVE  OrderOf(c)'
<1> DEFINE h == engine[c]
           cp == copy[c]
           A == Abroad(c)
           B == Abroad(c)'
<1>1. /\ Types' /\ tab[c] = "open" /\ engine'[c] = Reset(h) /\ conn'[c] = "off" /\ down'[c] = <<>>
      /\ up'[c] = up[c] /\ made'[c] = made[c] /\ tab'[c] = tab[c] /\ copy'[c] = cp /\ log' = log
  BY DisconnectDoes DEF Alone
<1>2. /\ EngineOK(h) /\ CopyOK(cp) /\ A \in Away /\ Numbering(h, cp, A) /\ Greeted(c)
      /\ cp.next <= h.next /\ <<0, <<>>>> \in A
  BY <1>1, OrderFields, AbroadHas
<1>3. /\ Reset(h).ready = h.ready /\ Reset(h).conf = h.conf /\ Reset(h).queued = h.queued
      /\ Reset(h).pending = h.pending /\ Reset(h).undurable = h.undurable
      /\ Reset(h).next = h.next /\ Reset(h).sentUpTo = 0
  BY <1>2, ResetOK
<1>4. B \subseteq A
  BY <1>1, <1>3, AbroadKept
<1>5. Greeted(c)'
  BY <1>1, <1>2, <1>3, GreetedOff DEF Greeted
<1>6. Numbering(Reset(h), cp, B)
  BY <1>2, <1>4, NumberingReset, NumberingShrinks
<1>7. \A x \in Mine(Reset(h), cp, B) : x \in Mine(h, cp, A)
  BY <1>3, <1>4 DEF Mine
<1> QED BY <1>1, <1>5, <1>6, <1>7, OrderKept

LEMMA OrderFlush ==
  ASSUME Types, NEW c \in Clients, OrderOf(c), Flush(c)
  PROVE  OrderOf(c)'
<1> DEFINE h == engine[c]
           s == Sealed(h)
           O == Outgoing(s)
           cp == copy[c]
           A == Abroad(c)
           P == A \cup {Pair(b) : b \in O}
           B == Abroad(c)'
<1>1. /\ Types' /\ tab[c] = "open" /\ Online(c) /\ engine'[c] = Sent(s) /\ Leaves(c, O)
      /\ conn'[c] = conn[c] /\ down'[c] = down[c] /\ made'[c] = made[c]
      /\ tab'[c] = tab[c] /\ copy'[c] = cp /\ log' = log
  BY FlushDoes DEF Alone
<1>2. /\ EngineOK(h) /\ CopyOK(cp) /\ A \in Away /\ Numbering(h, cp, A) /\ Greeted(c)
      /\ cp.next <= h.next /\ h.next \in Nat /\ cp.next \in Nat
  BY <1>1, OrderFields
<1>3. /\ EngineOK(s) /\ s.queued = <<>> /\ s.ready = h.ready /\ s.conf = h.conf /\ h.next <= s.next
  BY <1>2, SealedOK
<1>4. Sent(s).ready = s.ready /\ Sent(s).conf = s.conf /\ Sent(s).next = s.next
  BY <1>3, SentOK
<1>5. B \subseteq P
  <2>1. \A x \in Nat \X Seq(Edits) :
           \/ \E b \in Entries(engine'[c].conf) : b.client = c /\ x = Pair(b)
           \/ \E m \in Entries(down'[c]) : Carries(c, m, x)
           => x \in A
    BY <1>1, <1>3, <1>4, AbroadHas
  <2> QED BY <1>1, <2>1, AbroadSent
<1>6. Greeted(c)'
  <2>1. ~WelcomeWaits(c) /\ h.ready /\ \A i \in DOMAIN down[c] : down[c][i].type # "welcome"
    <3>1. conn[c] # "off" /\ ~WelcomeWaits(c)
      BY <1>1 DEF Online, WelcomeWaits
    <3>2. h.ready
      BY <1>2, <3>1 DEF Greeted
    <3>3. \A i \in DOMAIN down[c] : down[c][i].type = "welcome" => i = 1
      BY <1>2 DEF Greeted
    <3>4. down[c] \in Seq(Messages)
      BY TypesAre DEF TypesOf
    <3>5. ASSUME NEW i \in DOMAIN down[c], down[c][i].type = "welcome" PROVE FALSE
      <4>1. i = 1 /\ down[c] # <<>> /\ Head(down[c]) = down[c][1]
        BY <3>3, <3>4, <3>5
      <4> QED BY <3>1, <3>5, <4>1 DEF WelcomeWaits
    <3> QED BY <3>1, <3>2, <3>5
  <2>2. cp.next <= s.next
    BY <1>2, <1>3, EngineFields
  <2> QED BY <1>1, <1>3, <1>4, <2>1, <2>2, GreetedOn
<1>7. Numbering(Sent(s), cp, B)
  <2>1. Numbering(s, cp, A)
    BY <1>2, NumberingSealed
  <2>2. Numbering(Sent(s), cp, P)
    BY <1>2, <1>3, <2>1, NumberingSent
  <2> HIDE DEF P, B, s
  <2> QED BY <1>5, <2>2, NumberingShrinks
<1>8. \A x \in Mine(Sent(s), cp, B) : x \in Mine(h, cp, A) \/ x[2] = <<>>
  <2>1. Mine(Sent(s), cp, B) \subseteq Mine(Sent(s), cp, P)
    BY <1>5, MineGrows
  <2>2. Mine(Sent(s), cp, P) \subseteq Mine(s, cp, A)
    BY <1>3, MineSent
  <2>3. \A x \in Mine(s, cp, A) : x \in Mine(h, cp, A) \/ x[2] = <<>>
    BY <1>2, MineSealed
  <2> QED BY <2>1, <2>2, <2>3
<1> QED BY <1>1, <1>6, <1>7, <1>8, OrderKept

LEMMA OrderPersist ==
  ASSUME Types, NEW c \in Clients, OrderOf(c), Persist(c)
  PROVE  OrderOf(c)'
<1> DEFINE h == engine[c]
           s == Sealed(h)
           cp == copy[c]
           A == Abroad(c)
           B == Abroad(c)'
<1>1. /\ Types' /\ EngineOK(s) /\ tab[c] = "open" /\ engine'[c] = s /\ copy'[c] = CopyOf(s)
      /\ conn'[c] = conn[c] /\ up'[c] = up[c] /\ down'[c] = down[c]
      /\ made'[c] = made[c] /\ tab'[c] = tab[c] /\ log' = log
  BY PersistDoes DEF Alone
<1>2. /\ EngineOK(h) /\ CopyOK(cp) /\ A \in Away /\ Numbering(h, cp, A) /\ Greeted(c)
      /\ cp.next <= h.next /\ h.next \in Nat /\ cp.next \in Nat
  BY <1>1, OrderFields
<1>3. /\ s.queued = <<>> /\ s.ready = h.ready /\ s.conf = h.conf /\ s.sentUpTo = h.sentUpTo
  BY <1>2, SealedOK
<1>4. Numbering(s, cp, A)
  BY <1>2, NumberingSealed
<1>5. Numbering(s, CopyOf(s), A) /\ CopyOf(s).next <= s.next
  BY <1>1, <1>4, NumberingCopied
<1>6. B \subseteq A
  BY <1>1, <1>3, AbroadKept
<1>7. Greeted(c)'
  BY <1>1, <1>2, <1>3, <1>5, <1>6, GreetedSame
<1>8. Numbering(s, CopyOf(s), B)
  BY <1>5, <1>6, NumberingShrinks
<1>9. \A x \in Mine(s, CopyOf(s), B) : x \in Mine(h, cp, A) \/ x[2] = <<>>
  <2>1. Mine(s, CopyOf(s), B) \subseteq Mine(s, CopyOf(s), A)
    BY <1>6, MineGrows
  <2>2. Mine(s, CopyOf(s), A) \subseteq Mine(s, cp, A)
    BY <1>1, MineCopied
  <2>3. \A x \in Mine(s, cp, A) : x \in Mine(h, cp, A) \/ x[2] = <<>>
    BY <1>2, MineSealed
  <2> QED BY <2>1, <2>2, <2>3
<1> QED BY <1>1, <1>7, <1>8, <1>9, OrderKept

LEMMA OrderCloseTab ==
  ASSUME Types, NEW c \in Clients, OrderOf(c), CloseTab(c)
  PROVE  OrderOf(c)'
<1> DEFINE h == engine[c]
           s == Sealed(h)
           k == CopyOf(s)
           cp == copy[c]
           A == Abroad(c)
           B == Abroad(c)'
<1>1. /\ Types' /\ EngineOK(s) /\ tab[c] = "open" /\ engine'[c] = FreshEngine /\ copy'[c] = k
      /\ conn'[c] = "off" /\ up'[c] = up[c] /\ down'[c] = <<>>
      /\ made'[c] = made[c] /\ tab'[c] = "closed" /\ log' = log
  BY CloseTabDoes DEF Alone
<1>2. /\ EngineOK(h) /\ CopyOK(cp) /\ A \in Away /\ Numbering(h, cp, A)
      /\ cp.next <= h.next
  BY <1>1, OrderFields
<1>3. /\ Numbering(s, k, A) /\ CopyOK(k)
  BY <1>1, <1>2, NumberingSealed, NumberingCopied, CopyOfOK
<1>4. B \subseteq A
  BY <1>1, FreshOK, AbroadKept
<1>5. Greeted(c)'
  BY <1>1, FreshOK, GreetedOff
<1>6. Numbering(FreshEngine, k, B)
  BY <1>3, <1>4, NumberingEmpty, NumberingShrinks
<1>7. \A x \in Mine(FreshEngine, k, B) : x \in Mine(h, cp, A) \/ x[2] = <<>>
  <2>1. Mine(FreshEngine, k, B) \subseteq Mine(FreshEngine, k, A)
    BY <1>4, MineGrows
  <2>2. \A x \in Mine(FreshEngine, k, A) : x \in Mine(s, k, A) \/ x[2] = <<>>
    BY <1>3, MineEmpty
  <2>3. Mine(s, k, A) \subseteq Mine(s, cp, A)
    BY <1>1, MineCopied
  <2>4. \A x \in Mine(s, cp, A) : x \in Mine(h, cp, A) \/ x[2] = <<>>
    BY <1>2, MineSealed
  <2> QED BY <2>1, <2>2, <2>3, <2>4
<1> QED BY <1>1, <1>5, <1>6, <1>7, OrderKept

LEMMA OrderKillTab ==
  ASSUME Types, NEW c \in Clients, OrderOf(c), KillTab(c)
  PROVE  OrderOf(c)'
<1> DEFINE h == engine[c]
           cp == copy[c]
           A == Abroad(c)
           B == Abroad(c)'
<1>1. /\ Types' /\ tab[c] = "open" /\ engine'[c] = FreshEngine /\ copy'[c] = cp
      /\ conn'[c] = "off" /\ up'[c] = up[c] /\ down'[c] = <<>>
      /\ made'[c] = made[c] /\ tab'[c] = "closed" /\ log' = log
  BY KillTabDoes DEF Alone
<1>2. /\ EngineOK(h) /\ CopyOK(cp) /\ A \in Away /\ Numbering(h, cp, A)
  BY <1>1, OrderFields
<1>4. B \subseteq A
  BY <1>1, FreshOK, AbroadKept
<1>5. Greeted(c)'
  BY <1>1, FreshOK, GreetedOff
<1>6. Numbering(FreshEngine, cp, B)
  BY <1>2, <1>4, NumberingEmpty, NumberingShrinks
<1>7. \A x \in Mine(FreshEngine, cp, B) : x \in Mine(h, cp, A) \/ x[2] = <<>>
  BY <1>2, <1>4, MineGrows, MineEmpty
<1> QED BY <1>1, <1>5, <1>6, <1>7, OrderKept

LEMMA OrderReopen ==
  ASSUME Types, NEW c \in Clients, OrderOf(c), Reopen(c)
  PROVE  OrderOf(c)'
<1> DEFINE h == engine[c]
           cp == copy[c]
           r == Restored(cp)
           A == Abroad(c)
           B == Abroad(c)'
<1>1. /\ Types' /\ tab[c] = "closed" /\ engine'[c] = r /\ copy'[c] = cp
      /\ conn'[c] = conn[c] /\ up'[c] = up[c] /\ down'[c] = down[c]
      /\ made'[c] = made[c] /\ tab'[c] = "open" /\ log' = log
  BY ReopenDoes DEF Alone
<1>2. /\ EngineOK(h) /\ CopyOK(cp) /\ A \in Away /\ Numbering(h, cp, A) /\ Greeted(c) /\ cp.next \in Nat
  BY <1>1, OrderFields
<1>3. conn[c] = "off" /\ down[c] = <<>>
  BY <1>1, <1>2, TypesAre DEF Greeted, TypesOf
<1>4. r.conf = <<>> /\ r.sentUpTo = 0 /\ r.next = cp.next
  BY <1>2, RestoredOK
<1>5. B \subseteq A
  BY <1>1, <1>4, AbroadKept
<1>6. Greeted(c)'
  BY <1>1, <1>2, <1>3, <1>4, GreetedOff
<1>7. Numbering(r, cp, B)
  BY <1>2, <1>5, NumberingEmpty, NumberingShrinks
<1>8. \A x \in Mine(r, cp, B) : x \in Mine(h, cp, A) \/ x[2] = <<>>
  BY <1>2, <1>5, MineGrows, MineEmpty
<1> QED BY <1>1, <1>6, <1>7, <1>8, OrderKept

\* What leaves a client's connection or reaches its engine was abroad already.
LEMMA AbroadMoves ==
  ASSUME Types, NEW c \in Clients, \A b \in Entries(log') : b.client = c => b \in Entries(log),
         up'[c] = up[c] \/ up'[c] = <<>> \/ (up[c] # <<>> /\ up'[c] = Tail(up[c])),
         \A b \in Entries(engine'[c].conf) : b.client = c => Pair(b) \in Abroad(c),
         \A m \in Entries(down'[c]) : \A x \in Nat \X Seq(Edits) : Carries(c, m, x) => x \in Abroad(c)
  PROVE  Abroad(c)' \subseteq Abroad(c)
<1>1. SUFFICES ASSUME NEW x \in Nat \X Seq(Edits),
                      IsAbroad(c, log', engine'[c].conf, up'[c], down'[c], x)
               PROVE  x \in Abroad(c)
  BY DEF Abroad
<1>2. Entries(up'[c]) \subseteq Entries(up[c])
  <2>1. up[c] \in Seq(Unsynced)
    BY TypesAre DEF TypesOf
  <2>2. Entries(<<>>) = {}
    BY DEF Entries
  <2> QED BY <2>1, <2>2, EntriesTail
<1> QED BY <1>1, <1>2, AbroadHas DEF IsAbroad

LEMMA HeadAbroad ==
  ASSUME Types, NEW c \in Clients, down[c] # <<>>
  PROVE  LET m == Head(down[c])
         IN  /\ m \in Messages /\ m \in Entries(down[c])
             /\ \A x \in Nat \X Seq(Edits) : Carries(c, m, x) => x \in Abroad(c)
             /\ m.type = "welcome" => <<m.cseq, <<>>>> \in Abroad(c)
             /\ m.type \in {"welcome", "batch"} =>
                  \A b \in BatchesOf(m) : b \in Sequenced /\ (b.client = c => Pair(b) \in Abroad(c))
             /\ Entries(Tail(down[c])) \subseteq Entries(down[c])
<1> DEFINE m == Head(down[c])
<1>1. down[c] \in Seq(Messages)
  BY TypesAre DEF TypesOf
<1>2. m \in Messages /\ m \in Entries(down[c]) /\ Entries(Tail(down[c])) \subseteq Entries(down[c])
  BY <1>1, EntriesTail
<1>3. \A x \in Nat \X Seq(Edits) : Carries(c, m, x) => x \in Abroad(c)
  BY <1>2, AbroadHas
<1> HIDE DEF m
<1>4. ASSUME m.type = "welcome" PROVE <<m.cseq, <<>>>> \in Abroad(c)
  <2>1. m.cseq \in Nat /\ <<>> \in Seq(Edits)
    BY <1>2, <1>4, MessageKinds DEF Welcome
  <2>2. <<m.cseq, <<>>>> \in Nat \X Seq(Edits)
    BY ONLY <2>1
  <2>3. Carries(c, m, <<m.cseq, <<>>>>)
    BY <1>4 DEF Carries, Names
  <2> QED BY <1>3, <2>2, <2>3
<1>5. ASSUME m.type \in {"welcome", "batch"}, NEW b \in BatchesOf(m)
      PROVE  b \in Sequenced /\ (b.client = c => Pair(b) \in Abroad(c))
  <2>1. b \in Sequenced
    <3>1. CASE m.type = "batch"
      BY <1>2, <1>5, <3>1, MessageKinds DEF BatchesOf
    <3>2. CASE m.type = "welcome"
      <4>1. m.batches \in Seq(Sequenced)
        BY <1>2, <3>2, MessageKinds DEF Welcome
      <4> QED BY <1>5, <3>2, <4>1 DEF BatchesOf, Entries
    <3> QED BY <1>5, <3>1, <3>2
  <2>2. Pair(b) \in Nat \X Seq(Edits)
    BY <2>1 DEF Pair, Sequenced
  <2>3. b.client = c => Carries(c, m, Pair(b))
    BY <1>5 DEF Carries
  <2> QED BY <1>3, <2>1, <2>2, <2>3
<1> QED BY <1>2, <1>3, <1>4, <1>5 DEF m

\* Past its first message a connection carries no `welcome'.
LEMMA NoMoreWelcome ==
  ASSUME Types, NEW c \in Clients, Greeted(c), conn[c] # "off"
  PROVE  /\ down[c] # <<>> => \A i \in DOMAIN Tail(down[c]) : Tail(down[c])[i].type # "welcome"
         /\ ~WelcomeWaits(c) => engine[c].ready /\ \A i \in DOMAIN down[c] : down[c][i].type # "welcome"
         /\ tab[c] = "open"
<1>1. down[c] \in Seq(Messages) /\ tab[c] \in {"open", "closed"}
  BY TypesAre DEF TypesOf
<1>2. \A i \in DOMAIN down[c] : down[c][i].type = "welcome" => i = 1
  BY DEF Greeted
<1>3. ASSUME down[c] # <<>>, NEW i \in DOMAIN Tail(down[c]) PROVE Tail(down[c])[i].type # "welcome"
  <2>1. /\ Tail(down[c]) \in Seq(Messages) /\ Len(Tail(down[c])) = Len(down[c]) - 1
        /\ \A k \in 1..Len(down[c]) - 1 : Tail(down[c])[k] = down[c][k + 1]
    BY <1>1, <1>3, EntriesTail
  <2>2. i \in 1..Len(down[c]) - 1 /\ i + 1 \in DOMAIN down[c] /\ i + 1 # 1
    BY <1>1, <1>3, <2>1
  <2> QED BY <1>2, <2>1, <2>2
<1>4. ASSUME ~WelcomeWaits(c), NEW i \in DOMAIN down[c], down[c][i].type = "welcome" PROVE FALSE
  <2>1. i = 1 /\ down[c] # <<>> /\ Head(down[c]) = down[c][1]
    BY <1>1, <1>2, <1>4
  <2> QED BY <1>4, <2>1 DEF WelcomeWaits
<1> QED BY <1>1, <1>3, <1>4 DEF Greeted

LEMMA WelcomeTaken ==
  ASSUME Types, NEW c \in Clients, OrderOf(c), ReceiveWelcome(c)
  PROVE  LET w == Welcomed(engine[c], c, Head(down[c]))
         IN  /\ tab[c] = "open" /\ copy[c].next <= engine[c].next /\ EngineOK(w)
             /\ Numbering(w, copy[c], Abroad(c)) /\ Settles(Sealed(engine[c]), w, Abroad(c))
             /\ \A i \in DOMAIN Tail(down[c]) : Tail(down[c])[i].type # "welcome"
<1> DEFINE m == Head(down[c])
           h == engine[c]
           w == Welcomed(h, c, m)
           cp == copy[c]
           A == Abroad(c)
<1>1. EngineOK(w) /\ conn[c] # "off" /\ down[c] # <<>> /\ m.type = "welcome" /\ m \in Welcome
  BY ReceiveWelcomeDoes
<1>2. /\ EngineOK(h) /\ CopyOK(cp) /\ A \in Away /\ Numbering(h, cp, A) /\ Greeted(c)
  BY OrderFields
<1>3. /\ tab[c] = "open" /\ cp.next <= h.next
      /\ \A i \in DOMAIN Tail(down[c]) : Tail(down[c])[i].type # "welcome"
  BY <1>1, <1>2, NoMoreWelcome, OrderFields
<1>4. /\ <<m.cseq, <<>>>> \in A
      /\ \A b \in Entries(m.batches) : b.client = c => Pair(b) \in A
  BY <1>1, HeadAbroad DEF BatchesOf
<1>5. ~h.ready => \A x \in A : x[1] <= m.cseq
  BY <1>1, <1>2 DEF Greeted, WelcomeWaits
<1> HIDE DEF m, A, h, cp, w
<1>6. EngineOK(h) /\ m \in Welcome /\ CopyOK(cp) /\ A \in Away /\ Numbering(h, cp, A) /\ cp.next <= h.next
  BY <1>1, <1>2, <1>3
<1>7. Numbering(w, cp, A) /\ Settles(Sealed(h), w, A)
  BY ONLY <1>6, <1>4, <1>5, NumberingWelcomed DEF w
<1> QED BY <1>1, <1>3, <1>7 DEF m, h, cp, w, A

LEMMA OrderReceiveWelcome ==
  ASSUME Types, NEW c \in Clients, OrderOf(c), ReceiveWelcome(c)
  PROVE  OrderOf(c)'
<1> DEFINE m == Head(down[c])
           h == engine[c]
           s == Sealed(h)
           w == Welcomed(h, c, m)
           O == Outgoing(w)
           cp == copy[c]
           A == Abroad(c)
           P == A \cup {Pair(b) : b \in O}
           B == Abroad(c)'
<1>1. /\ Types' /\ EngineOK(w) /\ conn[c] # "off" /\ down[c] # <<>> /\ m.type = "welcome" /\ m \in Welcome
      /\ engine'[c] = Sent(w) /\ Leaves(c, O) /\ down'[c] = Tail(down[c])
      /\ conn'[c] = conn[c] /\ made'[c] = made[c]
      /\ tab'[c] = tab[c] /\ copy'[c] = cp /\ log' = log
  BY ReceiveWelcomeDoes DEF Alone
<1>2. /\ EngineOK(h) /\ CopyOK(cp) /\ A \in Away /\ Numbering(h, cp, A) /\ Greeted(c)
      /\ h.next \in Nat /\ cp.next \in Nat
  BY <1>1, OrderFields
<1>3. /\ tab[c] = "open" /\ cp.next <= h.next
      /\ \A i \in DOMAIN down'[c] : down'[c][i].type # "welcome"
  BY <1>1, WelcomeTaken
<1>4. /\ <<m.cseq, <<>>>> \in A
      /\ \A b \in Entries(m.batches) : b \in Sequenced /\ (b.client = c => Pair(b) \in A)
      /\ Entries(down'[c]) \subseteq Entries(down[c])
  BY <1>1, HeadAbroad DEF BatchesOf
<1>6. Numbering(w, cp, A) /\ Settles(s, w, A)
  BY WelcomeTaken
<1>7. /\ w.ready /\ w.queued = <<>> /\ m.cseq \in Nat
      /\ w.conf = IF m.snapshot THEN m.batches ELSE h.conf \o m.batches
      /\ w.next = IF s.next > m.cseq + 1 THEN s.next ELSE m.cseq + 1
  <2>1. m.cseq \in Nat
    BY <1>1 DEF Welcome
  <2>2. /\ w.ready /\ w.queued = <<>> /\ w.conf = Counted(h, c, m).conf
        /\ w.next = IF Counted(h, c, m).next > m.cseq + 1 THEN Counted(h, c, m).next ELSE m.cseq + 1
    BY <1>1, <1>2, WelcomedOK
  <2>3. /\ Counted(h, c, m).conf = IF m.snapshot THEN m.batches ELSE h.conf \o m.batches
        /\ Counted(h, c, m).next = Opening(h).next
    BY <1>1, <1>2, CountedOK
  <2>4. Opening(h).next = s.next
    BY <1>2, OpeningOK
  <2> QED BY <2>1, <2>2, <2>3, <2>4
<1>8. cp.next <= w.next
  <2>1. s.next \in Nat /\ h.next <= s.next
    <3>1. EngineOK(s) /\ (s.next = h.next \/ s.next = h.next + 1)
      BY <1>2, SealedOK
    <3> QED BY <1>2, <3>1
  <2> HIDE DEF w, s
  <2> QED BY <1>2, <1>3, <1>7, <2>1
<1>9. Sent(w).ready = w.ready /\ Sent(w).conf = w.conf /\ Sent(w).next = w.next
  BY <1>1, SentOK
<1>10. B \subseteq P
  <2>1. \A b \in Entries(w.conf) : b.client = c => Pair(b) \in A
    <3>1. CASE m.snapshot
      BY <1>4, <1>7, <3>1
    <3>2. CASE ~m.snapshot
      <4>1. h.conf \in Seq(Sequenced) /\ m.batches \in Seq(Sequenced)
        BY <1>1, <1>2, EngineFields DEF Welcome
      <4>2. Entries(w.conf) = Entries(h.conf) \cup Entries(m.batches)
        <5>1. Entries(h.conf \o m.batches) = Entries(h.conf) \cup Entries(m.batches)
          BY ONLY <4>1, EntriesConcat
        <5> QED BY <1>7, <3>2, <5>1
      <4> QED BY <1>4, <4>2, AbroadHas
    <3> QED BY <3>1, <3>2
  <2>2. \A x \in Nat \X Seq(Edits) :
           \/ \E b \in Entries(engine'[c].conf) : b.client = c /\ x = Pair(b)
           \/ \E n \in Entries(down'[c]) : Carries(c, n, x)
           => x \in A
    BY <1>1, <1>4, <1>9, <2>1, AbroadHas
  <2> QED BY <1>1, <2>2, AbroadSent
<1>11. Greeted(c)'
  BY <1>1, <1>3, <1>7, <1>8, <1>9, GreetedOn
<1>12. Numbering(Sent(w), cp, B)
  <2>1. Numbering(Sent(w), cp, P)
    BY <1>1, <1>2, <1>6, <1>7, NumberingSent
  <2> HIDE DEF P, B, w
  <2> QED BY <1>10, <2>1, NumberingShrinks
<1>13. \A x \in Mine(Sent(w), cp, B) : x \in Mine(h, cp, A) \/ x[2] = <<>>
  <2>1. Mine(Sent(w), cp, B) \subseteq Mine(Sent(w), cp, P)
    BY <1>10, MineGrows
  <2>2. Mine(Sent(w), cp, P) \subseteq Mine(w, cp, A)
    BY <1>1, MineSent
  <2>3. \A x \in Mine(w, cp, A) : x \in Mine(s, cp, A) \/ x = <<w.next, w.queued>>
    BY <1>6, MineSettles
  <2>4. \A x \in Mine(s, cp, A) : x \in Mine(h, cp, A) \/ x[2] = <<>>
    BY <1>2, MineSealed
  <2>5. <<w.next, w.queued>>[2] = <<>>
    BY <1>7
  <2> QED BY <2>1, <2>2, <2>3, <2>4, <2>5
<1> QED BY <1>1, <1>11, <1>12, <1>13, OrderKept

LEMMA ReceivedKeeps ==
  ASSUME NEW h, EngineOK(h), NEW c, NEW m \in Messages, m.type # "welcome"
  PROVE  LET r == Received(h, c, m)
         IN  r.next = h.next /\ r.queued = h.queued /\ r.ready = h.ready /\ r.sentUpTo = h.sentUpTo
<1> DEFINE r == Received(h, c, m)
<1>1. CASE m.type = "batch" /\ IsNext(h, m.batch)
  <2> DEFINE t == <<m.batch>>
             a == Applied(h, c, t)
  <2>1. t \in Seq(Sequenced) /\ r = a /\ EngineOK(h)
    BY <1>1, MessageKinds, ReceivedOK
  <2> HIDE DEF t
  <2>2. a.next = h.next /\ a.queued = h.queued /\ a.ready = h.ready /\ a.sentUpTo = h.sentUpTo
    BY ONLY <2>1, AppliedOK
  <2> HIDE DEF a, r
  <2> QED BY ONLY <2>1, <2>2 DEF r
<1>2. CASE m.type = "batch" /\ ~IsNext(h, m.batch)
  BY <1>2, ReceivedOK
<1>3. CASE m.type = "durable"
  <2>1. r = DurableTold(h, m.seq) /\ m.seq \in Nat
    BY <1>3, ReceivedOK, MessageKinds
  <2> HIDE DEF r
  <2> QED BY <2>1, DurableToldOK DEF r
<1>4. CASE m.type \in {"duplicate", "reject"}
  <2>1. r = Answered(h, m) /\ m.cseq \in Nat
    BY <1>4, ReceivedOK, MessageKinds
  <2> HIDE DEF r
  <2> QED BY <2>1, AnsweredOK DEF r
<1> QED BY <1>1, <1>2, <1>3, <1>4, MessageKinds

LEMMA MessageTaken ==
  ASSUME Types, NEW c \in Clients, OrderOf(c), Receive(c)
  PROVE  LET h == engine[c]
             g == Received(h, c, Head(down[c]))
         IN  /\ tab[c] = "open" /\ copy[c].next <= h.next /\ h.ready /\ ~WelcomeWaits(c)
             /\ Numbering(g, copy[c], Abroad(c)) /\ Settles(h, g, Abroad(c)) /\ EngineOK(g)
             /\ g.next = h.next /\ g.queued = h.queued /\ g.ready = h.ready /\ g.sentUpTo = h.sentUpTo
             /\ \A i \in DOMAIN Tail(down[c]) : Tail(down[c])[i].type # "welcome"
<1> DEFINE m == Head(down[c])
           h == engine[c]
           g == Received(h, c, m)
           cp == copy[c]
           A == Abroad(c)
<1>1. conn[c] # "off" /\ down[c] # <<>> /\ m \in Messages /\ m.type # "welcome"
  BY ReceiveDoes
<1>2. /\ EngineOK(h) /\ CopyOK(cp) /\ A \in Away /\ Numbering(h, cp, A) /\ Greeted(c)
  BY OrderFields
<1>3. /\ tab[c] = "open" /\ cp.next <= h.next /\ h.ready /\ ~WelcomeWaits(c)
      /\ \A i \in DOMAIN Tail(down[c]) : Tail(down[c])[i].type # "welcome"
  <2>1. ~WelcomeWaits(c)
    BY <1>1 DEF WelcomeWaits
  <2> QED BY <1>1, <1>2, <2>1, NoMoreWelcome, OrderFields
<1>4. Brings(c, m, A)
  BY <1>1, HeadAbroad DEF Brings
<1>5. EngineOK(g)
  BY <1>1, <1>2, ReceivedOK
<1>6. /\ EngineOK(h) /\ h.ready /\ CopyOK(cp) /\ A \in Away /\ Numbering(h, cp, A)
      /\ m \in Messages /\ m.type # "welcome" /\ Brings(c, m, A)
  BY <1>1, <1>2, <1>3, <1>4
<1> HIDE DEF A, h, m, cp, g
<1>7. /\ Numbering(g, cp, A) /\ Settles(h, g, A)
      /\ g.next = h.next /\ g.queued = h.queued /\ g.ready = h.ready /\ g.sentUpTo = h.sentUpTo
  <2> DEFINE r == Received(h, c, m)
  <2>1. Numbering(r, cp, A) /\ Settles(h, r, A)
    BY ONLY <1>6, NumberingReceived, ZenonT(30)
  <2>2. r.next = h.next /\ r.queued = h.queued /\ r.ready = h.ready /\ r.sentUpTo = h.sentUpTo
    BY ONLY <1>6, ReceivedKeeps
  <2>3. g = r
    BY DEF g
  <2> QED BY ONLY <2>1, <2>2, <2>3
<1> QED BY <1>3, <1>5, <1>7 DEF m, h, cp, g, A

LEMMA OrderReceive ==
  ASSUME Types, NEW c \in Clients, OrderOf(c), Receive(c)
  PROVE  OrderOf(c)'
<1> DEFINE m == Head(down[c])
           h == engine[c]
           cp == copy[c]
           g == engine'[c]
           A == Abroad(c)
           B == Abroad(c)'
<1>1. /\ Types' /\ conn[c] # "off" /\ down[c] # <<>> /\ m \in Messages /\ m.type # "welcome"
      /\ \/ conn'[c] = "off" /\ down'[c] = <<>> /\ g = Reset(h)
         \/ conn'[c] = conn[c] /\ down'[c] = Tail(down[c]) /\ g = Received(h, c, m)
      /\ up'[c] = up[c] /\ made'[c] = made[c]
      /\ tab'[c] = tab[c] /\ copy'[c] = cp /\ log' = log
  BY ReceiveDoes DEF Alone
<1>2. /\ EngineOK(h) /\ CopyOK(cp) /\ A \in Away /\ Numbering(h, cp, A) /\ Greeted(c)
      /\ <<0, <<>>>> \in A
  BY <1>1, OrderFields, AbroadHas
<1>3. /\ tab[c] = "open" /\ cp.next <= h.next /\ h.ready
      /\ \A i \in DOMAIN Tail(down[c]) : Tail(down[c])[i].type # "welcome"
  BY <1>1, MessageTaken
<1>4. CASE conn'[c] = "off" /\ down'[c] = <<>> /\ g = Reset(h)
  <2>1. /\ Reset(h).ready = h.ready /\ Reset(h).conf = h.conf /\ Reset(h).queued = h.queued
        /\ Reset(h).pending = h.pending /\ Reset(h).undurable = h.undurable
        /\ Reset(h).next = h.next /\ Reset(h).sentUpTo = 0
    BY <1>2, ResetOK
  <2>2. B \subseteq A
    BY <1>1, <1>4, <2>1, AbroadKept
  <2>3. Greeted(c)'
    BY <1>1, <1>3, <1>4, <2>1, GreetedOff
  <2>4. Numbering(Reset(h), cp, B)
    BY <1>2, <2>2, NumberingReset, NumberingShrinks
  <2>5. \A x \in Mine(Reset(h), cp, B) : x \in Mine(h, cp, A)
    BY <2>1, <2>2 DEF Mine
  <2> QED BY <1>1, <1>4, <2>3, <2>4, <2>5, OrderKept
<1>5. CASE conn'[c] = conn[c] /\ down'[c] = Tail(down[c]) /\ g = Received(h, c, m)
  <2>1. /\ \A x \in Nat \X Seq(Edits) : Carries(c, m, x) => x \in A
        /\ Entries(down'[c]) \subseteq Entries(down[c])
    BY <1>1, <1>5, HeadAbroad
  <2>2. /\ Numbering(g, cp, A) /\ Settles(h, g, A)
        /\ g.next = h.next /\ g.queued = h.queued /\ g.ready = h.ready /\ g.sentUpTo = h.sentUpTo
    <3> DEFINE r == Received(h, c, m)
    <3>1. /\ Numbering(r, cp, A) /\ Settles(h, r, A)
          /\ r.next = h.next /\ r.queued = h.queued /\ r.ready = h.ready /\ r.sentUpTo = h.sentUpTo
      BY MessageTaken
    <3>2. g = r
      BY <1>5
    <3> HIDE DEF r, g, h, cp, A
    <3> QED BY <3>1, <3>2
  <2>3. \A b \in Entries(g.conf) : b.client = c => Pair(b) \in A
    <3>1. \A b \in Entries(h.conf) : b.client = c => Pair(b) \in A
      BY AbroadHas
    <3>2. CASE m.type = "batch" /\ IsNext(h, m.batch)
      <4>1. /\ g = Applied(h, c, <<m.batch>>) /\ m.batch \in Sequenced /\ <<m.batch>> \in Seq(Sequenced)
        BY <1>1, <1>2, <1>5, <3>2, ReceivedOK, MessageKinds
      <4>2. g.conf = h.conf \o <<m.batch>>
        <5> DEFINE bs == <<m.batch>>
        <5>1. EngineOK(h) /\ bs \in Seq(Sequenced) /\ g = Applied(h, c, bs)
          BY <1>2, <4>1
        <5> HIDE DEF bs, h, g, m
        <5>2. Applied(h, c, bs).conf = h.conf \o bs
          BY ONLY <5>1, AppliedOK
        <5> QED BY <5>1, <5>2 DEF bs
      <4>3. h.conf \in Seq(Sequenced) /\ Entries(<<m.batch>>) = {m.batch}
        BY <1>2, EngineFields DEF Entries
      <4>4. Entries(g.conf) = Entries(h.conf) \cup {m.batch}
        <5>1. Entries(h.conf \o <<m.batch>>) = Entries(h.conf) \cup Entries(<<m.batch>>)
          BY ONLY <4>1, <4>3, EntriesConcat
        <5> QED BY <4>2, <4>3, <5>1
      <4>5. m.batch.client = c => Pair(m.batch) \in A
        BY <1>1, <3>2, HeadAbroad DEF BatchesOf
      <4> QED BY <3>1, <4>4, <4>5
    <3>3. CASE ~(m.type = "batch" /\ IsNext(h, m.batch))
      <4>1. \/ g = h
            \/ g = DurableTold(h, m.seq) /\ m.seq \in Nat
            \/ g = Answered(h, m) /\ m.type \in {"duplicate", "reject"} /\ m.cseq \in Nat
        BY <1>1, <1>2, <1>5, <3>3, ReceivedOK, MessageKinds
      <4>2. \A n \in Nat : DurableTold(h, n).conf = h.conf
        BY <1>2, DurableToldOK
      <4>3. m.cseq \in Nat => Answered(h, m).conf = h.conf
        BY <1>2, AnsweredOK
      <4>4. g.conf = h.conf
        BY <4>1, <4>2, <4>3
      <4> QED BY <3>1, <4>4
    <3> QED BY <3>2, <3>3
  <2>4. B \subseteq A
    <3>1. \A n \in Entries(down'[c]) : \A x \in Nat \X Seq(Edits) : Carries(c, n, x) => x \in A
      BY <2>1, AbroadHas
    <3> QED BY <1>1, <2>3, <3>1, AbroadMoves
  <2>5. Greeted(c)'
    BY <1>1, <1>3, <1>5, <2>2, GreetedOn
  <2>6. Numbering(g, cp, B)
    <3> HIDE DEF g, B
    <3> QED BY <2>2, <2>4, NumberingShrinks
  <2>7. \A x \in Mine(g, cp, B) : x \in Mine(h, cp, A) \/ x[2] = <<>>
    <3>1. \A x \in Mine(g, cp, B) : x \in Mine(h, cp, A) \/ x = <<g.next, g.queued>>
      BY <2>2, <2>4, MineGrows, MineSettles
    <3>2. <<g.next, g.queued>> \in Mine(h, cp, A)
      BY <2>2 DEF Mine
    <3> QED BY <3>1, <3>2
  <2> QED BY <1>1, <1>5, <2>5, <2>6, <2>7, OrderKept
<1> QED BY <1>1, <1>4, <1>5

\* The welcome counts all that reached the room of the client.
LEMMA OrderJoin ==
  ASSUME Types, NEW c \in Clients, OrderOf(c), Join(c)
  PROVE  OrderOf(c)'
<1> DEFINE h == engine[c]
           cp == copy[c]
           A == Abroad(c)
           B == Abroad(c)'
           n == LastOf(log, c)
           m == Greeting(c)
<1>1. /\ Types' /\ tab[c] = "open" /\ m \in Welcome /\ conn'[c] = "on" /\ up'[c] = <<>> /\ down'[c] = <<m>>
      /\ engine'[c] = h /\ made'[c] = made[c]
      /\ tab'[c] = tab[c] /\ copy'[c] = cp /\ log' = log
  BY JoinDoes DEF Alone
<1>2. /\ EngineOK(h) /\ CopyOK(cp) /\ A \in Away /\ Numbering(h, cp, A) /\ Greeted(c)
      /\ cp.next <= h.next /\ <<0, <<>>>> \in A
  BY <1>1, OrderFields, AbroadHas
<1>3. /\ log \in Seq(Sequenced) /\ Len(log) \in Nat
      /\ n \in Nat /\ \A q \in 1..Len(log) : log[q].client = c => log[q].cseq <= n
      /\ n = 0 \/ \E q \in 1..Len(log) : log[q].client = c /\ log[q].cseq = n
  <2>1. log \in Seq(Sequenced)
    BY TypesAre DEF ServerTypes
  <2> QED BY <2>1, LastOfOK
<1>4. m.type = "welcome" /\ m.cseq = n /\ Entries(m.batches) \subseteq Entries(log)
  <2>1. m.cseq = n
    BY <1>3, LastSeqIs DEF Greeting
  <2> DEFINE known == IF CanCatchUp(h) THEN Len(h.conf) ELSE 0
  <2>2. known + 1 \in Nat \ {0} /\ Len(log) \in 0..Len(log)
    BY <1>3, GreetingOK
  <2>3. m.batches = SubSeq(log, known + 1, Len(log)) /\ m.type = "welcome"
    BY DEF Greeting
  <2> HIDE DEF known, m
  <2>4. Entries(m.batches) = {log[i] : i \in known + 1 .. Len(log)}
    BY <1>3, <2>2, <2>3, EntriesSubSeq
  <2>5. \A i \in known + 1 .. Len(log) : i \in DOMAIN log
    BY <1>3, <2>2
  <2> QED BY <2>1, <2>3, <2>4, <2>5 DEF Entries
<1> HIDE DEF m, n
<1>5. \A x \in B : x \in A \/ x = <<n, <<>>>>
  <2> SUFFICES ASSUME NEW x \in Nat \X Seq(Edits), IsAbroad(c, log', engine'[c].conf, up'[c], down'[c], x)
               PROVE  x \in A \/ x = <<n, <<>>>>
    BY DEF Abroad
  <2>1. Entries(<<>>) = {} /\ Entries(down'[c]) = {m}
    BY <1>1 DEF Entries
  <2>2. Carries(c, m, x) => x = <<n, <<>>>> \/ \E b \in Entries(log) : b.client = c /\ x = Pair(b)
    BY <1>4 DEF Carries, BatchesOf
  <2> QED BY <1>1, <2>1, <2>2, AbroadHas DEF IsAbroad
<1>6. \E y \in A : y[1] = n
  <2>1. CASE n = 0
    <3>1. <<0, <<>>>>[1] = 0
      OBVIOUS
    <3> QED BY <1>2, <2>1, <3>1
  <2>2. CASE \E q \in 1..Len(log) : log[q].client = c /\ log[q].cseq = n
    <3>1. PICK q \in 1..Len(log) : log[q].client = c /\ log[q].cseq = n
      BY <2>2
    <3>2. log[q] \in Entries(log)
      BY <1>3, <3>1 DEF Entries
    <3>3. Pair(log[q]) \in A /\ Pair(log[q])[1] = n
      BY <3>1, <3>2, AbroadHas DEF Pair
    <3> QED BY <3>3
  <2> QED BY <1>3, <2>1, <2>2
<1>7. Numbering(h, cp, B)
  <2>1. \A x \in B : \E y \in A : y[1] = x[1]
    <3>1. <<n, <<>>>>[1] = n
      OBVIOUS
    <3> QED BY <1>5, <1>6, <3>1
  <2> HIDE DEF B, A, h
  <2> QED BY <1>2, <2>1, NumberingShrinks
<1>8. Greeted(c)'
  <2>1. ~h.ready => \A x \in B : x[1] <= n
    <3> SUFFICES ASSUME ~h.ready, NEW x \in Nat \X Seq(Edits),
                        IsAbroad(c, log', engine'[c].conf, up'[c], down'[c], x)
                 PROVE  x[1] <= n
      BY DEF Abroad
    <3>1. h.conf = <<>>
      BY <1>2 DEF Greeted
    <3>2. Entries(<<>>) = {} /\ Entries(down'[c]) = {m}
      BY <1>1 DEF Entries
    <3>3. Carries(c, m, x) => x = <<n, <<>>>> \/ \E b \in Entries(log) : b.client = c /\ x = Pair(b)
      BY <1>4 DEF Carries, BatchesOf
    <3>4. x = <<0, <<>>>> \/ x = <<n, <<>>>> \/ \E b \in Entries(log) : b.client = c /\ x = Pair(b)
      BY <1>1, <3>1, <3>2, <3>3 DEF IsAbroad
    <3>5. \A b \in Entries(log) : b.client = c => b.cseq <= n
      BY <1>3 DEF Entries
    <3>6. <<0, <<>>>>[1] = 0 /\ <<n, <<>>>>[1] = n /\ \A b : Pair(b)[1] = b.cseq
      BY DEF Pair
    <3> QED BY <1>3, <3>4, <3>5, <3>6
  <2>2. Head(down'[c]) = m /\ DOMAIN down'[c] = {1}
    BY <1>1
  <2> QED BY <1>1, <1>2, <1>4, <2>1, <2>2 DEF Greeted, WelcomeWaits
<1>9. \A x \in Mine(h, cp, B) : x \in Mine(h, cp, A) \/ x[2] = <<>>
  <2>1. <<n, <<>>>>[2] = <<>>
    OBVIOUS
  <2> QED BY <1>5, <2>1 DEF Mine
<1> QED BY <1>1, <1>7, <1>8, <1>9, OrderKept

\* A step of the room, seen from any client d.
LEMMA OrderOfRoom ==
  ASSUME Types, Types', NEW d \in Clients, OrderOf(d),
         engine'[d] = engine[d], tab'[d] = tab[d], copy'[d] = copy[d], made'[d] = made[d],
         conn'[d] = conn[d] \/ (conn[d] = "on" /\ conn'[d] = "dead"),
         up[d] = <<>> => up'[d] = <<>>,
         \/ down'[d] = down[d]
         \/ conn[d] = "on" /\ \E m \in Messages : m.type # "welcome" /\ down'[d] = Append(down[d], m),
         \A x \in Abroad(d)' : (x \in Abroad(d) \/ x[2] = <<>>) /\ \E y \in Abroad(d) : y[1] = x[1]
  PROVE  OrderOf(d)'
<1> DEFINE A == Abroad(d)
           B == Abroad(d)'
<1>1. /\ EngineOK(engine[d]) /\ CopyOK(copy[d]) /\ A \in Away /\ Numbering(engine[d], copy[d], A) /\ Greeted(d)
  BY OrderFields
<1>2. Numbering(engine'[d], copy'[d], B)
  <2>1. \A x \in B : \E y \in A : y[1] = x[1]
    OBVIOUS
  <2> HIDE DEF A, B
  <2> QED BY <1>1, <2>1, NumberingShrinks
<1>3. \A x \in Mine(engine'[d], copy'[d], B) : x \in Mine(engine[d], copy[d], A) \/ x[2] = <<>>
  BY DEF Mine
<1>4. /\ WelcomeWaits(d)' => WelcomeWaits(d) /\ Head(down'[d]) = Head(down[d])
      /\ WelcomeWaits(d) => WelcomeWaits(d)'
      /\ \A i \in DOMAIN down'[d] : down'[d][i].type = "welcome" => i = 1
  <2>1. CASE down'[d] = down[d]
    BY <1>1, <2>1 DEF WelcomeWaits, Greeted
  <2>2. ASSUME NEW m \in Messages, m.type # "welcome", down'[d] = Append(down[d], m)
        PROVE  /\ WelcomeWaits(d)' => WelcomeWaits(d) /\ Head(down'[d]) = Head(down[d])
               /\ WelcomeWaits(d) => WelcomeWaits(d)'
               /\ \A i \in DOMAIN down'[d] : down'[d][i].type = "welcome" => i = 1
    <3>1. down[d] \in Seq(Messages)
      BY TypesAre DEF TypesOf
    <3>2. /\ Append(down[d], m) \in Seq(Messages) /\ Len(Append(down[d], m)) = Len(down[d]) + 1
          /\ Len(down[d]) \in Nat
          /\ \A i \in 1..Len(down[d]) : Append(down[d], m)[i] = down[d][i]
          /\ Append(down[d], m)[Len(down[d]) + 1] = m
      BY <3>1, AppendProperties, LenProperties
    <3>3. \A i \in DOMAIN down'[d] : down'[d][i].type = "welcome" => i = 1
      BY <1>1, <2>2, <3>1, <3>2 DEF Greeted
    <3>4. down'[d] # <<>> /\ Head(down'[d]) = down'[d][1]
      <4> DEFINE s == Append(down[d], m)
      <4>1. s \in Seq(Messages) /\ Len(s) # 0
        BY <3>2
      <4> HIDE DEF s
      <4>2. s # <<>> /\ Head(s) = s[1]
        BY <4>1
      <4> QED BY <2>2, <4>2 DEF s
    <3>5. CASE down[d] = <<>>
      BY <2>2, <3>2, <3>3, <3>4, <3>5 DEF WelcomeWaits
    <3>6. CASE down[d] # <<>>
      <4>1. Head(down[d]) = down[d][1] /\ 1 \in 1..Len(down[d])
        BY <3>1, <3>6
      <4>2. Head(down'[d]) = Head(down[d])
        BY <2>2, <3>2, <3>4, <4>1
      <4> QED BY <3>3, <3>4, <3>6, <4>2 DEF WelcomeWaits
    <3> QED BY <3>5, <3>6
  <2> QED BY <2>1, <2>2
<1>5. Greeted(d)'
  <2>1. ASSUME WelcomeWaits(d)', ~engine'[d].ready, NEW x \in B PROVE x[1] <= Head(down'[d]).cseq
    <3>1. PICK y \in A : y[1] = x[1]
      BY <2>1
    <3>2. y[1] <= Head(down[d]).cseq
      BY <1>1, <1>4, <2>1, <3>1 DEF Greeted
    <3> QED BY <1>4, <2>1, <3>1, <3>2
  <2>2. WelcomeWaits(d)' => up'[d] = <<>>
    BY <1>1, <1>4 DEF Greeted
  <2>3. ~engine'[d].ready /\ conn'[d] # "off" => WelcomeWaits(d)'
    BY <1>1, <1>4 DEF Greeted
  <2>4. /\ ~engine'[d].ready => engine'[d].conf = <<>> /\ engine'[d].sentUpTo = 0
        /\ tab'[d] = "open" => copy'[d].next <= engine'[d].next
        /\ tab'[d] = "closed" => conn'[d] = "off"
    BY <1>1 DEF Greeted
  <2> QED BY <1>4, <2>1, <2>2, <2>3, <2>4 DEF Greeted
<1> QED BY <1>2, <1>3, <1>5, OrderKept

\* A message of the room to d, added to its connection.
LEMMA AbroadTold ==
  ASSUME Types, NEW d \in Clients, engine'[d] = engine[d],
         up'[d] = up[d] \/ up'[d] = <<>> \/ (up[d] # <<>> /\ up'[d] = Tail(up[d])),
         NEW m \in Messages, down'[d] = down[d] \/ down'[d] = Append(down[d], m),
         \A b \in Entries(log') : b.client = d => \E x \in Abroad(d) : x = Pair(b),
         \A x : Carries(d, m, x) => (x \in Abroad(d) \/ x[2] = <<>>) /\ \E y \in Abroad(d) : y[1] = x[1]
  PROVE  \A x \in Abroad(d)' : (x \in Abroad(d) \/ x[2] = <<>>) /\ \E y \in Abroad(d) : y[1] = x[1]
<1> SUFFICES ASSUME NEW x \in Nat \X Seq(Edits), IsAbroad(d, log', engine'[d].conf, up'[d], down'[d], x)
             PROVE  (x \in Abroad(d) \/ x[2] = <<>>) /\ \E y \in Abroad(d) : y[1] = x[1]
  BY DEF Abroad
<1>1. Entries(up'[d]) \subseteq Entries(up[d])
  <2>1. up[d] \in Seq(Unsynced)
    BY TypesAre DEF TypesOf
  <2>2. Entries(<<>>) = {}
    BY DEF Entries
  <2> QED BY <2>1, <2>2, EntriesTail
<1>2. Entries(down'[d]) \subseteq Entries(down[d]) \cup {m}
  <2>1. down[d] \in Seq(Messages)
    BY TypesAre DEF TypesOf
  <2>2. Entries(Append(down[d], m)) = Entries(down[d]) \cup {m}
    BY <2>1, EntriesAppend
  <2> QED BY <2>2
<1>3. CASE x = <<0, <<>>>> \/ \E b \in Entries(engine'[d].conf) : b.client = d /\ x = Pair(b)
  BY <1>3, AbroadHas
<1>4. CASE \E b \in Entries(log') : b.client = d /\ x = Pair(b)
  BY <1>4
<1>5. CASE \E b \in Entries(up'[d]) : x = Pair(b)
  BY <1>1, <1>5, AbroadHas
<1>6. CASE \E n \in Entries(down'[d]) : Carries(d, n, x)
  BY <1>2, <1>6, AbroadHas
<1> QED BY <1>3, <1>4, <1>5, <1>6 DEF IsAbroad

LEMMA OrderHandleBatch ==
  ASSUME Types, NEW c \in Clients, HandleBatch(c), NEW d \in Clients, OrderOf(d)
  PROVE  OrderOf(d)'
<1> DEFINE x == Head(up[c])
           a == Accepted(c, log, x)
           m == IF TakenAsApplied(c, x) THEN [type |-> "batch", batch |-> a]
                ELSE IF TakenAsDuplicate(c, x) THEN [type |-> "duplicate", cseq |-> x.cseq]
                ELSE [type |-> "reject", cseq |-> x.cseq]
<1>1. /\ Types' /\ up[c] # <<>> /\ x \in Unsynced
      /\ up'[d] = IF d = c THEN Tail(up[d]) ELSE up[d]
      /\ TakenAsDuplicate(c, x) \/ TakenAsRejected(c, x) \/ TakenAsApplied(c, x)
      /\ UNCHANGED <<conn, engine, tab, copy, made>>
  BY HandleBatchDoes
<1>2. log \in Seq(Sequenced) /\ up[c] \in Seq(Unsynced)
  BY TypesAre DEF ServerTypes, TypesOf
<1>3. Pair(x) \in Abroad(c) /\ x.cseq \in Nat /\ Pair(x)[1] = x.cseq
  <2>1. x \in Entries(up[c])
    BY <1>1, <1>2, EntriesTail
  <2> QED BY <1>1, <2>1, AbroadHas DEF Pair, Unsynced
<1>4. a \in Sequenced /\ a.client = c /\ Pair(a) = Pair(x)
  BY <1>1, <1>2, AcceptedOK DEF Pair, Accepted
<1> HIDE DEF x, a
<1>5. m \in Messages /\ m.type # "welcome" /\ m.type # "durable"
  <2>1. /\ [type |-> "batch", batch |-> a] \in Messages /\ [type |-> "duplicate", cseq |-> x.cseq] \in Messages
        /\ [type |-> "reject", cseq |-> x.cseq] \in Messages
    BY <1>3, <1>4, MessagesMade
  <2> QED BY <2>1
<1>6. /\ down'[d] = down[d] \/ (down'[d] = Append(down[d], m) /\ conn[d] = "on" /\ (d # c => m.type = "batch"))
      /\ m = [type |-> "batch", batch |-> a]
            \/ (m.type # "batch" /\ m.type # "welcome" /\ m.cseq = x.cseq)
      /\ log' = log \/ log' = Append(log, a)
  BY <1>1 DEF TakenAsApplied, TakenAsDuplicate, TakenAsRejected, a, server
<1> HIDE DEF m
<1>7. \A b \in Entries(log') : b.client = d => \E y \in Abroad(d) : y = Pair(b)
  <2>1. Entries(log') \subseteq Entries(log) \cup {a}
    <3>1. Entries(Append(log, a)) = Entries(log) \cup {a}
      BY <1>2, <1>4, EntriesAppend
    <3> QED BY <1>6, <3>1
  <2> QED BY <1>3, <1>4, <2>1, AbroadHas
<1>8. \A y \in Abroad(d)' : (y \in Abroad(d) \/ y[2] = <<>>) /\ \E z \in Abroad(d) : z[1] = y[1]
  <2>1. (up'[d] = up[d] \/ (up[d] # <<>> /\ up'[d] = Tail(up[d]))) /\ engine'[d] = engine[d]
    BY <1>1
  <2>2. CASE down'[d] = down[d]
    <3> DEFINE n == [type |-> "durable", seq |-> 0]
    <3>1. n \in Messages
      BY MessagesMade
    <3>2. \A y : ~Carries(d, n, y)
      BY DEF Carries, Names, BatchesOf
    <3> HIDE DEF n
    <3> QED BY <1>1, <1>7, <2>1, <2>2, <3>1, <3>2, AbroadTold
  <2>3. CASE down'[d] = Append(down[d], m) /\ (d # c => m.type = "batch")
    <3>1. ASSUME NEW y, Carries(d, m, y)
          PROVE  (y \in Abroad(d) \/ y[2] = <<>>) /\ \E z \in Abroad(d) : z[1] = y[1]
      <4>1. CASE m = [type |-> "batch", batch |-> a]
        <5>1. y = Pair(a) /\ d = c
          BY <1>4, <3>1, <4>1 DEF Carries, Names, BatchesOf
        <5> QED BY <1>3, <1>4, <5>1
      <4>2. CASE m.type # "batch" /\ m.type # "welcome" /\ m.cseq = x.cseq
        <5>1. y = <<x.cseq, <<>>>> /\ d = c
          BY <2>3, <3>1, <4>2 DEF Carries, Names, BatchesOf
        <5> QED BY <1>3, <5>1
      <4> QED BY <1>6, <4>1, <4>2
    <3> QED BY <1>1, <1>5, <1>7, <2>1, <2>3, <3>1, AbroadTold
  <2> QED BY <1>6, <2>2, <2>3
<1>9. up[d] = <<>> => up'[d] = <<>>
  BY <1>1
<1> QED BY <1>1, <1>5, <1>6, <1>8, <1>9, OrderOfRoom

LEMMA OrderMarkDurable ==
  ASSUME Types, MarkDurable, NEW d \in Clients, OrderOf(d)
  PROVE  OrderOf(d)'
<1> DEFINE m == [type |-> "durable", seq |-> durable']
<1>1. /\ Types' /\ log' = log /\ durable' \in Nat
      /\ down'[d] = down[d] \/ (down'[d] = Append(down[d], m) /\ conn[d] = "on")
      /\ UNCHANGED <<conn, up, engine, tab, copy, made>>
  <2>1. /\ Types' /\ log' = log /\ durable' \in durable + 1 .. Len(log)
        /\ down'[d] = IF conn[d] = "on" THEN Append(down[d], m) ELSE down[d]
        /\ UNCHANGED <<conn, up, engine, tab, copy, made>>
    BY MarkDurableDoes
  <2>2. durable' \in Nat
    BY <2>1, TypesAre DEF ServerTypes
  <2> QED BY <2>1, <2>2
<1>2. m \in Messages /\ m.type # "welcome"
  BY <1>1, MessagesMade
<1>3. \A y : ~Carries(d, m, y)
  BY DEF Carries, Names, BatchesOf
<1> HIDE DEF m
<1>4. \A y \in Abroad(d)' : (y \in Abroad(d) \/ y[2] = <<>>) /\ \E z \in Abroad(d) : z[1] = y[1]
  <2>1. \A b \in Entries(log') : b.client = d => \E x \in Abroad(d) : x = Pair(b)
    BY <1>1, AbroadHas
  <2> QED BY <1>1, <1>2, <1>3, <2>1, AbroadTold
<1> QED BY <1>1, <1>2, <1>4, OrderOfRoom

LEMMA OrderRestart ==
  ASSUME Types, Restart, NEW d \in Clients, OrderOf(d)
  PROVE  OrderOf(d)'
<1>1. /\ Types' /\ Len(log') <= Len(log) /\ \A q \in 1..Len(log') : log'[q] = log[q]
      /\ conn'[d] = conn[d] \/ (conn[d] = "on" /\ conn'[d] = "dead")
      /\ up'[d] = <<>>
      /\ UNCHANGED <<down, engine, tab, copy, made>>
  BY RestartDoes
<1>2. Entries(log') \subseteq Entries(log)
  <2>1. log \in Seq(Sequenced) /\ log' \in Seq(Sequenced)
    BY <1>1, TypesAre DEF ServerTypes, Types, TypeOK
  <2> QED BY <1>1, <2>1 DEF Entries
<1>3. Abroad(d)' \subseteq Abroad(d)
  BY <1>1, <1>2, AbroadHas, AbroadMoves
<1> QED BY <1>1, <1>3, OrderOfRoom

\* Another client's step does not touch what belongs to d.
LEMMA OrderStill ==
  ASSUME NEW d \in Clients, OrderOf(d), Still(d), log' = log
  PROVE  OrderOf(d)'
BY DEF OrderOf, Still, Greeted, WelcomeWaits, Abroad

LEMMA OrderClient ==
  ASSUME Types, NEW c \in Clients, OrderOf(c), Client(c) \/ Join(c), "stale" \notin Situations
  PROVE  OrderOf(c)'
BY OrderEdit, OrderEditLocally, OrderFlush, OrderFlushOffline, OrderReceiveWelcome, OrderReceive,
   OrderDisconnect, OrderPersist, OrderCloseTab, OrderKillTab, OrderReopen, OrderJoin DEF Client

LEMMA ClientAlone ==
  ASSUME Types, NEW c \in Clients, Client(c) \/ Join(c)
  PROVE  Alone(c)
BY EditDoes, EditLocallyDoes, FlushDoes, FlushOfflineDoes, ReceiveWelcomeDoes, ReceiveDoes,
   DisconnectDoes, PersistDoes, CloseTabDoes, KillTabDoes, ReopenDoes, JoinDoes DEF Client

LEMMA LogOrderedStep ==
  ASSUME Types, LogOrdered, Next
  PROVE  LogOrdered'
<1>1. log \in Seq(Sequenced) /\ Len(log) \in Nat /\ DOMAIN log = 1..Len(log)
  BY TypesAre DEF ServerTypes
<1>2. ASSUME NEW c \in Clients, Client(c) \/ Join(c) PROVE LogOrdered'
  BY <1>2, ClientAlone DEF Alone, LogOrdered
<1>3. ASSUME NEW c \in Clients, HandleBatch(c) PROVE LogOrdered'
  <2> DEFINE x == Head(up[c])
             a == Accepted(c, log, x)
  <2>1. /\ x \in Unsynced
        /\ TakenAsDuplicate(c, x) \/ TakenAsRejected(c, x) \/ TakenAsApplied(c, x)
    BY <1>3, HandleBatchDoes
  <2>2. CASE log' = log
    BY <2>2 DEF LogOrdered
  <2>3. CASE TakenAsApplied(c, x)
    <3>1. /\ x.cseq > LastOf(log, c) /\ log' = Append(log, a) /\ x.cseq \in Nat
      BY <1>1, <2>1, <2>3, LastSeqIs DEF TakenAsApplied, Unsynced
    <3>2. /\ Len(log') = Len(log) + 1 /\ log' \in Seq(Sequenced)
          /\ \A q \in 1..Len(log) : log'[q] = log[q]
          /\ log'[Len(log) + 1] = a
      BY <1>1, <2>1, <3>1, AcceptedOK
    <3>3. a.client = c /\ a.cseq = x.cseq
      BY DEF Accepted
    <3> HIDE DEF x, a
    <3>4. \A q \in 1..Len(log) : log[q].client = c => log[q].cseq <= LastOf(log, c) /\ log[q].cseq \in Nat
      <4>1. \A q \in 1..Len(log) : log[q] \in Sequenced
        BY <1>1
      <4> QED BY <1>1, <4>1, LastOfOK DEF Sequenced
    <3>5. LastOf(log, c) \in Nat
      BY <1>1, LastOfOK
    <3>6. ASSUME NEW q \in DOMAIN log', NEW r \in DOMAIN log', q < r, log'[q].client = log'[r].client
          PROVE  log'[q].cseq < log'[r].cseq
      <4>1. q \in 1..Len(log) /\ r \in 1..Len(log) + 1
        BY <1>1, <3>2, <3>6
      <4>2. CASE r = Len(log) + 1
        BY <3>1, <3>2, <3>3, <3>4, <3>5, <3>6, <4>1, <4>2
      <4>3. CASE r \in 1..Len(log)
        BY <1>1, <3>2, <3>6, <4>1, <4>3 DEF LogOrdered
      <4> QED BY <1>1, <4>1, <4>2, <4>3
    <3> QED BY <3>6 DEF LogOrdered
  <2> QED BY <2>1, <2>2, <2>3 DEF TakenAsDuplicate, TakenAsRejected, server
<1>4. CASE MarkDurable
  BY <1>4, MarkDurableDoes DEF LogOrdered
<1>5. CASE Restart
  <2>1. Types' /\ Len(log') <= Len(log) /\ \A q \in 1..Len(log') : log'[q] = log[q]
    BY <1>5, RestartDoes
  <2>2. log' \in Seq(Sequenced) /\ Len(log') \in Nat /\ DOMAIN log' = 1..Len(log')
    BY <2>1 DEF Types, TypeOK
  <2>3. \A q \in DOMAIN log' : q \in DOMAIN log
    BY <1>1, <2>1, <2>2
  <2> QED BY <2>1, <2>2, <2>3 DEF LogOrdered
<1> QED BY <1>2, <1>3, <1>4, <1>5 DEF Next

LEMMA OrderStep ==
  ASSUME Types, OrderInv, [Next]_vars, "stale" \notin Situations
  PROVE  OrderInv'
<1>1. CASE UNCHANGED vars
  <2>1. \A d \in Clients : Still(d) /\ log' = log
    BY <1>1 DEF vars, server, wires, device, Still
  <2>2. \A d \in Clients : OrderOf(d)'
    BY <2>1, OrderStill DEF OrderInv
  <2> QED BY <1>1, <2>2 DEF OrderInv, LogOrdered, vars, server
<1>2. CASE Next
  <2>1. LogOrdered'
    BY <1>2, LogOrderedStep DEF OrderInv
  <2>2. ASSUME NEW c \in Clients, Client(c) \/ Join(c), NEW d \in Clients PROVE OrderOf(d)'
    <3>1. CASE d = c
      BY <2>2, <3>1, OrderClient DEF OrderInv
    <3>2. CASE d # c
      <4>1. Still(d) /\ log' = log
        BY <2>2, <3>2, ClientAlone DEF Alone
      <4> QED BY <4>1, OrderStill DEF OrderInv
    <3> QED BY <3>1, <3>2
  <2>3. ASSUME NEW c \in Clients, HandleBatch(c), NEW d \in Clients PROVE OrderOf(d)'
    BY <2>3, OrderHandleBatch DEF OrderInv
  <2>4. ASSUME MarkDurable \/ Restart, NEW d \in Clients PROVE OrderOf(d)'
    BY <2>4, OrderMarkDurable, OrderRestart DEF OrderInv
  <2>5. \A d \in Clients : OrderOf(d)'
    BY <1>2, <2>2, <2>3, <2>4 DEF Next
  <2> QED BY <2>1, <2>5 DEF OrderInv
<1> QED BY <1>1, <1>2

LEMMA InitOrder == Init => OrderInv
<1> SUFFICES ASSUME Init PROVE OrderInv
  OBVIOUS
<1>1. /\ log = <<>> /\ conn = [c \in Clients |-> "off"] /\ up = [c \in Clients |-> <<>>]
      /\ down = [c \in Clients |-> <<>>] /\ engine = [c \in Clients |-> FreshEngine]
      /\ tab = [c \in Clients |-> "open"] /\ copy = [c \in Clients |-> NoCopy]
      /\ made = [c \in Clients |-> 0]
  BY DEF Init
<1>2. LogOrdered
  BY <1>1 DEF LogOrdered
<1>3. ASSUME NEW c \in Clients PROVE OrderOf(c)
  <2>1. /\ conn[c] = "off" /\ up[c] = <<>> /\ down[c] = <<>> /\ engine[c] = FreshEngine
        /\ tab[c] = "open" /\ copy[c] = NoCopy /\ made[c] = 0
    BY <1>1
  <2>2. Numbering(FreshEngine, NoCopy, Abroad(c))
    BY FreshOK DEF Numbering
  <2>3. Greeted(c)
    BY <2>1, FreshOK DEF Greeted, WelcomeWaits
  <2>4. \A x \in Abroad(c) : x[2] = <<>>
    <3>1. Entries(<<>>) = {}
      BY DEF Entries
    <3>2. \A x : IsAbroad(c, log, engine[c].conf, up[c], down[c], x) => x = <<0, <<>>>>
      BY <1>1, <2>1, <3>1, FreshOK DEF IsAbroad
    <3> QED BY <3>2 DEF Abroad
  <2>5. \A x \in Mine(FreshEngine, NoCopy, Abroad(c)) : x[2] = <<>>
    BY <2>4, FreshOK DEF Mine
  <2>6. Ordered(c, 0, Mine(FreshEngine, NoCopy, Abroad(c)))
    BY <2>5 DEF Ordered, Ascends, Before
  <2> QED BY <2>1, <2>2, <2>3, <2>6 DEF OrderOf
<1> QED BY <1>2, <1>3 DEF OrderInv

LEMMA OrderGives ==
  ASSUME Types, OrderInv
  PROVE  AppliedOnceInOrder
<1>1. log \in Seq(Sequenced) /\ Len(log) \in Nat /\ DOMAIN log = 1..Len(log)
  BY TypesAre DEF ServerTypes
<1>2. ASSUME NEW q \in DOMAIN log
      PROVE  LET c == log[q].client IN
             /\ c \in Clients /\ log[q].ops \in Seq(Edits) /\ log[q].cseq \in Nat
             /\ Ordered(c, made[c], Mine(engine[c], copy[c], Abroad(c)))
             /\ Pair(log[q]) \in Mine(engine[c], copy[c], Abroad(c))
  <2> DEFINE c == log[q].client
  <2>1. log[q] \in Sequenced /\ log[q] \in Entries(log)
    BY <1>1 DEF Entries
  <2>2. c \in Clients /\ log[q].ops \in Seq(Edits) /\ log[q].cseq \in Nat
    BY <2>1 DEF Sequenced
  <2>3. Pair(log[q]) \in Abroad(c)
    BY <2>1, <2>2, AbroadHas
  <2> QED BY <2>2, <2>3 DEF OrderInv, OrderOf, Mine
<1>3. ASSUME NEW q \in DOMAIN log, NEW i \in DOMAIN log[q].ops
      PROVE  log[q].ops[i][1] = log[q].client
  <2>1. Pair(log[q])[2] = log[q].ops
    BY DEF Pair
  <2> QED BY <1>2, <2>1 DEF Ordered
<1>4. ASSUME NEW q \in DOMAIN log, NEW r \in DOMAIN log, NEW i \in DOMAIN log[q].ops, NEW j \in DOMAIN log[r].ops,
             q < r \/ (q = r /\ i < j), log[q].ops[i][1] = log[r].ops[j][1]
      PROVE  log[q].ops[i][2] < log[r].ops[j][2]
  <2> DEFINE c == log[q].client
             M == Mine(engine[c], copy[c], Abroad(c))
  <2>1. log[r].client = c
    BY <1>3, <1>4
  <2>2. /\ Ordered(c, made[c], M) /\ Pair(log[q]) \in M /\ Pair(log[r]) \in M
    BY <1>2, <2>1
  <2> HIDE DEF M
  <2>3. /\ Pair(log[q])[1] = log[q].cseq /\ Pair(log[q])[2] = log[q].ops
        /\ Pair(log[r])[1] = log[r].cseq /\ Pair(log[r])[2] = log[r].ops
    BY DEF Pair
  <2>4. CASE q = r /\ i < j
    BY <2>2, <2>3, <2>4 DEF Ordered, Ascends
  <2>5. CASE q < r
    <3>1. log[q].cseq < log[r].cseq
      BY <2>1, <2>5 DEF OrderInv, LogOrdered
    <3>2. Before(log[q].ops, log[r].ops)
      BY <2>2, <2>3, <3>1 DEF Ordered
    <3> QED BY <3>2 DEF Before
  <2> QED BY <1>4, <2>4, <2>5
<1> QED BY <1>4 DEF AppliedOnceInOrder

\* No edit is in the log of the room twice, and the edits of a client are there
\* in the order it made them, whatever is sent again after a lost connection,
\* a restart of the server or the adoption of a copy: the numbers syncEngine.ts
\* gives are what lastSeqOf and handleBatch of room.ts tell repetitions by. A
\* copy older than what its client sent ("stale") is excluded.
THEOREM OnceInOrder ==
  ASSUME "stale" \notin Situations
  PROVE  Spec => []AppliedOnceInOrder
<1>1. Init => Types /\ OrderInv
  BY InitTypes, InitOrder
<1>2. (Types /\ OrderInv) /\ [Next]_vars => (Types /\ OrderInv)'
  BY TypesStep, OrderStep
<1>3. Types /\ OrderInv => AppliedOnceInOrder
  BY OrderGives
<1> QED BY <1>1, <1>2, <1>3, PTL DEF Spec

----------------------------------------------------------------------------
(* One number, one batch: the batches of an engine that share a number hold *)
(* the same edits, and one that may still grow shares its number with none. *)

Unique(h, cp) ==
  /\ \A a, b \in h.pending \cup h.undurable : a.cseq = b.cseq => a.ops = b.ops /\ (Untouched(a) => a = b)
  /\ \A x, y \in cp.batches : x.cseq = y.cseq => x = y

UniqueInv == \A c \in Clients : Unique(engine[c], copy[c])

LEMMA UniqueSealed ==
  ASSUME NEW h, EngineOK(h), NEW cp, NEW A, Numbering(h, cp, A), Unique(h, cp)
  PROVE  Unique(Sealed(h), cp)
<1>1. CASE h.queued = <<>>
  BY <1>1, SealedOK
<1>2. CASE h.queued # <<>>
  <2>1. /\ Sealed(h).undurable = h.undurable
        /\ Sealed(h).pending = h.pending \cup {NewBatch(h.next, h.queued)}
    BY <1>2, SealedOK
  <2>2. NewBatch(h.next, h.queued).cseq = h.next
    BY DEF NewBatch
  <2>3. \A b \in h.pending \cup h.undurable : b.cseq # h.next
    <3>1. h.next \in Nat /\ \A b \in h.pending \cup h.undurable : b.cseq \in Nat
      BY EngineFields
    <3> QED BY <3>1 DEF Numbering
  <2> QED BY <2>1, <2>2, <2>3 DEF Unique
<1> QED BY <1>1, <1>2

LEMMA UniqueSent ==
  ASSUME NEW h, EngineOK(h), NEW cp, NEW A, Numbering(h, cp, A), Unique(h, cp)
  PROVE  Unique(Sent(h), cp)
<1> DEFINE s == Sent(h)
           O == Outgoing(h)
<1>1. /\ s.pending = (h.pending \ O) \cup {Transmit(b) : b \in O} /\ s.undurable = h.undurable
  BY SentOK
<1>2. O \subseteq h.pending /\ \A b \in O : b \in Local
  BY OutgoingOK
<1>3. \A a \in s.pending \cup s.undurable :
        \/ a \in h.pending \cup h.undurable /\ a \notin O
        \/ a \in h.undurable
        \/ \E b \in O : a = Transmit(b) /\ a.cseq = b.cseq /\ a.ops = b.ops /\ a.transmitted
  BY <1>1, <1>2 DEF Transmit, Local
<1> HIDE DEF s, O
<1>4. ASSUME NEW a \in s.pending \cup s.undurable, NEW b \in s.pending \cup s.undurable, a.cseq = b.cseq
      PROVE  a.ops = b.ops /\ (Untouched(a) => a = b)
  <2>1. PICK x \in h.pending \cup h.undurable :
          x.cseq = a.cseq /\ x.ops = a.ops /\ (x = a \/ (x \in O /\ a = Transmit(x) /\ a.transmitted))
    BY <1>2, <1>3
  <2>2. PICK y \in h.pending \cup h.undurable :
          y.cseq = b.cseq /\ y.ops = b.ops /\ (y = b \/ (y \in O /\ b = Transmit(y) /\ b.transmitted))
    BY <1>2, <1>3
  <2>3. x.ops = y.ops /\ (Untouched(x) => x = y) /\ (Untouched(y) => y = x)
    BY <1>4, <2>1, <2>2 DEF Unique
  <2>4. ASSUME Untouched(a) PROVE a = b
    <3>1. x = a /\ x = y
      BY <2>1, <2>3, <2>4 DEF Untouched
    <3>2. CASE y = b
      BY <3>1, <3>2
    <3>3. CASE y \in O
      <4>1. a \in O
        BY <3>1, <3>3
      <4>2. a \in h.undurable \/ a.transmitted
        BY <1>3, <4>1
      <4>3. ~Untouched(a)
        BY <4>2 DEF Numbering, Untouched
      <4> QED BY <2>4, <4>3
    <3> QED BY <2>2, <3>2, <3>3
  <2> QED BY <2>1, <2>2, <2>3, <2>4
<1>5. Unique(s, cp)
  BY <1>4 DEF Unique
<1> QED BY <1>5 DEF s

LEMMA UniqueSettles ==
  ASSUME NEW h, NEW g, NEW cp, NEW A, Unique(h, cp), Settles(h, g, A), Numbering(g, cp, A)
  PROVE  Unique(g, cp)
<1>1. ASSUME NEW a \in g.pending \cup g.undurable
      PROVE  \E x \in h.pending \cup h.undurable :
               /\ x.cseq = a.cseq /\ x.ops = a.ops /\ (Untouched(a) <=> Untouched(x))
               /\ (Untouched(a) => x = a)
  <2>1. CASE a \in g.pending
    BY <2>1 DEF Settles
  <2>2. CASE a \in g.undurable
    <3>1. ~Untouched(a)
      BY <2>2 DEF Numbering, Untouched
    <3> QED BY <2>2, <3>1 DEF Settles, Untouched
  <2> QED BY <2>1, <2>2
<1>2. ASSUME NEW a \in g.pending \cup g.undurable, NEW b \in g.pending \cup g.undurable, a.cseq = b.cseq
      PROVE  a.ops = b.ops /\ (Untouched(a) => a = b)
  <2>1. PICK x \in h.pending \cup h.undurable :
          /\ x.cseq = a.cseq /\ x.ops = a.ops /\ (Untouched(a) <=> Untouched(x)) /\ (Untouched(a) => x = a)
    BY <1>1
  <2>2. PICK y \in h.pending \cup h.undurable :
          /\ y.cseq = b.cseq /\ y.ops = b.ops /\ (Untouched(b) <=> Untouched(y)) /\ (Untouched(b) => y = b)
    BY <1>1
  <2>3. x.ops = y.ops /\ (Untouched(x) => x = y)
    BY <1>2, <2>1, <2>2 DEF Unique
  <2> QED BY <2>1, <2>2, <2>3
<1> QED BY <1>2 DEF Unique

LEMMA UniqueCoalesced ==
  ASSUME NEW h, EngineOK(h), NEW last \in h.pending, Untouched(last), NEW cp, NEW A, Numbering(h, cp, A),
         Unique(h, cp)
  PROVE  Unique(Coalesced(h, last), cp)
<1> DEFINE g == [last EXCEPT !.ops = last.ops \o h.queued]
           k == Coalesced(h, last)
<1>1. /\ g.cseq = last.cseq /\ k.pending = (h.pending \ {last}) \cup {g} /\ k.undurable = h.undurable
  BY CoalescedOK
<1> HIDE DEF g, k
<1>2. \A b \in h.pending \cup h.undurable : b.cseq = last.cseq => b = last
  BY DEF Unique
<1>3. \A b \in k.pending \cup k.undurable : b = g \/ (b \in h.pending \cup h.undurable /\ b.cseq # g.cseq)
  <2>1. last \notin h.undurable
    BY DEF Numbering, Untouched
  <2> QED BY <1>1, <1>2, <2>1
<1>4. Unique(k, cp)
  BY <1>3 DEF Unique
<1> QED BY <1>4 DEF k

LEMMA UniqueCopied ==
  ASSUME NEW h, EngineOK(h), NEW cp, Unique(h, cp)
  PROVE  Unique(h, CopyOf(h))
<1>1. CopyOf(h).batches = {Bare(b) : b \in h.undurable \cup NotLocal(h.pending)}
  BY CopyOfOK
<1>2. \A x \in CopyOf(h).batches : \E b \in h.pending \cup h.undurable : x = Bare(b)
  BY <1>1 DEF NotLocal
<1>3. \A a, b : a.cseq = b.cseq /\ a.ops = b.ops => Bare(a) = Bare(b)
  BY DEF Bare
<1>4. \A a : Bare(a).cseq = a.cseq
  BY DEF Bare
<1>5. ASSUME NEW x \in CopyOf(h).batches, NEW y \in CopyOf(h).batches, x.cseq = y.cseq PROVE x = y
  <2>1. PICK a \in h.pending \cup h.undurable : x = Bare(a)
    BY <1>2
  <2>2. PICK b \in h.pending \cup h.undurable : y = Bare(b)
    BY <1>2
  <2>3. a.ops = b.ops /\ a.cseq = b.cseq
    BY <1>4, <1>5, <2>1, <2>2 DEF Unique
  <2> QED BY <1>3, <2>1, <2>2, <2>3
<1> QED BY <1>5 DEF Unique

LEMMA UniqueEmpty ==
  ASSUME NEW h, NEW cp, CopyOK(cp), Unique(h, cp)
  PROVE  Unique(FreshEngine, cp) /\ Unique(Restored(cp), cp)
<1>1. Unique(FreshEngine, cp)
  BY FreshOK DEF Unique
<1>2. /\ Restored(cp).undurable = {}
      /\ \A p \in Restored(cp).pending :
           p.transmitted /\ \E x \in cp.batches : x.cseq = p.cseq /\ x.ops = p.ops
  BY RestoredOK
<1>3. Unique(Restored(cp), cp)
  BY <1>2 DEF Unique, Untouched
<1> QED BY <1>1, <1>3

LEMMA UniqueClient ==
  ASSUME Types, NEW c \in Clients, OrderOf(c), Unique(engine[c], copy[c]), Client(c) \/ Join(c)
  PROVE  Unique(engine'[c], copy'[c])
<1> DEFINE h == engine[c]
           cp == copy[c]
           A == Abroad(c)
<1>1. EngineOK(h) /\ CopyOK(cp) /\ Numbering(h, cp, A) /\ Unique(h, cp) /\ A \in Away
      /\ (tab[c] = "open" => cp.next <= h.next)
  BY OrderFields
<1>2. EngineOK(Sealed(h)) /\ Unique(Sealed(h), cp) /\ (tab[c] = "open" => Numbering(Sealed(h), cp, A))
  BY <1>1, SealedOK, UniqueSealed, NumberingSealed
<1>3. CASE Edit(c)
  BY <1>1, <1>3, EditDoes DEF Unique
<1>4. CASE EditLocally(c)
  <2> DEFINE s == Sealed(h)
             b == LocalEdit(s, <<c, made[c] + 1>>)
  <2>1. /\ engine'[c].pending = s.pending \cup {b} /\ engine'[c].undurable = s.undurable
        /\ b.cseq = s.next /\ b.localOnly /\ copy'[c] = cp /\ tab[c] = "open"
    BY <1>4, EditLocallyDoes
  <2> HIDE DEF b
  <2>2. \A p \in s.pending \cup s.undurable : p.cseq # s.next
    <3>1. s.next \in Nat /\ \A p \in s.pending \cup s.undurable : p.cseq \in Nat
      BY <1>2, EngineFields
    <3> QED BY <1>2, <2>1, <3>1 DEF Numbering
  <2> QED BY <1>2, <2>1, <2>2 DEF Unique
<1>5. CASE Flush(c)
  <2>1. tab[c] = "open" /\ engine'[c] = Sent(Sealed(h)) /\ copy'[c] = cp
    BY <1>5, FlushDoes
  <2> QED BY <1>2, <2>1, UniqueSent
<1>6. CASE FlushOffline(c)
  <2>1. /\ engine'[c] = Sealed(h) \/ \E last \in h.pending : MayGrow(h, last) /\ engine'[c] = Coalesced(h, last)
        /\ copy'[c] = cp
    BY <1>6, FlushOfflineDoes
  <2>2. ASSUME NEW last \in h.pending, MayGrow(h, last) PROVE Unique(Coalesced(h, last), cp)
    BY <1>1, <2>2, UniqueCoalesced DEF MayGrow, Untouched
  <2> QED BY <1>2, <2>1, <2>2
<1>7. CASE ReceiveWelcome(c)
  <2> DEFINE w == Welcomed(h, c, Head(down[c]))
  <2>1. engine'[c] = Sent(w) /\ copy'[c] = cp
    BY <1>7, ReceiveWelcomeDoes
  <2>2. EngineOK(w) /\ Numbering(w, cp, A) /\ Settles(Sealed(h), w, A)
    BY <1>7, WelcomeTaken
  <2> HIDE DEF w, A, cp, h
  <2>3. Unique(w, cp)
    BY <1>2, <2>2, UniqueSettles
  <2> QED BY <2>1, <2>2, <2>3, UniqueSent
<1>8. CASE Receive(c)
  <2> DEFINE g == Received(h, c, Head(down[c]))
  <2>1. (engine'[c] = Reset(h) \/ engine'[c] = g) /\ copy'[c] = cp
    BY <1>8, ReceiveDoes
  <2>2. Numbering(g, cp, A) /\ Settles(h, g, A)
    BY <1>8, MessageTaken
  <2> HIDE DEF g, A, cp, h
  <2>3. Unique(g, cp)
    BY <1>1, <2>2, UniqueSettles
  <2>4. Unique(Reset(h), cp)
    BY <1>1, ResetOK DEF Unique
  <2> QED BY <2>1, <2>3, <2>4
<1>9. CASE Disconnect(c)
  BY <1>1, <1>9, DisconnectDoes, ResetOK DEF Unique
<1>10. CASE Persist(c)
  BY <1>2, <1>10, PersistDoes, UniqueCopied
<1>11. CASE CloseTab(c)
  <2>1. Unique(Sealed(h), CopyOf(Sealed(h))) /\ CopyOK(CopyOf(Sealed(h)))
    BY <1>2, UniqueCopied, CopyOfOK
  <2>2. engine'[c] = FreshEngine /\ copy'[c] = CopyOf(Sealed(h))
    BY <1>11, CloseTabDoes
  <2> QED BY <2>1, <2>2, UniqueEmpty
<1>12. CASE KillTab(c)
  BY <1>1, <1>12, KillTabDoes, UniqueEmpty
<1>13. CASE Reopen(c)
  BY <1>1, <1>13, ReopenDoes, UniqueEmpty
<1>14. CASE Join(c)
  BY <1>1, <1>14, JoinDoes
<1> QED BY <1>3, <1>4, <1>5, <1>6, <1>7, <1>8, <1>9, <1>10, <1>11, <1>12, <1>13, <1>14 DEF Client

LEMMA UniqueStep ==
  ASSUME Types, OrderInv, UniqueInv, [Next]_vars
  PROVE  UniqueInv'
<1>1. ASSUME UNCHANGED <<engine, copy>> PROVE UniqueInv'
  BY <1>1 DEF UniqueInv
<1>2. ASSUME NEW c \in Clients, Client(c) \/ Join(c) PROVE UniqueInv'
  <2>1. Unique(engine'[c], copy'[c])
    BY <1>2, UniqueClient DEF OrderInv, UniqueInv
  <2>2. \A d \in Clients : d # c => engine'[d] = engine[d] /\ copy'[d] = copy[d]
    BY <1>2, ClientAlone DEF Alone, Still
  <2> QED BY <2>1, <2>2 DEF UniqueInv
<1> QED BY <1>1, <1>2, HandleBatchDoes, MarkDurableDoes, RestartDoes DEF Next, vars, device

----------------------------------------------------------------------------
(* Both ends of a connection.  c's engine is h; cn, u and dn are the state   *)
(* of its connection, its batches and its messages on their way; lg is the   *)
(* log of the room, e the room's epoch.                                      *)

Follows(s, t) == Len(s) <= Len(t) /\ \A q \in 1..Len(s) : s[q] = t[q]

\* What c lacks of the room's log is on its way to it, each batch once, in order.
Docs(base, lg, dn) ==
  /\ Follows(base, lg)
  /\ \A i \in 1..Len(dn) : dn[i].type = "batch" =>
       /\ Len(base) < dn[i].batch.seq /\ dn[i].batch.seq <= Len(lg)
       /\ dn[i].batch = lg[dn[i].batch.seq]
  /\ \A q \in Len(base) + 1 .. Len(lg) :
       \E i \in 1..Len(dn) : dn[i] = [type |-> "batch", batch |-> lg[q]]
  /\ \A i, j \in 1..Len(dn) :
       i < j /\ dn[i].type = "batch" /\ dn[j].type = "batch" => dn[i].batch.seq < dn[j].batch.seq

Waits(dn)      == dn # <<>> /\ Head(dn).type = "welcome"
BaseOf(cf, dn) ==
  IF ~Waits(dn) THEN cf ELSE IF Head(dn).snapshot THEN Head(dn).batches ELSE cf \o Head(dn).batches

\* A log whose batches carry their places.
IsLog(lg) == lg \in Seq(Sequenced) /\ \A q \in 1..Len(lg) : lg[q].seq = q

\* Once the client has read a message that is no batch, or the room has sent
\* it one, it lacks what it lacked.
LEMMA DocsTail ==
  ASSUME NEW base \in Seq(Sequenced), NEW lg, IsLog(lg), NEW dn \in Seq(Messages), dn # <<>>,
         Head(dn).type # "batch", Docs(base, lg, dn)
  PROVE  Docs(base, lg, Tail(dn))
<1> DEFINE t == Tail(dn)
<1>1. /\ t \in Seq(Messages) /\ Len(t) = Len(dn) - 1 /\ Head(dn) = dn[1] /\ Len(dn) \in Nat
      /\ \A i \in 1..Len(dn) - 1 : t[i] = dn[i + 1]
  BY EntriesTail
<1>2. \A i \in 1..Len(t) : i + 1 \in 1..Len(dn) /\ t[i] = dn[i + 1]
  BY <1>1
<1>3. Len(base) \in Nat /\ Len(lg) \in Nat
  BY DEF IsLog
<1>4. ASSUME NEW q \in Len(base) + 1 .. Len(lg)
      PROVE  \E i \in 1..Len(t) : t[i] = [type |-> "batch", batch |-> lg[q]]
  <2>1. PICK i \in 1..Len(dn) : dn[i] = [type |-> "batch", batch |-> lg[q]]
    BY <1>4 DEF Docs
  <2>2. i # 1
    BY <1>1, <2>1
  <2>3. i - 1 \in 1..Len(t) /\ t[i - 1] = dn[i]
    BY <1>1, <2>2
  <2> QED BY <2>1, <2>3
<1>5. ASSUME NEW i \in 1..Len(t), NEW j \in 1..Len(t), i < j, t[i].type = "batch", t[j].type = "batch"
      PROVE  t[i].batch.seq < t[j].batch.seq
  BY <1>2, <1>5 DEF Docs
<1> HIDE DEF t
<1> QED BY <1>2, <1>4, <1>5 DEF Docs, t

\* The next batch a connected client reads is the one it needs: no hole.
LEMMA DocsNext ==
  ASSUME NEW base \in Seq(Sequenced), NEW lg, IsLog(lg), NEW dn \in Seq(Messages), dn # <<>>,
         Head(dn).type = "batch", Docs(base, lg, dn)
  PROVE  /\ Head(dn).batch.seq = Len(base) + 1
         /\ Docs(base \o <<Head(dn).batch>>, lg, Tail(dn))
<1> DEFINE t == Tail(dn)
           b == Head(dn).batch
           n == base \o <<b>>
<1>1. /\ t \in Seq(Messages) /\ Len(t) = Len(dn) - 1 /\ Head(dn) = dn[1] /\ Len(dn) \in Nat
      /\ \A i \in 1..Len(dn) - 1 : t[i] = dn[i + 1]
      /\ Head(dn) \in Messages /\ 1 \in 1..Len(dn)
  BY EntriesTail
<1>2. \A i \in 1..Len(t) : i + 1 \in 1..Len(dn) /\ t[i] = dn[i + 1] /\ 1 < i + 1
  BY <1>1
<1>3. Len(base) \in Nat /\ Len(lg) \in Nat /\ b \in Sequenced /\ b.seq \in Nat
      /\ dn[1].type = "batch" /\ dn[1].batch = b
  BY <1>1, MessageKinds DEF IsLog, Sequenced
<1> HIDE DEF t, b
<1>4. Len(base) < b.seq /\ b.seq <= Len(lg) /\ b = lg[b.seq]
  BY <1>1, <1>3 DEF Docs
<1>5. b.seq = Len(base) + 1
  <2>1. Len(base) + 1 \in Len(base) + 1 .. Len(lg) /\ Len(base) + 1 \in 1..Len(lg)
    BY <1>3, <1>4
  <2>2. PICK i \in 1..Len(dn) : dn[i] = [type |-> "batch", batch |-> lg[Len(base) + 1]]
    BY <2>1 DEF Docs
  <2>3. dn[i].type = "batch" /\ dn[i].batch.seq = Len(base) + 1
    BY <2>1, <2>2 DEF IsLog
  <2>4. CASE i = 1
    BY <1>3, <2>3, <2>4
  <2>5. CASE i # 1
    <3>1. 1 < i
      BY <1>1, <2>5
    <3>2. b.seq < Len(base) + 1
      BY <1>1, <1>3, <2>3, <3>1 DEF Docs
    <3> QED BY <1>3, <1>4, <3>2
  <2> QED BY <2>4, <2>5
<1>6. Len(n) = Len(base) + 1 /\ n[Len(base) + 1] = b /\ \A q \in 1..Len(base) : n[q] = base[q]
  BY <1>3
<1> HIDE DEF n
<1>7. Follows(n, lg)
  <2>1. ASSUME NEW q \in 1..Len(n) PROVE n[q] = lg[q]
    <3>1. q \in 1..Len(base) \/ q = Len(base) + 1
      BY <1>3, <1>6
    <3> QED BY <1>4, <1>5, <1>6, <3>1 DEF Docs, Follows
  <2> QED BY <1>4, <1>5, <1>6, <2>1 DEF Follows
<1>8. ASSUME NEW i \in 1..Len(t), t[i].type = "batch"
      PROVE  Len(n) < t[i].batch.seq /\ t[i].batch.seq <= Len(lg) /\ t[i].batch = lg[t[i].batch.seq]
  <2>1. /\ i + 1 \in 1..Len(dn) /\ 1 < i + 1 /\ dn[i + 1].type = "batch" /\ t[i] = dn[i + 1]
    BY <1>2, <1>8
  <2>2. dn[1].batch.seq < dn[i + 1].batch.seq
    BY <1>1, <1>3, <2>1 DEF Docs
  <2> QED BY <1>3, <1>5, <1>6, <2>1, <2>2 DEF Docs
<1>9. ASSUME NEW q \in Len(n) + 1 .. Len(lg)
      PROVE  \E i \in 1..Len(t) : t[i] = [type |-> "batch", batch |-> lg[q]]
  <2>1. q \in Len(base) + 1 .. Len(lg) /\ q # b.seq /\ q \in 1..Len(lg)
    BY <1>3, <1>5, <1>6
  <2>2. PICK i \in 1..Len(dn) : dn[i] = [type |-> "batch", batch |-> lg[q]]
    BY <2>1 DEF Docs
  <2>3. i # 1
    BY <1>3, <2>1, <2>2 DEF IsLog
  <2>4. i - 1 \in 1..Len(t) /\ t[i - 1] = dn[i]
    BY <1>1, <2>3
  <2> QED BY <2>2, <2>4
<1>10. ASSUME NEW i \in 1..Len(t), NEW j \in 1..Len(t), i < j, t[i].type = "batch", t[j].type = "batch"
       PROVE  t[i].batch.seq < t[j].batch.seq
  <2>1. i + 1 \in 1..Len(dn) /\ j + 1 \in 1..Len(dn) /\ i + 1 < j + 1 /\ t[i] = dn[i + 1] /\ t[j] = dn[j + 1]
    BY <1>2, <1>10
  <2> QED BY <1>10, <2>1 DEF Docs
<1>11. Docs(n, lg, t)
  BY <1>7, <1>8, <1>9, <1>10 DEF Docs
<1> QED BY <1>5, <1>11 DEF n, t, b

LEMMA DocsTold ==
  ASSUME NEW base \in Seq(Sequenced), NEW lg, IsLog(lg), NEW dn \in Seq(Messages), NEW m \in Messages,
         m.type # "batch", Docs(base, lg, dn)
  PROVE  Docs(base, lg, Append(dn, m))
<1> DEFINE t == Append(dn, m)
<1>1. /\ Len(t) = Len(dn) + 1 /\ Len(dn) \in Nat /\ t[Len(dn) + 1] = m
      /\ \A i \in 1..Len(dn) : t[i] = dn[i] /\ i \in 1..Len(t)
  OBVIOUS
<1> HIDE DEF t
<1>2. \A i \in 1..Len(t) : t[i].type = "batch" => i \in 1..Len(dn)
  BY <1>1
<1> QED BY <1>1, <1>2 DEF Docs, t

\* The room accepts a batch and tells it to all.
LEMMA DocsGrown ==
  ASSUME NEW base \in Seq(Sequenced), NEW lg, IsLog(lg), NEW dn \in Seq(Messages),
         NEW b \in Sequenced, b.seq = Len(lg) + 1, Docs(base, lg, dn)
  PROVE  Docs(base, Append(lg, b), Append(dn, [type |-> "batch", batch |-> b]))
<1> DEFINE m == [type |-> "batch", batch |-> b]
           t == Append(dn, m)
           g == Append(lg, b)
<1>1. /\ Len(t) = Len(dn) + 1 /\ Len(dn) \in Nat /\ t[Len(dn) + 1] = m
      /\ \A i \in 1..Len(dn) : t[i] = dn[i] /\ i \in 1..Len(t)
      /\ Len(dn) + 1 \in 1..Len(t)
  OBVIOUS
<1>2. /\ Len(g) = Len(lg) + 1 /\ Len(lg) \in Nat /\ g[Len(lg) + 1] = b /\ Len(base) \in Nat
      /\ \A i \in 1..Len(lg) : g[i] = lg[i]
  BY DEF IsLog
<1>3. m.type = "batch" /\ m.batch = b
  OBVIOUS
<1>4. \A i \in 1..Len(dn) : dn[i] \in Messages /\ (dn[i].type = "batch" => dn[i].batch.seq \in Nat)
  <2>1. \A i \in 1..Len(dn) : dn[i] \in Messages
    OBVIOUS
  <2>2. \A x \in Messages : x.type = "batch" => x.batch.seq \in Nat
    BY MessageKinds DEF Sequenced
  <2> QED BY <2>1, <2>2
<1> HIDE DEF t, g
<1>5. Follows(base, g)
  <2>1. Follows(base, lg)
    BY DEF Docs
  <2> QED BY <1>2, <2>1 DEF Follows
<1>6. ASSUME NEW i \in 1..Len(t), t[i].type = "batch"
      PROVE  Len(base) < t[i].batch.seq /\ t[i].batch.seq <= Len(g) /\ t[i].batch = g[t[i].batch.seq]
  <2>1. CASE i = Len(dn) + 1
    <3>1. Len(base) <= Len(lg)
      BY DEF Docs, Follows
    <3> QED BY <1>1, <1>2, <1>3, <2>1, <3>1
  <2>2. CASE i \in 1..Len(dn)
    <3>1. /\ t[i] = dn[i] /\ dn[i].batch.seq \in Nat
          /\ Len(base) < dn[i].batch.seq /\ dn[i].batch.seq <= Len(lg)
          /\ dn[i].batch = lg[dn[i].batch.seq]
      BY <1>1, <1>4, <1>6, <2>2 DEF Docs
    <3>2. dn[i].batch.seq \in 1..Len(lg)
      BY <1>2, <3>1
    <3> QED BY <1>2, <3>1, <3>2
  <2> QED BY <1>1, <2>1, <2>2
<1>7. ASSUME NEW q \in Len(base) + 1 .. Len(g)
      PROVE  \E i \in 1..Len(t) : t[i] = [type |-> "batch", batch |-> g[q]]
  <2>1. CASE q = Len(lg) + 1
    BY <1>1, <1>2, <2>1
  <2>2. CASE q # Len(lg) + 1
    <3>1. q \in Len(base) + 1 .. Len(lg) /\ q \in 1..Len(lg)
      BY <1>2, <2>2
    <3>2. PICK i \in 1..Len(dn) : dn[i] = [type |-> "batch", batch |-> lg[q]]
      BY <3>1 DEF Docs
    <3> QED BY <1>1, <1>2, <3>1, <3>2
  <2> QED BY <2>1, <2>2
<1>8. ASSUME NEW i \in 1..Len(t), NEW j \in 1..Len(t), i < j, t[i].type = "batch", t[j].type = "batch"
      PROVE  t[i].batch.seq < t[j].batch.seq
  <2>1. i \in 1..Len(dn) /\ t[i] = dn[i]
    BY <1>1, <1>8
  <2>2. CASE j = Len(dn) + 1
    <3>1. dn[i].batch.seq \in Nat /\ dn[i].batch.seq <= Len(lg)
      BY <1>4, <1>8, <2>1 DEF Docs
    <3> QED BY <1>1, <1>2, <1>3, <2>1, <2>2, <3>1
  <2>3. CASE j # Len(dn) + 1
    <3>1. j \in 1..Len(dn) /\ t[j] = dn[j]
      BY <1>1, <2>3
    <3> QED BY <1>8, <2>1, <3>1 DEF Docs
  <2> QED BY <2>2, <2>3
<1> QED BY <1>5, <1>6, <1>7, <1>8 DEF Docs, t, g

\* A batch of h with that number is on its way or has been read by the room.
Flying(h, n) == \E p \in h.pending : ~p.localOnly /\ p.cseq = n /\ n <= h.sentUpTo

\* The answers to the batch n of c.
Answers(m, c, n) ==
  \/ m.type \in {"duplicate", "reject"} /\ m.cseq = n
  \/ m.type = "batch" /\ m.batch.client = c /\ m.batch.cseq = n
Comes(c, dn, n)  == \E m \in Entries(dn) : Answers(m, c, n)
Leaving(u, n)    == \E b \in Entries(u) : b.cseq = n

\* What the client takes for sent and has no answer to is what is on its way to
\* the room, whose last batch of c is `last'; or, before the client has read
\* its welcome, nothing is.
Flies(c, u, dn, h, last) ==
  /\ \A i, j \in 1..Len(u) : i < j => u[i].cseq < u[j].cseq
  /\ \A b \in Entries(u) : b.cseq > last
  /\ last <= h.sentUpTo
  /\ \A n \in Nat : Comes(c, dn, n) => n <= h.sentUpTo
  /\ \A n \in Nat : Leaving(u, n) <=> Flying(h, n) /\ ~Comes(c, dn, n)
Opened(c, u, dn, last) == u = <<>> /\ Head(dn).cseq = last /\ \A n \in Nat : ~Comes(c, dn, n)

SameFlights(g, h) == g.sentUpTo = h.sentUpTo /\ \A n \in Nat : Flying(g, n) <=> Flying(h, n)

LEMMA SentFlying ==
  ASSUME NEW h, EngineOK(h), NEW n \in Nat
  PROVE  /\ Flying(Sent(h), n) <=> Flying(h, n) \/ \E b \in Outgoing(h) : b.cseq = n
         /\ h.sentUpTo <= Sent(h).sentUpTo
         /\ \A b \in Outgoing(h) : b.cseq <= Sent(h).sentUpTo /\ h.sentUpTo < b.cseq
<1> DEFINE s == Sent(h)
           O == Outgoing(h)
<1>1. /\ s.pending = (h.pending \ O) \cup {Transmit(b) : b \in O} /\ EngineOK(s)
      /\ O = {} => s = h
      /\ \A b \in O : b.cseq <= s.sentUpTo
      /\ O # {} => \E b \in O : b.cseq = s.sentUpTo
  BY SentOK
<1>2. /\ O \subseteq h.pending
      /\ \A b \in O : b \in Local /\ ~b.localOnly /\ b.cseq > h.sentUpTo
      /\ \A b \in O, p \in Unsent(h) : p \in O \/ b.cseq < p.cseq
  BY OutgoingOK
<1>3. /\ h.sentUpTo \in Nat /\ s.sentUpTo \in Nat
      /\ \A p \in h.pending : p.cseq \in Nat
  BY <1>1, EngineFields
<1>4. \A b \in O : Transmit(b) \in s.pending /\ Transmit(b).cseq = b.cseq /\ ~Transmit(b).localOnly
  BY <1>1, <1>2 DEF Transmit, Local
<1> HIDE DEF s, O
<1>5. h.sentUpTo <= s.sentUpTo /\ \A b \in O : b.cseq <= s.sentUpTo /\ h.sentUpTo < b.cseq
  BY <1>1, <1>2, <1>3
<1>6. ASSUME Flying(s, n) PROVE Flying(h, n) \/ \E b \in O : b.cseq = n
  <2>1. PICK p \in s.pending : ~p.localOnly /\ p.cseq = n /\ n <= s.sentUpTo
    BY <1>6 DEF Flying
  <2>2. CASE \E b \in O : p = Transmit(b)
    BY <1>4, <2>1, <2>2
  <2>3. CASE p \in h.pending /\ p \notin O
    <3>1. CASE n <= h.sentUpTo
      BY <2>1, <2>3, <3>1 DEF Flying
    <3>2. CASE ~(n <= h.sentUpTo)
      <4>1. p \in Unsent(h)
        BY <1>3, <2>1, <2>3, <3>2 DEF Unsent, NotLocal
      <4>2. \A b \in O : b.cseq < n
        BY <1>2, <2>1, <2>3, <4>1
      <4>3. O # {}
        BY <1>1, <2>1, <3>2
      <4> QED BY <1>1, <1>2, <1>3, <2>1, <4>2, <4>3
    <3> QED BY <3>1, <3>2
  <2> QED BY <1>1, <2>1, <2>2, <2>3
<1>7. ASSUME Flying(h, n) PROVE Flying(s, n)
  <2>1. PICK p \in h.pending : ~p.localOnly /\ p.cseq = n /\ n <= h.sentUpTo
    BY <1>7 DEF Flying
  <2>2. p \notin O
    BY <1>2, <1>3, <2>1
  <2>3. p \in s.pending /\ n <= s.sentUpTo
    BY <1>1, <1>3, <1>5, <2>1, <2>2
  <2> QED BY <2>1, <2>3 DEF Flying
<1>8. ASSUME NEW b \in O, b.cseq = n PROVE Flying(s, n)
  BY <1>4, <1>5, <1>8 DEF Flying
<1> QED BY <1>5, <1>6, <1>7, <1>8 DEF s, O

\* What leaves follows what has left, each number once.
LEMMA FliesSent ==
  ASSUME NEW h, EngineOK(h), NEW cp, Unique(h, cp), NEW c, NEW u \in Seq(Unsynced), NEW dn,
         NEW last \in Nat, Flies(c, u, dn, h, last), NEW s \in Seq(Unsynced),
         Entries(s) = {Bare(b) : b \in Outgoing(h)},
         \A i, j \in 1..Len(s) : i < j => s[i].cseq <= s[j].cseq,
         \A i, j \in 1..Len(s) : s[i] = s[j] => i = j
  PROVE  Flies(c, u \o s, dn, Sent(h), last)
<1> DEFINE g == Sent(h)
           O == Outgoing(h)
           v == u \o s
<1>1. /\ h.sentUpTo <= g.sentUpTo /\ h.sentUpTo \in Nat /\ g.sentUpTo \in Nat
      /\ \A b \in O : b.cseq <= g.sentUpTo /\ h.sentUpTo < b.cseq
      /\ \A n \in Nat : Flying(g, n) <=> Flying(h, n) \/ \E b \in O : b.cseq = n
  <2>1. EngineOK(g)
    BY SentOK
  <2>2. /\ h.sentUpTo <= g.sentUpTo /\ \A b \in O : b.cseq <= g.sentUpTo /\ h.sentUpTo < b.cseq
    BY SentFlying, 0 \in Nat
  <2> QED BY <2>1, <2>2, EngineFields, SentFlying
<1>2. O \subseteq h.pending /\ \A b \in O : b.cseq \in Nat
  BY OutgoingOK, EngineFields
<1>3. /\ \A i \in 1..Len(s) : \E b \in O : s[i] = Bare(b)
      /\ \A b \in O : Bare(b) \in Entries(s)
  BY EntriesAre
<1>4. Entries(v) = Entries(u) \cup Entries(s)
  BY EntriesConcat
<1>5. \A b : Bare(b).cseq = b.cseq /\ Bare(b).ops = b.ops
  BY DEF Bare
<1>6. \A i \in 1..Len(u) : u[i].cseq \in Nat /\ u[i].cseq <= h.sentUpTo
  <2>1. ASSUME NEW i \in 1..Len(u) PROVE u[i].cseq \in Nat /\ u[i].cseq <= h.sentUpTo
    <3>1. u[i] \in Unsynced /\ u[i] \in Entries(u)
      BY EntriesAre
    <3>2. u[i].cseq \in Nat
      BY <3>1 DEF Unsynced
    <3>3. Flying(h, u[i].cseq)
      BY <3>1, <3>2 DEF Flies, Leaving
    <3> QED BY <3>2, <3>3 DEF Flying
  <2> QED BY <2>1
<1>7. \A i \in 1..Len(s) : s[i].cseq \in Nat /\ h.sentUpTo < s[i].cseq
  BY <1>1, <1>2, <1>3, <1>5
<1> HIDE DEF g, O
<1>8. ASSUME NEW i \in 1..Len(s), NEW j \in 1..Len(s), i < j PROVE s[i].cseq < s[j].cseq
  <2>1. CASE s[i].cseq = s[j].cseq
    <3>1. PICK a \in O : s[i] = Bare(a)
      BY <1>3
    <3>2. PICK b \in O : s[j] = Bare(b)
      BY <1>3
    <3>3. a.cseq = b.cseq /\ a.ops = b.ops
      BY <1>2, <1>5, <2>1, <3>1, <3>2 DEF Unique
    <3>4. s[i] = s[j]
      BY <3>1, <3>2, <3>3 DEF Bare
    <3>5. i = j
      BY <3>4
    <3> QED BY <1>8, <3>5
  <2> QED BY <1>7, <1>8, <2>1
<1>9. ASSUME NEW i \in 1..Len(v), NEW j \in 1..Len(v), i < j PROVE v[i].cseq < v[j].cseq
  <2>1. /\ Len(u) \in Nat /\ Len(s) \in Nat /\ Len(v) = Len(u) + Len(s)
        /\ \A k \in 1..Len(v) : v[k] = IF k <= Len(u) THEN u[k] ELSE s[k - Len(u)]
    OBVIOUS
  <2> HIDE DEF v
  <2>2. CASE j <= Len(u)
    <3>1. i \in 1..Len(u) /\ j \in 1..Len(u) /\ v[i] = u[i] /\ v[j] = u[j]
      BY <1>9, <2>1, <2>2
    <3> QED BY <1>9, <3>1 DEF Flies
  <2>3. CASE i <= Len(u) /\ ~(j <= Len(u))
    <3>1. PICK l \in 1..Len(s) : i \in 1..Len(u) /\ v[i] = u[i] /\ v[j] = s[l]
      <4>1. i \in 1..Len(u) /\ j - Len(u) \in 1..Len(s) /\ v[i] = u[i] /\ v[j] = s[j - Len(u)]
        BY <1>9, <2>1, <2>3
      <4> QED BY <4>1
    <3>2. /\ u[i].cseq \in Nat /\ u[i].cseq <= h.sentUpTo
          /\ s[l].cseq \in Nat /\ h.sentUpTo < s[l].cseq
      BY <1>6, <1>7, <3>1
    <3> QED BY <1>1, <3>1, <3>2
  <2>4. CASE ~(i <= Len(u))
    <3>1. PICK k \in 1..Len(s), l \in 1..Len(s) : k < l /\ v[i] = s[k] /\ v[j] = s[l]
      <4>1. i - Len(u) \in 1..Len(s) /\ j - Len(u) \in 1..Len(s) /\ i - Len(u) < j - Len(u)
        BY <1>9, <2>1, <2>4
      <4>2. v[i] = s[i - Len(u)] /\ v[j] = s[j - Len(u)]
        BY <1>9, <2>1, <2>4
      <4> QED BY <4>1, <4>2
    <3> QED BY <1>8, <3>1
  <2> QED BY <2>2, <2>3, <2>4
<1>10. \A b \in Entries(v) : b.cseq > last
  <2>1. \A b \in Entries(s) : b.cseq > h.sentUpTo /\ b.cseq \in Nat
    BY <1>7, EntriesAre
  <2>2. last <= h.sentUpTo /\ \A b \in Entries(u) : b.cseq > last
    BY DEF Flies
  <2> HIDE DEF v
  <2> QED BY <1>1, <1>4, <2>1, <2>2
<1>11. \A n \in Nat : Comes(c, dn, n) => n <= h.sentUpTo /\ n <= g.sentUpTo
  BY <1>1 DEF Flies
<1>12. last <= g.sentUpTo
  BY <1>1 DEF Flies
<1>13. ASSUME NEW n \in Nat PROVE Leaving(v, n) <=> Flying(g, n) /\ ~Comes(c, dn, n)
  <2>1. Leaving(v, n) <=> Leaving(u, n) \/ Leaving(s, n)
    BY <1>4 DEF Leaving
  <2>2. Leaving(s, n) <=> \E b \in O : b.cseq = n
    BY <1>3, <1>5 DEF Leaving, O
  <2>3. (\E b \in O : b.cseq = n) => ~Comes(c, dn, n)
    BY <1>1, <1>2, <1>11
  <2>4. Leaving(u, n) <=> Flying(h, n) /\ ~Comes(c, dn, n)
    BY DEF Flies
  <2>5. Flying(g, n) <=> Flying(h, n) \/ \E b \in O : b.cseq = n
    BY <1>1
  <2> QED BY <2>1, <2>2, <2>3, <2>4, <2>5
<1> HIDE DEF v
<1>14. Flies(c, v, dn, g, last)
  BY <1>9, <1>10, <1>11, <1>12, <1>13 DEF Flies
<1> QED BY <1>14 DEF v, g

LEMMA FliesSame ==
  ASSUME NEW c, NEW u, NEW dn, NEW h, NEW g, NEW last, Flies(c, u, dn, h, last), SameFlights(g, h)
  PROVE  Flies(c, u, dn, g, last)
BY DEF Flies, SameFlights

\* The client has read its welcome: nothing is on its way, and all that is
\* pending comes after what the room has.
LEMMA FliesOpened ==
  ASSUME NEW c, NEW u, NEW dn \in Seq(Messages), dn # <<>>, NEW last \in Nat, Opened(c, u, dn, last), NEW w,
         EngineOK(w), w.sentUpTo = last, \A p \in w.pending : p.cseq > last
  PROVE  Flies(c, u, Tail(dn), w, last)
<1>1. Entries(Tail(dn)) \subseteq Entries(dn)
  BY EntriesTail
<1>2. \A n \in Nat : ~Comes(c, Tail(dn), n)
  BY <1>1 DEF Opened, Comes
<1>3. \A n \in Nat : ~Flying(w, n)
  <2> SUFFICES ASSUME NEW n \in Nat, NEW p \in w.pending, p.cseq = n, n <= w.sentUpTo PROVE FALSE
    BY DEF Flying
  <2>1. p.cseq > last /\ p.cseq <= last
    OBVIOUS
  <2> QED BY <2>1
<1>4. u = <<>> /\ Entries(u) = {} /\ Len(u) = 0
  BY DEF Opened, Entries
<1> QED BY <1>2, <1>3, <1>4 DEF Flies, Leaving

\* An answer is read: its batch is not pending any more.
LEMMA FliesHeard ==
  ASSUME NEW c, NEW u, NEW dn \in Seq(Messages), dn # <<>>, NEW h, NEW g, NEW last,
         Flies(c, u, dn, h, last), g.sentUpTo = h.sentUpTo,
         \A n \in Nat : Flying(g, n) <=> Flying(h, n) /\ ~Answers(Head(dn), c, n)
  PROVE  Flies(c, u, Tail(dn), g, last)
<1>1. Entries(dn) = {Head(dn)} \cup Entries(Tail(dn))
  BY EntriesTail
<1>2. \A n : Comes(c, dn, n) <=> Answers(Head(dn), c, n) \/ Comes(c, Tail(dn), n)
  BY <1>1 DEF Comes
<1> QED BY <1>2 DEF Flies

\* The room has answered the first batch on its way.
LEMMA FliesTaken ==
  ASSUME NEW c, NEW u \in Seq(Unsynced), u # <<>>, NEW dn \in Seq(Messages), NEW m \in Messages, NEW h,
         EngineOK(h), NEW last \in Nat, Flies(c, u, dn, h, last), NEW new \in {last, Head(u).cseq},
         \A n \in Nat : Answers(m, c, n) <=> n = Head(u).cseq
  PROVE  Head(u).cseq > last /\ Flies(c, Tail(u), Append(dn, m), h, new)
<1> DEFINE x == Head(u)
           t == Tail(u)
           d == Append(dn, m)
<1>1. /\ x \in Entries(u) /\ x = u[1] /\ x \in Unsynced /\ t \in Seq(Unsynced)
      /\ 1 \in 1..Len(u) /\ Len(t) = Len(u) - 1 /\ Len(u) \in Nat
      /\ \A i \in 1..Len(u) - 1 : t[i] = u[i + 1]
      /\ Entries(u) = {x} \cup Entries(t)
  BY EntriesTail
<1>2. x.cseq \in Nat /\ h.sentUpTo \in Nat /\ \A b \in Entries(u) : b.cseq \in Nat
  <2>1. Entries(u) \subseteq Unsynced
    BY EntriesAre
  <2> QED BY <1>1, <2>1, EngineFields DEF Unsynced
<1>3. \A i \in 1..Len(t) : i + 1 \in 1..Len(u) /\ 1 < i + 1 /\ t[i] = u[i + 1]
  BY <1>1
<1>4. Entries(d) = Entries(dn) \cup {m}
  BY EntriesAppend
<1>5. \A n \in Nat : Comes(c, d, n) <=> Comes(c, dn, n) \/ n = x.cseq
  BY <1>4 DEF Comes
<1> HIDE DEF x, t, d
<1>6. x.cseq > last /\ x.cseq <= h.sentUpTo /\ Flying(h, x.cseq) /\ ~Comes(c, dn, x.cseq)
  <2>1. Leaving(u, x.cseq)
    BY <1>1 DEF Leaving
  <2> QED BY <1>1, <1>2, <2>1 DEF Flies, Flying
<1>7. ASSUME NEW b \in Entries(t) PROVE b.cseq > x.cseq /\ b \in Entries(u)
  <2>1. PICK i \in 1..Len(t) : t[i] = b
    BY <1>1, <1>7, EntriesAre
  <2>2. u[1].cseq < u[i + 1].cseq
    BY <1>1, <1>3 DEF Flies
  <2> QED BY <1>1, <1>2, <1>3, <1>7, <2>1, <2>2
<1>8. ASSUME NEW i \in 1..Len(t), NEW j \in 1..Len(t), i < j PROVE t[i].cseq < t[j].cseq
  <2>1. i + 1 \in 1..Len(u) /\ j + 1 \in 1..Len(u) /\ i + 1 < j + 1 /\ t[i] = u[i + 1] /\ t[j] = u[j + 1]
    BY <1>3, <1>8
  <2> QED BY <2>1 DEF Flies
<1>9. new \in Nat /\ new <= h.sentUpTo
  BY <1>2, <1>6 DEF Flies, x
<1>10. \A b \in Entries(t) : b.cseq > new
  BY <1>2, <1>6, <1>7 DEF Flies, x
<1>11. \A n \in Nat : Comes(c, d, n) => n <= h.sentUpTo
  BY <1>5, <1>6 DEF Flies
<1>12. ASSUME NEW n \in Nat PROVE Leaving(t, n) <=> Flying(h, n) /\ ~Comes(c, d, n)
  <2>1. Leaving(u, n) <=> Leaving(t, n) \/ n = x.cseq
    BY <1>1 DEF Leaving
  <2>2. ~Leaving(t, x.cseq)
    BY <1>2, <1>7 DEF Leaving
  <2>3. Leaving(u, n) <=> Flying(h, n) /\ ~Comes(c, dn, n)
    BY DEF Flies
  <2> QED BY <1>5, <1>6, <2>1, <2>2, <2>3
<1>13. Flies(c, t, d, h, new)
  BY <1>8, <1>9, <1>10, <1>11, <1>12 DEF Flies
<1> QED BY <1>6, <1>13 DEF t, d, x

\* A message that answers nothing of c.
LEMMA FliesTold ==
  ASSUME NEW c, NEW u, NEW dn \in Seq(Messages), NEW m \in Messages, NEW h, NEW last,
         \A n \in Nat : ~Answers(m, c, n)
  PROVE  /\ Flies(c, u, dn, h, last) => Flies(c, u, Append(dn, m), h, last)
         /\ Waits(dn) /\ Opened(c, u, dn, last) => Opened(c, u, Append(dn, m), last)
<1>1. Entries(Append(dn, m)) = Entries(dn) \cup {m}
  BY EntriesAppend
<1>2. \A n \in Nat : Comes(c, Append(dn, m), n) <=> Comes(c, dn, n)
  BY <1>1 DEF Comes
<1>3. Waits(dn) => Head(Append(dn, m)) = Head(dn)
  BY DEF Waits
<1> QED BY <1>2, <1>3 DEF Flies, Opened

\* The last number of c in the log after one more batch.
LEMMA LastOfAppend ==
  ASSUME NEW lg \in Seq(Sequenced), NEW c, NEW b \in Sequenced
  PROVE  /\ b.client # c => LastOf(Append(lg, b), c) = LastOf(lg, c)
         /\ b.client = c /\ b.cseq > LastOf(lg, c) => LastOf(Append(lg, b), c) = b.cseq
<1> DEFINE g == Append(lg, b)
           x == LastOf(lg, c)
           y == LastOf(g, c)
<1>1. /\ g \in Seq(Sequenced) /\ Len(g) = Len(lg) + 1 /\ Len(lg) \in Nat /\ g[Len(lg) + 1] = b
      /\ \A q \in 1..Len(lg) : g[q] = lg[q] /\ q \in 1..Len(g)
      /\ Len(lg) + 1 \in 1..Len(g)
      /\ \A q \in 1..Len(g) : q \in 1..Len(lg) \/ q = Len(lg) + 1
  OBVIOUS
<1>2. /\ x \in Nat /\ \A q \in 1..Len(lg) : lg[q].client = c => lg[q].cseq <= x
      /\ x = 0 \/ \E q \in 1..Len(lg) : lg[q].client = c /\ lg[q].cseq = x
  BY LastOfOK
<1>3. /\ y \in Nat /\ \A q \in 1..Len(g) : g[q].client = c => g[q].cseq <= y
      /\ y = 0 \/ \E q \in 1..Len(g) : g[q].client = c /\ g[q].cseq = y
  BY <1>1, LastOfOK
<1>4. b.cseq \in Nat
  BY DEF Sequenced
<1> HIDE DEF g, x, y
<1>5. x <= y
  BY <1>1, <1>2, <1>3
<1>6. b.client # c => y <= x
  <2> SUFFICES ASSUME b.client # c PROVE y <= x
    OBVIOUS
  <2>1. CASE y = 0
    BY <1>2, <2>1
  <2>2. CASE \E q \in 1..Len(g) : g[q].client = c /\ g[q].cseq = y
    <3>1. PICK q \in 1..Len(g) : g[q].client = c /\ g[q].cseq = y
      BY <2>2
    <3>2. q \in 1..Len(lg) /\ g[q] = lg[q]
      BY <1>1, <3>1
    <3> QED BY <1>2, <3>1, <3>2
  <2> QED BY <1>3, <2>1, <2>2
<1>7. b.client = c /\ b.cseq > x => y = b.cseq
  <2> SUFFICES ASSUME b.client = c, b.cseq > x PROVE y = b.cseq
    OBVIOUS
  <2>1. b.cseq <= y
    BY <1>1, <1>3
  <2>2. PICK q \in 1..Len(g) : g[q].client = c /\ g[q].cseq = y
    BY <1>2, <1>3, <1>4, <2>1
  <2>3. CASE q \in 1..Len(lg)
    <3>1. lg[q].client = c /\ lg[q].cseq = y /\ y <= x
      BY <1>1, <1>2, <2>2, <2>3
    <3> QED BY <1>2, <1>3, <1>4, <2>1, <3>1
  <2>4. CASE q = Len(lg) + 1
    BY <1>1, <2>2, <2>4
  <2> QED BY <1>1, <2>3, <2>4
<1>8. (b.client # c => y = x) /\ (b.client = c /\ b.cseq > x => y = b.cseq)
  BY <1>2, <1>3, <1>5, <1>6, <1>7
<1> QED BY <1>8 DEF x, y, g

\* What the client reads changes what it waits for by the answer alone.
LEMMA ReceivedFlying ==
  ASSUME NEW h, EngineOK(h), NEW c, NEW m \in Messages, m.type # "welcome",
         m.type = "batch" => IsNext(h, m.batch)
  PROVE  LET g == Received(h, c, m)
         IN  /\ g.sentUpTo = h.sentUpTo /\ g.ready = h.ready /\ g.epoch = h.epoch
             /\ g.conf = IF m.type = "batch" THEN h.conf \o <<m.batch>> ELSE h.conf
             /\ \A n \in Nat : Flying(g, n) <=> Flying(h, n) /\ ~Answers(m, c, n)
<1> DEFINE g == Received(h, c, m)
<1>1. CASE m.type = "batch"
  <2>1. g = Applied(h, c, <<m.batch>>) /\ <<m.batch>> \in Seq(Sequenced)
    BY <1>1, ReceivedOK, MessageKinds
  <2> HIDE DEF g
  <2>2. /\ g.conf = h.conf \o <<m.batch>> /\ g.ready = h.ready /\ g.epoch = h.epoch /\ g.sentUpTo = h.sentUpTo
        /\ g.pending = {p \in h.pending : ~AckedIn(c, <<m.batch>>, p)}
    <3> DEFINE t == <<m.batch>>
               k == Applied(h, c, t)
    <3>1. EngineOK(h) /\ t \in Seq(Sequenced)
      BY <2>1
    <3> HIDE DEF t
    <3>2. /\ k.conf = h.conf \o t /\ k.ready = h.ready /\ k.epoch = h.epoch /\ k.sentUpTo = h.sentUpTo
          /\ k.pending = {p \in h.pending : ~AckedIn(c, t, p)}
      BY ONLY <3>1, AppliedOK
    <3> QED BY <2>1, <3>2 DEF t
  <2>3. Entries(<<m.batch>>) = {m.batch}
    BY DEF Entries
  <2>4. \A p : AckedIn(c, <<m.batch>>, p) <=> Answers(m, c, p.cseq)
    BY <1>1, <2>3 DEF AckedIn, Answers
  <2>5. \A n \in Nat : Flying(g, n) <=> Flying(h, n) /\ ~Answers(m, c, n)
    BY <2>2, <2>4 DEF Flying
  <2> QED BY <1>1, <2>2, <2>5 DEF g
<1>2. CASE m.type = "durable"
  <2>1. g = DurableTold(h, m.seq) /\ m.seq \in Nat
    BY <1>2, ReceivedOK, MessageKinds
  <2> HIDE DEF g
  <2>2. /\ g.conf = h.conf /\ g.ready = h.ready /\ g.epoch = h.epoch /\ g.sentUpTo = h.sentUpTo
        /\ g.pending = h.pending
    BY <2>1, DurableToldOK
  <2> QED BY <1>2, <2>2 DEF Flying, Answers, g
<1>3. CASE m.type \in {"duplicate", "reject"}
  <2>1. g = Answered(h, m) /\ m.cseq \in Nat
    BY <1>3, ReceivedOK, MessageKinds
  <2> HIDE DEF g
  <2>2. /\ g.conf = h.conf /\ g.ready = h.ready /\ g.epoch = h.epoch /\ g.sentUpTo = h.sentUpTo
        /\ g.pending = {b \in h.pending : b.cseq # m.cseq}
    BY <2>1, AnsweredOK
  <2>3. \A n : Answers(m, c, n) <=> n = m.cseq
    BY <1>3 DEF Answers
  <2>4. \A n \in Nat : Flying(g, n) <=> Flying(h, n) /\ ~Answers(m, c, n)
    BY <2>2, <2>3 DEF Flying
  <2> QED BY <1>3, <2>2, <2>4 DEF g
<1> QED BY <1>1, <1>2, <1>3, MessageKinds

\* The engine after a welcome: the room's document, and nothing pending that
\* the room has.
LEMMA WelcomedGives ==
  ASSUME NEW h, EngineOK(h), NEW c, NEW dn \in Seq(Messages), Waits(dn)
  PROVE  LET m == Head(dn)
             w == Welcomed(h, c, m)
         IN  /\ m \in Welcome /\ EngineOK(w) /\ w.ready /\ w.epoch = m.epoch
             /\ w.sentUpTo = m.cseq /\ w.conf = BaseOf(h.conf, dn)
             /\ \A p \in w.pending : p.cseq > m.cseq
<1> DEFINE m == Head(dn)
           w == Welcomed(h, c, m)
<1>1. m \in Welcome
  <2>1. dn # <<>> /\ m.type = "welcome"
    BY DEF Waits
  <2> QED BY <2>1, EntriesTail, MessageKinds
<1>2. /\ EngineOK(w) /\ w.ready /\ w.epoch = m.epoch /\ w.sentUpTo = m.cseq
      /\ w.conf = Counted(h, c, m).conf /\ w.pending = Counted(h, c, m).pending
  BY <1>1, WelcomedOK
<1>3. /\ Counted(h, c, m).conf = IF m.snapshot THEN m.batches ELSE h.conf \o m.batches
      /\ m.snapshot => Counted(h, c, m).pending = {p \in h.undurable \cup Opening(h).pending : p.cseq > m.cseq}
      /\ ~m.snapshot =>
           Counted(h, c, m).pending = {p \in Opening(h).pending : p.cseq > m.cseq /\ ~AckedIn(c, m.batches, p)}
  BY <1>1, CountedOK
<1>4. \A p \in Counted(h, c, m).pending : p.cseq > m.cseq
  BY <1>3
<1>5. BaseOf(h.conf, dn) = IF m.snapshot THEN m.batches ELSE h.conf \o m.batches
  BY DEF BaseOf
<1> HIDE DEF w, m
<1> QED BY <1>1, <1>2, <1>3, <1>4, <1>5 DEF w, m

\* The room c's connection is, or will be, with once it has read its welcome.
RoomOf(dn, h) == IF Waits(dn) THEN Head(dn).epoch ELSE h.epoch

Link(c, e, lg, cn, u, dn, h) ==
  /\ h.epoch <= e
  /\ h.ready /\ h.epoch = e => Follows(h.conf, lg)
  /\ cn # "off" => RoomOf(dn, h) <= e
  /\ cn = "on" => RoomOf(dn, h) = e
  /\ cn = "dead" => RoomOf(dn, h) < e
  /\ cn = "on" =>
       /\ Docs(BaseOf(h.conf, dn), lg, dn)
       /\ IF Waits(dn) THEN Opened(c, u, dn, LastOf(lg, c)) ELSE Flies(c, u, dn, h, LastOf(lg, c))
LinkOf(c) == Link(c, epoch, log, conn[c], up[c], down[c], engine[c])
LinkInv   == \A c \in Clients : LinkOf(c)

LEMMA LinkKept ==
  ASSUME NEW c, NEW e, NEW lg, NEW cn, NEW u, NEW dn, NEW h, NEW g, Link(c, e, lg, cn, u, dn, h),
         g.epoch = h.epoch, g.ready = h.ready, g.conf = h.conf, SameFlights(g, h)
  PROVE  Link(c, e, lg, cn, u, dn, g)
<1>1. RoomOf(dn, g) = RoomOf(dn, h)
  BY DEF RoomOf
<1>2. Flies(c, u, dn, h, LastOf(lg, c)) => Flies(c, u, dn, g, LastOf(lg, c))
  BY FliesSame
<1> QED BY <1>1, <1>2 DEF Link

LEMMA LinkOff ==
  ASSUME NEW c, NEW e, NEW lg, NEW u, NEW dn, NEW g, g.epoch <= e, g.ready /\ g.epoch = e => Follows(g.conf, lg)
  PROVE  Link(c, e, lg, "off", u, dn, g)
BY DEF Link

\* Nothing that is not sent flies: edits join the queue or a batch to come.
LEMMA SealedFlights ==
  ASSUME NEW h, EngineOK(h), h.queued # <<>> => h.sentUpTo < h.next
  PROVE  SameFlights(Sealed(h), h)
<1>1. CASE h.queued = <<>>
  BY <1>1, SealedOK DEF SameFlights
<1>2. CASE h.queued # <<>>
  <2> DEFINE n == NewBatch(h.next, h.queued)
  <2>1. /\ Sealed(h).pending = h.pending \cup {n} /\ Sealed(h).sentUpTo = h.sentUpTo
    BY <1>2, SealedOK
  <2>2. n.cseq = h.next
    BY DEF NewBatch
  <2>3. h.next \in Nat /\ h.sentUpTo \in Nat
    BY EngineFields
  <2> HIDE DEF n
  <2> QED BY <1>2, <2>1, <2>2, <2>3 DEF SameFlights, Flying
<1> QED BY <1>1, <1>2

LEMMA CoalescedFlights ==
  ASSUME NEW h, EngineOK(h), NEW last \in h.pending, last.cseq > h.sentUpTo
  PROVE  SameFlights(Coalesced(h, last), h)
<1> DEFINE g == [last EXCEPT !.ops = last.ops \o h.queued]
           k == Coalesced(h, last)
<1>1. /\ g.cseq = last.cseq /\ k.pending = (h.pending \ {last}) \cup {g} /\ k.sentUpTo = h.sentUpTo
  BY CoalescedOK
<1>2. h.sentUpTo \in Nat /\ last.cseq \in Nat
  BY EngineFields
<1> HIDE DEF g, k
<1>3. SameFlights(k, h)
  BY <1>1, <1>2 DEF SameFlights, Flying
<1> QED BY <1>3 DEF k

\* Steps of c that leave its connection and what it has sent alone.
LEMMA LinkAtRest ==
  ASSUME Types, NEW c \in Clients, LinkOf(c), epoch' = epoch, log' = log, conn'[c] = conn[c],
         up'[c] = up[c], down'[c] = down[c], engine'[c].epoch = engine[c].epoch,
         engine'[c].ready = engine[c].ready, engine'[c].conf = engine[c].conf,
         SameFlights(engine'[c], engine[c])
  PROVE  LinkOf(c)'
<1>1. Link(c, epoch, log, conn[c], up[c], down[c], engine'[c])
  BY LinkKept DEF LinkOf
<1> QED BY <1>1 DEF LinkOf

\* Steps that end its connection.
LEMMA LinkEnds ==
  ASSUME Types, NEW c \in Clients, LinkOf(c), epoch' = epoch, log' = log, conn'[c] = "off",
         \/ ~engine'[c].ready /\ engine'[c].epoch = 0
         \/ engine'[c].epoch = engine[c].epoch /\ engine'[c].ready = engine[c].ready
              /\ engine'[c].conf = engine[c].conf
  PROVE  LinkOf(c)'
<1>1. epoch \in Nat
  BY TypesAre DEF ServerTypes
<1>2. /\ engine'[c].epoch <= epoch
      /\ engine'[c].ready /\ engine'[c].epoch = epoch => Follows(engine'[c].conf, log)
  BY <1>1 DEF LinkOf, Link
<1>3. Link(c, epoch, log, "off", up'[c], down'[c], engine'[c])
  BY <1>2, LinkOff
<1> QED BY <1>3 DEF LinkOf

LEMMA LinkQuiet ==
  ASSUME Types, NEW c \in Clients, OrderOf(c), LinkOf(c),
         \/ Edit(c) \/ EditLocally(c) \/ FlushOffline(c) \/ Persist(c)
         \/ Disconnect(c) \/ CloseTab(c) \/ KillTab(c) \/ Reopen(c)
  PROVE  LinkOf(c)'
<1> DEFINE h == engine[c]
           s == Sealed(h)
<1>1. EngineOK(h) /\ (h.queued # <<>> => h.sentUpTo < h.next) /\ h.next \in Nat /\ h.sentUpTo \in Nat
  BY OrderFields, EngineFields DEF Numbering
<1>2. /\ SameFlights(s, h) /\ s.epoch = h.epoch /\ s.ready = h.ready /\ s.conf = h.conf
      /\ EngineOK(s) /\ s.sentUpTo = h.sentUpTo
  BY <1>1, SealedFlights, SealedOK
<1>3. CASE Edit(c)
  <2>1. /\ engine'[c].pending = h.pending /\ engine'[c].sentUpTo = h.sentUpTo
        /\ engine'[c].epoch = h.epoch /\ engine'[c].ready = h.ready /\ engine'[c].conf = h.conf
        /\ Alone(c) /\ conn'[c] = conn[c] /\ up'[c] = up[c] /\ down'[c] = down[c]
    BY <1>3, EditDoes
  <2>2. SameFlights(engine'[c], h)
    BY <2>1 DEF SameFlights, Flying
  <2> QED BY <2>1, <2>2, LinkAtRest DEF Alone
<1>4. CASE EditLocally(c)
  <2> DEFINE b == LocalEdit(s, <<c, made[c] + 1>>)
  <2>1. /\ engine'[c].pending = s.pending \cup {b} /\ b.localOnly /\ engine'[c].sentUpTo = s.sentUpTo
        /\ engine'[c].epoch = s.epoch /\ engine'[c].ready = s.ready /\ engine'[c].conf = s.conf
        /\ Alone(c) /\ conn'[c] = conn[c] /\ up'[c] = up[c] /\ down'[c] = down[c]
    BY <1>4, EditLocallyDoes
  <2> HIDE DEF b
  <2>2. SameFlights(engine'[c], s)
    BY <2>1 DEF SameFlights, Flying
  <2>3. SameFlights(engine'[c], h)
    BY <1>2, <2>2 DEF SameFlights
  <2> QED BY <1>2, <2>1, <2>3, LinkAtRest DEF Alone
<1>5. CASE FlushOffline(c)
  <2>1. /\ \/ engine'[c] = s
           \/ \E last \in h.pending : MayGrow(h, last) /\ engine'[c] = Coalesced(h, last)
        /\ Alone(c) /\ conn'[c] = conn[c] /\ up'[c] = up[c] /\ down'[c] = down[c]
    BY <1>5, FlushOfflineDoes
  <2>2. ASSUME NEW last \in h.pending, MayGrow(h, last)
        PROVE  LET k == Coalesced(h, last)
               IN  SameFlights(k, h) /\ k.epoch = h.epoch /\ k.ready = h.ready /\ k.conf = h.conf
    <3>1. last.cseq > h.sentUpTo
      BY <2>2 DEF MayGrow
    <3> QED BY <1>1, <3>1, CoalescedFlights, CoalescedOK
  <2>3. /\ SameFlights(engine'[c], h) /\ engine'[c].epoch = h.epoch
        /\ engine'[c].ready = h.ready /\ engine'[c].conf = h.conf
    BY <1>2, <2>1, <2>2
  <2> QED BY <2>1, <2>3, LinkAtRest DEF Alone
<1>6. CASE Persist(c)
  <2>1. /\ engine'[c] = s /\ Alone(c) /\ conn'[c] = conn[c] /\ up'[c] = up[c] /\ down'[c] = down[c]
    BY <1>6, PersistDoes
  <2> QED BY <1>2, <2>1, LinkAtRest DEF Alone
<1>7. CASE Disconnect(c)
  <2>1. /\ engine'[c].epoch = h.epoch /\ engine'[c].ready = h.ready /\ engine'[c].conf = h.conf
        /\ Alone(c) /\ conn'[c] = "off"
    BY <1>1, <1>7, DisconnectDoes, ResetOK
  <2> QED BY <2>1, LinkEnds DEF Alone
<1>8. CASE CloseTab(c) \/ KillTab(c)
  <2>1. engine'[c] = FreshEngine /\ Alone(c) /\ conn'[c] = "off"
    BY <1>8, CloseTabDoes, KillTabDoes
  <2> QED BY <2>1, FreshOK, LinkEnds DEF Alone
<1>9. CASE Reopen(c)
  <2>1. tab[c] = "closed" /\ engine'[c] = Restored(copy[c]) /\ Alone(c) /\ conn'[c] = conn[c]
    BY <1>9, ReopenDoes
  <2>2. conn[c] = "off"
    BY <2>1 DEF OrderOf, Greeted
  <2>3. CopyOK(copy[c]) /\ ~engine'[c].ready /\ engine'[c].epoch = 0
    BY <2>1, OrderFields, RestoredOK
  <2> QED BY <2>1, <2>2, <2>3, LinkEnds DEF Alone
<1> QED BY <1>3, <1>4, <1>5, <1>6, <1>7, <1>8, <1>9

LEMMA NoneWaits ==
  ASSUME NEW dn \in Seq(Messages), \A i \in DOMAIN dn : dn[i].type # "welcome"
  PROVE  ~Waits(dn)
<1> SUFFICES ASSUME dn # <<>>, Head(dn).type = "welcome" PROVE FALSE
  BY DEF Waits
<1>1. 1 \in DOMAIN dn /\ Head(dn) = dn[1]
  OBVIOUS
<1> QED BY <1>1

\* A flush: what leaves the engine g of c joins what has left.
LEMMA LinkSends ==
  ASSUME Types, NEW c \in Clients, NEW g, EngineOK(g), Unique(g, copy[c]), engine'[c] = Sent(g),
         Leaves(c, Outgoing(g)), log' = log, epoch' = epoch, conn'[c] = conn[c], conn[c] # "off",
         ~Waits(down'[c]), Link(c, epoch, log, conn[c], up[c], down'[c], g)
  PROVE  LinkOf(c)'
<1> DEFINE s == Sent(g)
           last == LastOf(log, c)
<1>1. s.epoch = g.epoch /\ s.ready = g.ready /\ s.conf = g.conf
  BY SentOK
<1>2. log \in Seq(Sequenced) /\ up[c] \in Seq(Unsynced) /\ last \in Nat /\ conn[c] \in {"off", "on", "dead"}
  BY TypesAre, LastOfOK DEF ServerTypes, TypesOf
<1>3. ASSUME conn[c] = "on" PROVE Flies(c, up'[c], down'[c], s, last)
  <2>1. Flies(c, up[c], down'[c], g, last)
    BY <1>3 DEF Link
  <2>2. PICK t \in Seq(Unsynced) :
          /\ up'[c] = up[c] \o t /\ Entries(t) = {Bare(b) : b \in Outgoing(g)}
          /\ \A i, j \in DOMAIN t : i < j => t[i].cseq <= t[j].cseq
          /\ \A i, j \in DOMAIN t : t[i] = t[j] => i = j
    BY <1>3 DEF Leaves
  <2>3. DOMAIN t = 1..Len(t)
    OBVIOUS
  <2> HIDE DEF s, last
  <2>4. Flies(c, up[c] \o t, down'[c], Sent(g), last)
    BY <1>2, <2>1, <2>2, <2>3, FliesSent
  <2> QED BY <2>2, <2>4 DEF s
<1> HIDE DEF s, last
<1>4. BaseOf(s.conf, down'[c]) = BaseOf(g.conf, down'[c]) /\ RoomOf(down'[c], s) = RoomOf(down'[c], g)
  BY <1>1 DEF BaseOf, RoomOf
<1>5. Link(c, epoch, log, conn[c], up'[c], down'[c], s)
  BY <1>1, <1>3, <1>4 DEF Link, last
<1> QED BY <1>5 DEF LinkOf, s

LEMMA LinkSealed ==
  ASSUME Types, NEW c \in Clients, OrderOf(c), LinkOf(c)
  PROVE  Link(c, epoch, log, conn[c], up[c], down[c], Sealed(engine[c]))
<1> DEFINE h == engine[c]
           s == Sealed(h)
<1>1. EngineOK(h) /\ (h.queued # <<>> => h.sentUpTo < h.next)
  BY OrderFields DEF Numbering
<1>2. SameFlights(s, h) /\ s.epoch = h.epoch /\ s.ready = h.ready /\ s.conf = h.conf
  BY <1>1, SealedFlights, SealedOK
<1> HIDE DEF s
<1>3. Link(c, epoch, log, conn[c], up[c], down[c], s)
  BY <1>2, LinkKept DEF LinkOf
<1> QED BY <1>3 DEF s

LEMMA LinkFlush ==
  ASSUME Types, NEW c \in Clients, OrderOf(c), Unique(engine[c], copy[c]), LinkOf(c), Flush(c)
  PROVE  LinkOf(c)'
<1> DEFINE h == engine[c]
           s == Sealed(h)
<1>1. EngineOK(h) /\ CopyOK(copy[c]) /\ Abroad(c) \in Away /\ Numbering(h, copy[c], Abroad(c))
  BY OrderFields
<1>2. EngineOK(s)
  BY <1>1, SealedOK
<1>3. /\ engine'[c] = Sent(s) /\ Leaves(c, Outgoing(s)) /\ Alone(c) /\ Online(c)
      /\ conn'[c] = conn[c] /\ down'[c] = down[c]
  BY FlushDoes
<1>4. conn[c] # "off" /\ ~Waits(down'[c])
  BY <1>3 DEF Online, Waits
<1>5. Unique(s, copy[c])
  BY <1>1, UniqueSealed
<1>6. Link(c, epoch, log, conn[c], up[c], down[c], s)
  BY LinkSealed
<1> QED BY <1>2, <1>3, <1>4, <1>5, <1>6, LinkSends DEF Alone

LEMMA LinkWelcomed ==
  ASSUME Types, NEW c \in Clients, OrderOf(c), LinkOf(c), ReceiveWelcome(c)
  PROVE  /\ Link(c, epoch, log, conn[c], up[c], Tail(down[c]), Welcomed(engine[c], c, Head(down[c])))
         /\ ~Waits(Tail(down[c])) /\ Waits(down[c])
<1> DEFINE h == engine[c]
           dn == down[c]
           m == Head(dn)
           w == Welcomed(h, c, m)
           last == LastOf(log, c)
           t == Tail(dn)
<1>1. /\ engine'[c] = Sent(w) /\ Leaves(c, Outgoing(w)) /\ Alone(c) /\ EngineOK(w)
      /\ conn'[c] = conn[c] /\ down'[c] = t /\ conn[c] # "off" /\ dn # <<>> /\ m.type = "welcome" /\ m \in Welcome
  BY ReceiveWelcomeDoes
<1>2. /\ EngineOK(h) /\ CopyOK(copy[c]) /\ Abroad(c) \in Away /\ Numbering(h, copy[c], Abroad(c))
  BY OrderFields
<1>3. /\ copy[c].next <= h.next /\ Numbering(w, copy[c], Abroad(c)) /\ Settles(Sealed(h), w, Abroad(c))
      /\ \A i \in DOMAIN t : t[i].type # "welcome"
  BY WelcomeTaken
<1>4. dn \in Seq(Messages) /\ t \in Seq(Messages) /\ last \in Nat /\ IsLog(log) /\ h.conf \in Seq(Sequenced)
      /\ epoch \in Nat /\ conn[c] \in {"off", "on", "dead"} /\ m.epoch \in Nat
  BY <1>1, <1>2, TypesAre, LastOfOK, EngineFields DEF ServerTypes, TypesOf, IsLog, Welcome
<1>5. Waits(dn) /\ ~Waits(t)
  BY <1>1, <1>3, <1>4, NoneWaits DEF Waits
<1>6. /\ w.ready /\ w.epoch = m.epoch /\ w.sentUpTo = m.cseq /\ w.conf = BaseOf(h.conf, dn)
      /\ \A p \in w.pending : p.cseq > m.cseq
  <2>1. EngineOK(h) /\ dn \in Seq(Messages) /\ Waits(dn)
    BY <1>2, <1>4, <1>5
  <2> HIDE DEF h, dn
  <2> QED BY ONLY <2>1, WelcomedGives
<1>7. w.conf \in Seq(Sequenced)
  BY <1>1, EngineFields
<1> HIDE DEF w, t, last, m
<1>9. Link(c, epoch, log, conn[c], up[c], dn, h)
  BY DEF LinkOf
<1> HIDE DEF h, dn
<1>10. RoomOf(dn, h) = m.epoch /\ RoomOf(t, w) = m.epoch /\ BaseOf(w.conf, t) = w.conf
  BY <1>5, <1>6 DEF RoomOf, BaseOf, m
<1>11. ASSUME conn[c] = "on"
       PROVE  Docs(w.conf, log, t) /\ Flies(c, up[c], t, w, last)
  <2>1. Docs(w.conf, log, dn) /\ Opened(c, up[c], dn, last)
    BY <1>5, <1>6, <1>9, <1>11 DEF Link, last
  <2>2. Docs(w.conf, log, t)
    BY <1>1, <1>4, <1>7, <2>1, DocsTail DEF t, m
  <2>3. m.cseq = last
    BY <2>1 DEF Opened, m
  <2>4. Flies(c, up[c], t, w, last)
    BY <1>1, <1>4, <1>6, <2>1, <2>3, FliesOpened DEF t
  <2> QED BY <2>2, <2>4
<1>12. w.ready /\ w.epoch = epoch => Follows(w.conf, log)
  <2>1. CASE conn[c] = "on"
    BY <1>11, <2>1 DEF Docs
  <2>2. CASE conn[c] = "dead"
    BY <1>4, <1>6, <1>9, <1>10, <2>2 DEF Link
  <2> QED BY <1>1, <1>4, <2>1, <2>2
<1>13. w.epoch <= epoch
  BY <1>1, <1>6, <1>9, <1>10 DEF Link
<1>14. Link(c, epoch, log, conn[c], up[c], t, w)
  BY <1>5, <1>9, <1>10, <1>11, <1>12, <1>13 DEF Link, last
<1> QED BY <1>5, <1>14 DEF h, dn, w, t, m

LEMMA LinkReceiveWelcome ==
  ASSUME Types, NEW c \in Clients, OrderOf(c), Unique(engine[c], copy[c]), LinkOf(c), ReceiveWelcome(c)
  PROVE  LinkOf(c)'
<1> DEFINE h == engine[c]
           m == Head(down[c])
           w == Welcomed(h, c, m)
<1>1. /\ engine'[c] = Sent(w) /\ Leaves(c, Outgoing(w)) /\ Alone(c) /\ EngineOK(w)
      /\ conn'[c] = conn[c] /\ down'[c] = Tail(down[c]) /\ conn[c] # "off"
  BY ReceiveWelcomeDoes
<1>2. EngineOK(h) /\ Abroad(c) \in Away /\ Numbering(h, copy[c], Abroad(c))
  BY OrderFields
<1>3. Numbering(w, copy[c], Abroad(c)) /\ Settles(Sealed(h), w, Abroad(c))
  BY WelcomeTaken
<1>4. Unique(w, copy[c])
  <2>1. Unique(Sealed(h), copy[c])
    BY <1>2, UniqueSealed
  <2> HIDE DEF w, h
  <2> QED BY <1>3, <2>1, UniqueSettles
<1>5. Link(c, epoch, log, conn[c], up[c], Tail(down[c]), w) /\ ~Waits(Tail(down[c]))
  BY LinkWelcomed
<1> HIDE DEF w
<1> QED BY <1>1, <1>4, <1>5, LinkSends DEF Alone

LEMMA LinkReceive ==
  ASSUME Types, NEW c \in Clients, OrderOf(c), LinkOf(c), Receive(c)
  PROVE  LinkOf(c)'
<1> DEFINE h == engine[c]
           dn == down[c]
           m == Head(dn)
           g == Received(h, c, m)
           last == LastOf(log, c)
           t == Tail(dn)
<1>1. /\ Alone(c) /\ conn[c] # "off" /\ dn # <<>> /\ m \in Messages /\ m.type # "welcome" /\ up'[c] = up[c]
      /\ \/ conn'[c] = "off" /\ engine'[c] = Reset(h)
         \/ conn'[c] = conn[c] /\ down'[c] = t /\ engine'[c] = g
  BY ReceiveDoes
<1>2. EngineOK(h) /\ EngineOK(g) /\ \A i \in DOMAIN t : t[i].type # "welcome"
  BY MessageTaken, OrderFields
<1>3. dn \in Seq(Messages) /\ t \in Seq(Messages) /\ last \in Nat /\ IsLog(log) /\ h.conf \in Seq(Sequenced)
      /\ epoch \in Nat /\ conn[c] \in {"off", "on", "dead"} /\ h.epoch \in Nat
  BY <1>1, <1>2, TypesAre, LastOfOK, EngineFields DEF ServerTypes, TypesOf, IsLog
<1>4. ~Waits(dn) /\ ~Waits(t)
  BY <1>1, <1>2, <1>3, NoneWaits DEF Waits
<1>5. CASE conn'[c] = "off" /\ engine'[c] = Reset(h)
  <2>1. Reset(h).epoch = h.epoch /\ Reset(h).ready = h.ready /\ Reset(h).conf = h.conf
    BY <1>2, ResetOK
  <2> QED BY <1>1, <1>5, <2>1, LinkEnds DEF Alone
<1>6. CASE conn'[c] = conn[c] /\ down'[c] = t /\ engine'[c] = g
  <2>1. g.epoch = h.epoch /\ g.ready = h.ready
    <3>1. CASE m.type = "batch" /\ ~IsNext(h, m.batch)
      <4>1. g = h
        BY <1>1, <1>2, <3>1, ReceivedOK
      <4> QED BY <4>1
    <3>2. CASE m.type = "batch" => IsNext(h, m.batch)
      BY <1>1, <1>2, <3>2, ReceivedFlying
    <3> QED BY <3>1, <3>2
  <2>2. Link(c, epoch, log, conn[c], up[c], dn, h)
    BY DEF LinkOf
  <2> HIDE DEF h, dn, t, g, last, m
  <2>3. RoomOf(dn, h) = h.epoch /\ RoomOf(t, g) = h.epoch /\ BaseOf(h.conf, dn) = h.conf /\ BaseOf(g.conf, t) = g.conf
    BY <1>4, <2>1 DEF RoomOf, BaseOf
  <2>4. ASSUME conn[c] = "on"
        PROVE  Docs(g.conf, log, t) /\ Flies(c, up[c], t, g, last)
    <3>1. Docs(h.conf, log, dn) /\ Flies(c, up[c], dn, h, last)
      BY <1>4, <2>2, <2>3, <2>4 DEF Link, last
    <3>2. m.type = "batch" => m.batch.seq = Len(h.conf) + 1 /\ Docs(h.conf \o <<m.batch>>, log, t)
      BY <1>1, <1>3, <3>1, DocsNext DEF m, t
    <3>3. m.type # "batch" => Docs(h.conf, log, t)
      BY <1>1, <1>3, <3>1, DocsTail DEF m, t
    <3>4. m.type = "batch" => IsNext(h, m.batch)
      BY <3>2 DEF IsNext
    <3>5. /\ g.sentUpTo = h.sentUpTo
          /\ g.conf = IF m.type = "batch" THEN h.conf \o <<m.batch>> ELSE h.conf
          /\ \A n \in Nat : Flying(g, n) <=> Flying(h, n) /\ ~Answers(m, c, n)
      BY <1>1, <1>2, <3>4, ReceivedFlying DEF g
    <3>6. Flies(c, up[c], t, g, last)
      BY <1>1, <1>3, <3>1, <3>5, FliesHeard DEF m, t
    <3> QED BY <3>2, <3>3, <3>5, <3>6
  <2>5. g.ready /\ g.epoch = epoch => Follows(g.conf, log)
    <3>1. CASE conn[c] = "on"
      BY <2>4, <3>1 DEF Docs
    <3>2. CASE conn[c] = "dead"
      BY <1>3, <2>1, <2>2, <2>3, <3>2 DEF Link
    <3> QED BY <1>1, <1>3, <3>1, <3>2
  <2>6. Link(c, epoch, log, conn[c], up[c], t, g)
    BY <1>4, <2>1, <2>2, <2>3, <2>4, <2>5 DEF Link, last
  <2> QED BY <1>1, <1>6, <2>6 DEF LinkOf, Alone
<1> QED BY <1>1, <1>5, <1>6

\* The welcome of a connection brings the client to the log of the room.
LEMMA JoinsLog ==
  ASSUME Types, NEW c \in Clients, LinkOf(c)
  PROVE  BaseOf(engine[c].conf, <<Greeting(c)>>) = log
<1> DEFINE h == engine[c]
           g == Greeting(c)
           dn == <<g>>
<1>2. IsLog(log) /\ log \in Seq(Sequenced) /\ epoch \in Nat /\ Len(log) \in Nat
      /\ h.conf \in Seq(Sequenced) /\ Len(h.conf) \in Nat /\ h.epoch \in Nat
  BY TypesAre, EngineFields DEF ServerTypes, TypesOf, IsLog
<1>3. Waits(dn) /\ Head(dn) = g /\ g.type = "welcome"
  BY <1>2 DEF Waits, Greeting
<1>5. BaseOf(h.conf, dn) = log
  <2>1. CASE CanCatchUp(h)
    <3> DEFINE s == SubSeq(log, Len(h.conf) + 1, Len(log))
    <3>1. h.ready /\ h.epoch = epoch /\ Len(h.conf) <= Len(log)
      BY <2>1 DEF CanCatchUp
    <3>2. Follows(h.conf, log)
      BY <3>1 DEF LinkOf, Link
    <3>3. ~g.snapshot /\ g.batches = s
      BY <2>1 DEF Greeting
    <3>4. Len(h.conf) + 1 \in Nat \ {0} /\ Len(log) \in 0..Len(log)
      BY <1>2
    <3>5. /\ s \in Seq(Sequenced)
          /\ Len(s) = IF Len(h.conf) + 1 <= Len(log) THEN Len(log) - (Len(h.conf) + 1) + 1 ELSE 0
          /\ \A i \in 1 .. Len(log) - (Len(h.conf) + 1) + 1 : s[i] = log[Len(h.conf) + 1 + i - 1]
      <4> DEFINE a == Len(h.conf) + 1
                 n == Len(log)
      <4>1. log \in Seq(Sequenced) /\ a \in Nat \ {0} /\ n \in 0..Len(log)
        BY <1>2, <3>4
      <4> HIDE DEF a, n
      <4>2. /\ SubSeq(log, a, n) \in Seq(Sequenced)
            /\ Len(SubSeq(log, a, n)) = IF a <= n THEN n - a + 1 ELSE 0
            /\ \A i \in 1 .. n - a + 1 : SubSeq(log, a, n)[i] = log[a + i - 1]
        BY ONLY <4>1, EntriesSubSeq
      <4> QED BY ONLY <4>2 DEF a, n, s
    <3>6. Len(s) = Len(log) - Len(h.conf) /\ \A i \in 1 .. Len(log) - Len(h.conf) : s[i] = log[Len(h.conf) + i]
      <4> DEFINE k == Len(h.conf)
                 n == Len(log)
      <4>1. k \in Nat /\ n \in Nat /\ k <= n
        BY <1>2, <3>1
      <4>0. /\ Len(s) = IF k + 1 <= n THEN n - (k + 1) + 1 ELSE 0
            /\ \A i \in 1 .. n - (k + 1) + 1 : s[i] = log[k + 1 + i - 1]
        BY ONLY <3>5
      <4> HIDE DEF k, n, s
      <4>2. n - (k + 1) + 1 = n - k /\ \A i \in 1 .. n - k : k + 1 + i - 1 = k + i
        BY <4>1
      <4>3. Len(s) = n - k
        BY ONLY <4>0, <4>1, <4>2
      <4>4. ASSUME NEW i \in 1 .. n - k PROVE s[i] = log[k + i]
        <5>1. s[i] = log[k + 1 + i - 1]
          BY ONLY <4>0, <4>2, <4>4
        <5> QED BY ONLY <4>2, <4>4, <5>1
      <4> QED BY ONLY <4>3, <4>4 DEF k, n
    <3> HIDE DEF s, h
    <3>7. h.conf \o s = log
      <4> DEFINE a == h.conf \o s
      <4>1. /\ a \in Seq(Sequenced) /\ Len(a) = Len(log)
            /\ \A i \in 1..Len(a) : a[i] = IF i <= Len(h.conf) THEN h.conf[i] ELSE s[i - Len(h.conf)]
        BY <1>2, <3>1, <3>5, <3>6
      <4> HIDE DEF a
      <4>2. ASSUME NEW i \in 1..Len(log) PROVE a[i] = log[i]
        <5>1. CASE i <= Len(h.conf)
          BY <1>2, <3>2, <4>1, <5>1 DEF Follows
        <5>2. CASE ~(i <= Len(h.conf))
          <6>1. i - Len(h.conf) \in 1 .. Len(log) - Len(h.conf) /\ Len(h.conf) + (i - Len(h.conf)) = i
            BY <1>2, <5>2
          <6>2. s[i - Len(h.conf)] = log[Len(h.conf) + (i - Len(h.conf))]
            BY <3>6, <6>1
          <6> QED BY <4>1, <5>2, <6>1, <6>2
        <5> QED BY <5>1, <5>2
      <4>3. a = log
        BY <1>2, <4>1, <4>2
      <4> QED BY <4>3 DEF a
    <3> QED BY <1>3, <3>3, <3>7 DEF BaseOf
  <2>2. CASE ~CanCatchUp(h)
    <3>1. g.snapshot /\ g.batches = SubSeq(log, 0 + 1, Len(log))
      BY <2>2 DEF Greeting
    <3>2. SubSeq(log, 0 + 1, Len(log)) = log
      BY <1>2
    <3> QED BY <1>3, <3>1, <3>2 DEF BaseOf
  <2> QED BY <2>1, <2>2
<1> QED BY <1>5

LEMMA LinkJoin ==
  ASSUME Types, NEW c \in Clients, LinkOf(c), Join(c)
  PROVE  LinkOf(c)'
<1> DEFINE h == engine[c]
           g == Greeting(c)
           dn == <<g>>
           last == LastOf(log, c)
<1>1. /\ Alone(c) /\ g \in Welcome /\ conn'[c] = "on" /\ up'[c] = <<>> /\ down'[c] = dn /\ engine'[c] = h
  BY JoinDoes
<1>2. IsLog(log) /\ log \in Seq(Sequenced) /\ epoch \in Nat /\ Len(log) \in Nat
      /\ h.conf \in Seq(Sequenced) /\ Len(h.conf) \in Nat /\ h.epoch \in Nat
  BY TypesAre, EngineFields DEF ServerTypes, TypesOf, IsLog
<1>3. Waits(dn) /\ Head(dn) = g /\ g.epoch = epoch /\ g.cseq = last /\ g.type = "welcome"
  BY <1>2, LastSeqIs DEF Waits, Greeting
<1>4. Entries(dn) = {g} /\ Len(dn) = 1 /\ dn[1] = g
  BY DEF Entries
<1>5. BaseOf(h.conf, dn) = log
  BY JoinsLog
<1>6. Docs(log, log, dn)
  BY <1>2, <1>3, <1>4 DEF Docs, Follows
<1>7. Opened(c, <<>>, dn, last)
  BY <1>3, <1>4 DEF Opened, Comes, Answers
<1>8. h.epoch <= epoch /\ (h.ready /\ h.epoch = epoch => Follows(h.conf, log))
  BY DEF LinkOf, Link
<1> HIDE DEF h, g, dn
<1>9. Link(c, epoch, log, "on", <<>>, dn, h)
  BY <1>2, <1>3, <1>5, <1>6, <1>7, <1>8 DEF Link, RoomOf, last
<1> QED BY <1>1, <1>9 DEF LinkOf, Alone

\* What the room's log gains is no client's news of the document it had.
LEMMA FollowsGrown ==
  ASSUME NEW s \in Seq(Sequenced), NEW lg \in Seq(Sequenced), NEW b \in Sequenced, Follows(s, lg)
  PROVE  Follows(s, Append(lg, b))
<1>1. Len(s) \in Nat /\ Len(lg) \in Nat /\ Len(Append(lg, b)) = Len(lg) + 1
      /\ \A q \in 1..Len(lg) : Append(lg, b)[q] = lg[q]
  OBVIOUS
<1> QED BY <1>1 DEF Follows

\* The room tells c something that is no batch, and answers nothing of c.
LEMMA LinkTold ==
  ASSUME Types, NEW d \in Clients, LinkOf(d), log' = log, epoch' = epoch, conn'[d] = conn[d],
         up'[d] = up[d], engine'[d] = engine[d], NEW m \in Messages, m.type # "batch", m.type # "welcome",
         \A n \in Nat : ~Answers(m, d, n), conn[d] # "off",
         down'[d] = Append(down[d], m)
  PROVE  LinkOf(d)'
<1> DEFINE h == engine[d]
           dn == down[d]
           t == Append(dn, m)
           last == LastOf(log, d)
<1>1. dn \in Seq(Messages) /\ IsLog(log) /\ EngineOK(h) /\ h.conf \in Seq(Sequenced)
  BY TypesAre, EngineFields DEF ServerTypes, TypesOf, IsLog
<1>2. (Waits(t) <=> Waits(dn)) /\ (Waits(dn) => Head(t) = Head(dn))
  BY <1>1 DEF Waits
<1>3. RoomOf(t, h) = RoomOf(dn, h) /\ BaseOf(h.conf, t) = BaseOf(h.conf, dn)
  BY <1>2 DEF RoomOf, BaseOf
<1>4. BaseOf(h.conf, dn) \in Seq(Sequenced)
  <2>1. CASE Waits(dn)
    <3>1. Head(dn) \in Welcome
      BY <1>1, <2>1, EntriesTail, MessageKinds DEF Waits
    <3>2. Head(dn).batches \in Seq(Sequenced)
      BY <3>1 DEF Welcome
    <3> QED BY <1>1, <3>2 DEF BaseOf
  <2>2. CASE ~Waits(dn)
    BY <1>1, <2>2 DEF BaseOf
  <2> QED BY <2>1, <2>2
<1>5. Link(d, epoch, log, conn[d], up[d], dn, h)
  BY DEF LinkOf
<1> HIDE DEF h, dn, last
<1>6. Docs(BaseOf(h.conf, dn), log, dn) => Docs(BaseOf(h.conf, dn), log, t)
  BY <1>1, <1>4, DocsTold
<1>7. /\ Flies(d, up[d], dn, h, last) => Flies(d, up[d], t, h, last)
      /\ Waits(dn) /\ Opened(d, up[d], dn, last) => Opened(d, up[d], t, last)
  BY <1>1, FliesTold
<1> HIDE DEF t
<1>8. Link(d, epoch, log, conn[d], up[d], t, h)
  BY <1>2, <1>3, <1>5, <1>6, <1>7 DEF Link, last
<1> QED BY <1>8 DEF LinkOf, t, h, dn

\* A client that is not on an open connection hears nothing of what happens.
LEMMA LinkDeaf ==
  ASSUME Types, NEW d \in Clients, LinkOf(d), epoch' = epoch, conn'[d] = conn[d], conn[d] # "on",
         down'[d] = down[d], engine'[d] = engine[d],
         NEW b \in Sequenced, log' = log \/ log' = Append(log, b)
  PROVE  LinkOf(d)'
<1>1. log \in Seq(Sequenced) /\ engine[d].conf \in Seq(Sequenced)
  BY TypesAre, EngineFields DEF ServerTypes, TypesOf
<1>2. Follows(engine[d].conf, log) => Follows(engine[d].conf, log')
  BY <1>1, FollowsGrown
<1> QED BY <1>2 DEF LinkOf, Link

LEMMA LinkStill ==
  ASSUME NEW d \in Clients, LinkOf(d), log' = log, epoch' = epoch, conn'[d] = conn[d], up'[d] = up[d],
         down'[d] = down[d], engine'[d] = engine[d]
  PROVE  LinkOf(d)'
BY DEF LinkOf

LEMMA WaitsAppend ==
  ASSUME NEW dn \in Seq(Messages), NEW m \in Messages, m.type # "welcome"
  PROVE  (Waits(Append(dn, m)) <=> Waits(dn)) /\ (Waits(dn) => Head(Append(dn, m)) = Head(dn))
BY DEF Waits

\* The room accepts a batch b and tells d of it: d's own, the first on its
\* way, or another client's.
LEMMA LinkGrown ==
  ASSUME Types, NEW d \in Clients, LinkOf(d), epoch' = epoch, conn[d] = "on", conn'[d] = conn[d],
         engine'[d] = engine[d], NEW b \in Sequenced, b.seq = Len(log) + 1,
         log' = Append(log, b), down'[d] = Append(down[d], [type |-> "batch", batch |-> b]),
         \/ b.client # d /\ up'[d] = up[d]
         \/ b.client = d /\ up[d] # <<>> /\ b.cseq = Head(up[d]).cseq /\ up'[d] = Tail(up[d])
  PROVE  LinkOf(d)'
<1> DEFINE h == engine[d]
           dn == down[d]
           m == [type |-> "batch", batch |-> b]
           t == Append(dn, m)
           last == LastOf(log, d)
           new == LastOf(log', d)
<1>1. /\ dn \in Seq(Messages) /\ IsLog(log) /\ log \in Seq(Sequenced) /\ EngineOK(h) /\ h.conf \in Seq(Sequenced)
      /\ up[d] \in Seq(Unsynced) /\ last \in Nat
  <2>1. /\ dn \in Seq(Messages) /\ log \in Seq(Sequenced) /\ EngineOK(h) /\ up[d] \in Seq(Unsynced) /\ IsLog(log)
    BY TypesAre DEF ServerTypes, TypesOf, IsLog
  <2> QED BY <2>1, EngineFields, LastOfOK
<1>2. m \in Messages /\ m.type = "batch" /\ m.batch = b
  BY MessagesMade
<1> HIDE DEF m
<1>3. (Waits(t) <=> Waits(dn)) /\ (Waits(dn) => Head(t) = Head(dn))
  <2>1. m.type # "welcome"
    BY <1>2
  <2> QED BY <1>1, <1>2, <2>1, WaitsAppend
<1>4. RoomOf(t, h) = RoomOf(dn, h) /\ BaseOf(h.conf, t) = BaseOf(h.conf, dn)
  BY <1>3 DEF RoomOf, BaseOf
<1>5. BaseOf(h.conf, dn) \in Seq(Sequenced)
  <2>1. CASE Waits(dn)
    <3>1. Head(dn) \in Welcome
      BY <1>1, <2>1, EntriesTail, MessageKinds DEF Waits
    <3>2. Head(dn).batches \in Seq(Sequenced)
      BY <3>1 DEF Welcome
    <3> QED BY <1>1, <3>2 DEF BaseOf
  <2>2. CASE ~Waits(dn)
    BY <1>1, <2>2 DEF BaseOf
  <2> QED BY <2>1, <2>2
<1>6. Follows(h.conf, log) => Follows(h.conf, log')
  BY <1>1, FollowsGrown
<1>7. Link(d, epoch, log, "on", up[d], dn, h)
  BY DEF LinkOf
<1> HIDE DEF h, dn
<1>8. Docs(BaseOf(h.conf, dn), log', t)
  <2>1. Docs(BaseOf(h.conf, dn), log, dn)
    BY <1>7 DEF Link
  <2> QED BY <1>1, <1>5, <2>1, DocsGrown DEF m
<1>9. IF Waits(dn) THEN Opened(d, up[d], dn, last) ELSE Flies(d, up[d], dn, h, last)
  BY <1>7 DEF Link
<1>10. IF Waits(t) THEN Opened(d, up'[d], t, new) ELSE Flies(d, up'[d], t, h, new)
  <2>1. CASE b.client # d /\ up'[d] = up[d]
    <3>1. new = last
      BY <1>1, <2>1, LastOfAppend
    <3>2. \A n \in Nat : ~Answers(m, d, n)
      BY <1>2, <2>1 DEF Answers
    <3>3. /\ Flies(d, up[d], dn, h, last) => Flies(d, up[d], t, h, last)
          /\ Waits(dn) /\ Opened(d, up[d], dn, last) => Opened(d, up[d], t, last)
      BY <1>1, <1>2, <3>2, FliesTold
    <3> HIDE DEF t, new, last
    <3> QED BY <1>3, <1>9, <2>1, <3>1, <3>3
  <2>2. CASE b.client = d /\ up[d] # <<>> /\ b.cseq = Head(up[d]).cseq /\ up'[d] = Tail(up[d])
    <3>1. ~Waits(dn) /\ Flies(d, up[d], dn, h, last)
      BY <1>9, <2>2 DEF Opened
    <3>2. \A n \in Nat : Answers(m, d, n) <=> n = Head(up[d]).cseq
      BY <1>2, <2>2 DEF Answers
    <3>3. \A k \in {last, Head(up[d]).cseq} :
            Head(up[d]).cseq > last /\ Flies(d, Tail(up[d]), Append(dn, m), h, k)
      <4> HIDE DEF last
      <4>1. /\ up[d] \in Seq(Unsynced) /\ up[d] # <<>> /\ dn \in Seq(Messages) /\ m \in Messages
            /\ EngineOK(h) /\ last \in Nat /\ Flies(d, up[d], dn, h, last)
        BY <1>1, <1>2, <2>2, <3>1
      <4> QED BY ONLY <3>2, <4>1, FliesTaken
    <3>4. new = b.cseq
      BY <1>1, <2>2, <3>3, LastOfAppend
    <3>5. Flies(d, Tail(up[d]), Append(dn, m), h, Head(up[d]).cseq)
      BY <3>3
    <3> HIDE DEF new
    <3> QED BY <1>3, <2>2, <3>1, <3>4, <3>5
  <2> QED BY <2>1, <2>2
<1> HIDE DEF t, new
<1>11. Link(d, epoch, log', "on", up'[d], t, h)
  BY <1>4, <1>6, <1>7, <1>8, <1>10 DEF Link, new
<1> QED BY <1>2, <1>11 DEF LinkOf, t, h, dn, m

\* The room refuses the first batch on its way from c.
LEMMA LinkRefused ==
  ASSUME Types, NEW c \in Clients, LinkOf(c), epoch' = epoch, log' = log, conn[c] = "on", conn'[c] = conn[c],
         engine'[c] = engine[c], up[c] # <<>>, up'[c] = Tail(up[c]),
         NEW m \in Messages, m.type = "reject", m.cseq = Head(up[c]).cseq, down'[c] = Append(down[c], m)
  PROVE  LinkOf(c)'
<1> DEFINE h == engine[c]
           dn == down[c]
           t == Append(dn, m)
           last == LastOf(log, c)
<1>1. /\ dn \in Seq(Messages) /\ IsLog(log) /\ EngineOK(h) /\ h.conf \in Seq(Sequenced)
      /\ up[c] \in Seq(Unsynced) /\ last \in Nat
  BY TypesAre, EngineFields, LastOfOK DEF ServerTypes, TypesOf, IsLog
<1>2. Link(c, epoch, log, "on", up[c], dn, h)
  BY DEF LinkOf
<1>3. ~Waits(dn) /\ Docs(h.conf, log, dn) /\ Flies(c, up[c], dn, h, last)
  BY <1>2 DEF Link, Opened, BaseOf
<1>4. ~Waits(t)
  BY <1>1, <1>3 DEF Waits
<1> HIDE DEF h, dn, last
<1>5. Docs(h.conf, log, t)
  BY <1>1, <1>3, DocsTold
<1>6. \A n \in Nat : Answers(m, c, n) <=> n = Head(up[c]).cseq
  BY DEF Answers
<1>7. \A k \in {last, Head(up[c]).cseq} : Flies(c, Tail(up[c]), t, h, k)
  BY <1>1, <1>3, <1>6, FliesTaken
<1>8. Flies(c, Tail(up[c]), t, h, last)
  BY <1>7
<1> HIDE DEF t
<1>9. Link(c, epoch, log, "on", Tail(up[c]), t, h)
  BY <1>2, <1>3, <1>4, <1>5, <1>8 DEF Link, RoomOf, BaseOf, last
<1> QED BY <1>9 DEF LinkOf, t, h, dn

LEMMA LinkHandleBatch ==
  ASSUME Types, NEW c \in Clients, HandleBatch(c), NEW d \in Clients, LinkOf(d)
  PROVE  LinkOf(d)'
<1> DEFINE x == Head(up[c])
           b == Accepted(c, log, x)
<1>1. /\ Types' /\ up[c] # <<>> /\ x \in Unsynced /\ up'[d] = (IF d = c THEN Tail(up[d]) ELSE up[d])
      /\ TakenAsDuplicate(c, x) \/ TakenAsRejected(c, x) \/ TakenAsApplied(c, x)
      /\ conn'[d] = conn[d] /\ engine'[d] = engine[d]
  BY HandleBatchDoes
<1>2. /\ log \in Seq(Sequenced) /\ LastSeq(c) = LastOf(log, c) /\ LastOf(log, c) \in Nat
      /\ up[c] \in Seq(Unsynced) /\ x.cseq \in Nat /\ x \in Entries(up[c])
  BY <1>1, TypesAre, LastSeqIs, LastOfOK, EntriesTail DEF ServerTypes, TypesOf, Unsynced
<1>3. b \in Sequenced /\ b.seq = Len(log) + 1 /\ b.client = c /\ b.cseq = x.cseq
  BY <1>1, <1>2, AcceptedOK DEF Accepted
<1>4. epoch' = epoch
  BY <1>1 DEF TakenAsDuplicate, TakenAsRejected, TakenAsApplied, server
<1> HIDE DEF x, b
<1>5. CASE conn[d] # "on"
  <2>1. down'[d] = down[d]
    BY <1>1, <1>5 DEF TakenAsDuplicate, TakenAsRejected, TakenAsApplied
  <2>2. log' = log \/ log' = Append(log, b)
    BY <1>1 DEF TakenAsDuplicate, TakenAsRejected, TakenAsApplied, server, b
  <2> QED BY <1>1, <1>3, <1>4, <1>5, <2>1, <2>2, LinkDeaf
<1>6. CASE conn[d] = "on" /\ d # c
  <2>1. CASE TakenAsDuplicate(c, x) \/ TakenAsRejected(c, x)
    <3>1. down'[d] = down[d] /\ log' = log
      BY <1>6, <2>1 DEF TakenAsDuplicate, TakenAsRejected, server
    <3> QED BY <1>1, <1>4, <1>6, <3>1, LinkStill
  <2>2. CASE TakenAsApplied(c, x)
    <3>1. down'[d] = Append(down[d], [type |-> "batch", batch |-> b]) /\ log' = Append(log, b)
      BY <1>6, <2>2 DEF TakenAsApplied, b
    <3>2. b.client # d /\ up'[d] = up[d]
      BY <1>1, <1>3, <1>6
    <3> QED BY <1>1, <1>3, <1>4, <1>6, <3>1, <3>2, LinkGrown
  <2> QED BY <1>1, <2>1, <2>2
<1>7. CASE conn[d] = "on" /\ d = c
  <2>1. x.cseq > LastOf(log, c)
    <3>1. ~Waits(down[c]) /\ Flies(c, up[c], down[c], engine[c], LastOf(log, c))
      BY <1>1, <1>7 DEF LinkOf, Link, Opened
    <3> QED BY <1>2, <3>1 DEF Flies
  <2>2. ~TakenAsDuplicate(c, x)
    BY <1>2, <2>1 DEF TakenAsDuplicate
  <2>3. CASE TakenAsRejected(c, x)
    <3> DEFINE m == [type |-> "reject", cseq |-> x.cseq]
    <3>1. down'[d] = Append(down[d], m) /\ log' = log
      BY <1>7, <2>3 DEF TakenAsRejected, server
    <3>2. m \in Messages /\ m.type = "reject" /\ m.cseq = Head(up[c]).cseq
      BY <1>2, MessagesMade DEF x
    <3>3. up'[d] = Tail(up[d]) /\ up[d] # <<>>
      BY <1>1, <1>7
    <3> HIDE DEF m
    <3> QED BY <1>1, <1>4, <1>7, <3>1, <3>2, <3>3, LinkRefused
  <2>4. CASE TakenAsApplied(c, x)
    <3>1. down'[d] = Append(down[d], [type |-> "batch", batch |-> b]) /\ log' = Append(log, b)
      BY <1>7, <2>4 DEF TakenAsApplied, b
    <3>2. b.client = d /\ up[d] # <<>> /\ b.cseq = Head(up[d]).cseq /\ up'[d] = Tail(up[d])
      BY <1>1, <1>3, <1>7 DEF x
    <3> QED BY <1>1, <1>3, <1>4, <1>7, <3>1, <3>2, LinkGrown
  <2> QED BY <1>1, <2>2, <2>3, <2>4
<1> QED BY <1>5, <1>6, <1>7

LEMMA LinkMarkDurable ==
  ASSUME Types, MarkDurable, NEW d \in Clients, LinkOf(d)
  PROVE  LinkOf(d)'
<1> DEFINE m == [type |-> "durable", seq |-> durable']
<1>1. /\ log' = log /\ epoch' = epoch /\ durable' \in durable + 1 .. Len(log)
      /\ down'[d] = IF conn[d] = "on" THEN Append(down[d], m) ELSE down[d]
      /\ conn'[d] = conn[d] /\ up'[d] = up[d] /\ engine'[d] = engine[d]
  BY MarkDurableDoes
<1>2. m \in Messages /\ m.type = "durable"
  <2>1. durable' \in Nat
    BY <1>1, TypesAre DEF ServerTypes
  <2> QED BY <2>1, MessagesMade
<1>3. \A n \in Nat : ~Answers(m, d, n)
  BY DEF Answers
<1> HIDE DEF m
<1>4. m.type # "batch" /\ m.type # "welcome"
  BY <1>2
<1>5. CASE conn[d] = "on"
  <2>1. down'[d] = Append(down[d], m)
    BY <1>1, <1>5
  <2> QED BY <1>1, <1>2, <1>3, <1>4, <1>5, <2>1, LinkTold
<1>6. CASE conn[d] # "on"
  BY <1>1, <1>6, LinkStill
<1> QED BY <1>5, <1>6

LEMMA LinkRestart ==
  ASSUME Types, Restart, NEW d \in Clients, LinkOf(d)
  PROVE  LinkOf(d)'
<1>1. /\ epoch' = epoch + 1 /\ conn'[d] = (IF conn[d] = "on" THEN "dead" ELSE conn[d])
      /\ down'[d] = down[d] /\ engine'[d] = engine[d] /\ epoch \in Nat /\ conn[d] \in {"off", "on", "dead"}
  BY RestartDoes, TypesAre DEF ServerTypes, TypesOf
<1>2. engine[d].epoch \in Nat /\ RoomOf(down[d], engine[d]) \in Nat
  <2>1. engine[d].epoch \in Nat /\ down[d] \in Seq(Messages)
    BY TypesAre, EngineFields DEF TypesOf
  <2>2. Waits(down[d]) => Head(down[d]) \in Welcome
    BY <2>1, EntriesTail, MessageKinds DEF Waits
  <2> QED BY <2>1, <2>2 DEF RoomOf, Welcome
<1> QED BY <1>1, <1>2 DEF LinkOf, Link

LEMMA LinkClient ==
  ASSUME Types, NEW c \in Clients, OrderOf(c), Unique(engine[c], copy[c]), LinkOf(c), Client(c) \/ Join(c)
  PROVE  LinkOf(c)'
BY LinkQuiet, LinkFlush, LinkReceiveWelcome, LinkReceive, LinkJoin DEF Client

LEMMA LinkStep ==
  ASSUME Types, OrderInv, UniqueInv, LinkInv, [Next]_vars
  PROVE  LinkInv'
<1>1. CASE UNCHANGED vars
  <2>1. \A d \in Clients : LinkOf(d)'
    BY <1>1, LinkStill DEF vars, server, wires, LinkInv
  <2> QED BY <2>1 DEF LinkInv
<1>2. CASE Next
  <2>1. ASSUME NEW c \in Clients, Client(c) \/ Join(c), NEW d \in Clients PROVE LinkOf(d)'
    <3>1. CASE d = c
      BY <2>1, <3>1, LinkClient DEF OrderInv, UniqueInv, LinkInv
    <3>2. CASE d # c
      BY <2>1, <3>2, ClientAlone, LinkStill DEF Alone, Still, LinkInv
    <3> QED BY <3>1, <3>2
  <2>2. ASSUME NEW c \in Clients, HandleBatch(c), NEW d \in Clients PROVE LinkOf(d)'
    BY <2>2, LinkHandleBatch DEF LinkInv
  <2>3. ASSUME MarkDurable \/ Restart, NEW d \in Clients PROVE LinkOf(d)'
    BY <2>3, LinkMarkDurable, LinkRestart DEF LinkInv
  <2> QED BY <1>2, <2>1, <2>2, <2>3 DEF Next, LinkInv
<1> QED BY <1>1, <1>2

LEMMA InitLink == Init => UniqueInv /\ LinkInv
<1> SUFFICES ASSUME Init, NEW c \in Clients PROVE Unique(engine[c], copy[c]) /\ LinkOf(c)
  BY DEF UniqueInv, LinkInv
<1>1. engine[c] = FreshEngine /\ copy[c] = NoCopy /\ conn[c] = "off" /\ epoch = 1
  BY DEF Init
<1>2. Unique(engine[c], copy[c])
  BY <1>1, FreshOK DEF Unique
<1>3. LinkOf(c)
  BY <1>1, FreshOK DEF LinkOf, Link
<1> QED BY <1>2, <1>3

\* What StatesAgree says of an open connection.
LEMMA LinkGives ==
  ASSUME Types, NEW c \in Clients, Greeted(c), LinkOf(c), conn[c] = "on"
  PROVE  DocumentsMeet(c) /\ FlightsMeet(c)
<1> DEFINE h == engine[c]
           dn == down[c]
           last == LastOf(log, c)
<1>1. /\ dn \in Seq(Messages) /\ IsLog(log) /\ log \in Seq(Sequenced) /\ EngineOK(h) /\ h.conf \in Seq(Sequenced)
      /\ up[c] \in Seq(Unsynced) /\ last \in Nat /\ LastSeq(c) = last
  BY TypesAre, EngineFields, LastOfOK, LastSeqIs DEF ServerTypes, TypesOf, IsLog
<1>2. WelcomeWaits(c) <=> Waits(dn)
  BY DEF WelcomeWaits, Waits
<1>3. Base(c) = BaseOf(h.conf, dn) /\ Base(c) \in Seq(Sequenced)
  <2>1. Base(c) = BaseOf(h.conf, dn)
    BY <1>2 DEF Base, BaseOf
  <2>2. CASE Waits(dn)
    <3>1. Head(dn) \in Welcome
      BY <1>1, <2>2, EntriesTail, MessageKinds DEF Waits
    <3>2. Head(dn).batches \in Seq(Sequenced)
      BY <3>1 DEF Welcome
    <3> QED BY <1>1, <2>1, <3>2 DEF BaseOf
  <2>3. CASE ~Waits(dn)
    BY <1>1, <2>1, <2>3 DEF BaseOf
  <2> QED BY <2>1, <2>2, <2>3
<1>4. /\ DOMAIN Base(c) = 1..Len(Base(c)) /\ DOMAIN dn = 1..Len(dn) /\ DOMAIN up[c] = 1..Len(up[c])
  BY <1>1, <1>3
<1>5. Docs(Base(c), log, dn)
  BY <1>3 DEF LinkOf, Link
<1>6. DocumentsMeet(c)
  BY <1>4, <1>5 DEF Docs, Follows, DocumentsMeet
<1>7. \A n : AnswerComes(c, n) <=> Comes(c, dn, n)
  BY DEF AnswerComes, Comes, Answers
<1>8. CASE Waits(dn)
  <2>1. up[c] = <<>>
    BY <1>8 DEF LinkOf, Link, Opened
  <2>2. Entries(up[c]) = {} /\ DOMAIN up[c] = {}
    BY <2>1 DEF Entries
  <2> QED BY <1>2, <1>6, <1>8, <2>1, <2>2 DEF FlightsMeet
<1>9. CASE ~Waits(dn)
  <2>1. Flies(c, up[c], dn, h, last)
    BY <1>9 DEF LinkOf, Link
  <2>2. \A p \in h.pending : p.cseq \in Nat
    BY <1>1, EngineFields
  <2>3. \A b \in Entries(up[c]) : b.cseq \in Nat
    <3>1. Entries(up[c]) \subseteq Unsynced
      BY <1>1, EntriesAre
    <3> QED BY <3>1 DEF Unsynced
  <2> DEFINE F == {b.cseq : b \in {p \in UpTo(NotLocal(h.pending), h.sentUpTo) : ~AnswerComes(c, p.cseq)}}
             U == {b.cseq : b \in Entries(up[c])}
  <2>4. \A n \in Nat : n \in U <=> Leaving(up[c], n)
    BY DEF Leaving
  <2>5. \A n \in Nat : n \in F <=> Flying(h, n) /\ ~Comes(c, dn, n)
    BY <1>7 DEF Flying, UpTo, NotLocal
  <2>6. U \subseteq Nat /\ F \subseteq Nat
    BY <2>2, <2>3 DEF UpTo, NotLocal
  <2> HIDE DEF U, F
  <2>7. U = F
    BY <2>1, <2>4, <2>5, <2>6 DEF Flies
  <2>8. /\ \A i, j \in DOMAIN up[c] : i < j => up[c][i].cseq < up[c][j].cseq
        /\ \A b \in Entries(up[c]) : b.cseq > LastSeq(c)
    BY <1>1, <1>4, <2>1 DEF Flies
  <2> QED BY <1>2, <1>6, <1>9, <2>7, <2>8 DEF FlightsMeet, U, F
<1> QED BY <1>8, <1>9

\* Once a connection is welcomed and its messages are read, the client holds the
\* log of the room exactly, and what it takes for sent and unanswered is on its
\* way up or is answered: a catch-up or a snapshot of join (room.ts) leaves no
\* hole and no remainder of the room an earlier server had.
THEOREM BothEndsAgree ==
  ASSUME "stale" \notin Situations
  PROVE  Spec => []StatesAgree
<1> DEFINE I == Types /\ OrderInv /\ UniqueInv /\ LinkInv
<1>1. Init => I
  BY InitTypes, InitOrder, InitLink
<1>2. I /\ [Next]_vars => I'
  BY TypesStep, OrderStep, UniqueStep, LinkStep
<1>3. I => StatesAgree
  <2> SUFFICES ASSUME I PROVE TypeOK /\ ConnectionAgrees
    BY DEF StatesAgree
  <2>1. ASSUME NEW c \in Clients, conn[c] = "on" PROVE DocumentsMeet(c) /\ FlightsMeet(c)
    BY <2>1, LinkGives DEF OrderInv, OrderOf, LinkInv
  <2> QED BY <2>1 DEF Types, ConnectionAgrees
<1> QED BY <1>1, <1>2, <1>3, PTL DEF Spec

=============================================================================
