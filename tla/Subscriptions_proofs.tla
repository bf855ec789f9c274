------------------------ MODULE Subscriptions_proofs ------------------------
(***************************************************************************)
(* Proofs about Subscriptions, for any number of calls, requests, changes  *)
(* at Stripe, failures and restarts, when Stripe changes no subscription a  *)
(* call is about to write or to cancel, and refuses no cancellation.        *)
(*                                                                          *)
(* One call at a time creates, the head of the queue of the customer.  The  *)
(* first subscription is the trial, and another one is opened only once     *)
(* every earlier one has ended.  A row that is behind has an event that     *)
(* nobody has answered and nobody is about to.                              *)
(***************************************************************************)
EXTENDS Subscriptions, WellFoundedInduction, FiniteSetTheorems, TLAPS

\* What a call says of its steps and of what it works on.
Typed(k) ==
  /\ k \in CallType
  /\ k.op = "start" => k.at \in {"lock", "replace", "write"} /\ k.event = 0
  /\ k.op = "activate" => /\ k.at \in {"lock", "create", "write"} /\ k.setup \in DOMAIN setups
                          /\ k.event # 0 => k.event \in DOMAIN events /\ events[k.event].about = "setup"
  /\ k.op = "sync" => /\ k.at \in {"retrieve", "write", "mail"} /\ k.id \in DOMAIN subs
                      /\ k.event # 0 => /\ k.event \in DOMAIN events
                                        /\ events[k.event].about = "subscription"
                                        /\ events[k.event].id = k.id
  /\ k.op = "cancel" => k.at \in {"find", "ask", "write"} /\ k.event = 0
  /\ k.at = "mail" => k.event # 0
  /\ k.at \in {"write", "ask"} => k.id \in DOMAIN subs
  /\ k.attempts \subseteq DOMAIN subs

EventOK(e) ==
  /\ events[e].about = "subscription" => events[e].id \in DOMAIN subs
  /\ events[e].about = "setup" => events[e].id \in DOMAIN setups

Types ==
  /\ TypeOK
  /\ \A c \in Active : Typed(calls[c])
  /\ \A e \in DOMAIN events : EventOK(e)

\* Who is in the queue, and who works under the lock.
Locking(k) == k.op \in {"start", "activate"}
Inside(k)  == Locking(k) /\ k.at # "lock"

Lock ==
  /\ \A i, j \in DOMAIN queue : queue[i] = queue[j] => i = j
  /\ \A c \in Calls : Locking(calls[c]) <=> \E j \in DOMAIN queue : queue[j] = c
  /\ \A c \in Calls : Inside(calls[c]) => Holds(c)

\* What a call under the lock relies on: of those it has not cancelled, all
\* are attempts it knows; or there was never any.
Relies(k) ==
  /\ k.op = "start" /\ k.at = "replace" =>
       /\ k.read # <<>> => subs # <<>>
       /\ \A i \in DOMAIN subs :
            subs[i].status # "ended" => subs[i].status = "incomplete" /\ i \in k.attempts
  /\ k.op = "activate" /\ k.at = "create" => subs = <<>>

Opened ==
  /\ \A i, j \in DOMAIN subs : i # j => subs[i].status = "ended" \/ subs[j].status = "ended"
  /\ \A i \in DOMAIN subs : subs[i].trial <=> i = 1
  /\ \A c \in Active : Relies(calls[c])

\* A row is up to date, or an event is still to be answered that will write it.
Pending(e, i) ==
  /\ events[e].about = "subscription" /\ events[e].id = i
  /\ ~events[e].acked /\ e \notin processed
  /\ \A c \in Active : calls[c].at = "mail" => calls[c].event # e

Rows ==
  /\ \A i \in DOMAIN subs :
       \/ i \in DOMAIN copy /\ copy[i] = Columns(subs[i])
       \/ \E e \in DOMAIN events : Pending(e, i)
  /\ \A c \in Active : calls[c].at = "write" => calls[c].read = <<subs[calls[c].id]>>

\* The e-mails of an event, and those the calls that handle it may still send.
Excused(e) == events[e].overlaps + events[e].unheard + spent.crashes
MailsOf(e) ==
  /\ events[e].mails + Cardinality(Handling(e)) <= 1 + Excused(e)
  /\ e \notin processed => events[e].mails <= Excused(e)
Mails == \A e \in DOMAIN events : MailsOf(e)

IInv == Types /\ Lock /\ Opened /\ Rows /\ Mails
Usual == "overtaken" \notin Situations /\ "uncancelled" \notin Situations
-----------------------------------------------------------------------------
(* What a step keeps of each part                                          *)

EventType ==
  [about: {"subscription", "setup"}, id: Nat, canceling: BOOLEAN, acked: BOOLEAN,
   mails: Nat, unheard: Nat, overlaps: Nat]
History(event) == <<event.mails, event.overlaps, event.unheard>>
SpentType == [{"asks", "changes", "faults", "crashes"} -> Nat]

LEMMA SpendIs ==
  ASSUME spent \in SpentType, NEW kind \in {"asks", "changes", "faults", "crashes"}, NEW max,
         Spend(kind, max)
  PROVE  /\ spent' \in SpentType
         /\ kind # "crashes" => spent'.crashes = spent.crashes
         /\ kind = "crashes" => spent'.crashes = spent.crashes + 1
BY DEF Spend, SpentType

\* A call is none, or a record of CallType.
LEMMA ActiveIs ==
  ASSUME Types, NEW c \in Calls
  PROVE  /\ c \in Active => calls[c] \in CallType /\ Typed(calls[c])
         /\ c \notin Active => calls[c] = NoCall
         /\ NoCall.op = "none"
<1>1. calls[c] \in {NoCall} \cup CallType BY DEF Types, TypeOK
<1>2. NoCall.op = "none" BY DEF NoCall
<1>3. ASSUME calls[c] \in CallType PROVE calls[c].op # "none" BY <1>3 DEF CallType
<1>4. QED BY <1>1, <1>2, <1>3 DEF Active, Types

\* Nothing at Stripe disappears, and an event keeps what it is about.
Grow ==
  /\ DOMAIN subs \subseteq DOMAIN subs' /\ DOMAIN setups \subseteq DOMAIN setups'
  /\ DOMAIN events \subseteq DOMAIN events'
  /\ \A e \in DOMAIN events : events'[e].about = events[e].about /\ events'[e].id = events[e].id

LEMMA TypesKept ==
  ASSUME Types, Grow, TypeOK',
         \A d \in Calls : calls'[d] \in {calls[d], NoCall} \/ Typed(calls[d])',
         \A e \in DOMAIN events' \ DOMAIN events : EventOK(e)'
  PROVE  Types'
<1>1. ASSUME NEW d \in Active' PROVE Typed(calls[d])'
  <2>1. d \in Calls /\ calls'[d].op # "none" BY DEF Active
  <2>2. CASE calls'[d] = calls[d]
    <3>1. Typed(calls[d]) BY <2>1, <2>2 DEF Types, Active
    <3>2. QED BY <2>2, <3>1 DEF Typed, Grow
  <2>3. CASE calls'[d] = NoCall BY <2>1, <2>3 DEF NoCall
  <2>4. QED BY <2>1, <2>2, <2>3
<1>2. ASSUME NEW e \in DOMAIN events' PROVE EventOK(e)'
  <2>1. CASE e \in DOMAIN events
    <3>1. EventOK(e) BY <2>1 DEF Types
    <3>2. QED BY <2>1, <3>1 DEF EventOK, Grow
  <2>2. QED BY <2>1
<1>3. QED BY <1>1, <1>2 DEF Types

LEMMA LockSame ==
  ASSUME Lock, queue' = queue,
         \A c \in Calls : Locking(calls'[c]) <=> Locking(calls[c]),
         \A c \in Calls : Inside(calls'[c]) => Inside(calls[c]) \/ Holds(c)
  PROVE  Lock'
BY DEF Lock, Holds, Inside, Locking

LEMMA LockLeave ==
  ASSUME Types, Lock, NEW c \in Active, Leave(c), calls[c].at = "lock" => Holds(c)
  PROVE  Lock'
<1>1. /\ c \in Calls /\ queue \in Seq(Calls) /\ calls' = [calls EXCEPT ![c] = NoCall]
      /\ calls \in [Calls -> {NoCall} \cup CallType]
  BY DEF Active, Leave, Types, TypeOK
<1>2. ~Locking(calls'[c]) /\ \A d \in Calls \ {c} : calls'[d] = calls[d]
  BY <1>1 DEF Locking, NoCall
<1>3. CASE Holds(c)
  <2>1. /\ queue # <<>> /\ queue[1] = c /\ queue' = Tail(queue)
        /\ Len(queue') = Len(queue) - 1
        /\ \A j \in 1..Len(queue') : queue'[j] = queue[j + 1]
    BY <1>1, <1>3 DEF Holds, Leave
  <2>2. \A i, j \in DOMAIN queue : queue[i] = queue[j] => i = j BY DEF Lock
  <2>3. \A i, j \in DOMAIN queue' : queue'[i] = queue'[j] => i = j
    BY <1>1, <2>1, <2>2
  <2>4. ASSUME NEW d \in Calls
        PROVE  (\E j \in DOMAIN queue' : queue'[j] = d) <=> d # c /\ \E j \in DOMAIN queue : queue[j] = d
    <3>1. ASSUME NEW j \in DOMAIN queue' PROVE queue'[j] # c /\ \E i \in DOMAIN queue : queue[i] = queue'[j]
      <4>1. /\ j + 1 \in DOMAIN queue /\ 1 \in DOMAIN queue /\ j + 1 # 1
            /\ queue'[j] = queue[j + 1]
        BY <1>1, <2>1
      <4>2. QED BY <2>1, <2>2, <4>1
    <3>2. ASSUME NEW i \in DOMAIN queue, queue[i] # c PROVE \E j \in DOMAIN queue' : queue'[j] = queue[i]
      <4>1. i - 1 \in DOMAIN queue' /\ queue'[i - 1] = queue[i] BY <1>1, <2>1, <3>2
      <4>2. QED BY <4>1
    <3>3. QED BY <3>1, <3>2
  <2>5. \A d \in Calls : Locking(calls'[d]) <=> \E j \in DOMAIN queue' : queue'[j] = d
    BY <1>2, <2>4 DEF Lock
  <2>6. \A d \in Calls : ~Inside(calls'[d])
    BY <1>2, <2>1 DEF Lock, Inside, Holds
  <2>7. QED BY <2>3, <2>5, <2>6 DEF Lock, Locking, Inside
<1>4. CASE ~Holds(c)
  <2>1. queue' = queue BY <1>4 DEF Leave, Holds
  <2>2. ~Locking(calls[c]) BY <1>1, <1>4 DEF Lock, Inside
  <2>3. QED BY <1>2, <2>1, <2>2, LockSame DEF Inside
<1>5. QED BY <1>3, <1>4

LEMMA LockEnter ==
  ASSUME Types, Lock, NEW c \in Calls, NEW k, Enter(c, k), Locking(k) <=> k.at = "lock"
  PROVE  Lock'
<1>1. /\ queue \in Seq(Calls) /\ calls' = [calls EXCEPT ![c] = k] /\ calls[c].op = "none"
      /\ calls \in [Calls -> {NoCall} \cup CallType]
  BY DEF Enter, Types, TypeOK
<1>2. /\ calls'[c] = k /\ \A d \in Calls \ {c} : calls'[d] = calls[d]
      /\ ~Locking(calls[c])
  BY <1>1 DEF Locking
<1>3. CASE k.at = "lock"
  <2>1. /\ queue' = Append(queue, c) /\ Len(queue') = Len(queue) + 1 /\ queue'[Len(queue')] = c
        /\ \A j \in 1..Len(queue) : queue'[j] = queue[j]
        /\ DOMAIN queue' = 1..(Len(queue) + 1) /\ DOMAIN queue = 1..Len(queue) /\ Len(queue) \in Nat
    BY <1>1, <1>3 DEF Enter
  <2>2. \A j \in DOMAIN queue : queue[j] # c BY <1>2 DEF Lock
  <2>3. \A i, j \in DOMAIN queue' : queue'[i] = queue'[j] => i = j
    BY <2>1, <2>2 DEF Lock
  <2>4. ASSUME NEW d \in Calls
        PROVE  Locking(calls'[d]) <=> \E j \in DOMAIN queue' : queue'[j] = d
    <3>1. CASE d = c BY <1>2, <1>3, <2>1, <3>1
    <3>2. CASE d # c
      <4>1. (\E j \in DOMAIN queue' : queue'[j] = d) <=> \E j \in DOMAIN queue : queue[j] = d
        BY <2>1, <3>2
      <4>2. QED BY <1>2, <3>2, <4>1 DEF Lock
    <3>3. QED BY <3>1, <3>2
  <2>5. ASSUME NEW d \in Calls, Inside(calls'[d]) PROVE queue' # <<>> /\ Head(queue') = d
    <3>1. d # c BY <1>2, <1>3, <2>5 DEF Inside
    <3>2. queue # <<>> /\ Head(queue) = d BY <1>2, <2>5, <3>1 DEF Lock, Holds
    <3>3. Len(queue) >= 1 /\ queue[1] = d BY <1>1, <3>2
    <3>4. queue' \in Seq(Calls) /\ queue'[1] = d /\ Len(queue') > 0 BY <1>1, <2>1, <3>3
    <3>5. QED BY <3>4
  <2>6. QED BY <2>3, <2>4, <2>5 DEF Lock, Holds, Inside, Locking
<1>4. CASE k.at # "lock"
  <2>1. queue' = queue BY <1>4 DEF Enter
  <2>2. QED BY <1>2, <1>4, <2>1, LockSame DEF Inside
<1>5. QED BY <1>3, <1>4
-----------------------------------------------------------------------------
(* What is open at Stripe                                                  *)

LEMMA OpenedSame ==
  ASSUME Opened, subs' = subs,
         \A d \in Calls : calls'[d] \in {calls[d], NoCall} \/ Relies(calls[d])'
  PROVE  Opened'
<1>1. ASSUME NEW d \in Active' PROVE Relies(calls[d])'
  <2>1. d \in Calls /\ calls'[d].op # "none" BY DEF Active
  <2>2. CASE calls'[d] = calls[d] BY <2>1, <2>2 DEF Opened, Active, Relies
  <2>3. CASE calls'[d] = NoCall BY <2>1, <2>3 DEF NoCall
  <2>4. QED BY <2>1, <2>2, <2>3
<1>2. QED BY <1>1 DEF Opened

\* A subscription changes, and nothing that had ended starts again.
LEMMA OpenedChanged ==
  ASSUME Types, Opened, NEW i \in DOMAIN subs, NEW new \in Subscription,
         subs' = [subs EXCEPT ![i] = new],
         new.trial = subs[i].trial, subs[i].status = "ended" => new.status = "ended",
         \A d \in Calls : calls'[d] \in {calls[d], NoCall} \/ Relies(calls[d])',
         \/ new.status \in {"ended", subs[i].status}
         \/ \A d \in Active : ~(calls[d].op = "start" /\ calls[d].at = "replace")
  PROVE  Opened'
<1>1. /\ subs \in Seq(Subscription) /\ DOMAIN subs' = DOMAIN subs /\ subs # <<>>
      /\ \A j \in DOMAIN subs : subs'[j] = IF j = i THEN new ELSE subs[j]
  BY DEF Types, TypeOK
<1>2. ASSUME NEW d \in Active' PROVE Relies(calls[d])'
  <2>1. d \in Calls /\ calls'[d].op # "none" BY DEF Active
  <2>2. CASE calls'[d] = calls[d]
    <3>1. d \in Active /\ Relies(calls[d]) BY <2>1, <2>2 DEF Opened, Active
    <3>2. subs' # <<>> BY <1>1
    <3>3. CASE calls[d].op = "start" /\ calls[d].at = "replace"
      <4>1. new.status \in {"ended", subs[i].status} BY <3>1, <3>3
      <4>2. ASSUME NEW j \in DOMAIN subs', subs'[j].status # "ended"
            PROVE  subs'[j].status = "incomplete" /\ j \in calls[d].attempts
        BY <1>1, <3>1, <3>3, <4>1, <4>2 DEF Relies
      <4>3. QED BY <2>2, <3>2, <3>3, <4>2 DEF Relies
    <3>4. CASE ~(calls[d].op = "start" /\ calls[d].at = "replace")
      BY <1>1, <2>2, <3>1, <3>4 DEF Relies
    <3>5. QED BY <3>3, <3>4
  <2>3. CASE calls'[d] = NoCall BY <2>1, <2>3 DEF NoCall
  <2>4. QED BY <2>1, <2>2, <2>3
<1>3. \A j, k \in DOMAIN subs' : j # k => subs'[j].status = "ended" \/ subs'[k].status = "ended"
  BY <1>1 DEF Opened
<1>4. \A j \in DOMAIN subs' : subs'[j].trial <=> j = 1
  BY <1>1 DEF Opened
<1>5. QED BY <1>2, <1>3, <1>4 DEF Opened

\* A subscription is opened, by the call that has the lock.
LEMMA OpenedCreated ==
  ASSUME Types, Opened, NEW new \in Subscription, subs' = Append(subs, new),
         \A j \in DOMAIN subs : subs[j].status = "ended",
         new.trial <=> subs = <<>>,
         \A d \in Active' : Relies(calls[d])'
  PROVE  Opened'
<1>1. /\ subs \in Seq(Subscription) /\ Len(subs) \in Nat
      /\ DOMAIN subs = 1..Len(subs) /\ DOMAIN subs' = 1..(Len(subs) + 1)
      /\ \A j \in DOMAIN subs : subs'[j] = subs[j]
      /\ subs'[Len(subs) + 1] = new
  BY DEF Types, TypeOK
<1>2. subs = <<>> <=> Len(subs) = 0 BY <1>1
<1>3. \A j, k \in DOMAIN subs' : j # k => subs'[j].status = "ended" \/ subs'[k].status = "ended"
  BY <1>1
<1>4. ASSUME NEW j \in DOMAIN subs' PROVE subs'[j].trial <=> j = 1
  <2>1. CASE j \in DOMAIN subs BY <1>1, <2>1 DEF Opened
  <2>2. CASE j = Len(subs) + 1 BY <1>1, <1>2, <2>2
  <2>3. QED BY <1>1, <2>1, <2>2
<1>5. QED BY <1>3, <1>4 DEF Opened

\* The call that works under the lock is alone.
LEMMA AloneInside ==
  ASSUME Lock, NEW c \in Calls, NEW d \in Calls, Inside(calls[c]), Inside(calls[d])
  PROVE  c = d
BY DEF Lock, Holds

LEMMA RelyingInside ==
  ASSUME NEW k, ~Inside(k)
  PROVE  Relies(k)
BY DEF Relies, Inside, Locking
-----------------------------------------------------------------------------
(* Rows and events                                                         *)

LEMMA PendingKept ==
  ASSUME NEW e, NEW i, Pending(e, i),
         events'[e].about = events[e].about, events'[e].id = events[e].id,
         events'[e].acked = events[e].acked, e \notin processed' \ processed,
         \A d \in Calls : \/ calls'[d] = calls[d]
                          \/ calls'[d].op = "none" \/ calls'[d].at # "mail"
  PROVE  Pending(e, i)'
BY DEF Pending, Active

\* What a call is about to write is what Stripe says.
LEMMA WritesKept ==
  ASSUME Types, Rows,
         \A i \in DOMAIN subs :
           subs'[i] = subs[i]
             \/ ~\E d \in Active : calls[d].at = "write" /\ calls[d].id = i /\ calls'[d] = calls[d],
         \A d \in Calls :
           \/ calls'[d] \in {calls[d], NoCall}
           \/ calls'[d].at = "write" => calls'[d].read = <<subs'[calls'[d].id]>>
  PROVE  \A d \in Active' : calls'[d].at = "write" => calls'[d].read = <<subs'[calls'[d].id]>>
<1>1. SUFFICES ASSUME NEW d \in Active', calls'[d].at = "write"
               PROVE  calls'[d].read = <<subs'[calls'[d].id]>>
  OBVIOUS
<1>2. d \in Calls /\ calls'[d].op # "none" BY DEF Active
<1>3. CASE calls'[d] = calls[d]
  <2>1. d \in Active /\ calls[d].at = "write" BY <1>1, <1>2, <1>3 DEF Active
  <2>2. calls[d].id \in DOMAIN subs /\ calls[d].read = <<subs[calls[d].id]>>
    BY <2>1 DEF Types, Typed, Rows
  <2>3. subs'[calls[d].id] = subs[calls[d].id] BY <1>3, <2>1, <2>2
  <2>4. QED BY <1>3, <2>2, <2>3
<1>4. CASE calls'[d] = NoCall BY <1>2, <1>4 DEF NoCall
<1>5. QED BY <1>1, <1>2, <1>3, <1>4

\* Nothing changes at Stripe nor in the rows, and no event of a subscription
\* is answered.
LEMMA RowsSame ==
  ASSUME Types, Rows, subs' = subs, copy' = copy, DOMAIN events \subseteq DOMAIN events',
         \A e \in DOMAIN events, i \in DOMAIN subs : Pending(e, i) => Pending(e, i)',
         \A d \in Calls :
           \/ calls'[d] \in {calls[d], NoCall}
           \/ calls'[d].at = "write" => calls'[d].read = <<subs'[calls'[d].id]>>
  PROVE  Rows'
<1>1. \A d \in Active' : calls'[d].at = "write" => calls'[d].read = <<subs'[calls'[d].id]>>
  BY WritesKept
<1>2. ASSUME NEW i \in DOMAIN subs'
      PROVE  \/ i \in DOMAIN copy' /\ copy'[i] = Columns(subs'[i])
             \/ \E e \in DOMAIN events' : Pending(e, i)'
  <2>1. CASE i \in DOMAIN copy /\ copy[i] = Columns(subs[i]) BY <2>1
  <2>2. CASE \E e \in DOMAIN events : Pending(e, i)
    <3>1. PICK e \in DOMAIN events : Pending(e, i) BY <2>2
    <3>2. Pending(e, i)' BY <3>1
    <3>3. QED BY <3>2
  <2>3. QED BY <2>1, <2>2 DEF Rows
<1>3. QED BY <1>1, <1>2 DEF Rows

\* Stripe changes subscription i, and tells it by an event nobody has had.
LEMMA ChangeIs ==
  ASSUME Types, NEW i \in DOMAIN subs, NEW new \in Subscription, Change(i, new)
  PROVE  /\ subs' \in Seq(Subscription) /\ DOMAIN subs' = DOMAIN subs
         /\ \A j \in DOMAIN subs : subs'[j] = IF j = i THEN new ELSE subs[j]
         /\ events' \in Seq(EventType) /\ DOMAIN events \subseteq DOMAIN events'
         /\ \A e \in DOMAIN events : events'[e] = events[e]
         /\ \A e \in DOMAIN events' \ DOMAIN events :
              e = Len(events) + 1 /\ events'[e].id = i /\ History(events'[e]) = <<0, 0, 0>>
                /\ events'[e].about = "subscription" /\ ~events'[e].acked
         /\ Len(events) + 1 \in DOMAIN events' \ DOMAIN events
<1>1. /\ subs \in Seq(Subscription) /\ events \in Seq(EventType)
      /\ \A j \in DOMAIN subs : subs[j] \in Subscription
      /\ DOMAIN subs \subseteq Nat
  BY DEF Types, TypeOK, EventType
<1>2. Event("subscription", i, ~subs[i].canceling /\ new.canceling) \in EventType
  BY <1>1 DEF Event, EventType, Subscription
<1>3. subs' \in Seq(Subscription) /\ DOMAIN subs' = DOMAIN subs
  BY <1>1 DEF Change
<1>4. \A j \in DOMAIN subs : subs'[j] = IF j = i THEN new ELSE subs[j]
  BY <1>1 DEF Change
<1>5. QED BY <1>1, <1>2, <1>3, <1>4 DEF Change, Event, History

\* Stripe opens a subscription.
LEMMA CreatedIs ==
  ASSUME Types, NEW new \in Subscription, Created(new)
  PROVE  /\ subs' \in Seq(Subscription) /\ DOMAIN subs \subseteq DOMAIN subs'
         /\ Len(subs) + 1 \in DOMAIN subs' /\ subs'[Len(subs) + 1] = new
         /\ \A j \in DOMAIN subs : subs'[j] = subs[j]
         /\ \A j \in DOMAIN subs' : j \in DOMAIN subs \/ j = Len(subs) + 1
         /\ Len(subs) + 1 \in Nat \ {0}
         /\ events' \in Seq(EventType) /\ DOMAIN events \subseteq DOMAIN events'
         /\ \A e \in DOMAIN events : events'[e] = events[e]
         /\ \A e \in DOMAIN events' \ DOMAIN events :
              e = Len(events) + 1 /\ events'[e].id = Len(subs) + 1 /\ History(events'[e]) = <<0, 0, 0>>
                /\ events'[e].about = "subscription" /\ ~events'[e].acked
         /\ Len(events) + 1 \in DOMAIN events' \ DOMAIN events
<1>1. subs \in Seq(Subscription) /\ events \in Seq(EventType) /\ Len(subs) \in Nat
  BY DEF Types, TypeOK, EventType
<1>2. Event("subscription", Len(subs) + 1, FALSE) \in EventType
  BY <1>1 DEF Event, EventType
<1>3. QED BY <1>1, <1>2 DEF Created, Event, History

\* The event that is not in the list yet is pending once it is.
LEMMA NewEventPending ==
  ASSUME Types, NEW e, e \notin DOMAIN events, NEW i,
         events'[e].about = "subscription", events'[e].id = i, ~events'[e].acked,
         processed' = processed,
         \A d \in Calls : calls'[d] = calls[d] \/ calls'[d].op = "none" \/ calls'[d].at # "mail"
  PROVE  Pending(e, i)'
<1>1. e \notin processed BY DEF Types, TypeOK
<1>2. ASSUME NEW d \in Active', calls'[d].at = "mail" PROVE calls'[d].event # e
  <2>1. d \in Calls /\ calls'[d].op # "none" /\ calls'[d] = calls[d] BY <1>2 DEF Active
  <2>2. d \in Active BY <2>1 DEF Active
  <2>3. Typed(calls[d]) /\ calls[d].op \in {"start", "activate", "sync", "cancel"}
    BY <2>1, <2>2, ActiveIs DEF CallType
  <2>4. calls[d].op = "sync" /\ calls[d].event \in DOMAIN events
    BY <1>2, <2>1, <2>3 DEF Typed
  <2>5. QED BY <2>1, <2>4
<1>3. QED BY <1>1, <1>2 DEF Pending

LEMMA RowsChanged ==
  ASSUME Types, Rows, NEW i \in DOMAIN subs, NEW new \in Subscription, Change(i, new),
         copy' = copy, processed' = processed,
         ~ToWrite(i),
         \A d \in Calls :
           \/ calls'[d] = calls[d]
           \/ calls'[d].at # "mail" /\ (calls'[d].at = "write" => calls'[d].read = <<subs'[calls'[d].id]>>)
  PROVE  Rows'
<1>1. \A d \in Active' : calls'[d].at = "write" => calls'[d].read = <<subs'[calls'[d].id]>>
  BY WritesKept, ChangeIs DEF ToWrite
<1>2. \A d \in Calls : calls'[d] = calls[d] \/ calls'[d].op = "none" \/ calls'[d].at # "mail"
  OBVIOUS
<1>3. ASSUME NEW j \in DOMAIN subs'
      PROVE  \/ j \in DOMAIN copy' /\ copy'[j] = Columns(subs'[j])
             \/ \E e \in DOMAIN events' : Pending(e, j)'
  <2>0. j \in DOMAIN subs BY ChangeIs
  <2>1. CASE j = i
    <3>1. PICK e \in DOMAIN events' \ DOMAIN events : e = Len(events) + 1 BY ChangeIs
    <3>2. Pending(e, i)' BY <3>1, <1>2, ChangeIs, NewEventPending
    <3>3. QED BY <2>1, <3>1, <3>2
  <2>2. CASE j # i /\ j \in DOMAIN copy /\ copy[j] = Columns(subs[j])
    <3>1. subs'[j] = subs[j] BY <2>0, <2>2, ChangeIs
    <3>2. QED BY <2>2, <3>1
  <2>3. CASE \E e \in DOMAIN events : Pending(e, j)
    <3>1. PICK e \in DOMAIN events : Pending(e, j) BY <2>3
    <3>2. Pending(e, j)' BY <1>2, <3>1, ChangeIs, PendingKept
    <3>3. QED BY <3>1, <3>2, ChangeIs
  <2>4. QED BY <2>0, <2>1, <2>2, <2>3 DEF Rows
<1>4. QED BY <1>1, <1>3 DEF Rows

LEMMA RowsCreated ==
  ASSUME Types, Rows, NEW new \in Subscription, Created(new),
         copy' = copy, processed' = processed,
         \A d \in Calls :
           \/ calls'[d] = calls[d]
           \/ calls'[d].at # "mail" /\ (calls'[d].at = "write" => calls'[d].read = <<subs'[calls'[d].id]>>)
  PROVE  Rows'
<1>1. \A d \in Active' : calls'[d].at = "write" => calls'[d].read = <<subs'[calls'[d].id]>>
  BY WritesKept, CreatedIs
<1>2. \A d \in Calls : calls'[d] = calls[d] \/ calls'[d].op = "none" \/ calls'[d].at # "mail"
  OBVIOUS
<1>3. ASSUME NEW j \in DOMAIN subs'
      PROVE  \/ j \in DOMAIN copy' /\ copy'[j] = Columns(subs'[j])
             \/ \E e \in DOMAIN events' : Pending(e, j)'
  <2>1. CASE j = Len(subs) + 1
    <3>1. PICK e \in DOMAIN events' \ DOMAIN events : e = Len(events) + 1 BY CreatedIs
    <3>2. Pending(e, j)' BY <2>1, <3>1, <1>2, CreatedIs, NewEventPending
    <3>3. QED BY <3>1, <3>2
  <2>2. CASE j \in DOMAIN subs /\ j \in DOMAIN copy /\ copy[j] = Columns(subs[j])
    <3>1. subs'[j] = subs[j] BY <2>2, CreatedIs
    <3>2. QED BY <2>2, <3>1
  <2>3. CASE \E e \in DOMAIN events : Pending(e, j)
    <3>1. PICK e \in DOMAIN events : Pending(e, j) BY <2>3
    <3>2. Pending(e, j)' BY <1>2, <3>1, CreatedIs, PendingKept
    <3>3. QED BY <3>1, <3>2, CreatedIs
  <2>4. QED BY <2>1, <2>2, <2>3, CreatedIs DEF Rows
<1>4. QED BY <1>1, <1>3 DEF Rows
-----------------------------------------------------------------------------
(* E-mails                                                                 *)

\* The calls that handle an event are as many as a subset of Calls has.
LEMMA Few ==
  ASSUME NEW S \in SUBSET Calls
  PROVE  IsFiniteSet(S) /\ Cardinality(S) \in Nat
BY SubscriptionsAssumption, FS_Subset, FS_CardinalityType

LEMMA HandlingIs ==
  ASSUME NEW e
  PROVE  Handling(e) \in SUBSET Calls /\ (Handling(e) \in SUBSET Calls)'
BY DEF Handling, Active

LEMMA HistoryIs ==
  ASSUME NEW event \in EventType
  PROVE  event.mails \in Nat /\ event.overlaps \in Nat /\ event.unheard \in Nat
BY DEF EventType

\* What is said of one event depends on its history, on the calls that handle
\* it and on whether it was marked.
LEMMA MailsOfKept ==
  ASSUME NEW e, MailsOf(e), events[e] \in EventType, spent \in SpentType,
         History(events'[e]) = History(events[e]),
         (Handling(e))' \subseteq Handling(e),
         e \in processed => e \in processed',
         spent'.crashes = spent.crashes
  PROVE  MailsOf(e)'
<1>1. /\ events'[e].mails = events[e].mails /\ events'[e].overlaps = events[e].overlaps
      /\ events'[e].unheard = events[e].unheard
  BY DEF History
<1>2. /\ events[e].mails \in Nat /\ events[e].overlaps \in Nat /\ events[e].unheard \in Nat
      /\ spent.crashes \in Nat
  BY HistoryIs DEF SpentType
<1>3. /\ Cardinality((Handling(e))') <= Cardinality(Handling(e))
      /\ Cardinality((Handling(e))') \in Nat /\ Cardinality(Handling(e)) \in Nat
  BY HandlingIs, Few, FS_Subset
<1>4. events[e].mails + Cardinality(Handling(e)) <= 1 + Excused(e) BY DEF MailsOf
<1>5. events'[e].mails + Cardinality((Handling(e))') <= 1 + Excused(e)'
  BY <1>1, <1>2, <1>3, <1>4 DEF Excused
<1>6. e \notin processed' => events'[e].mails <= Excused(e)'
  BY <1>1 DEF MailsOf, Excused
<1>7. QED BY <1>5, <1>6 DEF MailsOf

\* No event is handled by this step.
LEMMA MailsKept ==
  ASSUME Types, Mails, TypeOK', processed' = processed, spent'.crashes = spent.crashes,
         DOMAIN events \subseteq DOMAIN events',
         \A e \in DOMAIN events' :
           History(events'[e]) = IF e \in DOMAIN events THEN History(events[e]) ELSE <<0, 0, 0>>,
         \A d \in Calls : \/ calls'[d].op = "none"
                          \/ d \in Active /\ calls'[d].event = calls[d].event
                          \/ calls'[d].event = 0
  PROVE  Mails'
<1>1. /\ DOMAIN events' \subseteq Nat \ {0} /\ spent \in SpentType
      /\ events \in Seq(EventType)
  <2>1. events' \in Seq(EventType) BY DEF TypeOK, EventType
  <2>2. spent \in SpentType /\ events \in Seq(EventType) BY DEF TypeOK, Types, SpentType, EventType
  <2>3. QED BY <2>1, <2>2
<1>2. \A c \in Active' : \/ c \in Active /\ calls'[c].event = calls[c].event
                         \/ calls'[c].event = 0
  BY DEF Active
<1>3. ASSUME NEW e \in DOMAIN events' PROVE MailsOf(e)'
  <2>1. (Handling(e))' \subseteq Handling(e) BY <1>1, <1>2 DEF Handling
  <2>2. CASE e \in DOMAIN events
    <3>1. MailsOf(e) /\ events[e] \in EventType BY <1>1, <2>2 DEF Mails, MailsOf
    <3>2. QED BY <1>1, <2>1, <2>2, <3>1, MailsOfKept
  <2>3. CASE e \notin DOMAIN events
    <3>1. ASSUME NEW d \in Handling(e) PROVE FALSE
      <4>1. d \in Active /\ d \in Calls /\ calls[d].event = e BY <3>1 DEF Handling, Active
      <4>2. Typed(calls[d]) /\ calls[d].op \in {"start", "activate", "sync", "cancel"}
        BY <4>1, ActiveIs DEF CallType
      <4>3. QED BY <1>1, <2>3, <4>1, <4>2 DEF Typed
    <3>2. Cardinality((Handling(e))') = 0 BY <2>1, <3>1, FS_EmptySet
    <3>3. events'[e].mails = 0 /\ events'[e].overlaps = 0 /\ events'[e].unheard = 0
      BY <2>3 DEF History
    <3>4. spent'.crashes \in Nat BY <1>1 DEF SpentType
    <3>5. QED BY <3>2, <3>3, <3>4 DEF MailsOf, Excused
  <2>4. QED BY <2>2, <2>3
<1>4. QED BY <1>3 DEF Mails, MailsOf

\* A call that handles an event ends: it was marked, with one e-mail at most,
\* or an e-mail left whose answer was lost.
Marked(e) ==
  /\ e \in processed'
  /\ events'[e].mails \in {events[e].mails, events[e].mails + 1}
  /\ events'[e].unheard = events[e].unheard

Unheard(e) ==
  /\ e \in processed => e \in processed'
  /\ events'[e].mails = events[e].mails + 1
  /\ events'[e].unheard = events[e].unheard + 1

LEMMA MailsHandled ==
  ASSUME Types, Mails, NEW c \in Active, calls' = [calls EXCEPT ![c] = NoCall],
         NEW e \in DOMAIN events, calls[c].event = e,
         spent'.crashes = spent.crashes, DOMAIN events' = DOMAIN events,
         processed \subseteq processed',
         \A f \in DOMAIN events : f # e => events'[f] = events[f],
         events'[e].overlaps = events[e].overlaps,
         Marked(e) \/ Unheard(e)
  PROVE  Mails'
<1>1. /\ c \in Calls /\ calls \in [Calls -> {NoCall} \cup CallType]
      /\ spent \in SpentType /\ events \in Seq(EventType)
  BY DEF Active, Types, TypeOK, SpentType, EventType
<1>2. \A d \in Calls : d \in Active' <=> d \in Active /\ d # c
  BY <1>1 DEF Active, NoCall
<1>3. \A d \in Calls \ {c} : calls'[d] = calls[d] BY <1>1
<1>4. ASSUME NEW f \in DOMAIN events', f # e PROVE MailsOf(f)'
  <2>1. MailsOf(f) /\ events[f] \in EventType BY <1>1 DEF Mails, MailsOf
  <2>2. (Handling(f))' \subseteq Handling(f) BY <1>2, <1>3 DEF Handling, Active
  <2>3. History(events'[f]) = History(events[f]) BY <1>4
  <2>4. QED BY <1>1, <2>1, <2>2, <2>3, MailsOfKept
<1>5. MailsOf(e)'
  <2>1. (Handling(e))' = Handling(e) \ {c} BY <1>2, <1>3 DEF Handling, Active
  <2>2. c \in Handling(e) /\ IsFiniteSet(Handling(e)) BY HandlingIs, Few DEF Handling
  <2>3. /\ Cardinality((Handling(e))') = Cardinality(Handling(e)) - 1
        /\ Cardinality(Handling(e)) \in Nat
    BY <2>1, <2>2, FS_RemoveElement, FS_CardinalityType
  <2>4. /\ events[e].mails \in Nat /\ events[e].overlaps \in Nat /\ events[e].unheard \in Nat
        /\ spent.crashes \in Nat
    <3>1. events[e] \in EventType BY <1>1
    <3>2. QED BY <1>1, <3>1, HistoryIs DEF SpentType
  <2>5. /\ events[e].mails + Cardinality(Handling(e)) <= 1 + Excused(e)
        /\ e \notin processed => events[e].mails <= Excused(e)
    BY DEF Mails, MailsOf
  <2>6. events'[e].mails + Cardinality((Handling(e))') <= 1 + Excused(e)'
    BY <2>3, <2>4, <2>5 DEF Marked, Unheard, Excused
  <2>7. e \notin processed' => events'[e].mails <= Excused(e)'
    BY <2>4, <2>5 DEF Marked, Unheard, Excused
  <2>8. QED BY <2>6, <2>7 DEF MailsOf
<1>6. QED BY <1>4, <1>5 DEF Mails, MailsOf

\* One more delivery of event e is handled, and counted if it overlaps.
Counted(e) ==
  /\ events' \in Seq(EventType) /\ DOMAIN events' = DOMAIN events
  /\ \A f \in DOMAIN events : f # e => events'[f] = events[f]
  /\ events'[e].about = events[e].about /\ events'[e].id = events[e].id
  /\ events'[e].acked = events[e].acked
  /\ events'[e].mails = events[e].mails /\ events'[e].unheard = events[e].unheard
  /\ events'[e].overlaps = events[e].overlaps + (IF Handling(e) = {} THEN 0 ELSE 1)

LEMMA MailsDelivered ==
  ASSUME Types, Mails, NEW c \in Calls, calls[c].op = "none",
         NEW new, calls' = [calls EXCEPT ![c] = new], new.op # "none",
         new.event \in DOMAIN events \ processed, Counted(new.event),
         processed' = processed, spent'.crashes = spent.crashes
  PROVE  Mails'
<1>e. PICK e : e = new.event OBVIOUS
<1>1. /\ calls \in [Calls -> {NoCall} \cup CallType]
      /\ spent \in SpentType /\ events \in Seq(EventType) /\ Counted(e)
      /\ e \in DOMAIN events /\ e \notin processed /\ DOMAIN events' = DOMAIN events
  BY <1>e DEF Types, TypeOK, SpentType, EventType, Counted
<1>2. calls'[c] = new /\ \A d \in Calls \ {c} : calls'[d] = calls[d] BY <1>1
<1>3. ASSUME NEW f \in DOMAIN events', f # e PROVE MailsOf(f)'
  <2>1. MailsOf(f) /\ events[f] \in EventType BY <1>1 DEF Mails, MailsOf
  <2>2. (Handling(f))' \subseteq Handling(f) BY <1>e, <1>2, <1>3 DEF Handling, Active
  <2>3. History(events'[f]) = History(events[f]) BY <1>1, <1>3 DEF Counted
  <2>4. QED BY <1>1, <2>1, <2>2, <2>3, MailsOfKept
<1>4. MailsOf(e)'
  <2>1. (Handling(e))' = Handling(e) \cup {c} BY <1>e, <1>2 DEF Handling, Active
  <2>2. c \notin Handling(e) /\ IsFiniteSet(Handling(e)) BY HandlingIs, Few DEF Handling, Active
  <2>3. /\ Cardinality((Handling(e))') = Cardinality(Handling(e)) + 1
        /\ Cardinality(Handling(e)) \in Nat
        /\ Handling(e) = {} => Cardinality(Handling(e)) = 0
    BY <2>1, <2>2, FS_AddElement, FS_CardinalityType, FS_EmptySet
  <2>4. /\ events[e].mails \in Nat /\ events[e].overlaps \in Nat /\ events[e].unheard \in Nat
        /\ spent.crashes \in Nat
    <3>1. events[e] \in EventType BY <1>1
    <3>2. QED BY <1>1, <3>1, HistoryIs DEF SpentType
  <2>5. /\ events[e].mails + Cardinality(Handling(e)) <= 1 + Excused(e)
        /\ events[e].mails <= Excused(e)
    BY <1>1 DEF Mails, MailsOf
  <2>6. /\ events'[e].mails = events[e].mails /\ events'[e].unheard = events[e].unheard
        /\ events'[e].overlaps = events[e].overlaps + (IF Handling(e) = {} THEN 0 ELSE 1)
    BY <1>1 DEF Counted
  <2>7. CASE Handling(e) = {} BY <2>3, <2>4, <2>5, <2>6, <2>7 DEF MailsOf, Excused
  <2>8. CASE Handling(e) # {} BY <2>3, <2>4, <2>5, <2>6, <2>8 DEF MailsOf, Excused
  <2>9. QED BY <2>7, <2>8
<1>5. QED BY <1>3, <1>4 DEF Mails, MailsOf
-----------------------------------------------------------------------------
(* How a call starts, goes on and ends                                     *)

LEMMA ContinueTypes ==
  ASSUME Types, NEW c \in Calls, NEW new \in CallType, calls' = [calls EXCEPT ![c] = new],
         Grow, subs' \in Seq(Subscription), setups' = setups, events' \in Seq(EventType),
         copy' = copy, queue' \in Seq(Calls), processed' = processed, spent' \in SpentType,
         Typed(new)',
         \A e \in DOMAIN events' \ DOMAIN events : EventOK(e)'
  PROVE  Types'
<1>1. calls \in [Calls -> {NoCall} \cup CallType] BY DEF Types, TypeOK
<1>2. calls' \in [Calls -> {NoCall} \cup CallType] BY <1>1
<1>3. TypeOK' BY <1>2 DEF Types, TypeOK, Grow, EventType, SpentType
<1>4. \A d \in Calls : calls'[d] \in {calls[d], NoCall} \/ Typed(calls[d])'
  BY <1>1
<1>5. QED BY <1>3, <1>4, TypesKept

\* A call goes on, and nothing else changes.
LEMMA GoesOn ==
  ASSUME IInv, NEW c \in Active, NEW new \in CallType, calls' = [calls EXCEPT ![c] = new],
         UNCHANGED <<subs, setups, events, copy, queue, processed, spent>>,
         Typed(new), Relies(new), new.event = calls[c].event,
         Locking(new) <=> Locking(calls[c]),
         Inside(new) => Inside(calls[c]) \/ Holds(c),
         new.at # "mail",
         new.at = "write" => new.read = <<subs[new.id]>>
  PROVE  IInv'
<1>1. c \in Calls /\ calls \in [Calls -> {NoCall} \cup CallType]
  BY DEF Active, IInv, Types, TypeOK
<1>2. calls'[c] = new /\ \A d \in Calls \ {c} : calls'[d] = calls[d] BY <1>1
<1>3. /\ Types /\ Lock /\ Opened /\ Rows /\ Mails
      /\ Grow /\ subs \in Seq(Subscription) /\ events \in Seq(EventType)
      /\ queue \in Seq(Calls) /\ spent \in SpentType
  BY DEF IInv, Grow, Types, TypeOK, EventType, SpentType
<1>4. Types'
  <2>1. Typed(new)' BY DEF Typed
  <2>2. QED BY <1>1, <1>3, <2>1, ContinueTypes
<1>5. Lock' BY <1>2, <1>3, LockSame
<1>6. Opened'
  <2>1. Relies(new)' BY DEF Relies
  <2>2. \A d \in Calls : calls'[d] \in {calls[d], NoCall} \/ Relies(calls[d])'
    BY <1>2, <2>1
  <2>3. QED BY <1>3, <2>2, OpenedSame
<1>7. Rows'
  <2>1. \A e \in DOMAIN events, i \in DOMAIN subs : Pending(e, i) => Pending(e, i)'
    BY <1>2, PendingKept
  <2>2. \A d \in Calls :
           \/ calls'[d] \in {calls[d], NoCall}
           \/ calls'[d].at = "write" => calls'[d].read = <<subs'[calls'[d].id]>>
    BY <1>2
  <2>3. QED BY <1>3, <2>1, <2>2, RowsSame
<1>8. Mails'
  <2>1. \A d \in Calls : \/ calls'[d].op = "none"
                         \/ d \in Active /\ calls'[d].event = calls[d].event
    BY <1>2 DEF Active
  <2>2. TypeOK' BY <1>4 DEF Types
  <2>3. QED BY <1>3, <2>1, <2>2, MailsKept
<1>9. QED BY <1>4, <1>5, <1>6, <1>7, <1>8 DEF IInv

\* A call starts, for the application or for an event.
LEMMA Starts ==
  ASSUME IInv, NEW c \in Calls, NEW new \in CallType, Enter(c, new),
         UNCHANGED <<subs, setups, copy, processed>>,
         spent' \in SpentType, spent'.crashes = spent.crashes,
         Typed(new), Locking(new) <=> new.at = "lock", new.at \in {"lock", "retrieve", "find"},
         \/ new.event = 0 /\ events' = events
         \/ new.event \in DOMAIN events \ processed /\ Counted(new.event)
  PROVE  IInv'
<1>1. /\ calls \in [Calls -> {NoCall} \cup CallType] /\ calls' = [calls EXCEPT ![c] = new]
      /\ queue \in Seq(Calls) /\ calls[c].op = "none"
  BY DEF Enter, IInv, Types, TypeOK
<1>2. calls'[c] = new /\ \A d \in Calls \ {c} : calls'[d] = calls[d] BY <1>1
<1>3. /\ Types /\ Lock /\ Opened /\ Rows /\ Mails
      /\ subs \in Seq(Subscription) /\ events \in Seq(EventType)
  BY DEF IInv, Types, TypeOK, EventType
<1>g. /\ Grow /\ events' \in Seq(EventType) /\ DOMAIN events' = DOMAIN events
      /\ \A e \in DOMAIN events :
           events'[e].about = events[e].about /\ events'[e].id = events[e].id
             /\ events'[e].acked = events[e].acked
  <2>1. CASE events' = events BY <1>3, <2>1 DEF Grow
  <2>2. CASE Counted(new.event) BY <2>2 DEF Counted, Grow
  <2>3. QED BY <2>1, <2>2
<1>4. Types'
  <2>1. Typed(new)' BY <1>g DEF Typed
  <2>2. queue' \in Seq(Calls) BY <1>1 DEF Enter
  <2>3. QED BY <1>1, <1>3, <1>g, <2>1, <2>2, ContinueTypes
<1>5. Lock' BY <1>3, LockEnter
<1>6. Opened'
  <2>1. Relies(new)' BY DEF Relies
  <2>2. \A d \in Calls : calls'[d] \in {calls[d], NoCall} \/ Relies(calls[d])'
    BY <1>2, <2>1
  <2>3. QED BY <1>3, <2>2, OpenedSame
<1>7. Rows'
  <2>1. \A e \in DOMAIN events, i \in DOMAIN subs : Pending(e, i) => Pending(e, i)'
    BY <1>2, <1>g, PendingKept
  <2>2. \A d \in Calls :
           \/ calls'[d] \in {calls[d], NoCall}
           \/ calls'[d].at = "write" => calls'[d].read = <<subs'[calls'[d].id]>>
    BY <1>2
  <2>3. QED BY <1>3, <1>g, <2>1, <2>2, RowsSame
<1>8. Mails'
  <2>1. CASE new.event = 0 /\ events' = events
    <3>1. \A d \in Calls : \/ calls'[d].op = "none"
                           \/ d \in Active /\ calls'[d].event = calls[d].event
                           \/ calls'[d].event = 0
      BY <1>2, <2>1 DEF Active
    <3>2. TypeOK' BY <1>4 DEF Types
    <3>3. QED BY <1>3, <2>1, <3>1, <3>2, MailsKept
  <2>2. CASE new.event \in DOMAIN events \ processed /\ Counted(new.event)
    <3>1. new.op # "none" BY DEF CallType
    <3>2. QED BY <1>1, <1>3, <2>2, <3>1, MailsDelivered
  <2>3. QED BY <2>1, <2>2
<1>9. QED BY <1>4, <1>5, <1>6, <1>7, <1>8 DEF IInv

\* A call leaves: its types, its lock and what is open.
LEMMA LeaveKeeps ==
  ASSUME IInv, NEW c \in Active, Leave(c), calls[c].at = "lock" => Holds(c),
         subs' = subs, setups' \in Seq({"open", "succeeded"}), DOMAIN setups \subseteq DOMAIN setups',
         events' \in Seq(EventType), DOMAIN events' = DOMAIN events,
         \A e \in DOMAIN events : events'[e].about = events[e].about /\ events'[e].id = events[e].id,
         \A i \in DOMAIN copy' : copy'[i] \in [status: Statuses, canceling: BOOLEAN],
         DOMAIN copy' \subseteq DOMAIN subs,
         processed' \subseteq DOMAIN events, spent' \in SpentType
  PROVE  Types' /\ Lock' /\ Opened'
<1>1. /\ c \in Calls /\ calls \in [Calls -> {NoCall} \cup CallType] /\ queue \in Seq(Calls)
      /\ calls' = [calls EXCEPT ![c] = NoCall]
      /\ Types /\ Lock /\ Opened
  BY DEF Active, IInv, Types, TypeOK, Leave
<1>2. \A d \in Calls : calls'[d] \in {calls[d], NoCall} BY <1>1
<1>3. queue' \in Seq(Calls) BY <1>1 DEF Leave
<1>4. calls' \in [Calls -> {NoCall} \cup CallType] BY <1>1
<1>5. TypeOK' BY <1>1, <1>3, <1>4 DEF Types, TypeOK, EventType, SpentType
<1>6. Types' BY <1>1, <1>2, <1>5, TypesKept DEF Grow
<1>7. Lock' BY <1>1, LockLeave
<1>8. Opened' BY <1>1, <1>2, OpenedSame
<1>9. QED BY <1>6, <1>7, <1>8

\* What the answer of a call does to the event it is about.
LEMMA AnswerIs ==
  ASSUME Types, NEW c \in Active, Answer(c)
  PROVE  /\ Leave(c) /\ calls' = [calls EXCEPT ![c] = NoCall]
         /\ events' \in Seq(EventType) /\ DOMAIN events' = DOMAIN events
         /\ \A e \in DOMAIN events :
              /\ events'[e].about = events[e].about /\ events'[e].id = events[e].id
              /\ History(events'[e]) = History(events[e])
              /\ e # calls[c].event => events'[e] = events[e]
         /\ calls[c].event = 0 => events' = events /\ processed' = processed
         /\ calls[c].event # 0 => calls[c].event \in DOMAIN events
                                  /\ processed' = processed \cup {calls[c].event}
         /\ processed' \subseteq DOMAIN events
<1>1. /\ events \in Seq(EventType) /\ processed \subseteq DOMAIN events
      /\ \A e \in DOMAIN events : events[e] \in EventType
  <2>1. events \in Seq(EventType) /\ processed \subseteq DOMAIN events
    BY DEF Types, TypeOK, EventType
  <2>2. QED BY <2>1
<1>2. Leave(c) /\ calls' = [calls EXCEPT ![c] = NoCall] BY DEF Answer, Leave
<1>3. c \in Calls /\ Typed(calls[c]) /\ calls[c].op \in {"start", "activate", "sync", "cancel"}
  BY ActiveIs DEF Active, CallType
<1>4. calls[c].event # 0 => calls[c].event \in DOMAIN events BY <1>3 DEF Typed
<1>5. CASE calls[c].event = 0 BY <1>1, <1>2, <1>5 DEF Answer
<1>6. CASE calls[c].event # 0
  <2>1. /\ events' = [events EXCEPT ![calls[c].event].acked = TRUE]
        /\ processed' = processed \cup {calls[c].event}
    BY <1>6 DEF Answer
  <2>2. [events[calls[c].event] EXCEPT !.acked = TRUE] \in EventType
    <3>1. ASSUME NEW event \in EventType PROVE [event EXCEPT !.acked = TRUE] \in EventType
      BY DEF EventType
    <3>2. events[calls[c].event] \in EventType BY <1>1, <1>4, <1>6
    <3>3. QED BY <3>1, <3>2
  <2>3. events' \in Seq(EventType) /\ DOMAIN events' = DOMAIN events
    <3>1. ASSUME NEW k \in DOMAIN events, NEW new \in EventType
          PROVE  [events EXCEPT ![k] = new] \in Seq(EventType)
      BY <1>1
    <3>2. events' = [events EXCEPT ![calls[c].event] = [events[calls[c].event] EXCEPT !.acked = TRUE]]
      BY <2>1
    <3>3. QED BY <1>1, <1>4, <1>6, <2>2, <3>1, <3>2
  <2>4. \A e \in DOMAIN events : e # calls[c].event => events'[e] = events[e]
    BY <1>1, <2>1
  <2>5. events'[calls[c].event] = [events[calls[c].event] EXCEPT !.acked = TRUE]
    BY <1>1, <1>4, <1>6, <2>1
  <2>6. /\ events'[calls[c].event].about = events[calls[c].event].about
        /\ events'[calls[c].event].id = events[calls[c].event].id
        /\ History(events'[calls[c].event]) = History(events[calls[c].event])
    BY <1>1, <1>4, <1>6, <2>5 DEF EventType, History
  <2>7. QED BY <1>1, <1>2, <1>4, <1>6, <2>1, <2>3, <2>4, <2>6
<1>7. QED BY <1>5, <1>6

LEMMA AnswerMails ==
  ASSUME IInv, NEW c \in Active, Answer(c), TypeOK', spent' = spent
  PROVE  Mails'
<1>1. Types /\ Mails /\ c \in Calls /\ calls \in [Calls -> {NoCall} \cup CallType]
  BY DEF IInv, Active, Types, TypeOK
<1>2. \A d \in Calls : calls'[d] \in {calls[d], NoCall} BY <1>1, AnswerIs
<1>3. CASE calls[c].event = 0
  <2>1. \A d \in Calls : calls'[d].op = "none" \/ (d \in Active /\ calls'[d].event = calls[d].event)
    BY <1>2 DEF Active, NoCall
  <2>2. QED BY <1>1, <1>3, <2>1, AnswerIs, MailsKept
<1>4. CASE calls[c].event # 0
  <2>e. PICK e : e = calls[c].event OBVIOUS
  <2>1. /\ e \in DOMAIN events /\ DOMAIN events' = DOMAIN events
        /\ calls' = [calls EXCEPT ![c] = NoCall] /\ processed' = processed \cup {e}
        /\ \A f \in DOMAIN events : f # e => events'[f] = events[f]
        /\ History(events'[e]) = History(events[e])
    BY <1>1, <1>4, <2>e, AnswerIs
  <2>2. Marked(e) /\ events'[e].overlaps = events[e].overlaps BY <2>1 DEF Marked, History
  <2>3. QED BY <1>1, <2>e, <2>1, <2>2, MailsHandled
<1>5. QED BY <1>3, <1>4

\* A call that has not to write the state of an event's subscription ends.
LEMMA Answers ==
  ASSUME IInv, NEW c \in Active, Answer(c), calls[c].at = "lock" => Holds(c),
         calls[c].op # "sync",
         UNCHANGED <<subs, copy, spent>>,
         setups' \in Seq({"open", "succeeded"}), DOMAIN setups \subseteq DOMAIN setups'
  PROVE  IInv'
<1>1. /\ Types /\ Rows /\ c \in Calls /\ calls \in [Calls -> {NoCall} \cup CallType]
      /\ \A i \in DOMAIN copy : copy[i] \in [status: Statuses, canceling: BOOLEAN]
      /\ DOMAIN copy \subseteq DOMAIN subs /\ spent \in SpentType
  BY DEF IInv, Active, Types, TypeOK, SpentType
<1>2. Types' /\ Lock' /\ Opened' BY <1>1, AnswerIs, LeaveKeeps
<1>3. \A d \in Calls : calls'[d] \in {calls[d], NoCall} BY <1>1, AnswerIs
<1>4. \A d \in Calls : calls'[d] = calls[d] \/ calls'[d].op = "none"
  BY <1>3 DEF NoCall
<1>5. ASSUME NEW e \in DOMAIN events, NEW i \in DOMAIN subs, Pending(e, i) PROVE Pending(e, i)'
  <2>1. Typed(calls[c]) /\ calls[c].op \in {"start", "activate", "cancel"}
    BY <1>1, ActiveIs DEF CallType
  <2>2. e # calls[c].event
    BY <1>5, <2>1 DEF Typed, Pending
  <2>3. events'[e] = events[e] /\ e \notin processed' \ processed BY <1>1, <2>2, AnswerIs
  <2>4. QED BY <1>4, <1>5, <2>3, PendingKept
<1>6. Rows' BY <1>1, <1>3, <1>5, AnswerIs, RowsSame
<1>7. Mails' BY <1>2, AnswerMails DEF Types
<1>8. QED BY <1>2, <1>6, <1>7 DEF IInv
\* Stripe changes subscription i; a call may go on by the same step.
Onward(d) ==
  /\ d \in Active /\ calls'[d] \in CallType /\ Typed(calls[d])' /\ Relies(calls[d])'
  /\ calls'[d].event = calls[d].event /\ calls'[d].at # "mail"
  /\ Locking(calls'[d]) <=> Locking(calls[d])
  /\ Inside(calls'[d]) => Inside(calls[d])
  /\ calls'[d].at = "write" => calls'[d].read = <<subs'[calls'[d].id]>>

LEMMA ChangeKeeps ==
  ASSUME IInv, NEW i \in DOMAIN subs, NEW new \in Subscription, Change(i, new), ~ToWrite(i),
         UNCHANGED <<setups, copy, queue, processed>>,
         spent' \in SpentType, spent'.crashes = spent.crashes,
         new.trial = subs[i].trial, subs[i].status = "ended" => new.status = "ended",
         \/ new.status \in {"ended", subs[i].status}
         \/ \A d \in Active : ~(calls[d].op = "start" /\ calls[d].at = "replace"),
         calls' \in [Calls -> {NoCall} \cup CallType],
         \A d \in Calls : calls'[d] = calls[d] \/ Onward(d)
  PROVE  IInv'
<1>1. /\ Types /\ Lock /\ Opened /\ Rows /\ Mails
      /\ subs \in Seq(Subscription) /\ events \in Seq(EventType)
  BY DEF IInv, Types, TypeOK, EventType
<1>2. /\ subs' \in Seq(Subscription) /\ DOMAIN subs' = DOMAIN subs
      /\ events' \in Seq(EventType) /\ DOMAIN events \subseteq DOMAIN events'
      /\ \A e \in DOMAIN events : events'[e] = events[e]
      /\ \A e \in DOMAIN events' \ DOMAIN events :
           events'[e].id = i /\ History(events'[e]) = <<0, 0, 0>> /\ events'[e].about = "subscription"
  BY <1>1, ChangeIs
<1>3. Grow BY <1>2 DEF Grow
<1>4. Types'
  <2>1. TypeOK' BY <1>1, <1>2, <1>3 DEF Types, TypeOK, EventType, SpentType, Grow
  <2>2. \A e \in DOMAIN events' \ DOMAIN events : EventOK(e)' BY <1>2 DEF EventOK
  <2>3. QED BY <1>1, <1>3, <2>1, <2>2, TypesKept DEF Onward
<1>5. Lock' BY <1>1, LockSame DEF Onward
<1>6. Opened'
  <2>1. subs' = [subs EXCEPT ![i] = new] BY DEF Change
  <2>2. \A d \in Calls : calls'[d] \in {calls[d], NoCall} \/ Relies(calls[d])' BY DEF Onward
  <2>3. QED BY <1>1, <2>1, <2>2, OpenedChanged
<1>7. Rows'
  <2>1. \A d \in Calls :
           \/ calls'[d] = calls[d]
           \/ calls'[d].at # "mail" /\ (calls'[d].at = "write" => calls'[d].read = <<subs'[calls'[d].id]>>)
    BY DEF Onward
  <2>2. QED BY <1>1, <2>1, RowsChanged
<1>8. Mails'
  <2>1. \A d \in Calls : calls'[d].op = "none" \/ (d \in Active /\ calls'[d].event = calls[d].event)
    BY DEF Onward, Active
  <2>2. TypeOK' BY <1>4 DEF Types
  <2>3. QED BY <1>1, <1>2, <2>1, <2>2, MailsKept
<1>9. QED BY <1>4, <1>5, <1>6, <1>7, <1>8 DEF IInv

\* The call that has the lock opens a subscription.
LEMMA CreateKeeps ==
  ASSUME IInv, NEW c \in Active, Inside(calls[c]), NEW new \in Subscription, Created(new),
         NEW k \in CallType, calls' = [calls EXCEPT ![c] = k],
         UNCHANGED <<setups, copy, queue, processed, spent>>,
         k.op = calls[c].op, k.event = calls[c].event, k.setup = calls[c].setup, k.attempts = {},
         k.at = "write", k.id = Len(subs) + 1, k.read = <<new>>,
         \A j \in DOMAIN subs : subs[j].status = "ended",
         new.trial <=> subs = <<>>
  PROVE  IInv'
<1>1. /\ Types /\ Lock /\ Opened /\ Rows /\ Mails /\ c \in Calls
      /\ calls \in [Calls -> {NoCall} \cup CallType] /\ queue \in Seq(Calls)
      /\ subs \in Seq(Subscription) /\ events \in Seq(EventType) /\ spent \in SpentType
  BY DEF IInv, Active, Types, TypeOK, EventType, SpentType
<1>2. /\ subs' \in Seq(Subscription) /\ DOMAIN subs \subseteq DOMAIN subs'
      /\ k.id \in DOMAIN subs' /\ subs'[k.id] = new
      /\ events' \in Seq(EventType) /\ DOMAIN events \subseteq DOMAIN events'
      /\ \A e \in DOMAIN events : events'[e] = events[e]
      /\ \A e \in DOMAIN events' \ DOMAIN events :
           events'[e].id = k.id /\ History(events'[e]) = <<0, 0, 0>> /\ events'[e].about = "subscription"
  BY <1>1, CreatedIs
<1>3. Grow BY <1>2 DEF Grow
<1>4. calls'[c] = k /\ \A d \in Calls \ {c} : calls'[d] = calls[d] BY <1>1
<1>5. Types'
  <2>1. Typed(k)'
    <3>1. Typed(calls[c]) /\ calls[c].op \in {"start", "activate"}
      BY <1>1, ActiveIs DEF Inside, Locking
    <3>2. QED BY <1>2, <3>1 DEF Typed
  <2>2. \A e \in DOMAIN events' \ DOMAIN events : EventOK(e)' BY <1>2 DEF EventOK
  <2>3. QED BY <1>1, <1>2, <1>3, <2>1, <2>2, ContinueTypes
<1>6. Lock' BY <1>1, <1>4, LockSame DEF Locking, Inside
<1>7. Opened'
  <2>1. ASSUME NEW d \in Active' PROVE Relies(calls[d])'
    <3>1. d \in Calls BY <2>1 DEF Active
    <3>2. CASE d = c BY <1>4, <3>2 DEF Relies
    <3>3. CASE d # c
      <4>1. ~Inside(calls[d]) BY <1>1, <3>1, <3>3, AloneInside
      <4>2. calls'[d] = calls[d] BY <1>4, <3>1, <3>3
      <4>3. QED BY <4>1, <4>2 DEF Relies, Inside, Locking
    <3>4. QED BY <3>2, <3>3
  <2>2. QED BY <1>1, <2>1, OpenedCreated DEF Created
<1>8. Rows'
  <2>1. \A d \in Calls :
           \/ calls'[d] = calls[d]
           \/ calls'[d].at # "mail" /\ (calls'[d].at = "write" => calls'[d].read = <<subs'[calls'[d].id]>>)
    BY <1>2, <1>4
  <2>2. QED BY <1>1, <2>1, RowsCreated
<1>9. Mails'
  <2>1. \A d \in Calls : calls'[d].op = "none" \/ (d \in Active /\ calls'[d].event = calls[d].event)
    BY <1>4 DEF Active
  <2>2. TypeOK' BY <1>5 DEF Types
  <2>3. QED BY <1>1, <1>2, <2>1, <2>2, MailsKept
<1>10. QED BY <1>5, <1>6, <1>7, <1>8, <1>9 DEF IInv
-----------------------------------------------------------------------------
(* The steps                                                               *)

LEMMA CallIs ==
  ASSUME NEW op \in {"start", "activate", "sync", "cancel"}, NEW event \in Nat, NEW setup \in Nat,
         NEW at \in {"lock", "replace", "create", "retrieve", "find", "ask", "write", "mail"},
         NEW id \in Nat
  PROVE  /\ Call(op, event, setup, at, id) \in CallType
         /\ Call(op, event, setup, at, id).op = op /\ Call(op, event, setup, at, id).event = event
         /\ Call(op, event, setup, at, id).setup = setup /\ Call(op, event, setup, at, id).at = at
         /\ Call(op, event, setup, at, id).id = id /\ Call(op, event, setup, at, id).attempts = {}
<1>1. <<>> \in Seq(Subscription) /\ {} \in SUBSET Nat OBVIOUS
<1>2. QED BY <1>1 DEF Call, CallType

LEMMA CancellationIs ==
  ASSUME NEW want \in BOOLEAN
  PROVE  LET k == [Call("cancel", 0, 0, "find", 0) EXCEPT !.want = want]
         IN  k \in CallType /\ k.op = "cancel" /\ k.event = 0 /\ k.at = "find" /\ k.attempts = {}
<1>1. <<>> \in Seq(Subscription) /\ {} \in SUBSET Nat OBVIOUS
<1>2. QED BY <1>1 DEF Call, CallType

LEMMA LeastNat ==
  ASSUME NEW S \in SUBSET Nat, S # {}
  PROVE  \E i \in S : \A j \in S : i <= j
<1>1. IsWellFoundedOn(OpToRel(<, Nat), Nat) BY NatLessThanWellFounded
<1>2. PICK i \in S : \A j \in S : <<j, i>> \notin OpToRel(<, Nat)
  BY <1>1, WFMin
<1>3. ASSUME NEW j \in S PROVE i <= j
  <2>1. <<j, i>> \notin OpToRel(<, Nat) BY <1>2
  <2>2. ~(j < i) BY <2>1 DEF OpToRel
  <2>3. QED BY <2>2
<1>4. QED BY <1>2, <1>3

LEMMA AsksKeep ==
  ASSUME IInv, NEW c \in Calls, NEW k \in CallType, Ask(c, k), Typed(k),
         Locking(k) <=> k.at = "lock", k.at \in {"lock", "retrieve", "find"}, k.event = 0
  PROVE  IInv'
<1>1. spent \in SpentType BY DEF IInv, Types, TypeOK, SpentType
<1>2. spent' \in SpentType /\ spent'.crashes = spent.crashes BY <1>1, SpendIs DEF Ask
<1>3. QED BY <1>2, Starts DEF Ask

LEMMA RequestsKeep ==
  ASSUME IInv, NEW c \in Calls,
         AskStart(c) \/ AskActivate(c) \/ AskSync(c) \/ AskCancellation(c)
  PROVE  IInv'
<1>1. subs \in Seq(Subscription) /\ setups \in Seq({"open", "succeeded"})
  BY DEF IInv, Types, TypeOK
<1>2. CASE AskStart(c)
  <2> DEFINE k == Call("start", 0, 0, "lock", 0)
  <2>1. k \in CallType /\ k.op = "start" /\ k.event = 0 /\ k.at = "lock" /\ k.attempts = {}
    <3>1. 0 \in Nat OBVIOUS
    <3>2. QED BY <3>1, CallIs
  <2>2. Ask(c, k) BY <1>2 DEF AskStart
  <2> HIDE DEF k
  <2>3. Typed(k) BY <2>1 DEF Typed
  <2>4. QED BY <2>1, <2>2, <2>3, AsksKeep DEF Locking
<1>3. CASE AskActivate(c)
  <2>1. PICK i \in DOMAIN setups : Ask(c, Call("activate", 0, i, "lock", 0))
    BY <1>3 DEF AskActivate
  <2>2. i \in Nat BY <1>1
  <2> DEFINE k == Call("activate", 0, i, "lock", 0)
  <2>3. k \in CallType /\ k.op = "activate" /\ k.event = 0 /\ k.setup = i /\ k.at = "lock"
        /\ k.attempts = {}
    <3>1. 0 \in Nat OBVIOUS
    <3>2. QED BY <2>2, <3>1, CallIs
  <2>4. Ask(c, k) BY <2>1
  <2> HIDE DEF k
  <2>5. Typed(k) BY <2>3 DEF Typed
  <2>6. QED BY <2>3, <2>4, <2>5, AsksKeep DEF Locking
<1>4. CASE AskSync(c)
  <2>1. PICK i \in DOMAIN subs : Ask(c, Call("sync", 0, 0, "retrieve", i))
    BY <1>4 DEF AskSync
  <2>2. i \in Nat BY <1>1
  <2> DEFINE k == Call("sync", 0, 0, "retrieve", i)
  <2>3. k \in CallType /\ k.op = "sync" /\ k.event = 0 /\ k.id = i /\ k.at = "retrieve"
        /\ k.attempts = {}
    <3>1. 0 \in Nat OBVIOUS
    <3>2. QED BY <2>2, <3>1, CallIs
  <2>4. Ask(c, k) BY <2>1
  <2> HIDE DEF k
  <2>5. Typed(k) BY <2>3 DEF Typed
  <2>6. QED BY <2>3, <2>4, <2>5, AsksKeep DEF Locking
<1>5. CASE AskCancellation(c)
  <2>1. PICK want \in BOOLEAN : Ask(c, [Call("cancel", 0, 0, "find", 0) EXCEPT !.want = want])
    BY <1>5 DEF AskCancellation
  <2> DEFINE k == [Call("cancel", 0, 0, "find", 0) EXCEPT !.want = want]
  <2>2. k \in CallType /\ k.op = "cancel" /\ k.event = 0 /\ k.at = "find" /\ k.attempts = {}
    BY CancellationIs
  <2>3. Ask(c, k) BY <2>1
  <2> HIDE DEF k
  <2>4. Typed(k) BY <2>2 DEF Typed
  <2>5. QED BY <2>2, <2>3, <2>4, AsksKeep DEF Locking
<1>6. QED BY <1>2, <1>3, <1>4, <1>5

LEMMA DeliverKeeps ==
  ASSUME IInv, NEW c \in Calls, NEW e \in DOMAIN events, Deliver(c, e)
  PROVE  IInv'
<1>1. /\ Types /\ Lock /\ Opened /\ Rows /\ Mails /\ events \in Seq(EventType)
      /\ e \in Nat /\ e # 0 /\ events[e] \in EventType /\ EventOK(e) /\ spent \in SpentType
      /\ subs \in Seq(Subscription) /\ setups \in Seq({"open", "succeeded"})
  <2>1. events \in Seq(EventType) /\ Types /\ Lock /\ Opened /\ Rows /\ Mails /\ spent \in SpentType
        /\ subs \in Seq(Subscription) /\ setups \in Seq({"open", "succeeded"})
    BY DEF IInv, Types, TypeOK, EventType, SpentType
  <2>2. QED BY <2>1 DEF Types
<1>2. CASE e \in processed
  <2>1. /\ events' = [events EXCEPT ![e].acked = TRUE]
        /\ UNCHANGED <<subs, setups, copy, calls, queue, processed, spent>>
    BY <1>2 DEF Deliver
  <2>2. [events[e] EXCEPT !.acked = TRUE] \in EventType BY <1>1 DEF EventType
  <2>3. /\ events' \in Seq(EventType) /\ DOMAIN events' = DOMAIN events
        /\ \A f \in DOMAIN events : f # e => events'[f] = events[f]
        /\ events'[e] = [events[e] EXCEPT !.acked = TRUE]
    <3>1. events' = [events EXCEPT ![e] = [events[e] EXCEPT !.acked = TRUE]] BY <2>1
    <3>2. QED BY <1>1, <2>2, <3>1
  <2>4. \A f \in DOMAIN events : /\ events'[f].about = events[f].about /\ events'[f].id = events[f].id
                                 /\ History(events'[f]) = History(events[f])
    BY <1>1, <2>3 DEF EventType, History
  <2>5. Grow /\ \A d \in Calls : calls'[d] = calls[d] BY <2>1, <2>3, <2>4 DEF Grow
  <2>6. TypeOK' BY <1>1, <2>1, <2>3 DEF Types, TypeOK, EventType
  <2>7. Types' BY <1>1, <2>3, <2>5, <2>6, TypesKept
  <2>8. Lock' BY <1>1, <2>1, LockSame
  <2>9. Opened' BY <1>1, <2>1, <2>5, OpenedSame
  <2>10. Rows'
    <3>1. ASSUME NEW f \in DOMAIN events, NEW i \in DOMAIN subs, Pending(f, i) PROVE Pending(f, i)'
      <4>1. f # e BY <1>2, <3>1 DEF Pending
      <4>2. QED BY <2>1, <2>3, <3>1, <4>1, PendingKept
    <3>2. QED BY <1>1, <2>1, <2>3, <2>5, <3>1, RowsSame
  <2>11. Mails'
    <3>1. \A d \in Calls : calls'[d].op = "none" \/ (d \in Active /\ calls'[d].event = calls[d].event)
      BY <2>5 DEF Active
    <3>2. QED BY <1>1, <2>1, <2>3, <2>4, <2>6, <3>1, MailsKept
  <2>12. QED BY <2>7, <2>8, <2>9, <2>10, <2>11 DEF IInv
<1>c. ASSUME e \notin processed
      PROVE  Counted(e) /\ spent' \in SpentType /\ spent'.crashes = spent.crashes
  <2>1. CASE Handling(e) = {}
    <3>1. events' = events /\ spent' = spent BY <1>c, <2>1 DEF Deliver, Handle
    <3>2. events[e].overlaps + 0 = events[e].overlaps BY <1>1, HistoryIs
    <3>3. QED BY <1>1, <2>1, <3>1, <3>2 DEF Counted
  <2>2. CASE Handling(e) # {}
    <3>1. /\ events' = [events EXCEPT ![e].overlaps = @ + 1]
          /\ Spend("faults", MaxFaults)
      BY <1>c, <2>2 DEF Deliver, Handle
    <3>n. PICK new : new = [events[e] EXCEPT !.overlaps = events[e].overlaps + 1] OBVIOUS
    <3>0. events[e].overlaps + 1 \in Nat BY <1>1, HistoryIs
    <3>2. /\ new \in EventType /\ new.about = events[e].about /\ new.id = events[e].id
          /\ new.acked = events[e].acked /\ new.mails = events[e].mails
          /\ new.unheard = events[e].unheard /\ new.overlaps = events[e].overlaps + 1
      BY <1>1, <3>0, <3>n DEF EventType
    <3>3. events' = [events EXCEPT ![e] = new] BY <1>1, <3>1, <3>n
    <3>4. /\ events' \in Seq(EventType) /\ DOMAIN events' = DOMAIN events /\ events'[e] = new
          /\ \A f \in DOMAIN events : f # e => events'[f] = events[f]
      BY <1>1, <3>2, <3>3
    <3>5. Counted(e) BY <2>2, <3>2, <3>4 DEF Counted
    <3>6. QED BY <1>1, <3>1, <3>5, SpendIs
  <2>3. QED BY <2>1, <2>2
<1>3. CASE e \notin processed /\ events[e].about = "setup"
  <2> DEFINE k == Call("activate", e, events[e].id, "lock", 0)
  <2>1. Enter(c, k) /\ UNCHANGED <<subs, setups, copy, processed>>
    BY <1>3 DEF Deliver, Handle
  <2>2. events[e].id \in DOMAIN setups /\ events[e].id \in Nat BY <1>1, <1>3 DEF EventOK
  <2>3. k \in CallType /\ k.op = "activate" /\ k.event = e /\ k.setup = events[e].id /\ k.at = "lock"
        /\ k.attempts = {}
    <3>1. 0 \in Nat /\ e \in Nat /\ <<>> \in Seq(Subscription) /\ {} \in SUBSET Nat BY <1>1
    <3>2. QED BY <2>2, <3>1 DEF Call, CallType
  <2> HIDE DEF k
  <2>4. Typed(k) BY <1>3, <2>2, <2>3 DEF Typed
  <2>5. QED BY <1>1, <1>3, <1>c, <2>1, <2>3, <2>4, Starts DEF Locking
<1>4. CASE e \notin processed /\ events[e].about = "subscription"
  <2> DEFINE k == Call("sync", e, 0, "retrieve", events[e].id)
  <2>1. Enter(c, k) /\ UNCHANGED <<subs, setups, copy, processed>>
    BY <1>4 DEF Deliver, Handle
  <2>2. events[e].id \in DOMAIN subs /\ events[e].id \in Nat BY <1>1, <1>4 DEF EventOK
  <2>3. k \in CallType /\ k.op = "sync" /\ k.event = e /\ k.id = events[e].id /\ k.at = "retrieve"
        /\ k.attempts = {}
    <3>1. 0 \in Nat /\ e \in Nat /\ <<>> \in Seq(Subscription) /\ {} \in SUBSET Nat BY <1>1
    <3>2. QED BY <2>2, <3>1 DEF Call, CallType
  <2> HIDE DEF k
  <2>4. Typed(k) BY <1>4, <2>2, <2>3 DEF Typed
  <2>5. QED BY <1>1, <1>4, <1>c, <2>1, <2>3, <2>4, Starts DEF Locking
<1>5. QED BY <1>1, <1>2, <1>3, <1>4 DEF EventType

\* The steps of startSubscription.
LEMMA ListToStartKeeps ==
  ASSUME IInv, NEW c \in Calls, ListToStart(c)
  PROVE  IInv'
<1>1. /\ Types /\ Lock /\ Opened /\ Rows /\ c \in Active /\ calls[c].op = "start"
      /\ calls[c].at = "lock" /\ Holds(c) /\ calls[c] \in CallType /\ Typed(calls[c])
      /\ subs \in Seq(Subscription) /\ setups \in Seq({"open", "succeeded"})
  BY ActiveIs DEF IInv, ListToStart, At, Active, Types, TypeOK
<1>2. CASE \E i \in DOMAIN subs : Live(subs[i])
  BY <1>1, <1>2, Answers DEF ListToStart
<1>3. CASE ~\E i \in DOMAIN subs : Live(subs[i])
  <2> DEFINE k == [calls[c] EXCEPT !.at = "replace", !.read = subs, !.attempts = Attempts]
  <2>1. calls' = [calls EXCEPT ![c] = k] /\ UNCHANGED <<subs, setups, events, copy, queue, processed, spent>>
    BY <1>3 DEF ListToStart, Continue
  <2>2. Attempts \subseteq DOMAIN subs /\ DOMAIN subs \subseteq Nat BY <1>1 DEF Attempts
  <2>3. /\ k \in CallType /\ k.op = "start" /\ k.event = calls[c].event /\ k.at = "replace"
        /\ k.attempts = Attempts /\ k.read = subs
    BY <1>1, <2>2 DEF CallType
  <2> HIDE DEF k
  <2>4. Typed(k) BY <1>1, <2>2, <2>3 DEF Typed
  <2>5. Relies(k)
    <3>1. ASSUME NEW i \in DOMAIN subs, subs[i].status # "ended" PROVE subs[i].status = "incomplete"
      <4>1. subs[i] \in Subscription BY <1>1
      <4>2. QED BY <1>3, <3>1, <4>1 DEF Live, Subscription, Statuses
    <3>2. QED BY <2>3, <3>1 DEF Relies, Attempts
  <2>6. QED BY <1>1, <2>1, <2>3, <2>4, <2>5, GoesOn DEF Locking, Inside
<1>4. QED BY <1>2, <1>3

LEMMA ReplaceKeeps ==
  ASSUME IInv, Usual, NEW c \in Calls, Replace(c)
  PROVE  IInv'
<1>1. /\ Types /\ Lock /\ Opened /\ Rows /\ Mails /\ c \in Active /\ calls[c].op = "start"
      /\ calls[c].at = "replace" /\ calls[c] \in CallType /\ Typed(calls[c])
      /\ subs \in Seq(Subscription) /\ spent \in SpentType /\ events \in Seq(EventType)
      /\ queue \in Seq(Calls)
      /\ calls \in [Calls -> {NoCall} \cup CallType]
  BY ActiveIs DEF IInv, Replace, At, Active, Types, TypeOK, SpentType, EventType
<1>2. PICK i \in calls[c].attempts :
        /\ calls' = [calls EXCEPT ![c] = [calls[c] EXCEPT !.attempts = calls[c].attempts \ {i}]]
        /\ \/ /\ subs[i].status # "ended" /\ ~ToWrite(i)
              /\ Change(i, [subs[i] EXCEPT !.status = "ended"])
           \/ /\ subs[i].status = "ended"
              /\ UNCHANGED <<subs, events>>
        /\ UNCHANGED <<setups, copy, queue, processed, spent>>
  <2>1. calls[c].attempts # {} /\ calls[c].attempts \subseteq Nat
    BY <1>1 DEF Replace, CallType
  <2>2. \E i \in calls[c].attempts : \A j \in calls[c].attempts : i <= j
    BY <2>1, LeastNat
  <2>3. (CHOOSE i \in calls[c].attempts : \A j \in calls[c].attempts : i <= j) \in calls[c].attempts
    BY <2>2
  <2>4. QED BY <2>3 DEF Replace, Continue, Usual
<1>. PICK k : k = [calls[c] EXCEPT !.attempts = calls[c].attempts \ {i}]
  OBVIOUS
<1>3. /\ k \in CallType /\ k.op = "start" /\ k.event = calls[c].event /\ k.at = "replace"
      /\ k.attempts = calls[c].attempts \ {i} /\ k.read = calls[c].read
  BY <1>1 DEF CallType
<1>4. i \in DOMAIN subs /\ subs[i] \in Subscription BY <1>1 DEF Typed
<1>5. calls' = [calls EXCEPT ![c] = k] BY <1>2
<1>6. calls'[c] = k /\ \A d \in Calls \ {c} : calls'[d] = calls[d] BY <1>1, <1>5
<1>7. Typed(k) BY <1>1, <1>3 DEF Typed
<1>8. Relies(calls[c]) BY <1>1 DEF Opened
<1>9. CASE subs[i].status = "ended" /\ UNCHANGED <<subs, events>>
  <2>1. Relies(k) BY <1>1, <1>3, <1>8, <1>9 DEF Relies
  <2>2. QED BY <1>1, <1>2, <1>3, <1>5, <1>7, <1>9, <2>1, GoesOn DEF Locking, Inside
<1>10. CASE /\ subs[i].status # "ended" /\ ~ToWrite(i)
            /\ Change(i, [subs[i] EXCEPT !.status = "ended"])
  <2> DEFINE new == [subs[i] EXCEPT !.status = "ended"]
  <2>1. new \in Subscription /\ new.status = "ended" /\ new.trial = subs[i].trial
    BY <1>4 DEF Subscription, Statuses
  <2>2. Change(i, new) BY <1>10
  <2> HIDE DEF new
  <2>3. /\ subs' \in Seq(Subscription) /\ DOMAIN subs' = DOMAIN subs
        /\ \A j \in DOMAIN subs : subs'[j] = IF j = i THEN new ELSE subs[j]
        /\ DOMAIN events \subseteq DOMAIN events'
        /\ \A e \in DOMAIN events : events'[e] = events[e]
    BY <1>1, <1>4, <2>1, <2>2, ChangeIs
  <2>4. Typed(calls[c])' BY <1>2, <1>3, <1>6, <1>7, <2>3 DEF Typed
  <2>5. Relies(calls[c])'
    <3>1. k.read # <<>> => subs' # <<>> BY <1>1, <1>3, <1>4, <2>3
    <3>2. ASSUME NEW j \in DOMAIN subs', subs'[j].status # "ended"
          PROVE  subs'[j].status = "incomplete" /\ j \in k.attempts
      <4>1. j # i /\ j \in DOMAIN subs /\ subs'[j] = subs[j] BY <2>1, <2>3, <3>2
      <4>2. QED BY <1>1, <1>3, <1>8, <3>2, <4>1 DEF Relies
    <3>3. QED BY <1>3, <1>6, <3>1, <3>2 DEF Relies
  <2>6. Onward(c) BY <1>1, <1>3, <1>6, <2>4, <2>5 DEF Onward, Locking, Inside
  <2>7. calls' \in [Calls -> {NoCall} \cup CallType] BY <1>1, <1>3, <1>5
  <2>8. QED BY <1>1, <1>2, <1>4, <1>6, <1>10, <2>1, <2>2, <2>6, <2>7, ChangeKeeps
<1>11. QED BY <1>2, <1>9, <1>10

LEMMA OpenTrialKeeps ==
  ASSUME IInv, NEW c \in Calls, OpenTrial(c)
  PROVE  IInv'
<1>1. /\ c \in Active /\ calls[c].op = "start" /\ calls[c].at = "replace"
      /\ setups \in Seq({"open", "succeeded"})
  BY DEF IInv, OpenTrial, At, Active, Types, TypeOK
<1>2. /\ setups' \in Seq({"open", "succeeded"}) /\ DOMAIN setups \subseteq DOMAIN setups'
      /\ Answer(c) /\ UNCHANGED <<subs, copy, spent>>
  BY <1>1 DEF OpenTrial
<1>3. QED BY <1>1, <1>2, Answers

LEMMA OpenPaidKeeps ==
  ASSUME IInv, NEW c \in Calls, OpenPaid(c)
  PROVE  IInv'
<1> DEFINE new == [status |-> "incomplete", trial |-> FALSE, canceling |-> FALSE, setup |-> 0]
<1>1. /\ c \in Active /\ calls[c].op = "start" /\ calls[c].at = "replace" /\ calls[c] \in CallType
      /\ calls[c].attempts = {} /\ Relies(calls[c]) /\ ~IsTrialEligible(calls[c].read)
      /\ Len(subs) + 1 \in Nat
  BY ActiveIs DEF IInv, OpenPaid, At, Active, Opened, Types, TypeOK
<1>. PICK k : k = [calls[c] EXCEPT !.at = "write", !.id = Len(subs) + 1, !.read = <<new>>]
  OBVIOUS
<1>2. /\ Created(new) /\ calls' = [calls EXCEPT ![c] = k]
      /\ UNCHANGED <<setups, copy, queue, processed, spent>>
  BY DEF OpenPaid, Continue
<1>3. new \in Subscription /\ ~new.trial BY DEF Subscription, Statuses
<1> HIDE DEF new
<1>4. /\ k \in CallType /\ k.op = calls[c].op /\ k.event = calls[c].event
      /\ k.setup = calls[c].setup /\ k.attempts = {}
      /\ k.at = "write" /\ k.id = Len(subs) + 1 /\ k.read = <<new>>
  <2>1. <<new>> \in Seq(Subscription) BY <1>3
  <2>2. QED BY <1>1, <1>3, <2>1 DEF CallType
<1>5. \A j \in DOMAIN subs : subs[j].status = "ended" BY <1>1 DEF Relies
<1>6. subs # <<>>
  <2>1. calls[c].read # <<>> BY <1>1 DEF IsTrialEligible
  <2>2. QED BY <1>1, <2>1 DEF Relies
<1>7. QED BY <1>1, <1>2, <1>3, <1>4, <1>5, <1>6, CreateKeeps DEF Inside, Locking

\* The steps of activateTrialSubscription.
LEMMA WritesAgain ==
  ASSUME IInv, NEW c \in Active, calls[c].op = "activate", Holds(c), NEW s \in DOMAIN subs,
         calls' = [calls EXCEPT ![c] = [calls[c] EXCEPT !.at = "write", !.id = s, !.read = <<subs[s]>>]],
         UNCHANGED <<subs, setups, events, copy, queue, processed, spent>>
  PROVE  IInv'
<1>1. /\ calls[c] \in CallType /\ Typed(calls[c]) /\ s \in Nat /\ subs[s] \in Subscription
  <2>1. Types /\ subs \in Seq(Subscription) BY DEF IInv, Types, TypeOK
  <2>2. QED BY <2>1, ActiveIs DEF Active
<1> DEFINE k == [calls[c] EXCEPT !.at = "write", !.id = s, !.read = <<subs[s]>>]
<1>2. /\ k \in CallType /\ k.op = "activate" /\ k.event = calls[c].event /\ k.setup = calls[c].setup
      /\ k.at = "write" /\ k.id = s /\ k.read = <<subs[s]>> /\ k.attempts = calls[c].attempts
  <2>1. <<subs[s]>> \in Seq(Subscription) BY <1>1
  <2>2. QED BY <1>1, <2>1 DEF CallType
<1>3. calls' = [calls EXCEPT ![c] = k] OBVIOUS
<1> HIDE DEF k
<1>4. Typed(k) BY <1>1, <1>2 DEF Typed
<1>5. Relies(k) BY <1>2 DEF Relies
<1>6. QED BY <1>2, <1>3, <1>4, <1>5, GoesOn DEF Locking, Inside

LEMMA ListToActivateKeeps ==
  ASSUME IInv, NEW c \in Calls, ListToActivate(c)
  PROVE  IInv'
<1>1. /\ c \in Active /\ calls[c].op = "activate" /\ calls[c].at = "lock" /\ Holds(c)
      /\ calls[c] \in CallType /\ Typed(calls[c]) /\ Opened
      /\ subs \in Seq(Subscription) /\ setups \in Seq({"open", "succeeded"})
      /\ UNCHANGED <<subs, setups, copy, spent>>
  BY ActiveIs DEF IInv, ListToActivate, At, Active, Types, TypeOK
<1>2. CASE Answer(c) BY <1>1, <1>2, Answers
<1>3. CASE /\ UNCHANGED <<queue, events, processed>>
           /\ \E s \in Already(calls[c].setup) :
                Continue(c, [calls[c] EXCEPT !.at = "write", !.id = s, !.read = <<subs[s]>>])
  <2>1. Already(calls[c].setup) \subseteq DOMAIN subs BY DEF Already, FromThisSetup, LiveOnes
  <2>2. QED BY <1>1, <1>3, <2>1, WritesAgain DEF Continue
<1>4. CASE /\ UNCHANGED <<queue, events, processed>> /\ IsTrialEligible(subs)
           /\ Continue(c, [calls[c] EXCEPT !.at = "create"])
  <2> DEFINE k == [calls[c] EXCEPT !.at = "create"]
  <2>1. /\ k \in CallType /\ k.op = "activate" /\ k.event = calls[c].event
        /\ k.setup = calls[c].setup /\ k.at = "create" /\ k.attempts = calls[c].attempts
    BY <1>1 DEF CallType
  <2>2. calls' = [calls EXCEPT ![c] = k] BY <1>4 DEF Continue
  <2> HIDE DEF k
  <2>3. Typed(k) BY <1>1, <2>1 DEF Typed
  <2>4. subs = <<>>
    <3>1. 1 \notin DOMAIN subs BY <1>1, <1>4 DEF IsTrialEligible, Opened
    <3>2. QED BY <1>1, <3>1
  <2>5. Relies(k) BY <2>1, <2>4 DEF Relies
  <2>6. QED BY <1>1, <1>4, <2>1, <2>2, <2>3, <2>5, GoesOn DEF Locking, Inside
<1>5. QED BY <1>2, <1>3, <1>4 DEF ListToActivate

LEMMA CreateTrialKeeps ==
  ASSUME IInv, NEW c \in Calls, CreateTrial(c)
  PROVE  IInv'
<1>1. /\ c \in Active /\ calls[c].op = "activate" /\ calls[c].at = "create" /\ Lock
      /\ calls[c] \in CallType /\ Typed(calls[c]) /\ Relies(calls[c])
      /\ UNCHANGED <<setups, copy, queue, processed, spent>>
  BY ActiveIs DEF IInv, CreateTrial, At, Active, Opened
<1>2. subs = <<>> /\ FromThisSetup(calls[c].setup) = {}
  BY <1>1 DEF Relies, FromThisSetup
<1>3. calls[c].setup \in Nat /\ calls[c].attempts = {} /\ Len(subs) + 1 \in Nat
  BY <1>1, <1>2 DEF CallType, Typed
<1>n. PICK new : new = Trial(calls[c].setup) OBVIOUS
<1>k. PICK k : k = [calls[c] EXCEPT !.at = "write", !.id = Len(subs) + 1, !.read = <<new>>]
  OBVIOUS
<1>4. new \in Subscription /\ new.trial BY <1>3, <1>n DEF Trial, Subscription, Statuses
<1>5. Created(new) /\ calls' = [calls EXCEPT ![c] = k]
  BY <1>2, <1>n, <1>k DEF CreateTrial, Continue
<1>6. /\ k \in CallType /\ k.op = calls[c].op /\ k.event = calls[c].event
      /\ k.setup = calls[c].setup /\ k.attempts = {}
      /\ k.at = "write" /\ k.id = Len(subs) + 1 /\ k.read = <<new>>
  <2>1. <<new>> \in Seq(Subscription) BY <1>4
  <2>2. QED BY <1>1, <1>3, <1>k, <2>1 DEF CallType
<1>7. (\A j \in DOMAIN subs : subs[j].status = "ended") /\ subs = <<>> BY <1>2
<1>8. Inside(calls[c]) BY <1>1 DEF Inside, Locking
<1>9. QED BY <1>1, <1>4, <1>5, <1>6, <1>7, <1>8, CreateKeeps

\* The steps of the synchronisation and of the cancellation.
LEMMA RetrieveKeeps ==
  ASSUME IInv, NEW c \in Calls, Retrieve(c)
  PROVE  IInv'
<1>1. /\ c \in Active /\ calls[c].op = "sync" /\ calls[c].at = "retrieve"
      /\ calls[c] \in CallType /\ Typed(calls[c]) /\ subs \in Seq(Subscription)
      /\ UNCHANGED <<subs, setups, events, copy, queue, processed, spent>>
  BY ActiveIs DEF IInv, Retrieve, At, Active, Types, TypeOK
<1> DEFINE k == [calls[c] EXCEPT !.at = "write", !.read = <<subs[calls[c].id]>>]
<1>2. /\ k \in CallType /\ k.op = "sync" /\ k.event = calls[c].event /\ k.at = "write"
      /\ k.id = calls[c].id /\ k.read = <<subs[k.id]>> /\ k.attempts = calls[c].attempts
  <2>1. calls[c].id \in DOMAIN subs BY <1>1 DEF Typed
  <2>2. <<subs[calls[c].id]>> \in Seq(Subscription) BY <1>1, <2>1
  <2>3. QED BY <1>1, <2>2 DEF CallType
<1>3. calls' = [calls EXCEPT ![c] = k] BY DEF Retrieve, Continue
<1> HIDE DEF k
<1>4. Typed(k) BY <1>1, <1>2 DEF Typed
<1>5. Relies(k) BY <1>2 DEF Relies
<1>6. QED BY <1>1, <1>2, <1>3, <1>4, <1>5, GoesOn DEF Locking, Inside

LEMMA FindLiveKeeps ==
  ASSUME IInv, NEW c \in Calls, FindLive(c)
  PROVE  IInv'
<1>1. /\ c \in Active /\ calls[c].op = "cancel" /\ calls[c].at = "find"
      /\ calls[c] \in CallType /\ Typed(calls[c]) /\ subs \in Seq(Subscription)
      /\ setups \in Seq({"open", "succeeded"})
      /\ UNCHANGED <<subs, setups, copy, spent>>
  BY ActiveIs DEF IInv, FindLive, At, Active, Types, TypeOK
<1>2. CASE LiveOnes = {} BY <1>1, <1>2, Answers DEF FindLive
<1>3. CASE LiveOnes # {}
  <2>1. PICK s \in LiveOnes : Continue(c, [calls[c] EXCEPT !.at = "ask", !.id = s])
    BY <1>3 DEF FindLive
  <2> DEFINE k == [calls[c] EXCEPT !.at = "ask", !.id = s]
  <2>2. s \in DOMAIN subs /\ s \in Nat BY <1>1 DEF LiveOnes
  <2>3. /\ k \in CallType /\ k.op = "cancel" /\ k.event = calls[c].event /\ k.at = "ask"
        /\ k.id = s /\ k.attempts = calls[c].attempts
    BY <1>1, <2>2 DEF CallType
  <2>4. /\ calls' = [calls EXCEPT ![c] = k] /\ UNCHANGED <<queue, events, processed>>
    BY <1>3, <2>1 DEF FindLive, Continue
  <2> HIDE DEF k
  <2>5. Typed(k) BY <1>1, <2>2, <2>3 DEF Typed
  <2>6. Relies(k) BY <2>3 DEF Relies
  <2>7. QED BY <1>1, <2>3, <2>4, <2>5, <2>6, GoesOn DEF Locking, Inside
<1>4. QED BY <1>2, <1>3

LEMMA AskStripeKeeps ==
  ASSUME IInv, Usual, NEW c \in Calls, AskStripe(c)
  PROVE  IInv'
<1>1. /\ c \in Active /\ calls[c].op = "cancel" /\ calls[c].at = "ask"
      /\ calls[c] \in CallType /\ Typed(calls[c]) /\ subs \in Seq(Subscription)
      /\ setups \in Seq({"open", "succeeded"}) /\ Types /\ spent \in SpentType
      /\ calls \in [Calls -> {NoCall} \cup CallType]
      /\ UNCHANGED <<setups, copy, spent>>
  BY ActiveIs DEF IInv, AskStripe, At, Active, Types, TypeOK, SpentType
<1>2. calls[c].id \in DOMAIN subs /\ subs[calls[c].id] \in Subscription BY <1>1 DEF Typed
<1>i. PICK i : i = calls[c].id OBVIOUS
<1>n. PICK new : new = [subs[i] EXCEPT !.canceling = calls[c].want] OBVIOUS
<1>3. CASE subs[i].status = "ended"
  <2>1. Answer(c) /\ UNCHANGED subs BY <1>3, <1>i DEF AskStripe
  <2>2. QED BY <1>1, <2>1, Answers
<1>4. CASE subs[i].status # "ended"
  <2>k. PICK k : k = [calls[c] EXCEPT !.at = "write", !.read = <<new>>] OBVIOUS
  <2>1. /\ MayChange(i) /\ calls' = [calls EXCEPT ![c] = k] /\ UNCHANGED <<queue, processed>>
        /\ IF new = subs[i] THEN UNCHANGED <<subs, events>> ELSE Change(i, new)
    BY <1>4, <1>i, <1>n, <2>k DEF AskStripe, Continue
  <2>2. /\ new \in Subscription /\ new.status = subs[i].status /\ new.trial = subs[i].trial
    BY <1>1, <1>2, <1>i, <1>n DEF Subscription, CallType
  <2>3. /\ k \in CallType /\ k.op = "cancel" /\ k.event = calls[c].event /\ k.at = "write"
        /\ k.id = i /\ k.read = <<new>> /\ k.attempts = calls[c].attempts
    <3>1. <<new>> \in Seq(Subscription) BY <2>2
    <3>2. QED BY <1>1, <1>i, <2>k, <3>1 DEF CallType
  <2>4. i \in DOMAIN subs /\ Typed(k) BY <1>1, <1>2, <1>i, <2>3 DEF Typed
  <2>5. CASE new = subs[i]
    <3>1. Relies(k) BY <2>3 DEF Relies
    <3>2. UNCHANGED <<subs, events>> BY <2>1, <2>5
    <3>3. QED BY <1>1, <2>1, <2>3, <2>4, <2>5, <3>1, <3>2, GoesOn DEF Locking, Inside
  <2>6. CASE new # subs[i]
    <3>1. Change(i, new) BY <2>1, <2>6
    <3>2. /\ subs'[i] = new /\ DOMAIN subs' = DOMAIN subs
          /\ DOMAIN events \subseteq DOMAIN events'
          /\ \A e \in DOMAIN events : events'[e] = events[e]
      BY <1>1, <2>2, <2>4, <3>1, ChangeIs
    <3>3. calls'[c] = k /\ \A d \in Calls \ {c} : calls'[d] = calls[d] BY <1>1, <2>1
    <3>4. Typed(calls[c])' BY <1>1, <2>3, <2>4, <3>2, <3>3 DEF Typed
    <3>5. Relies(calls[c])' BY <2>3, <3>3 DEF Relies
    <3>6. Onward(c) BY <1>1, <2>3, <3>2, <3>3, <3>4, <3>5 DEF Onward, Locking, Inside
    <3>7. ~ToWrite(i) BY <2>1 DEF MayChange, InHand, Usual
    <3>8. calls' \in [Calls -> {NoCall} \cup CallType] BY <1>1, <2>1, <2>3
    <3>9. QED BY <1>1, <2>1, <2>2, <2>4, <3>1, <3>3, <3>6, <3>7, <3>8, ChangeKeeps
  <2>7. QED BY <2>5, <2>6
<1>5. QED BY <1>3, <1>4

\* The row is written: it is up to date, and the events of the other
\* subscriptions are as before.
LEMMA WriteIs ==
  ASSUME IInv, NEW c \in Calls, Write(c)
  PROVE  /\ c \in Active /\ calls[c] \in CallType /\ Typed(calls[c]) /\ calls[c].id \in DOMAIN subs
         /\ calls[c].at = "write" /\ UNCHANGED <<subs, setups, spent>>
         /\ DOMAIN copy' = DOMAIN copy \cup {calls[c].id}
         /\ copy'[calls[c].id] = Columns(subs[calls[c].id])
         /\ \A j \in DOMAIN copy : j # calls[c].id => copy'[j] = copy[j]
         /\ \A j \in DOMAIN copy' : copy'[j] \in [status: Statuses, canceling: BOOLEAN]
<1>1. /\ c \in Active /\ calls[c].at = "write" /\ UNCHANGED <<subs, setups, spent>>
      /\ Upsert(calls[c].id, calls[c].read[1])
  BY DEF Write, Active
<1>2. calls[c] \in CallType /\ Typed(calls[c]) BY <1>1, ActiveIs DEF IInv
<1>3. calls[c].id \in DOMAIN subs BY <1>1, <1>2 DEF Typed
<1>4. calls[c].read[1] = subs[calls[c].id] BY <1>1 DEF IInv, Rows
<1>5. /\ DOMAIN copy' = DOMAIN copy \cup {calls[c].id}
      /\ copy'[calls[c].id] = Columns(subs[calls[c].id])
      /\ \A j \in DOMAIN copy : j # calls[c].id => copy'[j] = copy[j]
  BY <1>1, <1>4 DEF Upsert
<1>6. \A j \in DOMAIN copy' : copy'[j] \in [status: Statuses, canceling: BOOLEAN]
  <2>1. subs \in Seq(Subscription) /\ \A j \in DOMAIN copy : copy[j] \in [status: Statuses, canceling: BOOLEAN]
    BY DEF IInv, Types, TypeOK
  <2>2. subs[calls[c].id] \in Subscription BY <1>3, <2>1
  <2>3. Columns(subs[calls[c].id]) \in [status: Statuses, canceling: BOOLEAN]
    BY <2>2 DEF Columns, Subscription
  <2>4. QED BY <1>5, <2>1, <2>3
<1>7. QED BY <1>1, <1>2, <1>3, <1>5, <1>6

LEMMA RowsWritten ==
  ASSUME IInv, NEW c \in Calls, Write(c), DOMAIN events' = DOMAIN events,
         \A e \in DOMAIN events, j \in DOMAIN subs :
           j # calls[c].id /\ Pending(e, j) => Pending(e, j)',
         \A d \in Calls : calls'[d] \in {calls[d], NoCall} \/ calls'[d].at # "write"
  PROVE  Rows'
<1>1. Types /\ Rows BY DEF IInv
<1>2. \A d \in Active' : calls'[d].at = "write" => calls'[d].read = <<subs'[calls'[d].id]>>
  BY <1>1, WriteIs, WritesKept
<1>3. ASSUME NEW j \in DOMAIN subs'
      PROVE  \/ j \in DOMAIN copy' /\ copy'[j] = Columns(subs'[j])
             \/ \E e \in DOMAIN events' : Pending(e, j)'
  <2>1. CASE j = calls[c].id BY <2>1, WriteIs
  <2>2. CASE j # calls[c].id /\ j \in DOMAIN copy /\ copy[j] = Columns(subs[j])
    BY <2>2, WriteIs
  <2>3. CASE j # calls[c].id /\ \E e \in DOMAIN events : Pending(e, j)
    <3>1. PICK e \in DOMAIN events : Pending(e, j) BY <2>3
    <3>2. j \in DOMAIN subs BY WriteIs
    <3>3. Pending(e, j)' BY <2>3, <3>1, <3>2
    <3>4. QED BY <3>3
  <2>4. QED BY <1>1, <2>1, <2>2, <2>3, WriteIs DEF Rows
<1>4. QED BY <1>2, <1>3 DEF Rows

LEMMA WriteKeeps ==
  ASSUME IInv, NEW c \in Calls, Write(c)
  PROVE  IInv'
<1>1. /\ Types /\ Lock /\ Opened /\ Rows /\ Mails /\ spent \in SpentType
      /\ subs \in Seq(Subscription) /\ setups \in Seq({"open", "succeeded"})
      /\ DOMAIN copy \subseteq DOMAIN subs
      /\ calls \in [Calls -> {NoCall} \cup CallType]
      /\ events \in Seq(EventType) /\ queue \in Seq(Calls)
  BY DEF IInv, Types, TypeOK, SpentType, EventType
<1>2. /\ c \in Active /\ calls[c] \in CallType /\ Typed(calls[c]) /\ calls[c].at = "write"
      /\ calls[c].op \in {"start", "activate", "sync", "cancel"}
      /\ UNCHANGED <<subs, setups, spent>>
      /\ DOMAIN copy' \subseteq DOMAIN subs
      /\ \A j \in DOMAIN copy' : copy'[j] \in [status: Statuses, canceling: BOOLEAN]
  <2>1. calls[c] \in CallType /\ calls[c].id \in DOMAIN subs BY WriteIs
  <2>2. calls[c].op \in {"start", "activate", "sync", "cancel"} BY <2>1 DEF CallType
  <2>3. QED BY <1>1, <2>1, <2>2, WriteIs
<1>3. CASE ToTell(calls[c])
  <2>k. PICK k : k = [calls[c] EXCEPT !.at = "mail"] OBVIOUS
  <2>1. calls' = [calls EXCEPT ![c] = k] /\ UNCHANGED <<queue, events, processed>>
    BY <1>3, <2>k DEF Write, Continue
  <2>2. /\ k \in CallType /\ k.op = "sync" /\ k.event = calls[c].event /\ k.at = "mail"
        /\ k.id = calls[c].id /\ k.attempts = calls[c].attempts /\ k.event # 0
        /\ calls[c].op = "sync"
    BY <1>2, <1>3, <2>k DEF CallType, ToTell
  <2>3. calls'[c] = k /\ \A d \in Calls \ {c} : calls'[d] = calls[d] BY <1>1, <2>1
  <2>4. Types'
    <3>1. calls' \in [Calls -> {NoCall} \cup CallType] BY <1>1, <2>1, <2>2
    <3>2. TypeOK' BY <1>1, <1>2, <2>1, <3>1 DEF Types, TypeOK, EventType, SpentType
    <3>3. Typed(calls[c])' BY <1>2, <2>1, <2>2, <2>3 DEF Typed
    <3>4. QED BY <1>1, <1>2, <2>1, <2>3, <3>2, <3>3, TypesKept DEF Grow
  <2>5. Lock' BY <1>1, <2>1, <2>2, <2>3, LockSame DEF Locking, Inside
  <2>6. Opened'
    <3>1. Relies(calls[c])' BY <2>2, <2>3 DEF Relies
    <3>2. \A d \in Calls : calls'[d] \in {calls[d], NoCall} \/ Relies(calls[d])' BY <2>3, <3>1
    <3>3. QED BY <1>1, <1>2, <3>2, OpenedSame
  <2>7. Rows'
    <3>1. ASSUME NEW e \in DOMAIN events, NEW j \in DOMAIN subs, j # calls[c].id, Pending(e, j)
          PROVE  Pending(e, j)'
      <4>1. events[k.event].id = calls[c].id BY <1>2, <2>2 DEF Typed
      <4>2. e # k.event BY <3>1, <4>1 DEF Pending
      <4>3. \A d \in Active' : d = c \/ (d \in Active /\ calls'[d] = calls[d])
        BY <2>3 DEF Active
      <4>4. QED BY <2>1, <2>3, <3>1, <4>2, <4>3 DEF Pending
    <3>2. \A d \in Calls : calls'[d] = calls[d] \/ calls'[d].at # "write" BY <2>2, <2>3
    <3>3. QED BY <2>1, <3>1, <3>2, RowsWritten
  <2>8. Mails'
    <3>1. \A d \in Calls : calls'[d].op = "none" \/ (d \in Active /\ calls'[d].event = calls[d].event)
      BY <1>2, <2>2, <2>3 DEF Active
    <3>2. TypeOK' BY <2>4 DEF Types
    <3>3. QED BY <1>1, <1>2, <2>1, <3>1, <3>2, MailsKept
  <2>9. QED BY <2>4, <2>5, <2>6, <2>7, <2>8 DEF IInv
<1>4. CASE ~ToTell(calls[c])
  <2>1. Answer(c) BY <1>4 DEF Write
  <2>2. Types' /\ Lock' /\ Opened' BY <1>1, <1>2, <2>1, AnswerIs, LeaveKeeps
  <2>3. Mails' BY <1>2, <2>1, <2>2, AnswerMails DEF Types
  <2>4. Rows'
    <3>0. /\ \A e \in DOMAIN events : e # calls[c].event => events'[e] = events[e]
          /\ processed' \subseteq processed \cup {calls[c].event}
      BY <1>1, <1>2, <2>1, AnswerIs
    <3>1. \A d \in Calls : calls'[d] \in {calls[d], NoCall} BY <1>1, <1>2, <2>1, AnswerIs
    <3>2. \A d \in Calls : calls'[d] = calls[d] \/ calls'[d].op = "none"
      BY <3>1 DEF NoCall
    <3>3. ASSUME NEW e \in DOMAIN events, NEW j \in DOMAIN subs, j # calls[c].id, Pending(e, j)
          PROVE  Pending(e, j)'
      <4>1. e # calls[c].event
        <5>1. e # 0 /\ events[e].about = "subscription" /\ events[e].id = j
          BY <1>1, <3>3 DEF Pending
        <5>2. QED BY <1>2, <3>3, <5>1 DEF Typed
      <4>2. events'[e] = events[e] /\ e \notin processed' \ processed
        BY <3>0, <4>1
      <4>3. QED BY <3>2, <3>3, <4>2, PendingKept
    <3>4. QED BY <1>1, <1>2, <2>1, <3>1, <3>3, AnswerIs, RowsWritten
  <2>5. QED BY <2>2, <2>3, <2>4 DEF IInv
<1>5. QED BY <1>3, <1>4

LEMMA MailKeeps ==
  ASSUME IInv, NEW c \in Calls, Mail(c)
  PROVE  IInv'
<1>1. /\ Types /\ Lock /\ Opened /\ Rows /\ Mails /\ spent \in SpentType
      /\ subs \in Seq(Subscription) /\ setups \in Seq({"open", "succeeded"})
      /\ DOMAIN copy \subseteq DOMAIN subs
      /\ \A j \in DOMAIN copy : copy[j] \in [status: Statuses, canceling: BOOLEAN]
      /\ calls \in [Calls -> {NoCall} \cup CallType]
      /\ events \in Seq(EventType) /\ queue \in Seq(Calls) /\ processed \subseteq DOMAIN events
  BY DEF IInv, Types, TypeOK, SpentType, EventType
<1>2. /\ c \in Active /\ calls[c] \in CallType /\ Typed(calls[c])
      /\ calls[c].op = "sync" /\ calls[c].at = "mail" /\ Leave(c)
      /\ UNCHANGED <<subs, setups, copy>>
  BY <1>1, ActiveIs DEF Mail, At, Active
<1>e. PICK e : e = calls[c].event OBVIOUS
<1>3. e # 0 /\ e \in DOMAIN events /\ events[e] \in EventType /\ events[e].mails + 1 \in Nat
  <2>1. e # 0 /\ e \in DOMAIN events BY <1>2, <1>e DEF Typed
  <2>2. events[e] \in EventType BY <1>1, <2>1
  <2>3. QED BY <2>1, <2>2 DEF EventType
<1>4. \/ /\ events' = [events EXCEPT ![e].mails = @ + 1, ![e].acked = TRUE]
         /\ processed' = processed \cup {e} /\ UNCHANGED spent
      \/ /\ events' = [events EXCEPT ![e].mails = @ + 1]
         /\ processed' = processed \cup {e} /\ Spend("faults", MaxFaults)
      \/ /\ events' = [events EXCEPT ![e].mails = @ + 1, ![e].unheard = @ + 1]
         /\ UNCHANGED processed /\ Spend("faults", MaxFaults)
  BY <1>e DEF Mail
<1>5. spent' \in SpentType /\ spent'.crashes = spent.crashes
  BY <1>1, <1>4, SpendIs
<1>p. processed \subseteq processed' /\ processed' \subseteq processed \cup {e} BY <1>4
<1>6. /\ events' \in Seq(EventType) /\ DOMAIN events' = DOMAIN events
      /\ \A f \in DOMAIN events : f # e => events'[f] = events[f]
      /\ events'[e].about = events[e].about /\ events'[e].id = events[e].id
      /\ events'[e].overlaps = events[e].overlaps
      /\ Marked(e) \/ Unheard(e)
  <2>1. \E new \in EventType :
          /\ events' = [events EXCEPT ![e] = new]
          /\ new.about = events[e].about /\ new.id = events[e].id
          /\ new.mails = events[e].mails + 1 /\ new.overlaps = events[e].overlaps
          /\ \/ new.unheard = events[e].unheard /\ e \in processed'
             \/ new.unheard = events[e].unheard + 1
    <3>1. CASE /\ events' = [events EXCEPT ![e].mails = @ + 1, ![e].acked = TRUE]
               /\ e \in processed'
      <4>n. PICK new : new = [events[e] EXCEPT !.mails = events[e].mails + 1, !.acked = TRUE] OBVIOUS
      <4>1. events' = [events EXCEPT ![e] = new] BY <1>1, <1>3, <3>1, <4>n
      <4>2. /\ new \in EventType /\ new.about = events[e].about /\ new.id = events[e].id
            /\ new.mails = events[e].mails + 1 /\ new.overlaps = events[e].overlaps
            /\ new.unheard = events[e].unheard
        BY <1>3, <4>n DEF EventType
      <4>3. QED BY <3>1, <4>1, <4>2
    <3>2. CASE events' = [events EXCEPT ![e].mails = @ + 1] /\ e \in processed'
      <4>n. PICK new : new = [events[e] EXCEPT !.mails = events[e].mails + 1] OBVIOUS
      <4>1. events' = [events EXCEPT ![e] = new] BY <1>1, <1>3, <3>2, <4>n
      <4>2. /\ new \in EventType /\ new.about = events[e].about /\ new.id = events[e].id
            /\ new.mails = events[e].mails + 1 /\ new.overlaps = events[e].overlaps
            /\ new.unheard = events[e].unheard
        BY <1>3, <4>n DEF EventType
      <4>3. QED BY <3>2, <4>1, <4>2
    <3>3. CASE events' = [events EXCEPT ![e].mails = @ + 1, ![e].unheard = @ + 1]
      <4>n. PICK new : new = [events[e] EXCEPT !.mails = events[e].mails + 1,
                                               !.unheard = events[e].unheard + 1] OBVIOUS
      <4>1. events' = [events EXCEPT ![e] = new] BY <1>1, <1>3, <3>3, <4>n
      <4>0. events[e].unheard + 1 \in Nat BY <1>3, HistoryIs
      <4>2. /\ new \in EventType /\ new.about = events[e].about /\ new.id = events[e].id
            /\ new.mails = events[e].mails + 1 /\ new.overlaps = events[e].overlaps
            /\ new.unheard = events[e].unheard + 1
        BY <1>3, <4>0, <4>n DEF EventType
      <4>3. QED BY <4>1, <4>2
    <3>4. QED BY <1>4, <3>1, <3>2, <3>3
  <2>2. PICK new \in EventType :
          /\ events' = [events EXCEPT ![e] = new]
          /\ new.about = events[e].about /\ new.id = events[e].id
          /\ new.mails = events[e].mails + 1 /\ new.overlaps = events[e].overlaps
          /\ \/ new.unheard = events[e].unheard /\ e \in processed'
             \/ new.unheard = events[e].unheard + 1
    BY <2>1
  <2>3. /\ events' \in Seq(EventType) /\ DOMAIN events' = DOMAIN events /\ events'[e] = new
        /\ \A f \in DOMAIN events : f # e => events'[f] = events[f]
    BY <1>1, <1>3, <2>2
  <2>4. Marked(e) \/ Unheard(e) BY <1>p, <2>2, <2>3 DEF Marked, Unheard
  <2>5. QED BY <2>2, <2>3, <2>4
<1>7. calls' = [calls EXCEPT ![c] = NoCall] BY <1>2 DEF Leave
<1>8. \A d \in Calls : calls'[d] \in {calls[d], NoCall} BY <1>1, <1>7
<1>9. Types' /\ Lock' /\ Opened'
  BY <1>1, <1>2, <1>3, <1>p, <1>5, <1>6, LeaveKeeps
<1>10. Rows'
  <2>1. \A d \in Calls : calls'[d] = calls[d] \/ calls'[d].op = "none"
    BY <1>8 DEF NoCall
  <2>2. ASSUME NEW f \in DOMAIN events, NEW i \in DOMAIN subs, Pending(f, i) PROVE Pending(f, i)'
    <3>1. f # e BY <1>2, <1>e, <2>2 DEF Pending
    <3>2. QED BY <1>p, <1>6, <2>1, <2>2, <3>1, PendingKept
  <2>3. QED BY <1>1, <1>2, <1>6, <1>8, <2>2, RowsSame
<1>11. Mails' BY <1>1, <1>2, <1>e, <1>3, <1>p, <1>5, <1>6, <1>7, MailsHandled
<1>12. QED BY <1>9, <1>10, <1>11 DEF IInv

\* What fails.
LEMMA FailKeeps ==
  ASSUME IInv, NEW c \in Calls, Fail(c)
  PROVE  IInv'
<1>1. /\ Types /\ Lock /\ Opened /\ Rows /\ Mails /\ spent \in SpentType
      /\ subs \in Seq(Subscription) /\ setups \in Seq({"open", "succeeded"})
      /\ DOMAIN copy \subseteq DOMAIN subs
      /\ \A j \in DOMAIN copy : copy[j] \in [status: Statuses, canceling: BOOLEAN]
      /\ calls \in [Calls -> {NoCall} \cup CallType]
      /\ events \in Seq(EventType) /\ processed \subseteq DOMAIN events
  BY DEF IInv, Types, TypeOK, SpentType, EventType
<1>2. /\ c \in Active /\ Leave(c) /\ (calls[c].at = "lock" => Holds(c))
      /\ calls' = [calls EXCEPT ![c] = NoCall]
      /\ UNCHANGED <<subs, setups, events, copy, processed>>
  BY DEF Fail, Active, Leave
<1>3. spent' \in SpentType /\ spent'.crashes = spent.crashes BY <1>1, SpendIs DEF Fail
<1>4. \A d \in Calls : calls'[d] \in {calls[d], NoCall} BY <1>1, <1>2
<1>5. \A d \in Calls : calls'[d] = calls[d] \/ calls'[d].op = "none" BY <1>4 DEF NoCall
<1>6. Types' /\ Lock' /\ Opened' BY <1>1, <1>2, <1>3, LeaveKeeps
<1>7. Rows'
  <2>1. \A e \in DOMAIN events, i \in DOMAIN subs : Pending(e, i) => Pending(e, i)'
    BY <1>2, <1>5, PendingKept
  <2>2. QED BY <1>1, <1>2, <1>4, <2>1, RowsSame
<1>8. Mails'
  <2>1. \A d \in Calls : calls'[d].op = "none" \/ (d \in Active /\ calls'[d].event = calls[d].event)
    BY <1>5 DEF Active
  <2>2. TypeOK' BY <1>6 DEF Types
  <2>3. QED BY <1>1, <1>2, <1>3, <2>1, <2>2, MailsKept
<1>9. QED BY <1>6, <1>7, <1>8 DEF IInv

LEMMA RestartKeeps ==
  ASSUME IInv, Restart
  PROVE  IInv'
<1>1. /\ Types /\ Lock /\ Opened /\ Rows /\ Mails /\ spent \in SpentType
      /\ subs \in Seq(Subscription) /\ events \in Seq(EventType)
  BY DEF IInv, Types, TypeOK, SpentType, EventType
<1>2. /\ calls' = [c \in Calls |-> NoCall] /\ queue' = <<>> /\ processed' = {}
      /\ UNCHANGED <<subs, setups, events, copy>>
  BY DEF Restart
<1>3. spent' \in SpentType /\ spent'.crashes = spent.crashes + 1 BY <1>1, SpendIs DEF Restart
<1>4. \A d \in Calls : calls'[d] = NoCall /\ calls'[d].op = "none" BY <1>2 DEF NoCall
<1>5. TypeOK' BY <1>1, <1>2, <1>3 DEF Types, TypeOK, EventType, SpentType
<1>6. Types' BY <1>1, <1>2, <1>4, <1>5, TypesKept DEF Grow
<1>7. Lock' BY <1>2, <1>4 DEF Lock, Inside, Locking
<1>8. Opened' BY <1>1, <1>2, <1>4, OpenedSame
<1>9. Rows'
  <2>1. \A e \in DOMAIN events, i \in DOMAIN subs : Pending(e, i) => Pending(e, i)'
    BY <1>2, <1>4, PendingKept
  <2>2. QED BY <1>1, <1>2, <1>4, <2>1, RowsSame
<1>10. Mails'
  <2>1. ASSUME NEW e \in DOMAIN events'
        PROVE  /\ events'[e].mails + Cardinality((Handling(e))') <= 1 + Excused(e)'
               /\ events'[e].mails <= Excused(e)'
    <3>1. events[e] \in EventType /\ events' = events /\ e \in DOMAIN events BY <1>1, <1>2
    <3>2. /\ events[e].mails \in Nat /\ events[e].overlaps \in Nat /\ events[e].unheard \in Nat
          /\ spent.crashes \in Nat
      BY <1>1, <3>1, HistoryIs DEF SpentType
    <3>3. (Handling(e))' = {} BY <1>4 DEF Handling, Active
    <3>4. Cardinality((Handling(e))') = 0 BY <3>3, FS_EmptySet
    <3>5. Cardinality(Handling(e)) \in Nat BY HandlingIs, Few
    <3>6. events[e].mails + Cardinality(Handling(e)) <= 1 + Excused(e) BY <1>1, <3>1 DEF Mails, MailsOf
    <3>7. QED BY <1>3, <3>1, <3>2, <3>4, <3>5, <3>6 DEF Excused
  <2>2. QED BY <2>1 DEF Mails, MailsOf
<1>11. QED BY <1>6, <1>7, <1>8, <1>9, <1>10 DEF IInv

\* What the customer and the clock do at Stripe.
LEMMA ConfirmKeeps ==
  ASSUME IInv, NEW i \in DOMAIN setups, Confirm(i)
  PROVE  IInv'
<1>1. /\ Types /\ Lock /\ Opened /\ Rows /\ Mails /\ spent \in SpentType
      /\ subs \in Seq(Subscription) /\ setups \in Seq({"open", "succeeded"})
      /\ events \in Seq(EventType)
  BY DEF IInv, Types, TypeOK, SpentType, EventType
<1>e. PICK new : new = Event("setup", i, FALSE) OBVIOUS
<1>2. /\ setups' = [setups EXCEPT ![i] = "succeeded"] /\ events' = Append(events, new)
      /\ UNCHANGED <<subs, copy, calls, queue, processed>>
  BY <1>e DEF Confirm
<1>3. spent' \in SpentType /\ spent'.crashes = spent.crashes BY <1>1, SpendIs DEF Confirm
<1>4. new \in EventType /\ new.about = "setup" /\ new.id = i /\ History(new) = <<0, 0, 0>>
  <2>1. i \in Nat BY <1>1
  <2>2. QED BY <1>e, <2>1 DEF Event, EventType, History
<1>5. setups' \in Seq({"open", "succeeded"}) /\ DOMAIN setups' = DOMAIN setups BY <1>1, <1>2
<1>6. /\ events' \in Seq(EventType) /\ DOMAIN events \subseteq DOMAIN events'
      /\ \A e \in DOMAIN events : events'[e] = events[e]
      /\ \A e \in DOMAIN events' \ DOMAIN events : events'[e] = new
  BY <1>1, <1>2, <1>4
<1>7. Grow /\ \A d \in Calls : calls'[d] = calls[d] BY <1>2, <1>5, <1>6 DEF Grow
<1>8. Types'
  <2>1. TypeOK' BY <1>1, <1>2, <1>3, <1>5, <1>6 DEF Types, TypeOK, EventType, SpentType
  <2>2. \A e \in DOMAIN events' \ DOMAIN events : EventOK(e)' BY <1>4, <1>5, <1>6 DEF EventOK
  <2>3. QED BY <1>1, <1>7, <2>1, <2>2, TypesKept
<1>9. Lock' BY <1>1, <1>2, LockSame
<1>10. Opened' BY <1>1, <1>2, <1>7, OpenedSame
<1>11. Rows'
  <2>1. \A e \in DOMAIN events, j \in DOMAIN subs : Pending(e, j) => Pending(e, j)'
    BY <1>2, <1>6, <1>7, PendingKept
  <2>2. QED BY <1>1, <1>2, <1>6, <1>7, <2>1, RowsSame
<1>12. Mails'
  <2>1. \A d \in Calls : calls'[d].op = "none" \/ (d \in Active /\ calls'[d].event = calls[d].event)
    BY <1>7 DEF Active
  <2>2. TypeOK' BY <1>8 DEF Types
  <2>3. QED BY <1>1, <1>2, <1>3, <1>4, <1>6, <2>1, <2>2, MailsKept
<1>13. QED BY <1>8, <1>9, <1>10, <1>11, <1>12 DEF IInv

LEMMA CustomerKeeps ==
  ASSUME IInv, Usual, NEW i \in DOMAIN subs, Pay(i) \/ InPortal(i) \/ Term(i)
  PROVE  IInv'
<1>1. /\ Opened /\ spent \in SpentType /\ subs[i] \in Subscription
      /\ calls \in [Calls -> {NoCall} \cup CallType]
  <2>1. Opened /\ spent \in SpentType /\ subs \in Seq(Subscription)
        /\ calls \in [Calls -> {NoCall} \cup CallType]
    BY DEF IInv, Types, TypeOK, SpentType
  <2>2. QED BY <2>1
<1>2. PICK new \in Subscription :
        /\ Change(i, new) /\ new.trial = subs[i].trial
        /\ subs[i].status # "ended"
        /\ new.status \in {"ended", subs[i].status} \/ subs[i].status \in {"incomplete", "trialing"}
  <2>1. CASE Pay(i)
    <3>n. PICK new : new = [subs[i] EXCEPT !.status = "active"] OBVIOUS
    <3>1. new \in Subscription /\ new.trial = subs[i].trial
      BY <1>1, <3>n DEF Subscription, Statuses
    <3>2. Change(i, new) /\ subs[i].status = "incomplete" BY <2>1, <3>n DEF Pay
    <3>3. QED BY <3>1, <3>2
  <2>2. CASE InPortal(i)
    <3>n. PICK new : new = [subs[i] EXCEPT !.canceling = ~subs[i].canceling] OBVIOUS
    <3>1. new \in Subscription /\ new.trial = subs[i].trial /\ new.status = subs[i].status
      BY <1>1, <3>n DEF Subscription
    <3>2. Change(i, new) /\ subs[i].status # "ended" BY <2>2, <3>n DEF InPortal, Live
    <3>3. QED BY <3>1, <3>2
  <2>3. CASE Term(i)
    <3>n. PICK new : new = [subs[i] EXCEPT !.status = IF subs[i].canceling THEN "ended" ELSE "active"]
      OBVIOUS
    <3>1. /\ new \in Subscription /\ new.trial = subs[i].trial
          /\ new.status = IF subs[i].canceling THEN "ended" ELSE "active"
      BY <1>1, <3>n DEF Subscription, Statuses
    <3>2. /\ Change(i, new)
          /\ subs[i].status = "trialing" \/ (subs[i].status = "active" /\ subs[i].canceling)
      BY <2>3, <3>n DEF Term
    <3>3. QED BY <3>1, <3>2
  <2>4. QED BY <2>1, <2>2, <2>3
<1>3. /\ Spend("changes", MaxChanges) /\ MayChange(i)
      /\ UNCHANGED <<setups, copy, calls, queue, processed>>
  BY DEF Pay, InPortal, Term
<1>4. ~ToWrite(i) /\ \A d \in Active : i \notin calls[d].attempts
  BY <1>3 DEF MayChange, InHand, Usual
<1>5. spent' \in SpentType /\ spent'.crashes = spent.crashes BY <1>1, <1>3, SpendIs
<1>6. \A d \in Active : ~(calls[d].op = "start" /\ calls[d].at = "replace")
  BY <1>1, <1>2, <1>4 DEF Opened, Relies
<1>7. calls' \in [Calls -> {NoCall} \cup CallType] /\ \A d \in Calls : calls'[d] = calls[d]
  BY <1>1, <1>3
<1>8. QED BY <1>2, <1>3, <1>4, <1>5, <1>6, <1>7, ChangeKeeps
-----------------------------------------------------------------------------
(* The inductive invariant                                                 *)

LEMMA InitIInv == Init => IInv
<1> SUFFICES ASSUME Init PROVE IInv
  OBVIOUS
<1>1. /\ setups = <<>> /\ events = <<>> /\ calls = [c \in Calls |-> NoCall] /\ queue = <<>>
      /\ processed = {} /\ spent \in SpentType
      /\ copy = [i \in DOMAIN subs |-> Columns(subs[i])]
  BY DEF Init, SpentType
<1>2. /\ subs \in Seq(Subscription)
      /\ \A i, j \in DOMAIN subs : i = j
      /\ \A i \in DOMAIN subs : subs[i].trial /\ i = 1
  <2>1. UsedTrial \in Subscription /\ UsedTrial.trial BY DEF UsedTrial, Subscription, Statuses
  <2>2. subs \in {<<>>, <<UsedTrial>>} BY DEF Init
  <2>3. CASE subs = <<>> BY <2>3
  <2>4. CASE subs = <<UsedTrial>>
    <3>1. DOMAIN subs = {1} /\ subs[1] = UsedTrial /\ subs \in Seq(Subscription)
      BY <2>1, <2>4
    <3>2. QED BY <2>1, <3>1
  <2>5. QED BY <2>2, <2>3, <2>4
<1>3. Active = {} BY <1>1 DEF Active, NoCall
<1>4. \A i \in DOMAIN copy : copy[i] \in [status: Statuses, canceling: BOOLEAN]
  <2>1. ASSUME NEW i \in DOMAIN copy PROVE copy[i] \in [status: Statuses, canceling: BOOLEAN]
    <3>1. i \in DOMAIN subs /\ copy[i] = Columns(subs[i]) BY <1>1
    <3>2. subs[i] \in Subscription BY <1>2, <3>1
    <3>3. QED BY <3>1, <3>2 DEF Columns, Subscription
  <2>2. QED BY <2>1
<1>5. Types
  <2>1. calls \in [Calls -> {NoCall} \cup CallType] BY <1>1
  <2>2. TypeOK BY <1>1, <1>2, <1>4, <2>1 DEF TypeOK, SpentType
  <2>3. QED BY <1>1, <1>3, <2>2 DEF Types
<1>6. Lock BY <1>1 DEF Lock, Inside, Locking, NoCall
<1>7. Opened BY <1>2, <1>3 DEF Opened
<1>8. Rows BY <1>1, <1>3 DEF Rows
<1>9. Mails BY <1>1, <1>3 DEF Mails, MailsOf
<1>10. QED BY <1>5, <1>6, <1>7, <1>8, <1>9 DEF IInv

LEMMA StutterIInv == IInv /\ UNCHANGED vars => IInv'
<1> SUFFICES ASSUME IInv, UNCHANGED vars PROVE IInv'
  OBVIOUS
<1>1. UNCHANGED <<subs, setups, events, copy, calls, queue, processed, spent>> BY DEF vars
<1>2. Active' = Active BY <1>1 DEF Active
<1>3. Types' BY <1>1, <1>2 DEF IInv, Types, TypeOK, Typed, EventOK
<1>4. Lock' /\ Opened'
  BY <1>1, <1>2 DEF IInv, Lock, Holds, Inside, Locking, Opened, Relies
<1>5. Rows' BY <1>1, <1>2 DEF IInv, Rows, Pending
<1>6. \A e : (Handling(e))' = Handling(e) BY <1>1, <1>2 DEF Handling
<1>7. Mails' BY <1>1, <1>6 DEF IInv, Mails, MailsOf, Excused
<1>8. QED BY <1>3, <1>4, <1>5, <1>7 DEF IInv

LEMMA NextIInv ==
  ASSUME Usual, IInv, [Next]_vars
  PROVE  IInv'
<1>1. CASE UNCHANGED vars BY <1>1, StutterIInv
<1>2. CASE Restart BY <1>2, RestartKeeps
<1>3. CASE \E i \in DOMAIN setups : Confirm(i) BY <1>3, ConfirmKeeps
<1>4. CASE \E i \in DOMAIN subs : Pay(i) \/ InPortal(i) \/ Term(i) BY <1>4, CustomerKeeps
<1>5. CASE \E c \in Calls : AskStart(c) \/ AskActivate(c) \/ AskSync(c) \/ AskCancellation(c)
  BY <1>5, RequestsKeep
<1>6. CASE \E c \in Calls : \E e \in DOMAIN events : Deliver(c, e) BY <1>6, DeliverKeeps
<1>7. ASSUME NEW c \in Calls, Step(c) PROVE IInv'
  BY <1>7, ListToStartKeeps, ReplaceKeeps, OpenTrialKeeps, OpenPaidKeeps, ListToActivateKeeps,
     CreateTrialKeeps, RetrieveKeeps, FindLiveKeeps, AskStripeKeeps, WriteKeeps, MailKeeps
     DEF Step
<1>8. CASE \E c \in Calls : Fail(c) BY <1>8, FailKeeps
<1>9. QED BY <1>1, <1>2, <1>3, <1>4, <1>5, <1>6, <1>7, <1>8 DEF Next

LEMMA Inductive ==
  ASSUME Usual
  PROVE  Spec => []IInv
<1>1. Init => IInv BY InitIInv
<1>2. IInv /\ [Next]_vars => IInv' BY NextIInv
<1>3. QED BY <1>1, <1>2, PTL DEF Spec

\* The rows are a function of the subscriptions.
Table == copy = [i \in DOMAIN copy |-> copy[i]]

LEMMA InitTable == Init => Table
BY DEF Init, Table

LEMMA NextTable == Table /\ [Next]_vars => Table'
<1> SUFFICES ASSUME Table, [Next]_vars PROVE Table'
  OBVIOUS
<1>1. CASE copy' = copy BY <1>1 DEF Table
<1>2. ASSUME NEW c \in Calls, Write(c) PROVE Table'
  BY <1>2 DEF Write, Upsert, Table
<1>3. CASE Restart BY <1>1, <1>3 DEF Restart
<1>4. CASE \E i \in DOMAIN setups : Confirm(i) BY <1>1, <1>4 DEF Confirm
<1>5. CASE \E i \in DOMAIN subs : Pay(i) \/ InPortal(i) \/ Term(i)
  BY <1>1, <1>5 DEF Pay, InPortal, Term
<1>6. ASSUME NEW c \in Calls,
             AskStart(c) \/ AskActivate(c) \/ AskSync(c) \/ AskCancellation(c) \/ Fail(c)
               \/ \E e \in DOMAIN events : Deliver(c, e)
      PROVE  Table'
  BY <1>1, <1>6 DEF AskStart, AskActivate, AskSync, AskCancellation, Ask, Fail, Deliver, Handle
<1>7. ASSUME NEW c \in Calls, Step(c) PROVE Table'
  BY <1>1, <1>2, <1>7 DEF Step, ListToStart, Replace, OpenTrial, OpenPaid, ListToActivate,
     CreateTrial, Retrieve, FindLive, AskStripe, Mail
<1>8. QED BY <1>1, <1>2, <1>3, <1>4, <1>5, <1>6, <1>7 DEF Next, vars
-----------------------------------------------------------------------------
(* Results                                                                 *)

LEMMA AtMostOne ==
  ASSUME NEW S, \A x, y \in S : x = y
  PROVE  Cardinality(S) <= 1
<1>1. CASE S = {} BY <1>1, FS_EmptySet
<1>2. CASE S # {}
  <2>1. PICK x : x \in S BY <1>2
  <2>2. S = {x} BY <2>1
  <2>3. Cardinality(S) = 1 BY <2>2, FS_Singleton
  <2>4. QED BY <2>3
<1>3. QED BY <1>1, <1>2

\* A customer has at most one live subscription and one trial
\* (types.ts:86-88, 127-130), whatever the number of tabs, of webhook calls,
\* of requests that fail and of restarts that meet on the list of
\* startSubscription and activateTrialSubscription
\* (subscriptions.ts, withCustomerLock), when Stripe cancels what it is asked
\* to and pays no attempt that is about to be cancelled.
THEOREM NeverTwo ==
  ASSUME Usual
  PROVE  Spec => []OneOfEach
<1>1. ASSUME IInv PROVE OneOfEach
  <2>1. TypeOK /\ Opened BY <1>1 DEF IInv, Types
  <2>2. OneLive
    <3>1. \A i, j \in LiveOnes : i = j BY <2>1 DEF LiveOnes, Live, Opened
    <3>2. QED BY <3>1, AtMostOne DEF OneLive
  <2>3. OneTrial
    <3>1. \A i, j \in {i \in DOMAIN subs : subs[i].trial} : i = j BY <2>1 DEF Opened
    <3>2. QED BY <3>1, AtMostOne DEF OneTrial
  <2>4. QED BY <2>1, <2>2, <2>3 DEF OneOfEach
<1>2. Spec => []IInv BY Inductive
<1>3. QED BY <1>1, <1>2, PTL

\* At rest the rows of Appwrite say what Stripe says (webhook.ts:24-26): a
\* call writes the state it has just read, whatever the order the events come
\* in, how often they come and where the server restarts, and a row that is
\* behind has an event still to be answered.
THEOREM RowsCatchUp ==
  ASSUME Usual
  PROVE  Spec => []CopyIsLast
<1>1. ASSUME IInv, Table PROVE CopyIsLast
  <2>1. SUFFICES ASSUME \A e \in DOMAIN events : events[e].acked
                 PROVE  copy = [i \in DOMAIN subs |-> Columns(subs[i])]
    BY DEF CopyIsLast
  <2>2. \A i \in DOMAIN subs : i \in DOMAIN copy /\ copy[i] = Columns(subs[i])
    BY <1>1, <2>1 DEF IInv, Rows, Pending
  <2>3. DOMAIN copy = DOMAIN subs BY <1>1, <2>2 DEF IInv, Types, TypeOK
  <2>4. QED BY <1>1, <2>2, <2>3 DEF Table
<1>2. Spec => []IInv BY Inductive
<1>3. Spec => []Table BY InitTable, NextTable, PTL DEF Spec
<1>4. QED BY <1>1, <1>2, <1>3, PTL

\* The confirmation of a cancellation leaves again only where the filter of
\* the webhook cannot help (webhook.ts:33-37): once more for each delivery
\* handled beside another one, each e-mail of which Resend's answer was lost,
\* and each restart, however many events, deliveries and failures there are.
THEOREM RepeatsAlwaysAccounted ==
  ASSUME Usual
  PROVE  Spec => []RepeatsAccounted
<1>1. ASSUME IInv PROVE RepeatsAccounted
  <2>1. ASSUME NEW e \in DOMAIN events
        PROVE  events[e].mails <= 1 + events[e].overlaps + events[e].unheard + spent.crashes
    <3>1. events \in Seq(EventType) /\ spent \in SpentType
      BY <1>1 DEF IInv, Types, TypeOK, EventType, SpentType
    <3>2. events[e] \in EventType BY <3>1
    <3>3. /\ events[e].mails \in Nat /\ events[e].overlaps \in Nat /\ events[e].unheard \in Nat
          /\ spent.crashes \in Nat
      BY <3>1, <3>2, HistoryIs DEF SpentType
    <3>4. Cardinality(Handling(e)) \in Nat BY HandlingIs, Few
    <3>5. events[e].mails + Cardinality(Handling(e)) <= 1 + Excused(e) BY <1>1 DEF IInv, Mails, MailsOf
    <3>6. QED BY <3>3, <3>4, <3>5 DEF Excused
  <2>2. QED BY <2>1 DEF RepeatsAccounted
<1>2. Spec => []IInv BY Inductive
<1>3. QED BY <1>1, <1>2, PTL
=============================================================================
