--------------------------- MODULE Subscriptions ---------------------------
(***************************************************************************)
(* The subscriptions of one account: Stripe, which decides, the copy       *)
(* Appwrite keeps of it, and the calls of the application server that      *)
(* change the one and write the other (api/_lib/billing/subscriptions.ts,  *)
(* api/stripe/webhook.ts).  A call reads Stripe, waits, and writes later   *)
(* what it read; Stripe changes meanwhile, and delivers each event again   *)
(* until it is answered 200.  The server may restart between two steps.    *)
(*                                                                         *)
(* The account has its Stripe customer and keeps it: AccountDeletion has   *)
(* the one that is being erased.  Status "active" stands for every live    *)
(* status but the trial, "ended" for canceled and incomplete_expired.      *)
(***************************************************************************)
EXTENDS Integers, Sequences, FiniteSets

CONSTANTS
  Calls,       \* the requests the server works on at once
  MaxAsks,     \* bound: requests of the application
  MaxChanges,  \* bound: what the customer or the clock changes at Stripe
  MaxFaults,   \* bound: steps that fail, answers that are lost or late
  MaxCrashes,  \* bound: restarts of the server
  Situations   \* what may happen: see Situations below

ASSUME SubscriptionsAssumption ==
  /\ IsFiniteSet(Calls)
  /\ {MaxAsks, MaxChanges, MaxFaults, MaxCrashes} \subseteq Nat
     \* "overtaken": Stripe changes a subscription while a call is about to
     \*              write, or to cancel, what it read of it
     \* "uncancelled": Stripe refuses the cancellation of an attempt
  /\ Situations \subseteq {"overtaken", "uncancelled"}

VARIABLES
  subs,       \* Stripe: the subscriptions of the customer, oldest first
  setups,     \* Stripe: the SetupIntents that open a trial
  events,     \* Stripe: the events, with what became of each
  copy,       \* Appwrite: the rows of `subscriptions`, by subscription
  calls,      \* each call under way
  queue,      \* withCustomerLock: the calls that hold it (first) or wait
  processed,  \* processedEventIds
  spent       \* how much of each bound is used

vars == <<subs, setups, events, copy, calls, queue, processed, spent>>

Statuses == {"incomplete", "trialing", "active", "ended"}
Subscription == [status: Statuses, trial: BOOLEAN, canceling: BOOLEAN, setup: Nat]

\* The columns of a row that the properties tell apart.
Columns(s) == [status |-> s.status, canceling |-> s.canceling]

Live(s) == s.status \in {"trialing", "active"}
IsTrialEligible(list) ==
  \A i \in DOMAIN list : ~list[i].trial /\ list[i].status = "incomplete"

NoCall == [op |-> "none"]
\* op, the event it answers (0: a request of the application), its
\* SetupIntent, the step it is at, the subscription it works on, what it
\* read of it, the attempts it has to cancel, the state it asks for.
Call(op, event, setup, at, id) ==
  [op |-> op, event |-> event, setup |-> setup, at |-> at, id |-> id,
   read |-> <<>>, attempts |-> {}, want |-> FALSE]

\* What it is about, whether it tells of a cancellation, whether it was
\* answered 200, the e-mails it sent.  The last two fields are the history of
\* the e-mails, that no guard reads: those of which Resend's answer was lost,
\* and the deliveries that came while another one was being handled.
Event(about, id, canceling) ==
  [about |-> about, id |-> id, canceling |-> canceling, acked |-> FALSE,
   mails |-> 0, unheard |-> 0, overlaps |-> 0]

\* The customer is new, or has had its trial, of which all is told.
UsedTrial == [status |-> "ended", trial |-> TRUE, canceling |-> TRUE, setup |-> 0]
Init ==
  /\ subs \in {<<>>, <<UsedTrial>>}
  /\ copy = [i \in DOMAIN subs |-> Columns(subs[i])]
  /\ setups = <<>> /\ events = <<>>
  /\ calls = [c \in Calls |-> NoCall]
  /\ queue = <<>>
  /\ processed = {}
  /\ spent = [asks |-> 0, changes |-> 0, faults |-> 0, crashes |-> 0]

Spend(kind, max) == /\ spent[kind] < max
                    /\ spent' = [spent EXCEPT ![kind] = @ + 1]

-----------------------------------------------------------------------------
(* Stripe *)

\* A change of subscription i, and the event that tells it.
Change(i, new) ==
  /\ subs' = [subs EXCEPT ![i] = new]
  /\ events' = Append(events, Event("subscription", i, ~subs[i].canceling /\ new.canceling))

Created(new) ==
  /\ subs' = Append(subs, new)
  /\ events' = Append(events, Event("subscription", Len(subs) + 1, FALSE))

\* What a call read of subscription i is about to be written, or used.
Active == {c \in Calls : calls[c].op # "none"}
ToWrite(i) == \E c \in Active : calls[c].at = "write" /\ calls[c].id = i
InHand(i) == ToWrite(i) \/ \E c \in Active : i \in calls[c].attempts

MayChange(i) == "overtaken" \in Situations \/ ~InHand(i)

\* The customer confirms its card for a SetupIntent, pays the first invoice
\* of an attempt, or asks in the portal for the end of the subscription or
\* for its continuation; the term comes.
Confirm(i) ==
  /\ Spend("changes", MaxChanges)
  /\ setups[i] = "open"
  /\ setups' = [setups EXCEPT ![i] = "succeeded"]
  /\ events' = Append(events, Event("setup", i, FALSE))
  /\ UNCHANGED <<subs, copy, calls, queue, processed>>

Pay(i) ==
  /\ Spend("changes", MaxChanges)
  /\ subs[i].status = "incomplete" /\ MayChange(i)
  /\ Change(i, [subs[i] EXCEPT !.status = "active"])
  /\ UNCHANGED <<setups, copy, calls, queue, processed>>

InPortal(i) ==
  /\ Spend("changes", MaxChanges)
  /\ Live(subs[i]) /\ MayChange(i)
  /\ Change(i, [subs[i] EXCEPT !.canceling = ~@])
  /\ UNCHANGED <<setups, copy, calls, queue, processed>>

Term(i) ==
  /\ Spend("changes", MaxChanges)
  /\ subs[i].status = "trialing" \/ (subs[i].status = "active" /\ subs[i].canceling)
  /\ MayChange(i)
  /\ Change(i, [subs[i] EXCEPT !.status = IF subs[i].canceling THEN "ended" ELSE "active"])
  /\ UNCHANGED <<setups, copy, calls, queue, processed>>

-----------------------------------------------------------------------------
(* The calls: how one starts and how one ends *)

Enter(c, call) ==
  /\ calls[c].op = "none"
  /\ calls' = [calls EXCEPT ![c] = call]
  /\ queue' = IF call.at = "lock" THEN Append(queue, c) ELSE queue

Ask(c, call) ==
  /\ Spend("asks", MaxAsks)
  /\ Enter(c, call)
  /\ UNCHANGED <<subs, setups, events, copy, processed>>

AskStart(c) == Ask(c, Call("start", 0, 0, "lock", 0))
AskActivate(c) == \E i \in DOMAIN setups : Ask(c, Call("activate", 0, i, "lock", 0))
AskSync(c) == \E i \in DOMAIN subs : Ask(c, Call("sync", 0, 0, "retrieve", i))
AskCancellation(c) ==
  \E want \in BOOLEAN : Ask(c, [Call("cancel", 0, 0, "find", 0) EXCEPT !.want = want])

\* The requests that handle event e.
Handling(e) == {d \in Active : calls[d].event = e}

\* The event is handled, though another request may be handling it: an event
\* is marked when its handling is over.
Handle(c, e) ==
  /\ IF events[e].about = "setup"
     THEN Enter(c, Call("activate", e, events[e].id, "lock", 0))
     ELSE Enter(c, Call("sync", e, 0, "retrieve", events[e].id))
  /\ IF Handling(e) = {}
     THEN UNCHANGED <<events, spent>>
     ELSE /\ Spend("faults", MaxFaults)
          /\ events' = [events EXCEPT ![e].overlaps = @ + 1]

\* (slip: the events already handled are not remembered)
DeliverAnyway(c, e) ==
  /\ ~events[e].acked
  /\ Handle(c, e)
  /\ UNCHANGED <<subs, setups, copy, processed>>

\* The webhook, by a first delivery or by one more: Stripe has no answer 200
\* yet.  An event of this process's memory is answered at once.
Deliver(c, e) ==
  /\ ~events[e].acked
  /\ IF e \in processed
     THEN /\ calls[c].op = "none"
          /\ events' = [events EXCEPT ![e].acked = TRUE]
          /\ UNCHANGED <<calls, queue, spent>>
     ELSE Handle(c, e)
  /\ UNCHANGED <<subs, setups, copy, processed>>

\* (slip: the lock is forgotten)
HoldsAnyway(c) == TRUE

Holds(c) == queue # <<>> /\ Head(queue) = c

\* The end of call c, the lock given to the next one.
Leave(c) ==
  /\ calls' = [calls EXCEPT ![c] = NoCall]
  /\ queue' = IF queue # <<>> /\ Head(queue) = c THEN Tail(queue) ELSE queue

\* Done, or refused as expected (PublicError): the event is marked and
\* answered 200.
Answer(c) ==
  /\ Leave(c)
  /\ LET e == calls[c].event
     IN  IF e = 0 THEN UNCHANGED <<events, processed>>
         ELSE /\ events' = [events EXCEPT ![e].acked = TRUE]
              /\ processed' = processed \union {e}

Continue(c, fields) == calls' = [calls EXCEPT ![c] = fields]

At(c, op, at) == calls[c].op = op /\ calls[c].at = at

-----------------------------------------------------------------------------
(* startSubscription, under the lock of the customer *)

Attempts == {i \in DOMAIN subs : subs[i].status = "incomplete"}

\* The list: a live subscription refuses the call.
ListToStart(c) ==
  /\ At(c, "start", "lock") /\ Holds(c)
  /\ IF \E i \in DOMAIN subs : Live(subs[i])
     THEN Answer(c)
     ELSE /\ Continue(c, [calls[c] EXCEPT !.at = "replace", !.read = subs, !.attempts = Attempts])
          /\ UNCHANGED <<queue, events, processed>>
  /\ UNCHANGED <<subs, setups, copy, spent>>

\* The abandoned attempts are cancelled one by one, in the order of the list;
\* a refusal is only logged.
Replace(c) ==
  /\ At(c, "start", "replace")
  /\ calls[c].attempts # {}
  /\ LET i == CHOOSE i \in calls[c].attempts : \A j \in calls[c].attempts : i <= j
     IN  /\ Continue(c, [calls[c] EXCEPT !.attempts = @ \ {i}])
         /\ \/ /\ subs[i].status # "ended"
               /\ "overtaken" \in Situations \/ ~ToWrite(i)
               /\ Change(i, [subs[i] EXCEPT !.status = "ended"])
            \/ /\ subs[i].status = "ended" \/ "uncancelled" \in Situations
               /\ UNCHANGED <<subs, events>>
  /\ UNCHANGED <<setups, copy, queue, processed, spent>>

\* No subscription ever went past its attempt: the call opens a SetupIntent,
\* and the application confirms it.
OpenTrial(c) ==
  /\ At(c, "start", "replace")
  /\ calls[c].attempts = {} /\ IsTrialEligible(calls[c].read)
  /\ setups' = Append(setups, "open")
  /\ Answer(c)
  /\ UNCHANGED <<subs, copy, spent>>

\* The trial was used: a subscription whose first invoice is to be paid.
OpenPaid(c) ==
  /\ At(c, "start", "replace")
  /\ calls[c].attempts = {} /\ ~IsTrialEligible(calls[c].read)
  /\ LET new == [status |-> "incomplete", trial |-> FALSE, canceling |-> FALSE, setup |-> 0]
     IN  /\ Created(new)
         /\ Continue(c, [calls[c] EXCEPT !.at = "write", !.id = Len(subs) + 1, !.read = <<new>>])
  /\ UNCHANGED <<setups, copy, queue, processed, spent>>

-----------------------------------------------------------------------------
(* activateTrialSubscription, called by the application and by the webhook,
   under the same lock *)

FromThisSetup(i) == {s \in DOMAIN subs : subs[s].setup = i}
LiveOnes == {s \in DOMAIN subs : Live(subs[s])}

\* The subscription this SetupIntent opened, or else the live one.
Already(i) ==
  IF FromThisSetup(i) # {} THEN FromThisSetup(i) ELSE LiveOnes

\* The SetupIntent and the list are read: what exists is written again, a
\* card not confirmed and a second trial are refused.
ListToActivate(c) ==
  /\ At(c, "activate", "lock") /\ Holds(c)
  /\ LET i == calls[c].setup
     IN  \/ /\ setups[i] = "open" \/ (Already(i) = {} /\ ~IsTrialEligible(subs))
            /\ Answer(c)
         \/ /\ setups[i] = "succeeded"
            /\ \E s \in Already(i) :
                 Continue(c, [calls[c] EXCEPT !.at = "write", !.id = s, !.read = <<subs[s]>>])
            /\ UNCHANGED <<queue, events, processed>>
         \/ /\ setups[i] = "succeeded" /\ Already(i) = {} /\ IsTrialEligible(subs)
            /\ Continue(c, [calls[c] EXCEPT !.at = "create"])
            /\ UNCHANGED <<queue, events, processed>>
  /\ UNCHANGED <<subs, setups, copy, spent>>

Trial(i) == [status |-> "trialing", trial |-> TRUE, canceling |-> FALSE, setup |-> i]

\* The creation has the key of its SetupIntent: what an earlier creation with
\* that key made is returned, and not made again (the lock of a single server
\* leaves nothing for the key to do).
CreateTrial(c) ==
  /\ At(c, "activate", "create")
  /\ LET i == calls[c].setup
     IN  IF FromThisSetup(i) = {}
         THEN /\ Created(Trial(i))
              /\ Continue(c, [calls[c] EXCEPT !.at = "write", !.id = Len(subs) + 1,
                                              !.read = <<Trial(i)>>])
         ELSE /\ \E s \in FromThisSetup(i) :
                   Continue(c, [calls[c] EXCEPT !.at = "write", !.id = s, !.read = <<subs[s]>>])
              /\ UNCHANGED <<subs, events>>
  /\ UNCHANGED <<setups, copy, queue, processed, spent>>

-----------------------------------------------------------------------------
(* syncSubscription, syncSubscriptionById, setSubscriptionCancellation *)

Retrieve(c) ==
  /\ At(c, "sync", "retrieve")
  /\ Continue(c, [calls[c] EXCEPT !.at = "write", !.read = <<subs[calls[c].id]>>])
  /\ UNCHANGED <<subs, setups, events, copy, queue, processed, spent>>

\* The live subscription, or a refusal.
FindLive(c) ==
  /\ At(c, "cancel", "find")
  /\ IF LiveOnes = {}
     THEN Answer(c)
     ELSE /\ \E s \in LiveOnes : Continue(c, [calls[c] EXCEPT !.at = "ask", !.id = s])
          /\ UNCHANGED <<queue, events, processed>>
  /\ UNCHANGED <<subs, setups, copy, spent>>

\* Stripe refuses it of a subscription that ended meanwhile.
AskStripe(c) ==
  /\ At(c, "cancel", "ask")
  /\ LET i == calls[c].id
         new == [subs[i] EXCEPT !.canceling = calls[c].want]
     IN  IF subs[i].status = "ended"
         THEN Answer(c) /\ UNCHANGED subs
         ELSE /\ MayChange(i)
              /\ IF new = subs[i] THEN UNCHANGED <<subs, events>> ELSE Change(i, new)
              /\ Continue(c, [calls[c] EXCEPT !.at = "write", !.read = <<new>>])
              /\ UNCHANGED <<queue, processed>>
  /\ UNCHANGED <<setups, copy, spent>>

-----------------------------------------------------------------------------
(* upsertSubscription, then the e-mail the event is worth *)

\* (slip: a row that exists is left as it is)
UpsertNewOnly(i, s) ==
  copy' = [j \in DOMAIN copy \union {i} |-> IF j \in DOMAIN copy THEN copy[j] ELSE Columns(s)]

\* createDocument, or updateDocument when the row exists.
Upsert(i, s) ==
  copy' = [j \in DOMAIN copy \union {i} |-> IF j = i THEN Columns(s) ELSE copy[j]]

\* The cancellation is told when the event says it came and the state read
\* says it still holds.
ToTell(call) ==
  call.op = "sync" /\ call.event # 0 /\ events[call.event].canceling /\ call.read[1].canceling

Write(c) ==
  /\ calls[c].op # "none" /\ calls[c].at = "write"
  /\ Upsert(calls[c].id, calls[c].read[1])
  /\ IF ToTell(calls[c])
     THEN /\ Continue(c, [calls[c] EXCEPT !.at = "mail"])
          /\ UNCHANGED <<queue, events, processed>>
     ELSE Answer(c)
  /\ UNCHANGED <<subs, setups, spent>>

\* The e-mail leaves.  Resend says so and the event is marked, though Stripe
\* may not hear the answer; or Resend's answer is lost or late, which counts as
\* not sent (mailer.ts, sendTransactionalEmail), and Stripe gets a 500.
Mail(c) ==
  /\ At(c, "sync", "mail")
  /\ LET e == calls[c].event
     IN  \/ /\ events' = [events EXCEPT ![e].mails = @ + 1, ![e].acked = TRUE]
            /\ processed' = processed \union {e}
            /\ UNCHANGED spent
         \/ /\ events' = [events EXCEPT ![e].mails = @ + 1]
            /\ processed' = processed \union {e}
            /\ Spend("faults", MaxFaults)
         \/ /\ events' = [events EXCEPT ![e].mails = @ + 1, ![e].unheard = @ + 1]
            /\ UNCHANGED processed
            /\ Spend("faults", MaxFaults)
  /\ Leave(c)
  /\ UNCHANGED <<subs, setups, copy>>

-----------------------------------------------------------------------------
(* What fails *)

\* (slip: a failure is answered 200)
FailAnswered(c) ==
  /\ calls[c].op # "none"
  /\ ~(calls[c].at = "lock" /\ ~Holds(c))
  /\ Spend("faults", MaxFaults)
  /\ Answer(c)
  /\ UNCHANGED <<subs, setups, copy>>

\* A step of the call fails: the application gets an error, Stripe a 500.
Fail(c) ==
  /\ calls[c].op # "none"
  /\ ~(calls[c].at = "lock" /\ ~Holds(c))
  /\ Spend("faults", MaxFaults)
  /\ Leave(c)
  /\ UNCHANGED <<subs, setups, events, copy, processed>>

\* The server restarts: its calls, its lock and its memory are gone.
Restart ==
  /\ Spend("crashes", MaxCrashes)
  /\ calls' = [c \in Calls |-> NoCall]
  /\ queue' = <<>>
  /\ processed' = {}
  /\ UNCHANGED <<subs, setups, events, copy>>

Step(c) ==
  \/ ListToStart(c) \/ Replace(c) \/ OpenTrial(c) \/ OpenPaid(c)
  \/ ListToActivate(c) \/ CreateTrial(c)
  \/ Retrieve(c) \/ FindLive(c) \/ AskStripe(c)
  \/ Write(c) \/ Mail(c)

Next ==
  \/ \E c \in Calls :
       \/ AskStart(c) \/ AskActivate(c) \/ AskSync(c) \/ AskCancellation(c)
       \/ \E e \in DOMAIN events : Deliver(c, e)
       \/ Step(c) \/ Fail(c)
  \/ \E i \in DOMAIN setups : Confirm(i)
  \/ \E i \in DOMAIN subs : Pay(i) \/ InPortal(i) \/ Term(i)
  \/ Restart

Spec == Init /\ [][Next]_vars

\* A call goes on by itself; Stripe delivers an event until it is answered.
\* A change makes one event, and a request two at most: a creation, and the
\* cancellation of what it created.
EventIds == 1..(MaxChanges + 2 * MaxAsks)
Redelivered(e) == \E f \in DOMAIN events \intersect {e}, c \in Calls : Deliver(c, f)
FairSpec ==
  /\ Spec
  /\ \A c \in Calls : WF_vars(Step(c))
  /\ \A e \in EventIds : WF_vars(Redelivered(e))

-----------------------------------------------------------------------------
(* Properties *)

\* Every variable has the type its comment says.
CallType ==
  [op: {"start", "activate", "sync", "cancel"}, event: Nat, setup: Nat,
   at: {"lock", "replace", "create", "retrieve", "find", "ask", "write", "mail"},
   id: Nat, read: Seq(Subscription), attempts: SUBSET Nat, want: BOOLEAN]
TypeOK ==
  /\ subs \in Seq(Subscription)
  /\ setups \in Seq({"open", "succeeded"})
  /\ events \in Seq([about: {"subscription", "setup"}, id: Nat, canceling: BOOLEAN,
                      acked: BOOLEAN, mails: Nat, unheard: Nat, overlaps: Nat])
  /\ DOMAIN copy \subseteq DOMAIN subs
  /\ \A i \in DOMAIN copy : copy[i] \in [status: Statuses, canceling: BOOLEAN]
  /\ calls \in [Calls -> {NoCall} \union CallType]
  /\ queue \in Seq(Calls)
  /\ processed \subseteq DOMAIN events
  /\ spent \in [{"asks", "changes", "faults", "crashes"} -> Nat]

\* "Un client n'en a jamais deux à la fois" (types.ts:86-88): two live
\* subscriptions are two debits.  Two tabs, the webhook and the restarts of
\* the server meet on the list each call reads before it creates.
OneLive == Cardinality(LiveOnes) <= 1

\* The trial is given once per customer, whatever the number of SetupIntents
\* confirmed (types.ts:127-130).
OneTrial == Cardinality({i \in DOMAIN subs : subs[i].trial}) <= 1

\* When Stripe has nothing left to deliver and no call is under way, the
\* rows say what Stripe says: "l'état relu est toujours le dernier"
\* (webhook.ts:24-26).
CopyIsLast ==
  (/\ \A e \in DOMAIN events : events[e].acked
   /\ \A c \in Calls : calls[c] = NoCall)
  => copy = [i \in DOMAIN subs |-> Columns(subs[i])]

\* "Ce filtre évite surtout d'envoyer deux fois un même e-mail"
\* (webhook.ts:33-37): however often its event comes, and whatever fails, the
\* confirmation of a cancellation leaves again only where the filter cannot
\* help: a delivery that came while another one of the event was handled, an
\* e-mail of which Resend's answer was lost, a restart.
RepeatsAccounted ==
  \A e \in DOMAIN events :
    events[e].mails <= 1 + events[e].overlaps + events[e].unheard + spent.crashes

\* The confirmation is due to the customer (webhook.ts:51-58): it leaves,
\* unless the cancellation was lifted.
Asked == {e \in DOMAIN events : events[e].canceling}
Told == {e \in DOMAIN events :
          events[e].mails > 0 \/ (events[e].canceling /\ ~subs[events[e].id].canceling)}
CancellationIsTold == []<>(Asked \subseteq Told)

\* A card confirmed for a trial opens it even if the tab is closed
\* (webhook.ts:124-126), unless the account has used it.
Confirmed == {i \in DOMAIN setups : setups[i] = "succeeded"}
CardOpensTrial == (Confirmed # {}) ~> (\E s \in DOMAIN subs : subs[s].trial)

\* Types, and at most one live subscription and one trial.
OneOfEach == TypeOK /\ OneLive /\ OneTrial

\* What an event of Stripe asks of the application is done in the end.
EventsEnd == CancellationIsTold /\ CardOpensTrial
=============================================================================
