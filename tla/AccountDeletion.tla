-------------------------- MODULE AccountDeletion --------------------------
(***************************************************************************)
(* The deletion of an account (api/_lib/accountDeletion.ts,                *)
(* api/auth/delete-account.ts, server/lib/account-deletion-resume.mjs):    *)
(* the route blocks the account and writes the deletion in a register,     *)
(* answers 202, then purges in the background; each step may fail, the     *)
(* process retries three times, and a pass resumes from the register what  *)
(* a restart cut.  Meanwhile the webhook of Stripe and a subscription the  *)
(* account was asking for still run, on what they had checked.             *)
(***************************************************************************)
EXTENDS Integers, Sequences, FiniteSets

CONSTANTS
  Purges,             \* the purges of the process
  NRetries,           \* retries of a purge by its own process (code: 3)
  MaxResumeFailures,  \* passes that fail before the process gives up (code: 5)
  MaxConfirms,        \* bound: confirmations by the person
  MaxCalls,           \* bound: calls of the webhook and of the application
  MaxWrites,          \* bound: writes by the account's own sessions
  MaxFaults,          \* bound: steps that fail
  MaxCrashes,         \* bound: restarts of the server
  Situations          \* what may happen: see below

ASSUME DeletionAssumption ==
  /\ {NRetries, MaxResumeFailures, MaxConfirms, MaxCalls, MaxWrites, MaxFaults, MaxCrashes}
       \subseteq Nat
     \* "overtaken": a call that had checked the account before its block
     \*              still writes while the purge erases
     \* "halfway": the route fails, or the server stops, between the register
     \*            and the block
  /\ Situations \subseteq {"overtaken", "halfway"}

VARIABLES
  user,      \* Appwrite: the account
  register,  \* Appwrite: its row of account_deletions
  data,      \* Appwrite: the kinds of what it owns that are left
  stripe,    \* the Stripe customer its subscription is charged to
  route,     \* the confirmation under way
  answer,    \* what the last confirmation was answered
  purges,    \* the purges under way
  timers,    \* the retries scheduled by the process
  inFlight,  \* inFlight has the account
  failures,  \* resumeFailures of the account
  resume,    \* the pass of resumePendingAccountDeletions
  call,      \* a call that has checked the account, and is about to write
  receipts,  \* e-mails that tell the deletion
  spent      \* how much of each bound is used

vars == <<user, register, data, stripe, route, answer, purges, timers,
          inFlight, failures, resume, call, receipts, spent>>

\* The steps of deleteAccount: beginAccountDeletion (the user read, the
\* register, the label, the status), the client of Stripe, each kind of data,
\* the account, the register.
Steps == <<"get", "record", "label", "status", "billing", "project", "membership",
           "file", "view", "customer", "subscription", "user", "done">>
Kinds == {"project", "membership", "file", "view", "customer", "subscription"}

Index(s) == CHOOSE i \in DOMAIN Steps : Steps[i] = s
After(s) == Steps[Index(s) + 1]

NoPurge == [at |-> "none", exists |-> FALSE, attempt |-> 0, mail |-> FALSE]
NewPurge(attempt, mail) == [at |-> "get", exists |-> FALSE, attempt |-> attempt, mail |-> mail]
NoRoute == [at |-> "none", exists |-> FALSE]

Spend(kind, max) == /\ spent[kind] < max
                    /\ spent' = [spent EXCEPT ![kind] = @ + 1]

\* The account has everything; it subscribed, or never opened the billing.
Init ==
  /\ user = [exists |-> TRUE, label |-> FALSE, open |-> TRUE]
  /\ register = [status |-> "none", aged |-> FALSE]
  /\ \/ data = Kinds /\ stripe = "live"
     \/ data = Kinds \ {"customer", "subscription"} /\ stripe = "none"
  /\ route = NoRoute /\ answer = "none"
  /\ purges = [p \in Purges |-> NoPurge]
  /\ timers = {} /\ inFlight = FALSE /\ failures = 0
  /\ resume = "idle" /\ call = "idle"
  /\ receipts = 0
  /\ spent = [confirms |-> 0, calls |-> 0, writes |-> 0, faults |-> 0, crashes |-> 0]

-----------------------------------------------------------------------------
(* What else writes *)

\* A session of the account writes to Appwrite, which refuses a blocked one.
AccountWrites ==
  /\ Spend("writes", MaxWrites)
  /\ user.exists /\ user.open
  /\ \E d \in {"project", "membership", "file", "view"} : data' = data \union {d}
  /\ UNCHANGED <<user, register, stripe, route, answer, purges, timers, inFlight,
                 failures, resume, call, receipts>>

\* getUserIdFromCustomer finds the account of the event: the row of its
\* client, the account, no label.  Else the event is acknowledged.
HookFinds ==
  /\ Spend("calls", MaxCalls)
  /\ call = "idle"
  /\ stripe # "none" /\ "customer" \in data
  /\ user.exists /\ ~user.label
  /\ call' = "hook"
  /\ UNCHANGED <<user, register, data, stripe, route, answer, purges, timers, inFlight,
                 failures, resume, receipts>>

\* A session of the account asks for a subscription.
Subscribe ==
  /\ Spend("calls", MaxCalls)
  /\ call = "idle"
  /\ user.exists /\ user.open
  /\ call' = "subscribe"
  /\ UNCHANGED <<user, register, data, stripe, route, answer, purges, timers, inFlight,
                 failures, resume, receipts>>

\* upsertSubscription; getOrCreateStripeCustomer first when it subscribes, a
\* missing or deleted client being replaced.
CallWrites ==
  /\ call # "idle"
  /\ call' = "idle"
  /\ IF call = "hook"
     THEN data' = data \union {"subscription"} /\ UNCHANGED stripe
     ELSE data' = data \union {"customer", "subscription"} /\ stripe' = "live"
  /\ UNCHANGED <<user, register, route, answer, purges, timers, inFlight,
                 failures, resume, receipts, spent>>

-----------------------------------------------------------------------------
(* The steps of a deletion, for the account as `exists` says it was read *)

\* The purge waits for what had checked the account before it was blocked,
\* unless it is slower than the purge.
Overtakes == call = "idle" \/ "overtaken" \in Situations

Record(status) == register' = [register EXCEPT !.status = status]

\* blockAccount: an account deleted meanwhile is not found, and the step fails.
Block(exists, field, value) ==
  IF exists THEN user.exists /\ user' = [user EXCEPT ![field] = value] ELSE UNCHANGED user

\* (slip: a refusal of Stripe is only logged)
TryClient == stripe' \in {stripe, IF "customer" \in data THEN "gone" ELSE stripe}

\* deleteBilling: without its row, the client is not looked for
DeleteClient == stripe' = IF "customer" \in data THEN "gone" ELSE stripe

\* (slip: the memberships of a blocked account are not listed)
EraseOthers(exists, kind) == data' = IF kind = "membership" THEN data ELSE data \ {kind}

\* The memberships are those of an account that still exists.
Erase(exists, kind) == data' = IF kind = "membership" /\ ~exists THEN data ELSE data \ {kind}

\* Step s, for an account that `exists` when the deletion read it.
Do(exists, s) ==
  \/ s = "record" /\ Record("pending") /\ UNCHANGED <<user, data, stripe>>
  \/ s = "label" /\ Block(exists, "label", TRUE) /\ UNCHANGED <<register, data, stripe>>
  \/ s = "status" /\ Block(exists, "open", FALSE) /\ UNCHANGED <<register, data, stripe>>
  \/ s = "billing" /\ Overtakes /\ DeleteClient /\ UNCHANGED <<user, register, data>>
  \/ s \in Kinds /\ Erase(exists, s) /\ UNCHANGED <<user, register, stripe>>
  \/ /\ s = "user" /\ user' = IF exists THEN [user EXCEPT !.exists = FALSE] ELSE user
     /\ UNCHANGED <<register, data, stripe>>
  \/ s = "done" /\ Record("done") /\ UNCHANGED <<user, data, stripe>>

-----------------------------------------------------------------------------
(* The purges of the process (purgeInBackground, finishDeletionLater) *)

Start(p, attempt, mail) ==
  /\ purges[p] = NoPurge
  /\ purges' = [purges EXCEPT ![p] = NewPurge(attempt, mail)]
  /\ inFlight' = TRUE

Read(p) ==
  /\ purges[p].at = "get"
  /\ purges' = [purges EXCEPT ![p].at = "record", ![p].exists = user.exists]
  /\ UNCHANGED <<user, register, data, stripe, route, answer, timers, inFlight,
                 failures, resume, call, receipts, spent>>

Advance(p) ==
  /\ purges[p].at \notin {"none", "get", "done"}
  /\ Do(purges[p].exists, purges[p].at)
  /\ purges' = [purges EXCEPT ![p].at = After(@)]
  /\ UNCHANGED <<route, answer, timers, inFlight, failures, resume, call, receipts, spent>>

\* The register is closed; the person is told at the address read before.
Finish(p) ==
  /\ purges[p].at = "done"
  /\ Do(purges[p].exists, "done")
  /\ purges' = [purges EXCEPT ![p] = NoPurge]
  /\ inFlight' = FALSE /\ failures' = 0
  /\ receipts' = receipts + (IF purges[p].mail THEN 1 ELSE 0)
  /\ UNCHANGED <<route, answer, timers, resume, call, spent>>

\* (slip: the account leaves inFlight while its retry waits)
StopForgetting(p) ==
  /\ purges' = [purges EXCEPT ![p] = NoPurge]
  /\ inFlight' = FALSE
  /\ IF purges[p].attempt >= NRetries
     THEN failures' = failures + 1 /\ UNCHANGED timers
     ELSE timers' = timers \union {purges[p]} /\ UNCHANGED failures

\* A purge whose step failed: its retries first, then the passes.
StopFailed(p) ==
  /\ purges' = [purges EXCEPT ![p] = NoPurge]
  /\ IF purges[p].attempt >= NRetries
     THEN inFlight' = FALSE /\ failures' = failures + 1 /\ UNCHANGED timers
     ELSE timers' = timers \union {purges[p]} /\ UNCHANGED <<inFlight, failures>>

\* A step fails: by accident, or since the account it blocks is gone.
PurgeFails(p) ==
  /\ purges[p] # NoPurge
  /\ \/ Spend("faults", MaxFaults)
     \/ /\ purges[p].at \in {"label", "status"} /\ purges[p].exists /\ ~user.exists
        /\ UNCHANGED spent
  /\ StopFailed(p)
  /\ UNCHANGED <<user, register, data, stripe, route, answer, resume, call, receipts>>

Retry(p) ==
  \E t \in timers :
    /\ Start(p, t.attempt + 1, t.mail)
    /\ timers' = timers \ {t}
    /\ UNCHANGED <<user, register, data, stripe, route, answer, failures, resume,
                   call, receipts, spent>>

-----------------------------------------------------------------------------
(* The route: beginAccountDeletion, then the purge in the background *)

\* The code is right: it serves once.
Confirm ==
  /\ Spend("confirms", MaxConfirms)
  /\ route = NoRoute
  /\ user.exists /\ user.open
  /\ route' = [at |-> "get", exists |-> FALSE]
  /\ answer' = "none"
  /\ UNCHANGED <<user, register, data, stripe, purges, timers, inFlight, failures,
                 resume, call, receipts>>

RouteReads ==
  /\ route.at = "get"
  /\ route' = [at |-> "record", exists |-> user.exists]
  /\ UNCHANGED <<user, register, data, stripe, answer, purges, timers, inFlight,
                 failures, resume, call, receipts, spent>>

RouteAdvances ==
  /\ route.at \in {"record", "label", "status"}
  /\ Do(route.exists, route.at)
  /\ route' = [route EXCEPT !.at = IF @ = "status" THEN "answer" ELSE After(@)]
  /\ UNCHANGED <<answer, purges, timers, inFlight, failures, resume, call, receipts, spent>>

\* 202, and the purge.
RouteAccepts(p) ==
  /\ route.at = "answer"
  /\ route' = NoRoute /\ answer' = "accepted"
  /\ Start(p, 0, TRUE)
  /\ UNCHANGED <<user, register, data, stripe, timers, failures, resume, call, receipts, spent>>

\* The register is written, the account is not blocked.
Halfway == route.at \in {"label", "status"}

\* "Une erreur ici laisse le compte intact : la personne réessaie."
RouteFails ==
  /\ Spend("faults", MaxFaults)
  /\ route.at \in {"get", "record", "label", "status"}
  /\ Halfway => "halfway" \in Situations
  /\ route' = NoRoute /\ answer' = "refused"
  /\ UNCHANGED <<user, register, data, stripe, purges, timers, inFlight, failures,
                 resume, call, receipts>>

-----------------------------------------------------------------------------
(* The passes from the register, and the restarts *)

\* A quarter of an hour after the request.
Age ==
  /\ register.status = "pending" /\ ~register.aged
  /\ route = NoRoute
  /\ register' = [register EXCEPT !.aged = TRUE]
  /\ UNCHANGED <<user, data, stripe, route, answer, purges, timers, inFlight,
                 failures, resume, call, receipts, spent>>

\* (slip: an account whose resumed purge failed is left to the administrator)
ResumeListsOnce ==
  /\ resume = "idle"
  /\ register = [status |-> "pending", aged |-> TRUE]
  /\ ~inFlight /\ failures = 0
  /\ resume' = "listed"
  /\ UNCHANGED <<user, register, data, stripe, route, answer, purges, timers, inFlight,
                 failures, call, receipts, spent>>

\* The register is listed: the account waits, no purge of this process has
\* it, and it did not fail too often.
ResumeLists ==
  /\ resume = "idle"
  /\ register = [status |-> "pending", aged |-> TRUE]
  /\ ~inFlight /\ failures < MaxResumeFailures
  /\ resume' = "listed"
  /\ UNCHANGED <<user, register, data, stripe, route, answer, purges, timers, inFlight,
                 failures, call, receipts, spent>>

\* The profile gives the address, unless the account is deleted already.
ResumeStarts(p) ==
  /\ resume = "listed"
  /\ resume' = "idle"
  /\ Start(p, NRetries, user.exists)
  /\ UNCHANGED <<user, register, data, stripe, route, answer, timers, failures, call,
                 receipts, spent>>

ResumeFails ==
  /\ resume = "listed"
  /\ Spend("faults", MaxFaults)
  /\ resume' = "idle"
  /\ UNCHANGED <<user, register, data, stripe, route, answer, purges, timers, inFlight,
                 failures, call, receipts>>

\* The server restarts: what it ran and remembered is gone.
Restart ==
  /\ Spend("crashes", MaxCrashes)
  /\ Halfway => "halfway" \in Situations
  /\ route' = NoRoute
  /\ purges' = [p \in Purges |-> NoPurge]
  /\ timers' = {} /\ inFlight' = FALSE /\ failures' = 0
  /\ resume' = "idle" /\ call' = "idle"
  /\ UNCHANGED <<user, register, data, stripe, answer, receipts>>

Work(p) == Read(p) \/ Advance(p) \/ Finish(p)
RouteWorks == RouteReads \/ RouteAdvances \/ \E p \in Purges : RouteAccepts(p)
Timer == \E p \in Purges : Retry(p)
Pass == ResumeLists \/ \E p \in Purges : ResumeStarts(p)

Next ==
  \/ AccountWrites \/ HookFinds \/ Subscribe \/ CallWrites
  \/ \E p \in Purges : Work(p) \/ PurgeFails(p)
  \/ Confirm \/ RouteWorks \/ RouteFails
  \/ Timer \/ Age \/ Pass \/ ResumeFails
  \/ Restart

Spec == Init /\ [][Next]_vars

\* Calls end, timers fire, time passes, and the passes are periodic.
FairSpec ==
  /\ Spec
  /\ \A p \in Purges : WF_vars(Work(p))
  /\ WF_vars(CallWrites) /\ WF_vars(RouteWorks) /\ WF_vars(Timer) /\ WF_vars(Age) /\ WF_vars(Pass)

-----------------------------------------------------------------------------
(* Properties *)

\* Every variable has the type its comment says.
PurgeType == [at: {Steps[i] : i \in DOMAIN Steps} \union {"none"}, exists: BOOLEAN,
              attempt: 0..NRetries, mail: BOOLEAN]
TypeOK ==
  /\ user \in [exists: BOOLEAN, label: BOOLEAN, open: BOOLEAN]
  /\ register \in [status: {"none", "pending", "done"}, aged: BOOLEAN]
  /\ data \subseteq Kinds
  /\ stripe \in {"none", "live", "gone"}
  /\ route \in [at: {"none", "get", "record", "label", "status", "answer"}, exists: BOOLEAN]
  /\ answer \in {"none", "accepted", "refused"}
  /\ purges \in [Purges -> PurgeType]
  /\ timers \subseteq PurgeType
  /\ inFlight \in BOOLEAN /\ failures \in Nat
  /\ resume \in {"idle", "listed"} /\ call \in {"idle", "hook", "subscribe"}
  /\ receipts \in Nat

\* An account that no longer exists left nothing, and above all no
\* subscription row written again by a late webhook (A2-2, customers.ts:122-129)
\* and no client still charged: nobody could find them any more.
GoneLeavesNothing == ~user.exists => data = {} /\ stripe # "live"

\* A client that is charged can be found from its account, whatever step of
\* the purge was reached (accountDeletion.ts:166-177, 265-268).
ChargedIsKnown == stripe = "live" => "customer" \in data

\* The register says done of a deletion that is (accountDeletion.ts:324-340).
DoneIsDone == register.status = "done" => ~user.exists /\ data = {} /\ stripe # "live"

\* The person is told once: a pass never doubles a purge or a retry of its
\* process (delete-account.ts:43-44), and a resumed one that finds the
\* account gone says nothing (delete-account.ts:118).
ToldOnce == receipts <= 1

\* "Une erreur ici laisse le compte intact : la personne réessaie"
\* (delete-account.ts:158-160): an account whose deletion was refused, and
\* not asked for again, is not deleted.
RefusedIsKept == answer = "refused" => user.exists

\* What the route accepted ends, through failures and restarts.
AcceptedEnds == (answer = "accepted") ~> (register.status = "done")

\* Types, and nothing left of an account that is gone or said to be.
NothingIsLeft == TypeOK /\ GoneLeavesNothing /\ DoneIsDone
=============================================================================
