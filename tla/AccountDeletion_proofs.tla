----------------------- MODULE AccountDeletion_proofs -----------------------
(***************************************************************************)
(* Proofs about AccountDeletion, for any number of purges, retries, passes, *)
(* failures and restarts.                                                   *)
(*                                                                          *)
(* Nothing is left of an account that is gone because a purge that passed a *)
(* step knows that nobody can undo it: the account is blocked before the    *)
(* client of Stripe is deleted, which waits for the calls that had checked  *)
(* the account, and all that writes afterwards checks it again.             *)
(***************************************************************************)
EXTENDS AccountDeletion, TLAPS

\* What a purge has passed at each step.
PastUser         == {"done"}
PastSubscription == PastUser \cup {"user"}
PastCustomer     == PastSubscription \cup {"subscription"}
PastView         == PastCustomer \cup {"customer"}
PastFile         == PastView \cup {"view"}
PastMembership   == PastFile \cup {"file"}
PastProject      == PastMembership \cup {"membership"}
PastBilling      == PastProject \cup {"project"}
PastStatus       == PastBilling \cup {"billing"}
PastLabel        == PastStatus \cup {"status"}

\* What a purge did stays done, whoever else writes.
PurgeOK(p) ==
  /\ purges[p].at \notin {"none", "get"} /\ ~purges[p].exists => ~user.exists
  /\ purges[p].at \in PastLabel => ~user.exists \/ user.label
  /\ purges[p].at \in PastStatus => ~user.exists \/ ~user.open
  /\ purges[p].at \in PastBilling => call = "idle" /\ stripe # "live"
  /\ purges[p].at \in PastProject => "project" \notin data
  /\ purges[p].at \in PastMembership => "membership" \notin data
  /\ purges[p].at \in PastFile => "file" \notin data
  /\ purges[p].at \in PastView => "view" \notin data
  /\ purges[p].at \in PastCustomer => "customer" \notin data
  /\ purges[p].at \in PastSubscription => "subscription" \notin data
  /\ purges[p].at \in PastUser => ~user.exists

IInv ==
  /\ TypeOK /\ ChargedIsKnown /\ NothingIsLeft
  /\ \A t \in timers : t.attempt < NRetries
  /\ ~user.exists => call = "idle"
  /\ route.at \notin {"none", "get"} /\ ~route.exists => ~user.exists
  /\ \A p \in Purges : PurgeOK(p)

\* A deletion the process works on, or will by its own timer.
Busy(p) == purges[p].at # "none"
Job == timers # {} \/ \E p \in Purges : Busy(p)

Blocked == ~user.exists \/ ~user.open

\* One deletion at a time: the account is blocked before its first job begins,
\* which closes the route, and a pass begins one only when there is none.
OneJob ==
  /\ \A p, q \in Purges : Busy(p) /\ Busy(q) => p = q
  /\ \A p \in Purges : Busy(p) => timers = {}
  /\ \A t, u \in timers : t = u
  /\ Job => inFlight
  /\ resume = "listed" => register.aged /\ ~inFlight
  /\ register.aged => register.status # "none" /\ route = NoRoute
  /\ register.status # "none" => route.at \in {"label", "status"} \/ Blocked
  /\ inFlight \/ receipts > 0 => register.status # "none" /\ route = NoRoute
  /\ route.at = "answer" => Blocked
  /\ route.at \in {"label", "status", "answer"} => register.status # "none"
  /\ route.at = "none" => route = NoRoute

\* Who was told is gone, and nobody is about to tell it again.
Telling ==
  /\ receipts <= 1
  /\ receipts = 1 => /\ ~user.exists
                     /\ \A p \in Purges : ~purges[p].mail
                     /\ \A t \in timers : ~t.mail
  /\ \A p \in Purges : Busy(p) \/ purges[p] = NoPurge
  /\ \A t \in timers : t.at # "none"

TIInv == IInv /\ OneJob /\ Telling

-----------------------------------------------------------------------------
(* The order of the steps                                                  *)

LEMMA StepsAre ==
  /\ DOMAIN Steps = 1..13
  /\ Steps[1] = "get" /\ Steps[2] = "record" /\ Steps[3] = "label" /\ Steps[4] = "status"
  /\ Steps[5] = "billing" /\ Steps[6] = "project" /\ Steps[7] = "membership"
  /\ Steps[8] = "file" /\ Steps[9] = "view" /\ Steps[10] = "customer"
  /\ Steps[11] = "subscription" /\ Steps[12] = "user" /\ Steps[13] = "done"
BY DEF Steps

\* The steps are those of a purge.
AllSteps == PastLabel \cup {"get", "record", "label"}

LEMMA StepsRange == {Steps[i] : i \in DOMAIN Steps} = AllSteps
BY StepsAre
   DEF AllSteps, PastLabel, PastStatus, PastBilling, PastProject, PastMembership, PastFile,
       PastView, PastCustomer, PastSubscription, PastUser

LEMMA AfterIs ==
  /\ After("record") = "label" /\ After("label") = "status"
  /\ After("status") = "billing" /\ After("billing") = "project"
  /\ After("project") = "membership" /\ After("membership") = "file"
  /\ After("file") = "view" /\ After("view") = "customer"
  /\ After("customer") = "subscription" /\ After("subscription") = "user"
  /\ After("user") = "done"
<1>1. Index("record") = 2 /\ Index("label") = 3 /\ Index("status") = 4
  BY StepsAre DEF Index
<1>2. Index("billing") = 5 /\ Index("project") = 6 /\ Index("membership") = 7
  BY StepsAre DEF Index
<1>3. Index("file") = 8 /\ Index("view") = 9 /\ Index("customer") = 10
  BY StepsAre DEF Index
<1>4. Index("subscription") = 11 /\ Index("user") = 12
  BY StepsAre DEF Index
<1>5. QED BY <1>1, <1>2, <1>3, <1>4, StepsAre DEF After

-----------------------------------------------------------------------------
(* Nothing is left                                                         *)

LEMMA PurgeTypeIs ==
  PurgeType = [at : AllSteps \cup {"none"}, exists : BOOLEAN, attempt : 0..NRetries, mail : BOOLEAN]
BY StepsRange DEF PurgeType

LEMMA InitIInv ==
  ASSUME Init PROVE IInv
<1>1. TypeOK
  <2>1. NoPurge \in PurgeType
    BY PurgeTypeIs, DeletionAssumption DEF NoPurge
  <2>2. QED BY <2>1 DEF Init, TypeOK, NoRoute, Kinds
<1>2. \A p \in Purges : PurgeOK(p)
  BY DEF Init, PurgeOK, NoPurge, PastLabel, PastStatus, PastBilling, PastProject, PastMembership,
         PastFile, PastView, PastCustomer, PastSubscription, PastUser
<1>3. ChargedIsKnown /\ NothingIsLeft /\ user.exists /\ timers = {}
  BY <1>1 DEF Init, ChargedIsKnown, NothingIsLeft, GoneLeavesNothing, DoneIsDone, Kinds
<1>4. route.at = "none"
  BY DEF Init, NoRoute
<1>5. QED BY <1>1, <1>2, <1>3, <1>4 DEF IInv

\* While the account may write, or calls that checked it may, no purge went past
\* what they write.
LEMMA WritersAreEarly ==
  ASSUME IInv, NEW p \in Purges, PurgeOK(p)
  PROVE  /\ user.exists /\ user.open => purges[p].at \notin PastStatus
         /\ user.exists /\ ~user.label => purges[p].at \notin PastLabel
         /\ call # "idle" => purges[p].at \notin PastBilling
BY DEF PurgeOK

\* The steps taken by others than purges.
LEMMA OthersStep ==
  ASSUME IInv, AccountWrites \/ HookFinds \/ Subscribe \/ CallWrites
  PROVE  IInv'
<1>1. TypeOK' /\ UNCHANGED <<user, register, purges, timers, route>>
  BY DEF IInv, TypeOK, AccountWrites, HookFinds, Subscribe, CallWrites, Kinds
<1>2. user.exists /\ (AccountWrites => user.open)
  BY DEF AccountWrites, HookFinds, Subscribe, CallWrites, IInv
<1>3. ChargedIsKnown' /\ NothingIsLeft'
  BY <1>1, <1>2 DEF IInv, ChargedIsKnown, NothingIsLeft, GoneLeavesNothing, DoneIsDone,
                    AccountWrites, HookFinds, Subscribe, CallWrites
<1>4. ASSUME NEW p \in Purges PROVE PurgeOK(p)'
  <2>0. PurgeOK(p) BY DEF IInv
  <2>1. CASE AccountWrites
    BY <1>1, <1>2, <2>0, <2>1, WritersAreEarly
       DEF PurgeOK, AccountWrites, PastLabel, PastStatus, PastBilling, PastProject, PastMembership,
             PastFile, PastView, PastCustomer, PastSubscription, PastUser
  <2>2. CASE HookFinds
    BY <1>1, <2>0, <2>2, WritersAreEarly
       DEF PurgeOK, HookFinds, PastLabel, PastStatus, PastBilling, PastProject, PastMembership,
             PastFile, PastView, PastCustomer, PastSubscription, PastUser
  <2>3. CASE Subscribe
    BY <1>1, <2>0, <2>3, WritersAreEarly
       DEF PurgeOK, Subscribe, PastLabel, PastStatus, PastBilling, PastProject, PastMembership,
             PastFile, PastView, PastCustomer, PastSubscription, PastUser
  <2>4. CASE CallWrites
    BY <1>1, <2>0, <2>4, WritersAreEarly
       DEF PurgeOK, CallWrites, PastLabel, PastStatus, PastBilling, PastProject, PastMembership,
             PastFile, PastView, PastCustomer, PastSubscription, PastUser
  <2>5. QED BY <2>1, <2>2, <2>3, <2>4
<1>5. QED BY <1>1, <1>2, <1>3, <1>4 DEF IInv

\* What a deletion does to what it deletes, and never undoes.
Forward ==
  /\ user'.exists => user.exists
  /\ user.label => user'.label
  /\ ~user.open => ~user'.open
  /\ data' \subseteq data
  /\ stripe' = "live" => stripe = "live"
  /\ call' = call

LEMMA PurgeKept ==
  ASSUME NEW q \in Purges, PurgeOK(q), Forward, purges'[q] = purges[q]
  PROVE  PurgeOK(q)'
BY DEF PurgeOK, Forward

LEMMA PurgeTyped ==
  ASSUME TypeOK, NEW p \in Purges, NEW x \in PurgeType
  PROVE  [purges EXCEPT ![p] = x] \in [Purges -> PurgeType]
BY DEF TypeOK

\* A purge reads whether its account exists.
LEMMA ReadStep ==
  ASSUME IInv, NEW p \in Purges, Read(p)
  PROVE  IInv'
<1> DEFINE x == [purges[p] EXCEPT !.at = "record", !.exists = user.exists]
<1>1. x \in PurgeType /\ x.at = "record" /\ x.exists = user.exists
  BY PurgeTypeIs DEF IInv, TypeOK, AllSteps
<1>2. purges' = [purges EXCEPT ![p] = x]
  BY PurgeTypeIs DEF Read, IInv, TypeOK
<1>3. UNCHANGED <<user, register, data, stripe, route, answer, timers, inFlight, failures,
                  resume, call, receipts>> /\ Forward
  BY DEF Read, Forward
<1>4. TypeOK'
  BY <1>1, <1>2, <1>3, PurgeTyped DEF IInv, TypeOK
<1>5. ASSUME NEW q \in Purges PROVE PurgeOK(q)'
  <2>1. CASE q = p
    <3>1. purges'[p] = x BY <1>2 DEF IInv, TypeOK
    <3>2. QED BY <1>1, <1>3, <2>1, <3>1 DEF PurgeOK, PastLabel, PastStatus, PastBilling, PastProject, PastMembership,
             PastFile, PastView, PastCustomer, PastSubscription, PastUser
  <2>2. CASE q # p
    BY <1>2, <1>3, <2>2, PurgeKept DEF IInv, TypeOK
  <2>3. QED BY <2>1, <2>2
<1>6. QED BY <1>3, <1>4, <1>5
          DEF IInv, ChargedIsKnown, NothingIsLeft, GoneLeavesNothing, DoneIsDone

\* One step of deleteAccount, by a purge or by the route.
LEMMA DoStep ==
  ASSUME TypeOK, ChargedIsKnown, NEW e \in BOOLEAN, NEW s, Do(e, s), call' = call,
         ~e => ~user.exists
  PROVE  /\ Forward
         /\ user' \in [exists : BOOLEAN, label : BOOLEAN, open : BOOLEAN]
         /\ register' \in [status : {"none", "pending", "done"}, aged : BOOLEAN]
         /\ stripe' \in {"none", "live", "gone"}
         /\ register'.aged = register.aged
         /\ s = "record" => register'.status = "pending"
         /\ s = "label" => ~user'.exists \/ user'.label
         /\ s = "status" => ~user'.exists \/ ~user'.open
         /\ s = "billing" => stripe' # "live" /\ (call = "idle" \/ "overtaken" \in Situations)
         /\ s # "user" => user'.exists = user.exists
         /\ s = "user" => ~user'.exists
         /\ s \in Kinds => user' = user /\ (user.exists => data' = data \ {s})
         /\ s \notin Kinds => data' = data
         /\ s \notin {"record", "done"} => register' = register
BY ZenonT(60) DEF Do, TypeOK, ChargedIsKnown, Block, Record, Erase, DeleteClient, Overtakes, Forward, Kinds

\* What a step leaves for the invariants that do not mention the purges; all is
\* gone when the account goes.
LEMMA DoLeaves ==
  ASSUME IInv, NEW e \in BOOLEAN, NEW s, Do(e, s), call' = call,
         ~e => ~user.exists,
         s = "customer" => stripe # "live",
         s = "user" => data = {} /\ stripe # "live" /\ call = "idle",
         s = "done" => ~user.exists
  PROVE  /\ ChargedIsKnown' /\ GoneLeavesNothing' /\ DoneIsDone'
         /\ data' \subseteq Kinds
         /\ ~user'.exists => call' = "idle"
<1>1. TypeOK /\ ChargedIsKnown /\ GoneLeavesNothing /\ DoneIsDone
  BY DEF IInv, NothingIsLeft
<1>2. Forward /\ (s # "user" => user'.exists = user.exists)
      /\ (s \in Kinds => (user.exists => data' = data \ {s})) /\ (s \notin Kinds => data' = data)
      /\ (s = "record" => register'.status = "pending")
      /\ (s \notin {"record", "done"} => register' = register)
  BY <1>1, DoStep
<1>3. ChargedIsKnown'
  <2>1. CASE stripe' = "live"
    <3>1. "customer" \in data /\ user.exists /\ s # "customer"
      BY <1>1, <1>2, <2>1 DEF Forward, ChargedIsKnown, GoneLeavesNothing
    <3>2. QED BY <1>2, <3>1 DEF ChargedIsKnown
  <2>2. QED BY <2>1 DEF ChargedIsKnown
<1>4. GoneLeavesNothing' /\ (~user'.exists => call' = "idle")
  <2>1. CASE s = "user"
    BY <1>2, <2>1 DEF Forward, GoneLeavesNothing
  <2>2. CASE s # "user"
    BY <1>1, <1>2, <2>2 DEF Forward, GoneLeavesNothing, IInv
  <2>3. QED BY <2>1, <2>2
<1>5. DoneIsDone'
  <2>1. CASE s = "record"
    BY <1>2, <2>1 DEF DoneIsDone
  <2>2. CASE s = "done"
    BY <1>1, <1>2, <2>2 DEF DoneIsDone, GoneLeavesNothing, Forward
  <2>3. CASE s \notin {"record", "done"}
    BY <1>1, <1>2, <2>3 DEF DoneIsDone, Forward
  <2>4. QED BY <2>1, <2>2, <2>3
<1>6. data' \subseteq Kinds
  BY <1>1, <1>2 DEF TypeOK, Forward
<1>7. QED BY <1>3, <1>4, <1>5, <1>6

\* What a purge knows when it reaches the steps that cannot be taken back.
LEMMA PurgeKnows ==
  ASSUME IInv, NEW p \in Purges
  PROVE  /\ purges[p] \in PurgeType
         /\ purges[p].at \notin {"none", "get"} /\ ~purges[p].exists => ~user.exists
         /\ purges[p].at = "customer" => stripe # "live"
         /\ purges[p].at = "user" => data = {} /\ stripe # "live" /\ call = "idle"
         /\ purges[p].at = "done" => ~user.exists
<1>1. PurgeOK(p) /\ purges[p] \in PurgeType /\ data \subseteq Kinds
  BY DEF IInv, TypeOK
<1>2. purges[p].at = "customer" => stripe # "live"
  BY <1>1 DEF PurgeOK, PastLabel, PastStatus, PastBilling, PastProject, PastMembership,
             PastFile, PastView, PastCustomer, PastSubscription, PastUser
<1>3. purges[p].at = "user" => data = {} /\ stripe # "live" /\ call = "idle"
  <2>1. CASE purges[p].at = "user"
    <3>1. /\ "project" \notin data /\ "membership" \notin data /\ "file" \notin data
          /\ "view" \notin data /\ "customer" \notin data /\ "subscription" \notin data
          /\ stripe # "live" /\ call = "idle"
      BY <1>1, <2>1 DEF PurgeOK, PastLabel, PastStatus, PastBilling, PastProject, PastMembership,
             PastFile, PastView, PastCustomer, PastSubscription, PastUser
    <3>2. QED BY <1>1, <3>1 DEF Kinds
  <2>2. QED BY <2>1
<1>4. QED BY <1>1, <1>2, <1>3 DEF PurgeOK, PastUser

LEMMA AdvanceStep ==
  ASSUME IInv, NEW p \in Purges, Advance(p), "overtaken" \notin Situations
  PROVE  IInv'
<1> DEFINE at == purges[p].at
           x  == [purges[p] EXCEPT !.at = After(at)]
<1>1. /\ at \in AllSteps \ {"get", "done"} /\ purges[p].exists \in BOOLEAN
      /\ ~purges[p].exists => ~user.exists
  BY PurgeKnows, PurgeTypeIs DEF Advance
<1>2. After(at) \in AllSteps \ {"get", "record"}
  BY <1>1, AfterIs DEF AllSteps, PastLabel, PastStatus, PastBilling, PastProject, PastMembership,
             PastFile, PastView, PastCustomer, PastSubscription, PastUser
<1>3. x \in PurgeType /\ x.at = After(at) /\ x.exists = purges[p].exists
  BY <1>2, PurgeKnows, PurgeTypeIs
<1>4. purges' = [purges EXCEPT ![p] = x]
  BY DEF Advance
<1>5. Do(purges[p].exists, at)
      /\ UNCHANGED <<route, answer, timers, inFlight, failures, resume, call, receipts>>
  BY DEF Advance
<1>6. TypeOK /\ ChargedIsKnown
  BY DEF IInv
<1>7. /\ Forward
      /\ user' \in [exists : BOOLEAN, label : BOOLEAN, open : BOOLEAN]
      /\ register' \in [status : {"none", "pending", "done"}, aged : BOOLEAN]
      /\ stripe' \in {"none", "live", "gone"}
      /\ at = "label" => ~user'.exists \/ user'.label
      /\ at = "status" => ~user'.exists \/ ~user'.open
      /\ at = "billing" => stripe' # "live" /\ call = "idle"
      /\ at = "user" => ~user'.exists
      /\ at \in Kinds => user' = user /\ (user.exists => data' = data \ {at})
  BY <1>1, <1>5, <1>6, DoStep
<1>8. ChargedIsKnown' /\ GoneLeavesNothing' /\ DoneIsDone' /\ data' \subseteq Kinds
      /\ (~user'.exists => call' = "idle")
  BY <1>1, <1>5, PurgeKnows, DoLeaves
<1>9. TypeOK'
  BY <1>3, <1>4, <1>5, <1>7, <1>8, PurgeTyped DEF IInv, TypeOK
<1>10. PurgeOK(p)'
  <2>1. purges'[p] = x BY <1>4, <1>6 DEF TypeOK
  <2>2. PurgeOK(p) BY DEF IInv
  <2>3. ~user'.exists => data' = {} /\ stripe' # "live"
    BY <1>8 DEF GoneLeavesNothing
  <2>4. CASE at \in {"record", "label", "status", "billing"}
    BY <1>1, <1>3, <1>5, <1>7, <2>1, <2>2, <2>4, AfterIs DEF Forward, PurgeOK, PastLabel, PastStatus, PastBilling, PastProject, PastMembership,
             PastFile, PastView, PastCustomer, PastSubscription, PastUser
  <2>5. CASE at \in {"project", "membership", "file"}
    BY <1>1, <1>3, <1>5, <1>7, <2>1, <2>2, <2>3, <2>5, AfterIs DEF Forward, PurgeOK, Kinds, PastLabel, PastStatus, PastBilling, PastProject, PastMembership,
             PastFile, PastView, PastCustomer, PastSubscription, PastUser
  <2>6. CASE at \in {"view", "customer", "subscription"}
    BY <1>1, <1>3, <1>5, <1>7, <2>1, <2>2, <2>3, <2>6, AfterIs DEF Forward, PurgeOK, Kinds, PastLabel, PastStatus, PastBilling, PastProject, PastMembership,
             PastFile, PastView, PastCustomer, PastSubscription, PastUser
  <2>7. CASE at = "user"
    BY <1>1, <1>3, <1>5, <1>7, <2>1, <2>2, <2>7, AfterIs DEF Forward, PurgeOK, PastLabel, PastStatus, PastBilling, PastProject, PastMembership,
             PastFile, PastView, PastCustomer, PastSubscription, PastUser
  <2>8. QED BY <1>1, <2>4, <2>5, <2>6, <2>7 DEF AllSteps, PastLabel, PastStatus, PastBilling, PastProject, PastMembership,
             PastFile, PastView, PastCustomer, PastSubscription, PastUser
<1>11. ASSUME NEW q \in Purges, q # p PROVE PurgeOK(q)'
  BY <1>4, <1>7, <1>11, PurgeKept DEF IInv, TypeOK
<1>12. \A t \in timers' : t.attempt < NRetries
  BY <1>5 DEF IInv
<1>13. (route.at \notin {"none", "get"} /\ ~route.exists => ~user.exists)'
  BY <1>5, <1>7 DEF IInv, Forward
<1>14. QED BY <1>8, <1>9, <1>10, <1>11, <1>12, <1>13 DEF IInv, NothingIsLeft

\* The purge ends: the register alone changes.
LEMMA FinishStep ==
  ASSUME IInv, NEW p \in Purges, Finish(p)
  PROVE  IInv'
<1>1. /\ purges[p].at = "done" /\ purges[p].exists \in BOOLEAN /\ Do(purges[p].exists, "done")
      /\ ~purges[p].exists => ~user.exists
      /\ ~user.exists
  BY PurgeKnows, PurgeTypeIs DEF Finish
<1>2. UNCHANGED <<route, answer, timers, resume, call>> /\ failures' = 0 /\ inFlight' = FALSE
      /\ purges' = [purges EXCEPT ![p] = NoPurge] /\ receipts' \in Nat
  BY DEF Finish, IInv, TypeOK
<1>3. Forward /\ user' \in [exists : BOOLEAN, label : BOOLEAN, open : BOOLEAN]
      /\ register' \in [status : {"none", "pending", "done"}, aged : BOOLEAN]
      /\ stripe' \in {"none", "live", "gone"}
  BY <1>1, <1>2, DoStep DEF IInv
<1>4. ChargedIsKnown' /\ GoneLeavesNothing' /\ DoneIsDone' /\ data' \subseteq Kinds
      /\ (~user'.exists => call' = "idle")
  BY <1>1, <1>2, DoLeaves
<1>5. NoPurge \in PurgeType
  BY PurgeTypeIs, DeletionAssumption DEF NoPurge
<1>6. TypeOK'
  BY <1>2, <1>3, <1>4, <1>5, PurgeTyped DEF IInv, TypeOK
<1>7. ASSUME NEW q \in Purges PROVE PurgeOK(q)'
  <2>1. CASE q = p
    <3>1. purges'[p] = NoPurge BY <1>2 DEF IInv, TypeOK
    <3>2. QED BY <2>1, <3>1 DEF NoPurge, PurgeOK, PastLabel, PastStatus, PastBilling, PastProject,
             PastMembership, PastFile, PastView, PastCustomer, PastSubscription, PastUser
  <2>2. CASE q # p
    BY <1>2, <1>3, <2>2, PurgeKept DEF IInv, TypeOK
  <2>3. QED BY <2>1, <2>2
<1>8. QED BY <1>2, <1>3, <1>4, <1>6, <1>7 DEF IInv, NothingIsLeft, Forward

\* The steps that move the deletion between the route, the purges, the timers
\* and the passes, and change nothing of the account.
LEMMA QuietStep ==
  ASSUME IInv, TypeOK', UNCHANGED <<user, data, stripe>>, call' \in {call, "idle"},
         register'.status = register.status,
         \A q \in Purges : purges'[q] = purges[q] \/ purges'[q].at \in {"none", "get"},
         \A t \in timers' : t.attempt < NRetries,
         route' = route \/ route'.at \in {"none", "get"} \/ route'.exists = user.exists
  PROVE  IInv'
<1>1. ASSUME NEW q \in Purges PROVE PurgeOK(q)'
  <2>1. CASE purges'[q] = purges[q]
    BY <2>1 DEF IInv, PurgeOK
  <2>2. CASE purges'[q].at \in {"none", "get"}
    BY <2>2 DEF PurgeOK, PastLabel, PastStatus, PastBilling, PastProject, PastMembership,
             PastFile, PastView, PastCustomer, PastSubscription, PastUser
  <2>3. QED BY <2>1, <2>2
<1>2. (route.at \notin {"none", "get"} /\ ~route.exists => ~user.exists)'
  BY DEF IInv
<1>3. QED BY <1>1, <1>2
          DEF IInv, ChargedIsKnown, NothingIsLeft, GoneLeavesNothing, DoneIsDone

\* A purge stops, another starts.
LEMMA NewOnes ==
  /\ NoPurge \in PurgeType /\ NoPurge.at = "none"
  /\ \A n \in 0..NRetries, m \in BOOLEAN :
       NewPurge(n, m) \in PurgeType /\ NewPurge(n, m).at = "get"
BY PurgeTypeIs, DeletionAssumption DEF NoPurge, NewPurge, AllSteps

LEMMA ChangeOf ==
  ASSUME TypeOK, NEW p \in Purges, NEW x \in PurgeType, x.at \in {"none", "get"},
         purges' = [purges EXCEPT ![p] = x]
  PROVE  /\ purges' \in [Purges -> PurgeType]
         /\ \A q \in Purges : purges'[q] = purges[q] \/ purges'[q].at \in {"none", "get"}
<1>1. purges' \in [Purges -> PurgeType]
  BY PurgeTyped
<1>2. \A q \in Purges : purges'[q] = IF q = p THEN x ELSE purges[q]
  BY DEF TypeOK
<1>3. QED BY <1>1, <1>2

LEMMA FailsStep ==
  ASSUME IInv, NEW p \in Purges, PurgeFails(p)
  PROVE  IInv'
<1>1. TypeOK /\ purges[p] \in PurgeType
  BY DEF IInv, TypeOK
<1>2. /\ UNCHANGED <<user, register, data, stripe, route, answer, resume, call, receipts>>
      /\ purges' = [purges EXCEPT ![p] = NoPurge]
      /\ inFlight' \in BOOLEAN /\ failures' \in Nat
      /\ \/ timers' = timers
         \/ timers' = timers \cup {purges[p]} /\ ~(purges[p].attempt >= NRetries)
  <2>1. UNCHANGED <<user, register, data, stripe, route, answer, resume, call, receipts>>
        /\ StopFailed(p)
    BY DEF PurgeFails
  <2>2. CASE purges[p].attempt >= NRetries
    <3>1. inFlight' = FALSE /\ failures' = failures + 1 /\ timers' = timers
          /\ purges' = [purges EXCEPT ![p] = NoPurge]
      BY <2>1, <2>2 DEF StopFailed
    <3>2. inFlight' \in BOOLEAN
      BY <3>1
    <3>3. failures' \in Nat
      BY <1>1, <3>1 DEF TypeOK
    <3>4. QED BY <2>1, <3>1, <3>2, <3>3
  <2>3. CASE ~(purges[p].attempt >= NRetries)
    BY <1>1, <2>1, <2>3 DEF StopFailed, TypeOK
  <2>4. QED BY <2>1, <2>2, <2>3
<1>3. /\ purges' \in [Purges -> PurgeType]
      /\ \A q \in Purges : purges'[q] = purges[q] \/ purges'[q].at \in {"none", "get"}
  BY <1>1, <1>2, ChangeOf, NewOnes
<1>4. TypeOK'
  BY <1>1, <1>2, <1>3 DEF TypeOK
<1>5. \A t \in timers' : t.attempt < NRetries
  BY <1>1, <1>2, PurgeTypeIs, DeletionAssumption DEF IInv
<1>6. QED BY <1>2, <1>3, <1>4, <1>5, QuietStep

\* A purge starts.
LEMMA StartStep ==
  ASSUME IInv, NEW p \in Purges, NEW n \in 0..NRetries, NEW m \in BOOLEAN, Start(p, n, m),
         UNCHANGED <<user, register, data, stripe, failures, call, receipts>>,
         timers' \subseteq timers, resume' \in {resume, "idle"},
         \/ route' = route /\ answer' = answer
         \/ route' = NoRoute /\ answer' = "accepted"
  PROVE  IInv'
<1>1. TypeOK
  BY DEF IInv
<1>2. purges' = [purges EXCEPT ![p] = NewPurge(n, m)] /\ inFlight' = TRUE
  BY DEF Start
<1>3. /\ purges' \in [Purges -> PurgeType]
      /\ \A q \in Purges : purges'[q] = purges[q] \/ purges'[q].at \in {"none", "get"}
  BY <1>1, <1>2, ChangeOf, NewOnes
<1>4. TypeOK'
  <2>1. /\ route' \in [at : {"none", "get", "record", "label", "status", "answer"}, exists : BOOLEAN]
        /\ answer' \in {"none", "accepted", "refused"}
    <3>1. CASE route' = route /\ answer' = answer
      BY <1>1, <3>1 DEF TypeOK
    <3>2. CASE route' = NoRoute /\ answer' = "accepted"
      BY <3>2 DEF NoRoute
    <3>3. QED BY <3>1, <3>2
  <2>2. QED BY <1>1, <1>2, <1>3, <2>1 DEF TypeOK
<1>5. \A t \in timers' : t.attempt < NRetries
  BY DEF IInv
<1>6. route' = route \/ route'.at \in {"none", "get"}
  BY DEF NoRoute
<1>7. QED BY <1>3, <1>4, <1>5, <1>6, QuietStep

LEMMA StartersStep ==
  ASSUME IInv, NEW p \in Purges, RouteAccepts(p) \/ Retry(p) \/ ResumeStarts(p)
  PROVE  IInv'
<1>1. CASE RouteAccepts(p)
  <2>1. 0 \in 0..NRetries
    BY DeletionAssumption
  <2>2. Start(p, 0, TRUE)
    BY <1>1 DEF RouteAccepts
  <2>3. UNCHANGED <<user, register, data, stripe, timers, failures, resume, call, receipts>>
        /\ route' = NoRoute /\ answer' = "accepted"
    BY <1>1 DEF RouteAccepts
  <2>4. QED BY <2>1, <2>2, <2>3, StartStep
<1>2. CASE Retry(p)
  <2>1. PICK t \in timers : /\ Start(p, t.attempt + 1, t.mail)
                            /\ timers' = timers \ {t}
                            /\ UNCHANGED <<user, register, data, stripe, route, answer,
                                           failures, resume, call, receipts>>
    BY <1>2 DEF Retry
  <2>2. t.attempt + 1 \in 0..NRetries /\ t.mail \in BOOLEAN
    BY PurgeTypeIs, DeletionAssumption DEF IInv, TypeOK
  <2>3. /\ UNCHANGED <<user, register, data, stripe, failures, call, receipts>>
        /\ timers' \subseteq timers /\ resume' \in {resume, "idle"}
        /\ route' = route /\ answer' = answer
    BY <2>1
  <2>4. QED BY <2>1, <2>2, <2>3, StartStep
<1>3. CASE ResumeStarts(p)
  <2>1. NRetries \in 0..NRetries /\ user.exists \in BOOLEAN
    BY DeletionAssumption DEF IInv, TypeOK
  <2>2. Start(p, NRetries, user.exists)
    BY <1>3 DEF ResumeStarts
  <2>3. /\ UNCHANGED <<user, register, data, stripe, failures, call, receipts>>
        /\ timers' \subseteq timers /\ resume' \in {resume, "idle"}
        /\ route' = route /\ answer' = answer
    BY <1>3 DEF ResumeStarts
  <2>4. QED BY <2>1, <2>2, <2>3, StartStep
<1>4. QED BY <1>1, <1>2, <1>3

\* The route's own moves, the passes and the restarts.
LEMMA QuietActions ==
  ASSUME IInv,
         \/ Confirm \/ RouteReads \/ RouteFails
         \/ Age \/ ResumeLists \/ ResumeFails \/ Restart
  PROVE  IInv'
<1>1. CASE Confirm \/ RouteReads \/ RouteFails \/ Age \/ ResumeLists \/ ResumeFails
  <2>1. TypeOK'
    <3>1. CASE Confirm     BY <3>1 DEF IInv, TypeOK, Confirm
    <3>2. CASE RouteReads  BY <3>2 DEF IInv, TypeOK, RouteReads
    <3>3. CASE RouteFails  BY <3>3 DEF IInv, TypeOK, RouteFails, NoRoute
    <3>4. CASE Age         BY <3>4, ZenonT(60) DEF IInv, TypeOK, Age
    <3>5. CASE ResumeLists BY <3>5 DEF IInv, TypeOK, ResumeLists
    <3>6. CASE ResumeFails BY <3>6 DEF IInv, TypeOK, ResumeFails
    <3>7. QED BY <1>1, <3>1, <3>2, <3>3, <3>4, <3>5, <3>6
  <2>2. /\ UNCHANGED <<user, data, stripe, call, purges, timers>>
        /\ register'.status = register.status
        /\ route' = route \/ route'.at \in {"none", "get"} \/ route'.exists = user.exists
    BY <1>1 DEF IInv, TypeOK, Confirm, RouteReads, RouteFails, Age, ResumeLists, ResumeFails, NoRoute
  <2>3. \A t \in timers' : t.attempt < NRetries
    BY <2>2 DEF IInv
  <2>4. QED BY <2>1, <2>2, <2>3, QuietStep
<1>2. CASE Restart
  <2>1. NoPurge \in PurgeType
    BY PurgeTypeIs, DeletionAssumption DEF NoPurge
  <2>2. TypeOK'
    BY <1>2, <2>1 DEF IInv, TypeOK, Restart, NoRoute
  <2>3. /\ UNCHANGED <<user, data, stripe, register>> /\ call' = "idle"
        /\ \A q \in Purges : purges'[q].at = "none"
        /\ timers' = {} /\ route'.at = "none"
    BY <1>2 DEF Restart, NoPurge, NoRoute
  <2>4. QED BY <2>2, <2>3, QuietStep
<1>3. QED BY <1>1, <1>2

\* The route writes the register, then blocks the account.
LEMMA RouteStep ==
  ASSUME IInv, RouteAdvances
  PROVE  IInv'
<1> DEFINE at == route.at
<1>1. /\ at \in {"record", "label", "status"} /\ route.exists \in BOOLEAN
      /\ ~route.exists => ~user.exists
      /\ Do(route.exists, at)
      /\ UNCHANGED <<answer, purges, timers, inFlight, failures, resume, call, receipts>>
  BY DEF RouteAdvances, IInv, TypeOK
<1>2. route' \in [at : {"none", "get", "record", "label", "status", "answer"}, exists : BOOLEAN]
      /\ route'.exists = route.exists
  BY <1>1, AfterIs DEF RouteAdvances, IInv, TypeOK
<1>3. Forward /\ user' \in [exists : BOOLEAN, label : BOOLEAN, open : BOOLEAN]
      /\ register' \in [status : {"none", "pending", "done"}, aged : BOOLEAN]
      /\ stripe' \in {"none", "live", "gone"}
  BY <1>1, DoStep DEF IInv
<1>4. ChargedIsKnown' /\ GoneLeavesNothing' /\ DoneIsDone' /\ data' \subseteq Kinds
      /\ (~user'.exists => call' = "idle")
  BY <1>1, DoLeaves
<1>5. TypeOK'
  BY <1>1, <1>2, <1>3, <1>4 DEF IInv, TypeOK
<1>6. \A q \in Purges : PurgeOK(q)'
  BY <1>1, <1>3, PurgeKept DEF IInv
<1>7. (route.at \notin {"none", "get"} /\ ~route.exists => ~user.exists)'
  BY <1>1, <1>2, <1>3 DEF Forward
<1>8. QED BY <1>1, <1>4, <1>5, <1>6, <1>7 DEF IInv, NothingIsLeft

LEMMA NextIInv ==
  ASSUME IInv, [Next]_vars, "overtaken" \notin Situations
  PROVE  IInv'
<1>1. CASE AccountWrites \/ HookFinds \/ Subscribe \/ CallWrites
  BY <1>1, OthersStep
<1>2. ASSUME NEW p \in Purges, Work(p) \/ PurgeFails(p) PROVE IInv'
  BY <1>2, ReadStep, AdvanceStep, FinishStep, FailsStep DEF Work
<1>3. CASE Confirm \/ RouteReads \/ RouteFails \/ Age \/ ResumeLists \/ ResumeFails \/ Restart
  BY <1>3, QuietActions
<1>4. CASE RouteAdvances
  BY <1>4, RouteStep
<1>5. ASSUME NEW p \in Purges, RouteAccepts(p) \/ Retry(p) \/ ResumeStarts(p) PROVE IInv'
  BY <1>5, StartersStep
<1>6. CASE UNCHANGED vars
  BY <1>6 DEF vars, IInv, TypeOK, ChargedIsKnown, NothingIsLeft, GoneLeavesNothing, DoneIsDone, PurgeOK
<1>7. QED BY <1>1, <1>2, <1>3, <1>4, <1>5, <1>6 DEF Next, RouteWorks, Timer, Pass

\* Types, and nothing is left of an account that is gone or said to be
\* (accountDeletion.ts:205-282, customers.ts:122-129): whatever fails or
\* restarts, and whatever the webhook and the account's sessions wrote meanwhile.
THEOREM NothingIsEverLeft ==
  ASSUME "overtaken" \notin Situations
  PROVE  Spec => []NothingIsLeft
<1>1. Init => IInv BY InitIInv
<1>2. IInv /\ [Next]_vars => IInv' BY NextIInv
<1>3. IInv => NothingIsLeft BY DEF IInv
<1>4. QED BY <1>1, <1>2, <1>3, PTL DEF Spec

\* A client of Stripe that is charged can always be found from its account
\* (accountDeletion.ts:166-177, 265-268).
THEOREM ChargedIsAlwaysKnown ==
  ASSUME "overtaken" \notin Situations
  PROVE  Spec => []ChargedIsKnown
<1>1. Init => IInv BY InitIInv
<1>2. IInv /\ [Next]_vars => IInv' BY NextIInv
<1>3. IInv => ChargedIsKnown BY DEF IInv
<1>4. QED BY <1>1, <1>2, <1>3, PTL DEF Spec
-----------------------------------------------------------------------------
(* The person is told once                                                 *)

LEMMA InitTIInv ==
  ASSUME Init PROVE TIInv
<1>1. IInv BY InitIInv
<1>2. OneJob /\ Telling
  BY DEF Init, OneJob, Telling, Job, Busy, Blocked, NoPurge, NoRoute
<1>3. QED BY <1>1, <1>2 DEF TIInv

\* The steps that begin and end no job, and tell nobody.
LEMMA SameJobs ==
  ASSUME OneJob, Telling, UNCHANGED <<timers, inFlight, receipts, resume>>,
         user'.exists => user.exists, ~user.open => ~user'.open,
         \A p \in Purges : purges'[p].at # "none" <=> purges[p].at # "none",
         \A p \in Purges : purges'[p].mail = purges[p].mail,
         \A p \in Purges : purges'[p] = purges[p] \/ purges'[p].at # "none",
         register' = register /\ route' = route
  PROVE  OneJob' /\ Telling'
BY DEF OneJob, Telling, Job, Busy, Blocked

LEMMA OthersTold ==
  ASSUME TIInv,
         \/ AccountWrites \/ HookFinds \/ Subscribe \/ CallWrites
         \/ UNCHANGED vars
  PROVE  OneJob' /\ Telling'
<1>1. UNCHANGED <<timers, inFlight, receipts, resume, user, purges, register, route>>
  BY DEF AccountWrites, HookFinds, Subscribe, CallWrites, vars
<1>2. QED BY <1>1 DEF TIInv, OneJob, Telling, Job, Busy, Blocked

LEMMA ReadTold ==
  ASSUME TIInv, NEW p \in Purges, Read(p)
  PROVE  OneJob' /\ Telling'
<1>1. purges \in [Purges -> PurgeType]
  BY DEF TIInv, IInv, TypeOK
<1>2. \A q \in Purges : /\ purges'[q].at # "none" <=> purges[q].at # "none"
                        /\ purges'[q].mail = purges[q].mail
                        /\ purges'[q] = purges[q] \/ purges'[q].at # "none"
  BY <1>1, PurgeTypeIs DEF Read
<1>3. UNCHANGED <<timers, inFlight, receipts, resume, user, register, route>>
  BY DEF Read
<1>4. QED BY <1>2, <1>3, SameJobs DEF TIInv

LEMMA AdvanceTold ==
  ASSUME TIInv, NEW p \in Purges, Advance(p)
  PROVE  OneJob' /\ Telling'
<1>1. purges \in [Purges -> PurgeType] /\ TypeOK /\ ChargedIsKnown
  BY DEF TIInv, IInv, TypeOK
<1>2. /\ purges[p].at \in AllSteps \ {"get", "done"} /\ purges[p].exists \in BOOLEAN
      /\ ~purges[p].exists => ~user.exists
  BY PurgeKnows, PurgeTypeIs DEF Advance, TIInv
<1>3. After(purges[p].at) # "none"
  BY <1>2, AfterIs DEF AllSteps, PastLabel, PastStatus, PastBilling, PastProject, PastMembership,
             PastFile, PastView, PastCustomer, PastSubscription, PastUser
<1>4. /\ UNCHANGED <<timers, inFlight, receipts, resume, route, call>>
      /\ Do(purges[p].exists, purges[p].at)
      /\ purges' = [purges EXCEPT ![p].at = After(@)]
  BY DEF Advance
<1>5. ASSUME NEW q \in Purges
      PROVE  /\ purges'[q].at # "none" <=> purges[q].at # "none"
             /\ purges'[q].mail = purges[q].mail
             /\ purges'[q] = purges[q] \/ purges'[q].at # "none"
  <2>1. CASE q = p
    <3>1. purges'[q] = [purges[p] EXCEPT !.at = After(purges[p].at)]
      BY <1>1, <1>4, <2>1
    <3>2. purges[p] \in PurgeType
      BY <1>1
    <3>3. QED BY <1>2, <1>3, <2>1, <3>1, <3>2, PurgeTypeIs
              DEF AllSteps, PastLabel, PastStatus, PastBilling, PastProject, PastMembership,
                  PastFile, PastView, PastCustomer, PastSubscription, PastUser
  <2>2. CASE q # p
    BY <1>1, <1>4, <2>2
  <2>3. QED BY <2>1, <2>2
<1>6. /\ Forward /\ register'.aged = register.aged
      /\ purges[p].at # "record" => register' = register
      /\ purges[p].at = "record" => register'.status = "pending"
  BY <1>1, <1>2, <1>4, DoStep
<1>7. Job /\ inFlight /\ register.status # "none" /\ route = NoRoute /\ Blocked
  BY <1>2 DEF TIInv, OneJob, Job, Busy, NoRoute, AllSteps, PastLabel, PastStatus, PastBilling,
              PastProject, PastMembership, PastFile, PastView, PastCustomer, PastSubscription, PastUser
<1>8. register'.status # "none"
  BY <1>6, <1>7
<1>9. Blocked' BY <1>6, <1>7 DEF Blocked, Forward
<1>10. OneJob'
  BY <1>4, <1>5, <1>6, <1>7, <1>8, <1>9 DEF TIInv, OneJob, Job, Busy, NoRoute
<1>11. Telling'
  BY <1>4, <1>5, <1>6 DEF TIInv, Telling, Busy, Forward
<1>12. QED BY <1>10, <1>11

\* A purge that ends, or stops.
LEMMA EndsTold ==
  ASSUME TIInv, NEW p \in Purges, Finish(p) \/ PurgeFails(p)
  PROVE  OneJob' /\ Telling'
<1>1. purges \in [Purges -> PurgeType] /\ receipts \in Nat /\ Busy(p)
      /\ purges[p] \in PurgeType
  BY DEF TIInv, IInv, TypeOK, Finish, PurgeFails, Busy, Telling
<1>2. /\ timers = {} /\ inFlight /\ register.status # "none" /\ route = NoRoute
      /\ Blocked /\ resume # "listed"
      /\ \A q \in Purges : q # p => purges[q] = NoPurge
  BY <1>1 DEF TIInv, OneJob, Telling, Job, NoRoute
<1>3. \A q \in Purges : purges'[q] = NoPurge
  BY <1>1, <1>2 DEF Finish, PurgeFails, StopFailed
<1>4. UNCHANGED <<route, resume>>
  BY DEF Finish, PurgeFails
<1>5. CASE Finish(p)
  <2>1. ~user.exists /\ purges[p].at = "done" /\ purges[p].exists \in BOOLEAN
        /\ (~purges[p].exists => ~user.exists)
    BY <1>5, PurgeKnows, PurgeTypeIs DEF Finish, TIInv
  <2>2. Do(purges[p].exists, "done") /\ inFlight' = FALSE /\ timers' = timers
        /\ receipts' = receipts + (IF purges[p].mail THEN 1 ELSE 0)
    BY <1>5 DEF Finish
  <2>3. user' = user /\ register'.status = "done" /\ register'.aged = register.aged
    BY <2>2 DEF Do, Record, Kinds, TIInv, IInv, TypeOK
  <2>4. receipts' <= 1
    BY <1>1, <2>2 DEF TIInv, Telling
  <2>5. OneJob'
    BY <1>2, <1>3, <1>4, <2>2, <2>3 DEF OneJob, Job, Busy, Blocked, NoPurge, NoRoute, TIInv
  <2>6. Telling'
    BY <1>2, <1>3, <2>1, <2>2, <2>3, <2>4 DEF Telling, Busy, NoPurge
  <2>7. QED BY <2>5, <2>6
<1>6. CASE PurgeFails(p)
  <2>1. UNCHANGED <<user, register, receipts>> /\ StopFailed(p)
    BY <1>6 DEF PurgeFails
  <2>2. \/ timers' = {} /\ inFlight' = FALSE
        \/ timers' = {purges[p]} /\ inFlight'
    BY <1>2, <2>1 DEF StopFailed
  <2>3. OneJob'
    BY <1>2, <1>3, <1>4, <2>1, <2>2 DEF OneJob, Job, Busy, Blocked, NoPurge, NoRoute, TIInv
  <2>4. Telling'
    BY <1>1, <1>3, <2>1, <2>2 DEF Telling, Busy, NoPurge, TIInv
  <2>5. QED BY <2>3, <2>4
<1>7. QED BY <1>5, <1>6

\* A purge starts when there is no other.
LEMMA StartTold ==
  ASSUME TIInv, NEW p \in Purges, NEW n, NEW m \in BOOLEAN, Start(p, n, m),
         UNCHANGED <<user, register, receipts>>,
         \A q \in Purges : ~Busy(q),
         timers' = {}, resume' = "idle", route' = NoRoute,
         receipts = 1 => ~m,
         register.status # "none", Blocked
  PROVE  OneJob' /\ Telling'
<1>1. purges \in [Purges -> PurgeType] /\ receipts \in Nat
  BY DEF TIInv, IInv, TypeOK
<1>2. /\ \A q \in Purges : purges[q] = NoPurge
      /\ \A q \in Purges : purges'[q] = IF q = p THEN NewPurge(n, m) ELSE NoPurge
      /\ inFlight'
  BY <1>1 DEF Start, TIInv, Telling
<1>3. OneJob'
  BY <1>2 DEF OneJob, Job, Busy, Blocked, NoPurge, NewPurge, NoRoute, TIInv
<1>4. Telling'
  BY <1>1, <1>2 DEF Telling, Busy, NoPurge, NewPurge, TIInv
<1>5. QED BY <1>3, <1>4

LEMMA StartersTold ==
  ASSUME TIInv, NEW p \in Purges, RouteAccepts(p) \/ Retry(p) \/ ResumeStarts(p)
  PROVE  OneJob' /\ Telling'
<1>1. CASE RouteAccepts(p)
  <2>1. Start(p, 0, TRUE) /\ UNCHANGED <<user, register, receipts, timers, resume>>
        /\ route' = NoRoute /\ route.at = "answer"
    BY <1>1 DEF RouteAccepts
  <2>2. ~inFlight /\ receipts = 0 /\ resume # "listed" /\ register.status # "none" /\ Blocked
    BY <2>1 DEF TIInv, IInv, TypeOK, OneJob, NoRoute
  <2>3. timers = {} /\ \A q \in Purges : ~Busy(q)
    BY <2>2 DEF TIInv, OneJob, Job
  <2>4. resume' = "idle" /\ timers' = {} /\ UNCHANGED <<user, register, receipts>>
    BY <2>1, <2>2, <2>3 DEF TIInv, IInv, TypeOK
  <2>5. receipts = 1 => ~TRUE
    BY <2>2
  <2>6. QED BY <2>1, <2>2, <2>3, <2>4, <2>5, StartTold
<1>2. CASE Retry(p)
  <2>1. PICK t \in timers : /\ Start(p, t.attempt + 1, t.mail)
                            /\ timers' = timers \ {t}
                            /\ UNCHANGED <<user, register, data, stripe, route, answer,
                                           failures, resume, call, receipts>>
    BY <1>2 DEF Retry
  <2>2. timers' = {} /\ (\A q \in Purges : ~Busy(q)) /\ inFlight
    BY <2>1 DEF TIInv, OneJob, Job
  <2>3. resume # "listed" /\ register.status # "none" /\ route = NoRoute /\ Blocked
    BY <2>2 DEF TIInv, OneJob, NoRoute
  <2>4. resume' = "idle"
    BY <2>1, <2>3 DEF TIInv, IInv, TypeOK
  <2>5. t.mail \in BOOLEAN /\ (receipts = 1 => ~t.mail)
    BY PurgeTypeIs DEF TIInv, IInv, TypeOK, Telling
  <2>6. UNCHANGED <<user, register, receipts>> /\ route' = NoRoute
    BY <2>1, <2>3
  <2>7. QED BY <2>1, <2>2, <2>3, <2>4, <2>5, <2>6, StartTold
<1>3. CASE ResumeStarts(p)
  <2>1. Start(p, NRetries, user.exists) /\ UNCHANGED <<user, register, receipts, timers, route>>
        /\ resume' = "idle" /\ resume = "listed"
    BY <1>3 DEF ResumeStarts
  <2>2. ~inFlight /\ register.status # "none" /\ route = NoRoute /\ Blocked
    BY <2>1 DEF TIInv, OneJob, NoRoute
  <2>3. timers = {} /\ \A q \in Purges : ~Busy(q)
    BY <2>2 DEF TIInv, OneJob, Job
  <2>4. user.exists \in BOOLEAN /\ (receipts = 1 => ~user.exists)
    BY DEF TIInv, IInv, TypeOK, Telling
  <2>5. route' = NoRoute /\ timers' = {} /\ UNCHANGED <<user, register, receipts>>
    BY <2>1, <2>2, <2>3
  <2>6. QED BY <2>1, <2>2, <2>3, <2>4, <2>5, StartTold
<1>4. QED BY <1>1, <1>2, <1>3

\* The route before it answers.
LEMMA RouteTold ==
  ASSUME TIInv, Confirm \/ RouteReads \/ RouteAdvances \/ RouteFails,
         "halfway" \notin Situations
  PROVE  OneJob' /\ Telling'
<1>1. UNCHANGED <<purges, timers, inFlight, receipts, resume, call>>
  BY DEF Confirm, RouteReads, RouteAdvances, RouteFails
<1>2. CASE Confirm
  <2>1. UNCHANGED <<user, register>> /\ route = NoRoute /\ ~Blocked /\ route'.at = "get"
    BY <1>2 DEF Confirm, Blocked
  <2>2. register.status = "none" /\ ~inFlight /\ ~(receipts > 0) /\ ~register.aged
    BY <2>1 DEF TIInv, OneJob, NoRoute
  <2>3. QED BY <1>1, <2>1, <2>2 DEF TIInv, OneJob, Telling, Job, Busy, Blocked, NoRoute
<1>3. CASE RouteReads
  <2>1. UNCHANGED <<user, register>> /\ route.at = "get" /\ route'.at = "record"
    BY <1>3 DEF RouteReads
  <2>2. ~inFlight /\ ~(receipts > 0) /\ ~register.aged
    BY <2>1 DEF TIInv, OneJob, NoRoute
  <2>3. QED BY <1>1, <2>1, <2>2 DEF TIInv, OneJob, Telling, Job, Busy, Blocked, NoRoute
<1>4. CASE RouteAdvances
  <2>1. /\ route.at \in {"record", "label", "status"} /\ route.exists \in BOOLEAN
        /\ ~route.exists => ~user.exists
        /\ Do(route.exists, route.at)
        /\ route' = [route EXCEPT !.at = IF @ = "status" THEN "answer" ELSE After(@)]
    BY <1>4 DEF RouteAdvances, TIInv, IInv, TypeOK
  <2>2. /\ route.at = "record" => route'.at = "label"
        /\ route.at = "label" => route'.at = "status"
        /\ route.at = "status" => route'.at = "answer"
    BY <2>1, AfterIs DEF TIInv, IInv, TypeOK
  <2>3. /\ Forward /\ register'.aged = register.aged
        /\ route.at = "record" => register'.status = "pending"
        /\ route.at # "record" => register' = register
        /\ route.at = "status" => ~user'.exists \/ ~user'.open
    BY <1>1, <2>1, DoStep DEF TIInv, IInv
  <2>4. ~inFlight /\ ~(receipts > 0) /\ ~register.aged
    BY <2>1 DEF TIInv, OneJob, NoRoute
  <2>5. register'.status # "none"
    BY <2>1, <2>3 DEF TIInv, OneJob
  <2>6. OneJob'
    BY <1>1, <2>1, <2>2, <2>3, <2>4, <2>5 DEF TIInv, OneJob, Job, Busy, Blocked
  <2>7. Telling'
    BY <1>1, <2>3 DEF TIInv, Telling, Busy, Forward
  <2>8. QED BY <2>6, <2>7
<1>5. CASE RouteFails
  <2>1. UNCHANGED <<user, register>> /\ route' = NoRoute /\ route.at \notin {"label", "status"}
    BY <1>5 DEF RouteFails, Halfway
  <2>2. QED BY <1>1, <2>1 DEF TIInv, OneJob, Telling, Job, Busy, Blocked, NoRoute
<1>6. QED BY <1>2, <1>3, <1>4, <1>5

LEMMA PassTold ==
  ASSUME TIInv, Age \/ ResumeLists \/ ResumeFails \/ Restart,
         "halfway" \notin Situations
  PROVE  OneJob' /\ Telling'
<1>1. CASE Age
  <2>1. UNCHANGED <<user, route, purges, timers, inFlight, receipts, resume>>
        /\ route = NoRoute /\ register.status = "pending"
        /\ register'.status = register.status /\ register'.aged
    BY <1>1 DEF Age, TIInv, IInv, TypeOK
  <2>2. QED BY <2>1 DEF TIInv, OneJob, Telling, Job, Busy, Blocked, NoRoute
<1>2. CASE ResumeLists
  <2>1. UNCHANGED <<user, route, purges, timers, inFlight, receipts, register>>
        /\ register.aged /\ ~inFlight
    BY <1>2 DEF ResumeLists
  <2>2. QED BY <2>1 DEF TIInv, OneJob, Telling, Job, Busy, Blocked
<1>3. CASE ResumeFails
  <2>1. UNCHANGED <<user, route, purges, timers, inFlight, receipts, register>>
        /\ resume' = "idle"
    BY <1>3 DEF ResumeFails
  <2>2. QED BY <2>1 DEF TIInv, OneJob, Telling, Job, Busy, Blocked
<1>4. CASE Restart
  <2>1. /\ UNCHANGED <<user, receipts, register>> /\ route.at \notin {"label", "status"}
        /\ route' = NoRoute /\ \A q \in Purges : purges'[q] = NoPurge
        /\ timers' = {} /\ ~inFlight' /\ resume' = "idle"
    BY <1>4 DEF Restart, Halfway
  <2>2. OneJob'
    BY <2>1 DEF TIInv, OneJob, Job, Busy, Blocked, NoRoute, NoPurge
  <2>3. Telling'
    BY <2>1 DEF TIInv, Telling, NoPurge, Busy
  <2>4. QED BY <2>2, <2>3
<1>5. QED BY <1>1, <1>2, <1>3, <1>4

LEMMA NextTIInv ==
  ASSUME TIInv, [Next]_vars, "overtaken" \notin Situations, "halfway" \notin Situations
  PROVE  TIInv'
<1>1. IInv'
  BY NextIInv DEF TIInv
<1>2. OneJob' /\ Telling'
  <2>1. CASE AccountWrites \/ HookFinds \/ Subscribe \/ CallWrites \/ UNCHANGED vars
    BY <2>1, OthersTold
  <2>2. ASSUME NEW p \in Purges, Work(p) \/ PurgeFails(p) PROVE OneJob' /\ Telling'
    BY <2>2, ReadTold, AdvanceTold, EndsTold DEF Work
  <2>3. CASE Confirm \/ RouteReads \/ RouteAdvances \/ RouteFails
    BY <2>3, RouteTold
  <2>4. ASSUME NEW p \in Purges, RouteAccepts(p) \/ Retry(p) \/ ResumeStarts(p)
        PROVE OneJob' /\ Telling'
    BY <2>4, StartersTold
  <2>5. CASE Age \/ ResumeLists \/ ResumeFails \/ Restart
    BY <2>5, PassTold
  <2>6. QED BY <2>1, <2>2, <2>3, <2>4, <2>5 DEF Next, RouteWorks, Timer, Pass
<1>3. QED BY <1>1, <1>2 DEF TIInv

\* The person is told of the deletion once (delete-account.ts:43-44, 118),
\* whatever fails, retries, restarts or is resumed.
THEOREM IsToldOnce ==
  ASSUME "overtaken" \notin Situations, "halfway" \notin Situations
  PROVE  Spec => []ToldOnce
<1>1. Init => TIInv BY InitTIInv
<1>2. TIInv /\ [Next]_vars => TIInv' BY NextTIInv
<1>3. TIInv => ToldOnce BY DEF TIInv, Telling, ToldOnce
<1>4. QED BY <1>1, <1>2, <1>3, PTL DEF Spec
=============================================================================
