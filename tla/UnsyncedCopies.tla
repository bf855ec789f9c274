--------------------------- MODULE UnsyncedCopies ---------------------------
(***************************************************************************)
(* The copies a device keeps of the batches the server may not have        *)
(* written, between the tabs of one user on one project: listing them,      *)
(* taking their lock, giving the newest to the session, sending the older   *)
(* ones first by connections of their own, closing                          *)
(* (src/features/collab/client: unsyncedStore.ts, copyDrain.ts, session.ts, *)
(* holdOutgoing of collabClient.ts).                                        *)
(*                                                                          *)
(* CollabSync has the messages between one client and the room.  Here a     *)
(* batch holds one edit, sending it is one step, the room never restarts,   *)
(* and what matters is which tab holds which client, and what the device    *)
(* holds.                                                                   *)
(***************************************************************************)
EXTENDS Integers, Sequences, FiniteSets, SequencesExt

CONSTANTS
  Tabs,       \* sessions of this user on this project, in any tab
  NoTab,      \* the holder of a free lock
  NClients,   \* clientIds that may be created (bound)
  NLeft,      \* copies closed tabs left before (bound)
  MaxEdits,   \* edits made in all tabs, those of these copies included (bound)
  MaxOpens,   \* sessions started (bound)
  MaxFaults,  \* lost connections, refusals, abandoned copies, killed tabs (bound)
  Situations  \* what else may happen: see SituationKinds

\* "overlap": a session starts while another one starts or closes; "kill": tabs die;
\* "lost": connections are lost; "refused": the server refuses a connection for
\* a while; "gone": access is removed for good; "deadline": the 30 s hold ends
\* before the older copies are written; "unusable": a copy is too old, or of
\* another format.
SituationKinds ==
  {"overlap", "kill", "lost", "refused", "gone", "deadline", "unusable"}

ASSUME TabAssumption == NoTab \notin Tabs
ASSUME BoundsAssumption ==
  /\ NClients \in Nat \ {0} /\ MaxEdits \in Nat /\ MaxOpens \in Nat /\ MaxFaults \in Nat
  /\ NLeft \in 0..NClients /\ NLeft <= MaxEdits
ASSUME SituationAssumption == Situations \subseteq SituationKinds

VARIABLES
  device,  \* the records of IndexedDB, one per client at most
  lock,    \* the tab that holds the Web Lock of each client
  tab,     \* the sessions
  log,     \* edits in the order the room applied them
  last,    \* number of the last batch it applied of each client
  durable, \* how much of the log is written
  created, \* clientIds created so far
  edits,   \* edits made so far: edit e was the e-th
  opens,   \* sessions started so far
  faults,  \* faults so far
  gone,    \* access was removed
  waived,  \* edits nothing is promised about: abandoned with their copy
  before   \* <<x, y>>: edit x must reach the server before edit y

room == <<log, last, durable>>
vars == <<device, lock, tab, room, created, edits, opens, faults, gone, waived, before>>

Clients == 1..NClients
Batch   == [n : Nat, edit : 1..MaxEdits]
Copy    == [client : Clients, next : Nat, batches : SUBSET Batch, savedAt : Nat]
Local   == [n : Nat, edit : 1..MaxEdits, at : Nat] \* at: its place in the log, once acknowledged
Engine  == [client : 0..NClients, next : Nat, batches : SUBSET Local, on : BOOLEAN, age : Nat]
Session == [phase : {"closed", "listing", "open", "closing"},
            found : SUBSET Copy, older : SUBSET Copy, main : Engine, drain : Engine,
            held : BOOLEAN, armed : BOOLEAN, discarded : BOOLEAN,
            saved : Copy, writes : Seq(Copy)]

----------------------------------------------------------------------------
(* Copies and engines                                                      *)

NoEngine == [client |-> 0, next |-> 1, batches |-> {}, on |-> FALSE, age |-> 0]

\* restoreUnsynced
Restored(copy) ==
  [client |-> copy.client, next |-> copy.next, on |-> FALSE, age |-> copy.savedAt,
   batches |-> {[n |-> b.n, edit |-> b.edit, at |-> 0] : b \in copy.batches}]

\* unsyncedBatches and nextSeq, as a record of the device
CopyOf(h, when) ==
  [client |-> h.client, next |-> h.next, savedAt |-> when,
   batches |-> {[n |-> b.n, edit |-> b.edit] : b \in h.batches}]

Same(a, b)      == a.next = b.next /\ a.batches = b.batches
EditsIn(copy)   == {b.edit : b \in copy.batches}
EditsOf(copies) == UNION {EditsIn(copy) : copy \in copies}
FullySynced(h)  == h.batches = {}

\* writeUnsynced, or deleteUnsynced when nothing is left to keep
Put(copy) ==
  {d \in device : d.client # copy.client} \cup
    (IF copy.batches = {} THEN {} ELSE {copy})

Delete(c) == {d \in device : d.client # c}

\* Date.now(): later than every date in use
DatesInUse ==
  {0} \cup {d.savedAt : d \in device}
    \cup UNION {{w.savedAt : w \in ToSet(tab[t].writes) \cup tab[t].found \cup tab[t].older}
                 \cup {tab[t].drain.age} : t \in Tabs}

Now == 1 + Max(DatesInUse)

\* records.sort by savedAt: the oldest is adopted first, the newest last.
Oldest(copies) == CHOOSE a \in copies : \A b \in copies : a.savedAt <= b.savedAt
Newest(copies) == CHOOSE a \in copies : \A b \in copies : b.savedAt <= a.savedAt

Nothing(c) == [client |-> c, next |-> 1, batches |-> {}, savedAt |-> 0]

Closed ==
  [phase |-> "closed", found |-> {}, older |-> {}, main |-> NoEngine,
   drain |-> NoEngine, held |-> FALSE, armed |-> FALSE, discarded |-> FALSE,
   saved |-> Nothing(1),
   writes |-> <<>>]

Free(c) == [lock EXCEPT ![c] = NoTab]

InLog(e) == \E i \in DOMAIN log : log[i] = e

Fault(kind) ==
  /\ kind \in Situations /\ faults < MaxFaults
  /\ faults' = faults + 1

\* Without "overlap", a session takes its copies, one by one, while no other
\* one does, and while none closes.
NoOverlap(phases) ==
  "overlap" \in Situations \/ \A u \in Tabs : tab[u].phase \notin phases

\* The device may hold what closed tabs left on it: one batch each, which the
\* room has not applied.
Left(k) ==
  {[client |-> c, next |-> 2, batches |-> {[n |-> 1, edit |-> c]}, savedAt |-> c] : c \in 1..k}

Init ==
  /\ created = NLeft /\ edits = NLeft /\ device = Left(NLeft)
  /\ lock = [c \in Clients |-> NoTab]
  /\ tab = [t \in Tabs |-> Closed]
  /\ log = <<>> /\ last = [c \in Clients |-> 0] /\ durable = 0
  /\ opens = 0 /\ faults = 0
  /\ gone = FALSE /\ waived = {}
  /\ before = {p \in (1..NLeft) \X (1..NLeft) : p[1] < p[2]}

----------------------------------------------------------------------------
(* A session starts                                                        *)

\* listUnsynced
List(t) ==
  /\ tab[t].phase = "closed" /\ opens < MaxOpens /\ NoOverlap({"listing", "closing"})
  /\ opens' = opens + 1
  /\ tab' = [tab EXCEPT ![t].phase = "listing", ![t].found = device]
  /\ UNCHANGED <<device, lock, room, created, edits, faults, gone, waived, before>>

\* (slip: a copy whose lock is taken is adopted all the same)
TakeLockAnyway(t) ==
  /\ tab[t].phase = "listing" /\ tab[t].found # {}
  /\ LET copy == Oldest(tab[t].found)
     IN  /\ lock' = [lock EXCEPT ![copy.client] = t]
         /\ tab' = [tab EXCEPT ![t].found = @ \ {copy}, ![t].older = @ \cup {copy}]
  /\ UNCHANGED <<device, room, created, edits, opens, faults, gone, waived, before>>

\* The next record of the list: skipped when another tab holds its lock.
TakeLock(t) ==
  /\ tab[t].phase = "listing" /\ tab[t].found # {}
  /\ LET copy == Oldest(tab[t].found)
         free == lock[copy.client] = NoTab
     IN  /\ lock' = IF free THEN [lock EXCEPT ![copy.client] = t] ELSE lock
         /\ tab' = [tab EXCEPT ![t].found = @ \ {copy},
                               ![t].older = IF free THEN @ \cup {copy} ELSE @]
  /\ UNCHANGED <<device, room, created, edits, opens, faults, gone, waived, before>>

\* A copy older than MAX_AGE_MS or of another format is deleted on the way.
DropUnusable(t) ==
  /\ Fault("unusable") /\ tab[t].phase = "listing" /\ tab[t].found # {}
  /\ LET copy == Oldest(tab[t].found)
     IN  /\ lock[copy.client] = NoTab
         /\ device' = Delete(copy.client)
         /\ waived' = waived \cup EditsIn(copy)
         /\ tab' = [tab EXCEPT ![t].found = @ \ {copy}]
  /\ UNCHANGED <<lock, room, created, edits, opens, gone, before>>

\* What two copies adopted together say about the order of their edits.
OrderOf(copies) ==
  {p \in (1..edits) \X (1..edits) :
     /\ p[1] # p[2] /\ ~InLog(p[1]) /\ ~InLog(p[2])
     /\ \E a, b \in copies :
          a.savedAt < b.savedAt /\ p[1] \in EditsIn(a) /\ p[2] \in EditsIn(b)}

\* start: the newest copy becomes the session's, the older ones go first.
StartFromCopies(t) ==
  /\ tab[t].phase = "listing" /\ tab[t].found = {} /\ tab[t].older # {}
  /\ LET newest == Newest(tab[t].older)
         others == tab[t].older \ {newest}
     IN  tab' = [tab EXCEPT ![t] = [Closed EXCEPT
                   !.phase = "open", !.main = Restored(newest), !.saved = newest,
                   !.older = others, !.held = others # {}]]
  /\ before' = before \cup OrderOf(tab[t].older)
  /\ UNCHANGED <<device, lock, room, created, edits, opens, faults, gone, waived>>

\* start: no copy, a new client and its lock.
StartFresh(t) ==
  /\ tab[t].phase = "listing" /\ tab[t].found = {} /\ tab[t].older = {}
  /\ created < NClients
  /\ created' = created + 1
  /\ lock' = [lock EXCEPT ![created'] = t]
  /\ tab' = [tab EXCEPT ![t] = [Closed EXCEPT
               !.phase = "open", !.main = [NoEngine EXCEPT !.client = created']]]
  /\ UNCHANGED <<device, room, edits, opens, faults, gone, waived, before>>

----------------------------------------------------------------------------
(* A session lives                                                         *)

\* A local edit: while the session waits, made after what its older copies
\* hold.  (Those made once access is removed are abandoned anyway.)
Edit(t) ==
  /\ tab[t].phase = "open" /\ ~gone /\ edits < MaxEdits
  /\ edits' = edits + 1
  /\ LET h == tab[t].main
     IN  tab' = [tab EXCEPT ![t].main = [h EXCEPT
           !.next = h.next + 1,
           !.batches = h.batches \cup {[n |-> h.next, edit |-> edits', at |-> 0]}]]
  /\ before' = before \cup
       {<<x, edits'>> : x \in {e \in EditsOf(tab[t].older) \cup EditsIn(tab[t].drain) :
                                 tab[t].held /\ ~InLog(e)}}
  /\ UNCHANGED <<device, lock, room, created, opens, faults, gone, waived>>

LastSaved(t) == IF tab[t].writes = <<>> THEN tab[t].saved ELSE Last(tab[t].writes)

Unsaved(t) ==
  ~tab[t].discarded /\ ~Same(CopyOf(tab[t].main, 0), LastSaved(t))

\* persistNow: what is written is read now, and written in order.
Persisted(t) ==
  IF Unsaved(t) THEN Append(tab[t].writes, CopyOf(tab[t].main, Now)) ELSE tab[t].writes

Persist(t) ==
  /\ tab[t].phase = "open" /\ Unsaved(t) /\ tab[t].writes = <<>>
  /\ tab' = [tab EXCEPT ![t].writes = Persisted(t)]
  /\ UNCHANGED <<device, lock, room, created, edits, opens, faults, gone, waived, before>>

WriteLands(t) ==
  /\ tab[t].writes # <<>>
  /\ device' = Put(Head(tab[t].writes))
  /\ tab' = [tab EXCEPT ![t].writes = Tail(@), ![t].saved = Head(tab[t].writes)]
  /\ UNCHANGED <<lock, room, created, edits, opens, faults, gone, waived, before>>

\* (slip: the delay counts only while the session is online)
DeadlineOnline(t) ==
  /\ "deadline" \in Situations
  /\ tab[t].phase = "open" /\ tab[t].held /\ tab[t].main.on
  /\ tab' = [tab EXCEPT ![t].held = FALSE]
  /\ before' = {p \in before : p[1] \notin EditsOf(tab[t].older) \cup EditsIn(tab[t].drain)}
  /\ UNCHANGED <<device, lock, room, created, edits, opens, faults, gone, waived>>

\* holdDeadline: armed the first time the session is online, it no longer
\* depends on the connection; the order of what is left is given up.
Deadline(t) ==
  /\ "deadline" \in Situations
  /\ tab[t].phase = "open" /\ tab[t].held /\ tab[t].armed
  /\ tab' = [tab EXCEPT ![t].held = FALSE]
  /\ before' = {p \in before : p[1] \notin EditsOf(tab[t].older) \cup EditsIn(tab[t].drain)}
  /\ UNCHANGED <<device, lock, room, created, edits, opens, faults, gone, waived>>

----------------------------------------------------------------------------
(* The connections: slot is "main" or "drain"                              *)

Slots == {"main", "drain"}

Connected(t, slot) == tab[t].phase = "open" /\ tab[t][slot].client # 0

\* welcome: what the room counts as applied waits to be written, what is
\* written is forgotten.
Known(h) ==
  LET Counted(b) == IF b.at = 0 /\ b.n <= last[h.client]
                    THEN [b EXCEPT !.at = Len(log)] ELSE b
  IN  {b \in {Counted(o) : o \in h.batches} : b.at = 0 \/ b.at > durable}

Welcome(t, slot) ==
  /\ Connected(t, slot) /\ ~tab[t][slot].on /\ ~gone
  /\ slot = "main" => ~tab[t].discarded
  /\ LET h == tab[t][slot]
     IN  tab' = [tab EXCEPT
           ![t][slot] = [h EXCEPT !.on = TRUE, !.batches = Known(h),
                                  !.next = Max({h.next, last[h.client] + 1})],
           ![t].armed = @ \/ (slot = "main" /\ tab[t].held)]
  /\ UNCHANGED <<device, lock, room, created, edits, opens, faults, gone, waived, before>>

Pending(h)      == {b \in h.batches : b.at = 0}
FirstPending(h) == CHOOSE b \in Pending(h) : \A o \in Pending(h) : b.n <= o.n

\* flush: nothing leaves the session while older copies are on their way.
MaySend(t, slot) ==
  /\ Connected(t, slot) /\ tab[t][slot].on
  /\ slot = "main" => ~tab[t].held
  /\ Pending(tab[t][slot]) # {}

\* The room applies a batch, unless its number is one it has applied.
Apply(c, b) ==
  IF b.n <= last[c] THEN UNCHANGED <<log, last>>
  ELSE log' = Append(log, b.edit) /\ last' = [last EXCEPT ![c] = b.n]

Send(t, slot) ==
  /\ MaySend(t, slot)
  /\ LET h == tab[t][slot]
         b == FirstPending(h)
     IN  /\ Apply(h.client, b)
         /\ tab' = [tab EXCEPT
              ![t][slot].batches = (@ \ {b}) \cup {[b EXCEPT !.at = Len(log')]}]
  /\ UNCHANGED <<device, lock, durable, created, edits, opens, faults, gone, waived, before>>

\* The room applies a batch, and the connection is lost before the answer.
SendUnanswered(t, slot) ==
  /\ Fault("lost") /\ MaySend(t, slot)
  /\ LET h == tab[t][slot]
     IN  Apply(h.client, FirstPending(h))
  /\ tab' = [tab EXCEPT ![t][slot].on = FALSE]
  /\ UNCHANGED <<device, lock, durable, created, edits, opens, gone, waived, before>>

Disconnect(t, slot) ==
  /\ Fault("lost") /\ Connected(t, slot) /\ tab[t][slot].on
  /\ tab' = [tab EXCEPT ![t][slot].on = FALSE]
  /\ UNCHANGED <<device, lock, room, created, edits, opens, gone, waived, before>>

\* The journal is written: connected clients are told.
Journal ==
  /\ durable < Len(log)
  /\ durable' = Len(log)
  /\ LET Told(h) == IF h.on THEN [h EXCEPT !.batches = Pending(h)]
                            ELSE h
     IN  tab' = [t \in Tabs |-> [tab[t] EXCEPT !.main = Told(@), !.drain = Told(@)]]
  /\ UNCHANGED <<device, lock, log, last, created, edits, opens, faults, gone, waived, before>>

RemoveAccess ==
  /\ Fault("gone") /\ ~gone
  /\ gone' = TRUE
  /\ tab' = [t \in Tabs |-> [tab[t] EXCEPT !.main.on = FALSE, !.drain.on = FALSE]]
  /\ UNCHANGED <<device, lock, room, created, edits, opens, waived, before>>

----------------------------------------------------------------------------
(* The older copies, one by one                                            *)

\* The next one gets its connection; the session closed meanwhile, its lock
\* is given back and its record is left alone.
NextCopy(t) ==
  /\ tab[t].phase \in {"open", "closing"}
  /\ tab[t].drain.client = 0 /\ tab[t].older # {}
  /\ LET copy == Oldest(tab[t].older)
     IN  IF tab[t].phase = "open"
         THEN /\ tab' = [tab EXCEPT ![t].older = @ \ {copy}, ![t].drain = Restored(copy)]
              /\ UNCHANGED lock
         ELSE /\ tab' = [tab EXCEPT ![t].older = @ \ {copy}]
              /\ lock' = Free(copy.client)
  /\ UNCHANGED <<device, room, created, edits, opens, faults, gone, waived, before>>

\* drained: the last one is done, the session may send.
Drained(t) ==
  /\ tab[t].phase = "open" /\ tab[t].held
  /\ tab[t].drain.client = 0 /\ tab[t].older = {}
  /\ tab' = [tab EXCEPT ![t].held = FALSE]
  /\ UNCHANGED <<device, lock, room, created, edits, opens, faults, gone, waived, before>>

\* (slip: a copy put back on the device takes the date of the day)
KeptAsNew(h) == CopyOf(h, Now)

\* finish: the record is rewritten with its own date, or deleted; then its
\* lock is given back.
Kept(h) == CopyOf(h, h.age)

FinishDrain(t, records) ==
  /\ device' = records
  /\ lock' = Free(tab[t].drain.client)
  /\ tab' = [tab EXCEPT ![t].drain = NoEngine]

\* (slip: the copy is deleted once it was sent)
DrainWrittenWhenSent(t) ==
  /\ Connected(t, "drain") /\ tab[t].drain.on /\ Pending(tab[t].drain) = {}
  /\ FinishDrain(t, Delete(tab[t].drain.client))
  /\ UNCHANGED <<room, created, edits, opens, faults, gone, waived, before>>

DrainWritten(t) ==
  /\ Connected(t, "drain") /\ tab[t].drain.on /\ FullySynced(tab[t].drain)
  /\ FinishDrain(t, Delete(tab[t].drain.client))
  /\ UNCHANGED <<room, created, edits, opens, faults, gone, waived, before>>

\* Refused for a while: put back, and sent by a later session; its place
\* before the edits of this one is given up.
DrainRefused(t) ==
  /\ Fault("refused") /\ Connected(t, "drain") /\ ~tab[t].drain.on
  /\ FinishDrain(t, Put(Kept(tab[t].drain)))
  /\ before' = {p \in before : p[1] \notin EditsIn(tab[t].drain)}
  /\ UNCHANGED <<room, created, edits, opens, gone, waived>>

DrainGone(t) ==
  /\ gone /\ Connected(t, "drain") /\ ~tab[t].drain.on
  /\ FinishDrain(t, Delete(tab[t].drain.client))
  /\ waived' = waived \cup EditsIn(tab[t].drain)
  /\ UNCHANGED <<room, created, edits, opens, faults, gone, before>>

----------------------------------------------------------------------------
(* A session ends                                                          *)

\* discardUnsynced: deleted after the writes already queued, then never
\* written again.
Discard(t) ==
  /\ gone /\ Connected(t, "main") /\ ~tab[t].discarded
  /\ tab' = [tab EXCEPT ![t].discarded = TRUE,
                        ![t].writes = Append(@, Nothing(tab[t].main.client))]
  /\ waived' = waived \cup EditsIn(tab[t].main)
  /\ UNCHANGED <<device, lock, room, created, edits, opens, faults, gone, before>>

\* stop: the last state is queued and the connections are closed.
Stop(t) ==
  /\ tab[t].phase = "open" /\ NoOverlap({"listing"})
  /\ tab' = [tab EXCEPT ![t] = [@ EXCEPT
       !.phase = "closing", !.writes = Persisted(t),
       !.main.on = FALSE, !.drain.on = FALSE]]
  /\ UNCHANGED <<device, lock, room, created, edits, opens, faults, gone, waived, before>>

\* drain.stop: the batches left go back to the device.
StopDrain(t) ==
  /\ tab[t].phase = "closing" /\ tab[t].drain.client # 0
  /\ FinishDrain(t, Put(Kept(tab[t].drain)))
  /\ UNCHANGED <<room, created, edits, opens, faults, gone, waived, before>>

\* Everything is written: the lock of the session is given back.
Release(t) ==
  /\ tab[t].phase = "closing" /\ tab[t].drain.client = 0 /\ tab[t].older = {}
  /\ tab[t].writes = <<>>
  /\ lock' = Free(tab[t].main.client)
  /\ tab' = [tab EXCEPT ![t] = Closed]
  /\ UNCHANGED <<device, room, created, edits, opens, faults, gone, waived, before>>

\* The tab dies with its copy up to date (CollabSync has the ones that die in
\* the 250 ms before): the browser frees its locks.
Kill(t) ==
  /\ Fault("kill") /\ tab[t].phase # "closed"
  /\ tab[t].phase = "listing" \/ NoOverlap({"listing"})
  /\ tab[t].phase = "listing" \/ (tab[t].writes = <<>> /\ ~Unsaved(t))
  /\ tab' = [tab EXCEPT ![t] = Closed]
  /\ lock' = [c \in Clients |-> IF lock[c] = t THEN NoTab ELSE lock[c]]
  /\ UNCHANGED <<device, room, created, edits, opens, gone, waived, before>>

----------------------------------------------------------------------------

Next ==
  \/ Journal \/ RemoveAccess
  \/ \E t \in Tabs :
       \/ List(t) \/ TakeLock(t) \/ DropUnusable(t)
       \/ StartFromCopies(t) \/ StartFresh(t)
       \/ Edit(t) \/ Persist(t) \/ WriteLands(t) \/ Deadline(t)
       \/ NextCopy(t) \/ Drained(t) \/ DrainWritten(t) \/ DrainRefused(t) \/ DrainGone(t)
       \/ Discard(t) \/ Stop(t) \/ StopDrain(t) \/ Release(t) \/ Kill(t)
       \/ \E slot \in Slots :
            \/ Welcome(t, slot) \/ Send(t, slot)
            \/ SendUnanswered(t, slot) \/ Disconnect(t, slot)

Spec == Init /\ [][Next]_vars

\* The timers of a page run; nothing says that a connection is ever made, nor
\* that the server answers.
FairSpec ==
  /\ Spec
  /\ \A t \in Tabs : WF_vars(Deadline(t))

----------------------------------------------------------------------------
(* Properties                                                              *)

\* The variables keep their types, and the device has one record per client.
TypeOK ==
  /\ \A d \in device : d \in Copy /\ d.batches # {}
  /\ \A d, e \in device : d.client = e.client => d = e
  /\ lock \in [Clients -> Tabs \cup {NoTab}]
  /\ tab \in [Tabs -> Session]
  /\ log \in Seq(1..MaxEdits) /\ durable \in 0..Len(log)
  /\ last \in [Clients -> Nat]
  /\ created \in 0..NClients /\ edits \in 0..MaxEdits
  /\ waived \subseteq 1..MaxEdits /\ before \subseteq (1..MaxEdits) \X (1..MaxEdits)

ClientsOf(t) ==
  ({tab[t].main.client, tab[t].drain.client} \ {0})
    \cup {copy.client : copy \in tab[t].older}

\* Two tabs never work for the same client, whatever their order of opening,
\* closing and dying ("deux onglets ne doivent jamais partager un client").
OneTabPerClient ==
  \A t, u \in Tabs : t # u => ClientsOf(t) \cap ClientsOf(u) = {}

\* An edit is written by the server, or kept on the device, or still in the
\* memory of a tab: a tab closed offline or before the journal is written
\* loses none, and a copy is deleted only when nothing of it is left to send.
NothingLost ==
  \A e \in 1..edits :
    \/ \E i \in 1..durable : log[i] = e
    \/ \E d \in device : e \in EditsIn(d)
    \/ \E t \in Tabs : e \in EditsIn(tab[t].main) \cup EditsIn(tab[t].drain)
    \/ e \in waived

\* A copy sent again by a later session, or by the session and then by a drain
\* of it, is not applied a second time.
AppliedOnce ==
  \A i, j \in DOMAIN log : i # j => log[i] # log[j]

\* Of two edits in copies adopted together, or of an older copy and an edit of
\* the session, the one made last reaches the server last, over as many
\* sessions as it takes; unless the 30 s hold ended or the older one was put
\* back by a refusal.
NewestWins ==
  \A p \in before :
    InLog(p[2]) => \/ p[1] \in waived
                   \/ \E i, j \in DOMAIN log : i < j /\ log[i] = p[1] /\ log[j] = p[2]

\* Once access is removed, what a session had queued for the device does not
\* come back after the deletion of its record.
DiscardIsFinal ==
  \A t \in Tabs :
    tab[t].discarded /\ tab[t].writes = <<>> =>
      \A d \in device : d.client # tab[t].main.client

\* A session that was online does not wait for ever for its older copies,
\* even if none of their connections is ever made.
HoldEnds ==
  \A t \in Tabs :
    (tab[t].held /\ tab[t].armed) ~> (~tab[t].held \/ tab[t].phase = "closing")

\* The device, the locks and the tabs agree: types, one tab per client, and no
\* record of a session that was abandoned.
TabsAgree == TypeOK /\ OneTabPerClient /\ DiscardIsFinal

\* What the copies hold is applied once, the newest last.
OnceInOrder == AppliedOnce /\ NewestWins
=============================================================================
