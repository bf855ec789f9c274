# RedView — a verification development of its real-time co-editing, billing and account deletion

This directory holds TLA+ models of the parts of RedView where a mistake loses
somebody's work, charges somebody twice, or leaves behind what should be gone.
Several people edit one project at a time, each browser keeps its own edits until
the server has written them, and the server keeps one room in memory per project,
which it writes to Appwrite as a journal and checkpoints. Beside the rooms, the
application server keeps a copy of the subscriptions Stripe decides about, and
deletes accounts in steps that a restart may cut. The code is in
`src/server/multiplayer/`, `src/src/features/collab/`, `src/api/_lib/billing/`,
`src/api/_lib/accountDeletion.ts` and around them; the rooms' own description is
`src/docs/architecture/collab-realtime.txt`.

`PROJECT.json` is the index: components, runs, mutants, the source lines each
definition stands for, findings, hazards and theorems. Paths below are relative
to the repository's root.

## 1. Inventory

### The system

RedView is a web application to prepare itineraries (routing, 3D maps, weather,
points of interest, schedules) with an API, a real-time server and data services.

| Part | State | Operations | Talks to | Module |
|---|---|---|---|---|
| **Room host and storage** `server/multiplayer/roomHost.ts`, `appwriteStorage.ts`, `storage.ts`, `shadow.ts` | per project: the HostedRoom (counters `journaledSeq`, `durableSeq`, `lastCheckpointSeq`, `firstJournalSeq`, status), the row's `collab` metadata, snapshot files, journal packets | load, accept, journal a packet, checkpoint (serialise, upload, update the row, prune files, prune packets), unload, shut down, fail | the rooms (callbacks `onBatch`, `markDurable`), Appwrite | `RoomJournal` |
| **WebSocket server** `server.ts`, `connection.ts`, `auth.ts`, and `RoomHost` | sockets, slots of users, rooms and loads by project | upgrade, hello, open, attach, verify rights, close, heartbeat, purge, stop | the host, Appwrite, the sharing API | `Connections` |
| **Room** `collab/room/room.ts`, `roomState.ts` | document, sequence number, last `clientSeq` of each client, recent batches, members, durable number | join (catch-up or whole state), batch, reject, duplicate, durable, leave, tick | the host, every client | `CollabSync` |
| **Leases** `collab/room/leases.ts` | who computes which derived result, until when; penalties | request, renew, release, releaseClient, expire, dropItinerary | the room | `LeaseTable` |
| **Lease gates** `collab/client/leaseGate.ts` | leases as told by the room, requests, computations in progress, timers | shouldCompute, beginCompute and its end, setLeases, denied, connectionChanged | the room (messages), the itinerary panel | `LeaseGates` |
| **Sync engine** `collab/client/syncEngine.ts` | confirmed document, queued, pending and undurable edits, numbering | applyLocal, seal, outgoing, receive, disconnected, restoreUnsynced | the collab client | `CollabSync` |
| **Collab client, connection, session** `collab/client/collabClient.ts`, `connection.ts`, `session.ts` | WebSocket, flush timers, the copy of unwritten batches on the device | flush, receive, restart, persist, start (adopting a copy), stop | the room; IndexedDB | `CollabSync`, `UnsyncedCopies` |
| **Copies on the device** `unsyncedStore.ts`, `copyDrain.ts` | copies of several tabs, Web Locks, drains, the 30 s hold | adopt, drain, write, delete, discard | the session, a connection of its own | `UnsyncedCopies` |
| **Document model** `collab/model/` | objects, positions, segments | apply, invert, correct positions, diff, materialise, validate | both ends | `Documents` |
| **Undo history** `undoHistory.ts` | steps to undo and redo, what each left | record, undo, redo | the collab client | `UndoHistory` |
| **Billing** `api/_lib/billing/`, `api/stripe/webhook.ts` | Stripe's subscriptions, their copy in Appwrite, events, a lock per customer | start, activate, sync, cancel, webhook | Stripe, Appwrite, e-mail | `Subscriptions` |
| **Account deletion** `api/_lib/accountDeletion.ts`, `api/auth/delete-account.ts`, `account-deletion-resume.mjs` | the register, the account, what it owns, retries | the route, purge, retry, resume | Appwrite, Stripe, e-mail | `AccountDeletion` |
| Sharing `api/_lib/projectSharing.ts` | teams, rows | remove an editor, delete a project | the rooms, by a signal | in `Connections` |
| Motion and presence `room/motion.ts`, `realtime.ts` | last positions and cursors | merge, relay | the room | |
| Itinerary panel, maps, exports, lidar | React state | interface, routing requests | the session, BRouter | |
| Terrain service worker `public/sw-dem/` | tile caches, build queues | fetch, build, evict | tile servers | |
| Data services `server/poi-server/`, `server/weather-daemon/`, `server/poi-ingest/` | read-only data | ingest, query | open data | |

### How they interact

An edit is queued in the engine, sealed into a batch with a number of its own
(`clientSeq`), sent, accepted by the room, which gives it a sequence number
(`seq`), corrects its positions and sends it to every member (to its author it is
the acknowledgement), written to the journal by the host, and announced
`durable`. Until then its author keeps it in memory and in a copy on the device;
a later tab adopts that copy. Checkpoints let the host prune the journal; a
restarted server loads the checkpoint and the journal beyond it, and clients of
the previous room send again what it had lost. Derived results (route,
prediction, points of interest) are computed by the one client that holds the
lease, travel as batches like any edit, and are attached by the undo history of
their author to the change that caused them.

A connection enters a room after its rights were read and its room opened, both
across awaits; the sharing API signals the server when an editor is removed or a
project deleted. The deletion of an account deletes its projects, cancels its
subscriptions through its Stripe customer, and races the webhook and the calls
that had checked the account before.

### What is hard, and what must be true

| Component | What is hard | What makes it correct |
|---|---|---|
| Host and storage | crash between any two storage calls; a call that fails after it took effect; a packet that lands late; two servers during a deployment; batches accepted while a checkpoint is written | what was announced durable is in the checkpoint or the journal that is left; no load is locked by a hole or a duplicate; what a checkpoint writes is exactly what the journal replays; an accepted batch is written or its room ends |
| Connections | rights, rooms and sockets that change during an await; one load for several hellos; unloading, failure, purge and stop meeting an entry | one room per project; its peers are its joined connections; slots are given back; nobody stays without rights, without a client, or on a server that stops |
| Sync engine, client, session | restarts going back to an older number; numbers given offline, before the first welcome and by another tab; lost acknowledgements; merging; copies that are late | no edit applied twice or out of order; none forgotten before it is durable; the user keeps seeing each of his edits once; reconnection brings exactly the room's state; everything settles and converges |
| Copies on the device | tabs that start, close and die together; a copy sent by two ways; a hold that must end | two tabs never share a client; nothing kept is lost or applied twice; the newest edit reaches the server last |
| Leases and gates | expiry, renewal, departure, deletion between two ticks; grants that come after the computation ended; lists older than what was asked; lost connections | one valid lease per result, of a connected client; a hold is bounded, a penalty served; a held lease is known to every gate that listens, is used or given back; every request is answered |
| Documents and undo | inserts at one place; changes of others between a change and its undo; results that come late; steps that grow | positions distinct, the visible state exact; undo is exact when nobody else wrote, keeps what others changed, and never puts back a route alone |
| Billing | two tabs, the webhook, failures and lost answers around a list that is read, then acted on | one live subscription and one trial; the copy ends equal to Stripe; each cancellation told, and told again only where the webhook cannot know |
| Account deletion | steps that fail, retries, restarts, and calls that had checked the account | nothing is left of an account that is gone; a client that is charged can be found; an accepted deletion ends |

Every such place is in `PROJECT.json` under `hazards`, at its line, with the
properties that watch it; the places no property covers are in section 6.

## 2. Modules

| Module | Models | Code |
|---|---|---|
| `RoomJournal` | one project's storage and the successive lives of its room | `roomHost.ts`, `appwriteStorage.ts`, `assertContiguous` of `storage.ts` |
| `DurableLog` | abstract: one log that only grows, and a promised part of it | what `RoomJournal` implements |
| `Connections` | sockets, rights, and the openings and ends of a room on one server | `server.ts`, `connection.ts`, `auth.ts`, `roomHost.ts`, `projectSharing.ts` |
| `CollabSync` | editors, their devices, the connections and a room | `syncEngine.ts`, `collabClient.ts`, `connection.ts`, `session.ts`, `room.ts`, `roomState.ts` |
| `UnsyncedCopies` | tabs of one user, the copies of the device, their locks and drains | `unsyncedStore.ts`, `copyDrain.ts`, `session.ts`, `holdOutgoing` of `collabClient.ts` |
| `LeaseKeys` | what the table and the gates share: clients, keys, members, itineraries | `leases.ts`, `protocol.ts` |
| `LeaseTable` | the lease table with its clock | `leases.ts` and its calls in `room.ts` |
| `LeaseHolders` | abstract: the same table without time | what `LeaseTable` implements |
| `LeaseGates` | the gates and the messages, around `LeaseHolders` | `leaseGate.ts`, `handleLease`, `join`, `leave`, `tick` of `room.ts` |
| `Documents` | trees of objects, operations, inverses, corrected positions (operators only) | `objects.ts`, `ops.ts`, `validate.ts` |
| `UndoHistory` | one editor's undo and redo among other editors | `undoHistory.ts`, `applyLocal`, `rebuild`, `applyServerBatch` of `syncEngine.ts` |
| `Subscriptions` | one customer at Stripe, its copy, the calls and the events | `subscriptions.ts`, `webhook.ts`, `customers.ts`, `keyedLock.ts` |
| `AccountDeletion` | one account, its register, its purges, and the calls that race them | `accountDeletion.ts`, `delete-account.ts`, `account-deletion-resume.mjs`, `customers.ts` |
| `*_proofs` | the theorems | |
| `MC*` | the symmetry sets and the constants that are functions | |

The models meet at these interfaces. `CollabSync` sees the server as a log whose
durable prefix survives and of which a restart may lose the rest: that is
`DurableLog`, which `RoomJournal` implements (`ImplementsDurableLog`, model
checked and proved). `LeaseGates` sees the table without its clock: that is `LeaseHolders`,
which `LeaseTable` implements (`ImplementsHolders`, model checked and proved).
`Connections` takes from `RoomJournal` only how far a room has written, and gives
`CollabSync` one room at a time. `UnsyncedCopies` takes one client's exchange with
the room, which `CollabSync` has message by message, as one step. `UndoHistory`
extends `Documents` and takes batches in order, as `CollabSync` shows they come.
`AccountDeletion` takes the customer lock and the webhook of `Subscriptions` as
one call that has checked the account. Batches carry derived results and edits
alike, so leases and `CollabSync` are independent: losing a lease repeats a
computation, never an edit.

Some definitions marked `(slip: ...)` are never used: each is a plausible error
in the definition of the same name, and `PROJECT.json` (`mutants`) says which
property catches it when it takes its place. A property that gathers several
(`PromisesKept`, `StatesAgree`, `TabsAgree`, `OnceInOrder`, `GatesAgree`,
`OneOfEach`, `EventsEnd`, `NothingIsLeft`, `RoomsAgree`, `DocumentsAgree`) is a
conjunction of named and commented parts.

### RoomJournal

A *life* is one `HostedRoom` object. Contents are sequences of lives: position
`q` holds the life that accepted batch `q`, so two different batches with one
number are told apart without modelling what they contain. `row` is the project's
row (`collab` set or not, the snapshot file it names, the content of `data`),
`files` the bucket, `journal` the packets, `late` the packets whose sender gave
up but which may still arrive. `room[r].phase` says which storage call life `r`
waits for: one call at a time, as `enqueue` serialises the tasks of a room
(`roomHost.ts:462`). A checkpoint is five steps (`CheckpointStart`, the journal
write it may need first, `Upload`, `Update`, `PruneFiles`, `PruneJournal`),
because the process may die, and batches arrive, between any two. Pruning keeps
any subset of what it may delete: deletions are independent calls whose failures
the code ignores. `Settled` forgets the memory of a finished life (it keeps its
durable number for the properties): it merges states, it is no step of the code.

`Overlap` chooses how much two lives meet (`MayLoad`): `"never"`, one server;
`"fenced"`, the deployment as the design describes it, the older server writing
no checkpoint once the newer one loads; `"free"`, the deployment as the code is;
`"reload"`, one server that loads a room again while the storage calls of the
one that failed go on. `Faults` chooses which failures take effect in spite of
the error.

### CollabSync

`engine[c]` has the fields of `SyncEngine`; operators on it (`Sealed`,
`Outgoing`, `Applied`, `Welcomed`, `Restored`, ...) are the methods of that
class, and the actions compose them as `CollabClient` and `CollabSession` do; the
batches it keeps are sets (arrays the code keeps in the order of their numbers):
`Receive` of a `welcome` also seals and flushes in the same step. A connection
is `"dead"` when the server is gone and the client has not noticed: what is sent
on it is lost. `copy[c]` is what IndexedDB holds for the session, `Persist` the
delayed write (`WRITE_DELAY_MS`), `CloseTab` and `KillTab` the two ends of a tab
and `Reopen` the adoption of its copy by a later one. `Situations` chooses what
may happen besides lost connections. Batches hold edits; objects, segments and
conflicts between edits are abstracted, since every replica applies the same
batches in the same order. `waived` holds the edits nothing is promised about:
those refused, those meant to stay local, and those made in a tab that was
killed before its copy was written.

### LeaseKeys, LeaseTable, LeaseHolders, LeaseGates

`LeaseKeys` has what they share: clients, keys, and the variables `members` and
`live`, who is connected and which itineraries exist. `LeaseTable` has an explicit
clock; `Request`, `Renew`, `Expire`... begin with
`revokeOverheld` as the code does (`LeaseLeft`, `PenaltyLeft`). `LeaseHolders`
forgets the times and keeps who holds what, with every answer the timed table
can give. `LeaseGates` adds, for each client, its connection, the two message
queues, and the gate: `told` (`leases`), `requested`, `running`, and `unused`
(keys with a timer of `releaseIfUnused`). Timers may fire as soon as they are
set, so any order of timers and messages is covered. Its steps on the room are
`JoinRoom`, `LeaveRoom`, `DeleteItinerary` and `ExpireLeases`, where the table has
its own `Join`, `Leave`, `Delete` and `Expire`.

### UndoHistory, Documents

A document is a function from ids to objects: an id says for good in which list
its object is, so the shape of the tree is the constant `Parent` and a store says
which objects exist. `ApplyOp`, `InverseOf`, `ApplyWithInverse`, `FreePosition`
and `Checked` are the functions of `ops.ts` and `validate.ts`. `UndoHistory` has
`confirmed`, `pending` and `visible` as `SyncEngine` has, and the two stacks of
steps; a step has the fields of `Step`, and, for the properties, the documents
before and after it and whether another's change came in its midst. A value says
who gave it, and a computed route from which points: that is all the properties
tell apart. `theirs` holds the properties and the places (`Place`) that another
editor wrote or moved last, as they came to be seen: `OthersKept` asks that undo
puts none of them back. `Change` and `Background` are `pushLocalDocument` and `record` in one
step, `Undo` and `Redo` the loop of `move`, which drops the steps others have
covered; `Ack` and `Theirs` are what `applyServerBatch` does.

### UnsyncedCopies

`device` is IndexedDB, `lock` the Web Locks. A session lists the copies (`List`),
takes their locks one by one (`TakeLock`), becomes the newest (`StartFromCopies`)
and sends the older ones by connections of their own (the `drain` engine), while
its own batches are held until these are written or 30 s passed (`Deadline`).
Writes to the device are queued and land later, with what they read when they
were queued. A batch holds one edit and sending it is one step: the messages are
in `CollabSync`. `before` remembers which of two edits must reach the server
first, as a fact about copies adopted together.

### Connections

`conn[c]` is a `handleConnection` with its socket (`tcp`) and the place of its
`hello` in `open` (`ask`, `wait`, `got`); between two of these places anything
may happen. `host` has the one load under way and the room in the table;
`room[r]` the peers, the current connection of each client, what the queue of the
room does (`task`) and how far it has written. A refused reading of rights is
acted on later (`refusals`), even when its connection closed meanwhile.

### Subscriptions

`subs`, `setups` and `events` are Stripe's, `copy` is Appwrite's. A call reads,
waits and writes: `calls[c].at` is the request it is about to make and
`calls[c].read` what it read. `queue` is `withCustomerLock`, `processed` the
memory of the webhook, empty after a restart. A step that fails ends its call; an
answer that is lost ends it after the step took effect; Stripe delivers an event
again until it is answered 200, also while it is being handled (`Deliver`: an
event is marked only when its handling ends, `webhook.ts:254-274`). An e-mail may
leave and count as not sent (`Mail`: `mailer.ts:73-75`). `unheard` and `overlaps`
are the history of an event, that no action reads: how often each happened to it.

### AccountDeletion

`purges` are the calls of `deleteAccount` under way, each at one of `Steps`;
`timers` the retries of the process, `inFlight` and `failures` its memory,
`resume` the pass that lists the register. `call` is a webhook or a subscription
that checked the account before it was blocked and has still to write.

## 3. Runs

Deadlock is not checked in these runs: every model has bounded inputs and is
allowed to come to rest (nobody edits, all batches are durable, all is undone).

| Run | Instance | Question and answer |
|---|---|---|
| `handover` | 3 lives, 3 numbers, 3 files, one server at a time, packets that land although they failed; fairness | Is what was announced durable kept, and what a life starts from (`PromisesKept`)? Is what shadow validation would compare equal (`ShadowAgrees`), `DurableLog` implemented, an accepted batch written or its room ended (`BatchesSettle`)? Yes. |
| `fence` | 2 lives, 4 numbers, an older server without checkpoints beside the newer one, no fault; 515 thousand states | Does the packet kept out of the pruning stop the older server before it announces anything? Yes. |
| `restarts` | 2 editors, 1 edit each, 2 faults, one batch kept for catch-ups, every situation but stale copies; fairness; 594 thousand states | Do edits stay visible once (`EditsStayVisible`), does a connection bring the exact state (`StatesAgree`), does everything settle and converge (`Converge`)? Yes. |
| `device` | 1 editor, 3 edits, 3 faults, same situations; 1.1 million states | Is every edit applied at most once, in order, and kept until durable? Yes. |
| `copies` | 2 tabs, 3 clients, 2 copies left by closed tabs, 3 edits, 1 fault of any kind but two sessions that start at once; 1.2 million states | Do two tabs never share a client (`TabsAgree`), is nothing lost or applied twice, the newest last (`OnceInOrder`), and does the hold end? Yes. |
| `undo` | an itinerary with a point and another that may be added, 2 changes, 1 operation of another editor, 1 route, 2 undos or redos, 1 refusal; 618 thousand states | Are positions distinct and the visible state exact (`DocumentsAgree`), is undo exact (`UndoIsExact`), does it keep the properties and the positions others changed (`OthersKept`) and never put back a route alone (`RouteNotAlone`)? Yes, within what these say. |
| `leases` | 3 clients, 1 key, TTL 2, hold 3, penalty 4, 8 ticks; 24 thousand states | One valid lease, connected holder, bounded hold, penalty served, `LeaseHolders` implemented? Yes. |
| `gates` | 2 clients, 1 key, 1 computation each, queues of 1 and 2 messages; 1.4 million states | Is a held lease known (`GatesAgree`), used or given back, and every request answered? Yes. |
| `access` | 2 users, 2 connections, 2 instances of the room, 2 events among edits, rights, cuts, failures and a stop; 943 thousand states | One room whose peers are its joined connections (`RoomsAgree`), slots given back, nothing lost by unloading, the purge last, nobody lingering? Yes. |
| `billing` | 2 calls at once, 2 requests, 2 changes at Stripe, 1 fault (a step that fails, an answer lost, a delivery while another is handled), 1 restart; 333 thousand states | One live subscription and one trial (`OneOfEach`), a copy that ends equal to Stripe, each cancellation told (`EventsEnd`), and told again only after a restart, a lost answer of Resend or a delivery that overlaps another (`RepeatsAccounted`)? Yes, when Stripe does not change a subscription while a call is writing it. |
| `erase` | 2 purges, 1 retry, 2 confirmations, 2 calls, 2 faults, 1 restart; 41 thousand states | Is nothing left of an account that is gone (`NothingIsLeft`), a charged client known, the person told once, an accepted deletion ended? Yes, when no call is slower than the purge. |
| `refused` | the same, a failure between the register and the block | Is an account whose deletion was refused kept? No: section 6. |

**Why the bounds are enough.** Three lives are a life, the one that takes over
and the one that must still find what the first promised; three numbers allow a
packet of two batches, one before and one beyond a checkpoint; three files are
the file the row names, the one being uploaded and a stale one (a fresh
identifier is always left, so the bound never blocks an upload). `fence` needs
two servers and four numbers: what the older one had, the fence, and a batch on
each side of it. A third server that meets them is another question, and its
answer is no (section 6, "A third server"). In `CollabSync` a client needs three
edits for one durable, one acknowledged and one pending, and three faults for a
lost connection around a restart and a closed tab; two editors need one edit each,
because what they share is the numbering of the room and its catch-up window, and
the window is then smaller than the number of batches. `restarts` stops at two faults: with
three, and the same window, `EditsStayVisible` meets the renumbered batch of
section 6. `copies` has two copies to be ordered and one edit of the session
after them, two sessions for the one that closes and the one that takes over.
`undo` has two changes for a step that grows and a step under another, one
operation of another editor between any of them, and two moves for an undo and
its redo. `access` has the two connections of one client that replaces the other,
or of two clients; one event is one race, two are a race with a failure. In
`billing` two requests are two tabs, and two changes at Stripe a card that is
confirmed and a subscription that is cancelled. The durations of `leases` keep
the order of the code's (renewal shorter than the longest hold, hold shorter than
the penalty) and the clock runs past a hold, a penalty and a second hold. The
queues of `gates` hold a list on its way behind another message; queues of 2 and
1 pass as well (758 thousand states), 2 and 2 is beyond a few minutes. `erase`
has one retry and three passes where the code has three and five: enough for a
retry, a pass after it, and a pass after a restart.

**Symmetry.** `leases` and `gates` permute clients, which no definition orders;
the liveness runs use none. Snapshot files are chosen by `CHOOSE` among unused
ones, so they need no symmetry set.

**Fairness.** `handover`: the tasks of a room's queue are promises and timers that
run (weak fairness of starting a packet, of the steps of a checkpoint);
`writeJournal` is tried again for ever with a bounded delay
(`roomHost.ts:294-309`), so a storage that accepts a packet again and again,
and answers again and again, is assumed to be met eventually (strong fairness of
`AppendLand` and of its answer): a storage that is down for ever makes nothing
durable. `restarts`: flush timers, the reading of sockets, the heartbeat that
discovers a dead connection, the reconnection timer that never gives up
(`connection.ts:401-427`) and the journal run (weak fairness of their
disjunction, `Running`: each of them makes progress towards the end and none
keeps another from happening for ever); nobody has to edit, and no fault has to
happen. `copies`: only the timer of the hold runs; no connection is ever promised.
`access`: timers, handshakes, heartbeats, readings of rights and queues run, the
clients owe nothing. `billing`: calls go on, and Stripe delivers an event until it
is answered. `erase`: calls end, timers fire, time passes and the passes come;
faults are bounded, so a step that fails ends by passing.

## 4. Proofs

tlapm checks every theorem and lemma, with no step left out, from the
assumptions the modules name: `NoOneAssumption`, `FlightAssumption`,
`DurationsAssumption` (positive durations, any relation between them),
`NRoomsAssumption`, `FileAssumption`, `ModeAssumption` (any `Overlap`, any
`Faults`), `ConnectionsAssumption` (instances and connections have positive
names, 0 means none; a user may have at least one connection),
`BoundsAssumption` and `SituationAssumption` (the windows of `CollabSync` are
positive), `SubscriptionsAssumption` and `DeletionAssumption`. The length of these
proofs is in the invariants: every number, message and copy must be accounted for
at every step, also those no property speaks of.

**Leases_proofs, the table.** `TypeCorrect`, `AlwaysHeldByTheConnected`,
`HoldAlwaysBounded`, `PenaltyAlwaysServed` and `NeverTakenEarly` hold for any
clients, keys and durations. None of the invariants is inductive alone: a
renewal within the longest hold keeps `HoldIsBounded` only if the lease was not
given in the future, a grant keeps `PenaltyServed` only if the penalties the
same call may have added are those of the former holder. `TableInv` says that every
lease is `Sound` (connected holder, live itinerary, given in the past, valid
within the bounds, holder not penalised); the lemmas `LeftSound`, `RenewSound`
and `RequestSound` show what one key's call leaves, `OneKey` that the others
keep theirs. `NeverTakenEarly` needs `TableInv` too: request gives away the lease of
a client that is not connected, and `Sound` says there is none.
`TableImplementsHolders`: every step of `LeaseTable` is a step or a stutter of
`LeaseHolders` under `holder[k] = lease[k].client`, so what `gates` checks is
checked around the timed table.

**Leases_proofs, the gates.** `GatesAlwaysAgree`, `LeaseAlwaysUsed` and
`RequestAlwaysAnswered` hold for any clients, kinds, itineraries, computations and
messages on their way. What a gate will believe depends on the last list of leases
among its messages, so the lemmas on lists come first: a list sent now decides
(`ListComes`), a refusal changes nothing (`DenialComes`), and reading a message
leaves what will be believed as it was (`HeadIsRead`). `IInv` says of each gate
that it `Knows` the holders once its messages are read, `Uses` the leases of its
client unless a list that will say so is on its way, and is `Answered`; `LeaseIsUsed`
is inductive only with the list on its way, and with `Knows`: a computation that
ends gives the lease back only if the gate knows it has it. The room forgets
the leases of a deleted itinerary, or the refusal of a release about one would
leave a lease without use. `HearsList`, `HearsDenial`, `Untouched`, `Outside` and
`Consumed` are what can happen to one gate in a step, and every action is made of
them.

**RoomJournal_proofs.** `TypeCorrect` holds for any number of lives and
batches, any overlap and any faults, including those the violation runs use. The
counters matter: `durable <= journaled <= seq`, `saved <= journaled` and
`target <= seq` for any room that serves. They are not inductive: that an
acknowledged packet moves `journaled` forward, or that a checkpoint never writes
more than is journalled, depends on the call in progress. `IInv` therefore adds
`RoomOK` (a packet in progress goes from `journaled` to `upto <= seq` and covers
the checkpoint waiting for it; once the upload begins the checkpoint is of
journalled batches; a first checkpoint has nothing to journal) and `StorageOK`
(contents and packets stay within the highest number). One lemma per group of
actions (`LoadKeeps`, `AcceptKeeps`, `JournallingKeeps`, `CheckpointingKeeps`,
`EndingKeeps`, `LateKeeps`) rests on facts about contents (`TopBounds`,
`ReplayIsLog`, `PadToIsLog`): replaying a journal without holes gives a content.

**RoomJournal_proofs, second part.** `PromisesAreKept`, `ShadowNeverDiffers` and
`LogIsImplemented` hold for any number of lives, batches and files, whatever
fails, is killed, is retried or lands late, under `Alone`: one server at a time
(`Overlap = "never"`), and an update of the row that failed has not written it
(`"update" \notin Faults`). Section 6 shows what TLC finds without either;
`LogIsImplemented` also needs one life at least (`NRooms # 0`), or nothing is
promised. None of the properties is inductive: what a checkpoint deletes depends
on what it wrote two calls before, what a load takes on a packet that may still
land. `DInv` gathers `Successive` (the former lives are over, calls included),
`Blank` (until the first checkpoint there is nothing to lose), `Snapshots` (the
file of the row is there, the one being uploaded is another), `Stored` (what was
announced is in `Recoverable`; a packet on its way is `Harmless`: its number is
taken, or a checkpoint covers it, or it comes right after all there is) and
`Live`, what a life knows in each phase: `Reading` (a load has read what it would
read now, or the beginning of it), `First` (the first checkpoint) and `Serves`
(the room agrees with the storage up to where it wrote, and what follows there
begins at the number its next packet would take). The content lemmas
(`LandContent`, `SubContent`, `SaveContent`) compute what a packet, a pruning or
a checkpoint does to a replay; `Lands`, `Saves`, `Prunes` and `Still` turn them
into `Grows`: the content only grows. `Keeps`, `Ends`, `GoesOn` and `Quiet` are
the ways one life goes on or ends, and there is one lemma per action. `Adds`, which
every step is shown to do, is the step of `DurableLog`.

**RoomJournal_proofs, third part.** `FenceKeepsPromises`: `DurableKept` when two
servers meet in a deployment (`Overlap = "fenced"`, `Faults = {}`, two lives), for
any number of batches and files, with processes killed at any point and their last
packet landing late. `BesideInv` replaces `DInv`: at most two lives are not over and
the older makes no checkpoint (`Beside`), and what the older one still writes is
stopped by the first packet of the younger (`Fenced`). `FenceOf` is the number of
that packet, above all the younger has read. Until it is written, the older may go
on at that number or beyond; once it is, the older's next packet has exactly that
number (`Stops`), which is taken and which no checkpoint of the younger prunes, and
so does every packet of a killed life still on its way when the younger begins a
checkpoint. `Fenced` is inductive only if the younger has read all the older has
written when it reads the journal (`Current`). With two lives this is derived
(`TwoLives`): no packet can come from anyone else (`Authors`). With more, it is the
hypothesis of `FencesKeepPromises`, `Spec /\ []Current => []DurableKept`, and it is
needed: section 6, "A third server".

**Connections_proofs.** `RoomsAlwaysAgree`, `PurgeAlwaysLast`, `IdleNeverLoses` and
`SlotsAlwaysMatch` hold for any number of users, connections, instances of the
room and events. `RoomsAgree` is not inductive: a hello that waited goes on with
an instance chosen earlier, so `IInv` says that such an instance, and the one a
refusal names, is open or closed for good (`Given`), that a load is under way only
while the host has no room, and that there is at most one first checkpoint.
`RoomSound` is what the queue of a room needs: numbers in order, a purge only of a
closed room and done only when the queue is empty, and, of a room unloaded idle,
everything journalled with nothing under way. `ConnSound` ties the phases of a
connection to its socket, its user and the wait of its hello. There is one lemma
per handler; those of the awaits share `OutsideStep` (rooms untouched),
`InsideStep` (peers untouched), `ClosingStep` (a room closes) and `LeavingStep`
(a connection leaves), and `AttachStep` is the replacement of a client's
connection. `SlotsAlwaysMatch` adds `SInv`: only an acceptance and the end of a
socket change what counts (`Same`), the sets counted are finite, and a refusal
never waits for a connection that is still being upgraded (`FreeConn` keeps its
name), which a late closing would otherwise count.

**AccountDeletion_proofs.** `NothingIsEverLeft`, `ChargedIsAlwaysKnown` and
`IsToldOnce` hold for any number of purges, retries, failures and restarts. The
argument is that a purge changes things in one direction: what the steps it has
passed did stays done (`PurgeOK`), whoever else purges or writes, because the
account is blocked before the first purge begins, and whoever writes afterwards
checks it again. A call that had checked the account before may still write: the
theorems assume that the deletion of the client waits for it
(`"overtaken" \notin Situations`), and without it TLC violates both properties
(section 6). `IsToldOnce` adds that there is one deletion at a time (`OneJob`: a
retry, a pass or the route, never two) and what is told to whom (`Telling`: who
was told is gone, and no deletion under way still has the message to send); it
also assumes that the route is not cut between the register and the block
(`"halfway" \notin Situations`).

**Subscriptions_proofs.** `NeverTwo`, `RowsCatchUp` and `RepeatsAlwaysAccounted` hold for
any number of calls, requests, changes, failures and restarts, from
`SubscriptionsAssumption` (finitely many requests at once, bounds in `Nat`) and
`Usual`: Stripe changes no subscription a call is
about to write or to cancel, and refuses no cancellation (section 6 has what TLC
finds without it). Each property needs what the calls know. `Lock` says that only
the head of the queue works past the list; `Opened`, that the first subscription
is the trial, that at most one has not ended, and what a call under the lock
relies on (`Relies`: the ones not ended are attempts it still has to cancel, or
there was never any), so that a subscription is created only once the others have
ended; a restart empties the lock, but its calls with it. `Rows` says that a row
that is behind has a `Pending` event: not answered, not remembered, and worked on
by no call that already wrote. A change at Stripe brings such an event, a write
makes its row right and leaves the events of the other subscriptions. `Mails`
bounds the e-mails of an event together with the calls that handle it, each of
which may still send one, by one more than what is excused (overlaps, lost answers,
restarts); as long as the event is not remembered the excuses alone bound the
e-mails, which is what a delivery that finds nobody handling it needs
(`MailsDelivered`), and a call that ends gives its place to its e-mail
(`MailsHandled`). The lemmas
are in the order of these parts; `GoesOn`, `Starts`, `Answers`, `ChangeKeeps` and
`CreateKeeps` are the five ways a step goes, and there is one lemma per action.

**CollabSync_proofs.** `Typed`, `OnceInOrder` and `BothEndsAgree` hold for any
number of editors, edits and faults and for any windows; the last two assume that
no device adopts a copy older than what its client sent (`"stale" \notin
Situations`: section 6 shows what TLC finds with it). `AppliedOnceInOrder` speaks
of the log only, and is far from inductive: what the room takes next is among the
messages, the batches and the copies, wherever they wait. `OrderInv` says that a
number names one batch for good once it left its device: the batches of a client
on its way up, in the log, kept or copied (`Abroad`, `Mine`) are ordered alike by
number and by edits (`Ordered`), those the room may still take are beyond what it
took, and the next number of an engine is beyond all of them once it was welcomed
(`Numbering`, `Greeted`). `UniqueInv` says that no edit is in two numbers.
`BothEndsAgree` (`StatesAgree`) adds `LinkInv`: which room and which life of it a
connection belongs to, that what a client lacks is on its way down, in order and
without a hole (`Docs`), and that what it takes for sent and unanswered is on its
way up (`Flies`). There is one lemma per action and per part; the actions of a
client are described once (`...Does`), the parts use the descriptions.

**EditsKept_proofs.** `NoEditLost` (`NothingLost`) and `EditsVisible`
(`EditsStayVisible`), under the same exclusion of stale copies. Where servers
restart they also assume `RecentSuffices`: a client that comes back to the room it
knows with batches of an earlier one is caught up, not reset by a snapshot. This
is the fault of `syncEngine.ts:338` (section 6, "A batch renumbered by a
restart"): without it the theorems are false, and TLC shows it. `MemorySuffices`
says when it can be counted on: as long as no room accepts more batches, since
its load, than it remembers (`catchUpLimit`); in `device` it always holds, as 3
edits fit in its window of 3. The invariant has three parts. `Hears`: what is
announced durable to a client is so, and a welcome describes the room. `Ledger`:
which batches of a device are acknowledged, waiting or new, that these are apart
(`Apart`), in the order they were made (`Climbs`), and that what an acknowledged
one carries is its place in the log (`Reckoned`, `Stamped`); this is where a
restart changes the meaning of a number. `Holds`: a batch of the device is, under
its number, the same wherever it goes, up to the edits nothing is promised about
(`Known`, `Alike`), so that what a welcome counts as applied is in the log; what
was dropped from the device is in its durable part (`Due`, `Backed`, `Keeps`).
`Since` is what `MemorySuffices` adds: a client has nothing of the room it knows
from before its load.

**UnsyncedCopies_proofs.** `TabsAlwaysAgree` (`TabsAgree`) holds for any tabs,
clients, copies, edits, faults and situations. `NothingIsLost` (`NothingLost`),
`CopiesAppliedOnce` and `CopiesInOrder` (`OnceInOrder`) assume that no session
starts while another one starts, closes or is killed (`"overlap" \notin
Situations`): section 6, "Two sessions that start together", shows that they are false without
it. Three invariants, each resting on the one before:

- `IInv`, of the locks, needs no hypothesis: a session holds the lock of every
  client it works for (`Own`, `OwnClient`), so no other tab, no drain and no copy
  being adopted is of that client; what a session has in each phase is its
  `Shape`.
- `Ledger`, of the edits. `OneListing` is what the hypothesis gives: who lists
  lists alone. `Books` says that a number of a client names one edit, in whatever
  copy, write or memory it is found, and that what the room counts of a client are
  its first numbers. `Devices` and `Fit` say that a copy has all its client still
  owes (`Whole`): what was listed is not behind the device, which is false of a
  session that listed while another one wrote. `Present` says where each edit is.
- `InTurn`, of the order. For two edits of which `before` says that the first must
  reach the server before the second, `Leads` says of their clients `c` and `d`
  that no session continues `c` and no connection sends `d` (`Apart`), the record
  of `c` is older than that of `d` (`Earlier`), who has the lock of `d` has that
  of `c` until it closes (`Behind`), a session that continues `d` holds its
  batches back (`Waits`), and a session that finds `d` finds `c` with it
  (`Listed`). `Earlier` is why a session that takes over after a kill starts again
  from the right copy, and needs `Dates`: what a tab has of a client bears the
  date of its record. `Dropped` and `Off` say when a pair ends: with a copy nobody
  may read any more, and with the access to the project.

**Model checked only.** `DocumentsAgree` and `UndoIsExact` of `UndoHistory`, and all
liveness. What the operations of a batch make of a document is a fold over their
sequence (`FoldLeft`, `FlattenSeq`, `SelectSeq`, and sets put in order), of which
every fact is an induction over data: the library's induction theorems take an
operator as a parameter, and no installed prover can instantiate one. So nothing of
`Documents`, and of `UndoHistory` which rests on it, is proved. Liveness
(`BatchesSettle`, `Converge`, `HoldEnds`, `NobodyLingers`, `EventsEnd`,
`AcceptedEnds`) needs fairness and ENABLED.

## 5. What is not modelled

- **Encodings and sizes**: payloads, compression, segments (blobs) of routes, the
  limits of `checkBatch`, byte and message buckets, the access cache, the delays
  between flushes and checkpoints.
- **Memory limits**: 1,024 remembered clients (`roomState.ts:232`), 10,000
  penalties (`leases.ts:105`), 200 undo steps (`undoHistory.ts:29`). The models
  remember everything.
- **Documents**: `diff`, `materialize`, paths and comment rules turn documents
  into operations and back; they keep no state and race with nothing, and the
  generated tests of the repository compare them with a reference. Fractional
  indices are numbers with room between them. The shape rules of `checkBatch` are
  replaced by a nondeterministic refusal.
- **The renaming in a room** (`renameInRoom.ts`), presence and motion.
- **Sequence numbers after a load without checkpoint**: `LoadDiscard` assumes
  that the document is not rewritten between its read and the restarted
  numbering, and `CheckpointStart` that a packet an earlier life gave up has
  landed or is lost by the first checkpoint of the next one.
- **The gates' delays**, the cooldown after a refusal, computing alone after
  four seconds offline (a computation may start at any time in `LeaseGates`, so
  it is covered but not constrained), `dispose`.
- **Around the copies**: a device whose writes fail, a browser without Web Locks,
  `deleteUnsyncedOfUser`, messages of leases held while older copies are drained.
- **Around the connections**: tokens and their renewal, caches of rights (they
  only delay a refusal, and `Verify` may come late), limits by address.
- **Around billing**: prices, payment methods, the portal itself, invoices, the
  e-mails of trials and renewals.
- **Around the deletion of accounts**: the codes sent by e-mail, the pagination
  and the choice of the rows an account owns, the administrator's script.
- The rest of the application (interface, maps, exports, terrain tiles, data
  services, scripts and translations) is most of the repository's lines. It keeps
  state that is shown or computed again, not state that actors share: see
  `components` in `PROJECT.json` for each reason.

## 6. Where the code and what it says disagree

**`refused`** finds one violation and quotes it in `findings`:
`beginAccountDeletion` writes the register (`accountDeletion.ts:292`) before it
blocks the account (`:293`). When the block fails the person is answered an error
and the account stays open, "Une erreur ici laisse le compte intact : la personne
réessaie" (`delete-account.ts:160`); but its row is pending, and the pass of a
quarter of an hour later deletes the account for good.

### What the runs leave out

The models also reach the following. Each is given with the constants to change;
TLC then violates the property named.

Rooms (`RoomJournal`):

- **Two servers that both write checkpoints** — `Overlap = "free"`, `Faults = {}`,
  2 lives, 3 numbers: `DurableKept`. `saveCheckpoint` writes the row
  unconditionally (`appwriteStorage.ts:364`) and prunes the files and packets of
  the other. `storage.ts:13-17` calls the journal the barrier between two
  servers; it protects packets only.
- **The answer of the row's update is lost** — `Faults = {"update"}`,
  `Overlap = "never"`, 1 life, 3 numbers: `DurableKept`. The `catch` of
  `saveCheckpoint` (`appwriteStorage.ts:372`) deletes the file the row now names;
  the next load finds no checkpoint and discards the journal.
- **A failed room loaded again** — `Overlap = "reload"`, `Faults = {}`, 2 lives,
  3 numbers: `DurableKept`. `fail()` (`roomHost.ts:203-212`) does not stop
  `saveCheckpoint` and `pruneJournal` of the checkpoint in progress
  (`roomHost.ts:371`), which overwrite the row of the new room and delete its
  packets.
- **A retried packet after a deployment** — `Overlap = "fenced"`,
  `Faults = {"append"}`, 2 lives, 4 numbers: `DurableKept`. The older server's
  packet was written and its answer lost; the newer server loads it, and its
  first checkpoint prunes it, since it has written no packet of its own to keep
  (`appwriteStorage.ts:385`). The retry then meets no conflict.
- **A third server** — `Overlap = "fenced"`, `Faults = {}`, 3 lives, 3 numbers:
  `DurableKept`. The first packet of a server is kept out of its own checkpoints
  only. A second server reads the journal; the first one, or a packet of it that was
  on its way when it was killed, then takes the number the second one would write.
  A third server loads beside the second, makes a checkpoint and, having written no
  packet itself, prunes that one with the rest (`keepStartSeq` undefined,
  `appwriteStorage.ts:385`). The second one's packet meets no conflict: it is
  announced, and the checkpoint of the third already covers its number. It takes
  two deployments within the life of one idle room.

Editors (`CollabSync`, `UnsyncedCopies`, `LeaseGates`, `LeaseTable`):

- **A copy older than what its tab sent** — `Clients = {c1}`, 3 edits, 1 fault,
  windows 3 and 1, `Situations = {"kill", "early", "stale"}`: `NothingLost`. A tab
  is killed within 250 ms of sending; the copy it leaves numbers its next batch
  like one the server applied, and `welcome.clientSeq` counts it as applied
  (`syncEngine.ts:339`).
- **A batch renumbered by a restart** — 2 clients, 1 edit, 2 faults, windows 1 and
  1, `Situations = {"restart"}`: `NothingLost`. A batch lost by a restart keeps its
  old sequence number in `undurable` when the client meets the new room through a
  snapshot for the second time (`syncEngine.ts:338`): a `durableSeq` past the old
  number drops it before it is journalled.
- **Two sessions that start together** — `Situations` with `"overlap"` in
  `copies`: `OnceInOrder` and `NothingLost`. A session lists while another closes
  without being awaited (`useCollabSession.ts:213`), and what it listed is stale
  when it takes the lock (`unsyncedStore.ts:155`).
- **The reject of a batch lost with its connection** (`syncEngine.ts:309`): a later
  batch is applied and `welcome.clientSeq` counts the refused one as applied.
  Refused edits are promised nothing (`waived`).
- **A computation without a lease**: after its own `release` is sent the gate
  keeps the lease in `leases` until the list that follows, so `shouldCompute`
  answers yes (`leaseGate.ts:80`), against "on calcule seulement avec le bail du
  serveur" (`leaseGate.ts:7-8`). It costs a second computation: `Begin` after
  `End`, before `Receive`.
- **A lease taken back in silence**: `renew` and a refused `request` call
  `revokeOverheld` and tell at most their own client (`room.ts:289-302`). The
  tick then finds nothing to expire and broadcasts nothing; the other gates
  believe the former holder still computes and do not ask
  (`leaseGate.ts:79-80`), against `leases.ts:17-20`. `HolderIsKnown` is stated of
  held leases only.
- **A new hold at once**: the longest hold bounds one lease, not the share of time
  of a client that releases and asks again (`leases.ts:119`).

Undo (`UndoHistory`):

- **A refused batch**: the history is not told (`syncEngine.ts:309-317`). What a
  step remembers of it is wrong, so undoing it may put back a value over
  another's, or a route alone: without the condition on refusals `OthersKept` and
  `RouteNotAlone` are violated in `undo`.
- **A change put back within its step** — `Situations = {"cancelled"}`:
  `RouteNotAlone`. A point moved out and back, or created and deleted, within
  600 ms still counts as the cause of a later route (`undoHistory.ts:139`), and
  undoing the step puts back an old route over one that matches.
- **A step given back by redo** keeps the route it brought: when another editor
  removed the point meanwhile, undoing it puts the older route back alone. So
  `RouteNotAlone` is stated of the user's own steps.
- **A position that comes back**: what a step may put back is compared by value
  (`undoHistory.ts:176`), so an object another editor moved, then moved back to
  where the step left it, counts as not moved. It takes two operations of others;
  `undo` has one.
- **A position the server corrected** is no longer undone: it differs from the
  one the step left (`undoHistory.ts:176`). An object two editors recreated gets
  the properties of the last one (`undoHistory.ts:78`, said there).

Connections (`Connections`):

- **A checkpoint left of a deleted project**: written between the purge of the
  sharing API (`projectSharing.ts:433`) and the deletion of the row, when its room
  is then unloaded without another look at its rights.
- **A room whose load ends after the stop listed the rooms** (`roomHost.ts:615`)
  stays open without connections; what it holds is sent again by the clients.

Billing and accounts (`Subscriptions`, `AccountDeletion`):

- **Stripe changes between the read and the write** — `Situations = {"overtaken"}`
  in `billing`: `CopyIsLast`. Two synchronisations of one subscription write in
  the other order than they read; the rows stay wrong until the next event.
- **A cancellation refused** — `Situations = {"uncancelled"}`: `OneLive`. A refusal
  to cancel an abandoned attempt is only logged (`subscriptions.ts:181`); the
  attempt may still be paid beside its replacement.
- **A call slower than the purge** — `Situations = {"overtaken"}` in `erase`:
  `ChargedIsKnown` and `NothingIsLeft`. The webhook and the subscription check
  the account once, then write (`customers.ts:122-129`).
- **A cancellation told again** (`webhook.ts:33-37`: "ce filtre évite surtout
  d'envoyer deux fois un même e-mail"): the filter looks at events already handled
  (`:254`) and an event is marked at the end (`:274`), so a delivery that comes
  meanwhile is handled too, and both send. An e-mail of which Resend's answer is
  lost or late counts as not sent (`mailer.ts:54`, `:73-75`), the event fails and
  the next delivery sends it again. `billing` has both, and `RepeatsAccounted` says
  that nothing else but a restart repeats an e-mail. `processedEventIds` keeps the
  last 2000 events (`webhook.ts:38-49`); the model forgets none.
- **A register halfway** — `Situations = {"halfway"}`: besides `refused`, the person
  may be told twice (`ToldOnce`).

## 7. Plan

Done: rooms, connections, synchronisation, copies, leases, documents and undo,
billing and the deletion of accounts, each with its runs; the proofs of section 4
(leases and their gates, the journal and its refinement of `DurableLog`, connections,
subscriptions, deletion of accounts, the synchronisation of one project but for its
convergence, the copies on the device).

Next, in this order:

1. **RoomMemory**: the bounded memory of clients and the owner of a `clientId`
   (`roomState.ts`, `room.ts:canJoin`), composed with `CollabSync`'s numbering.
2. **`diff` against `materialize`** over small documents, with the reference
   definition of the generated tests.
