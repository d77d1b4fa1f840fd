# Verification of SquadUp

SquadUp is a NestJS API with two React front ends, the web app and the ops
console. Its most demanding part is the **room** (in the code: *board*): several
people edit one document at the same time through one API process, which keeps
it in memory, writes it to Postgres now and then, and deletes it seven days
after the room was made. Around it are sessions and accounts kept in Redis and
Postgres, an audit pipeline over RabbitMQ, notifications with a mail queue,
access requests, a staff realm with its console, and an editor that saves by
itself. This directory holds TLA+ models of those parts, TLC runs that check
them on small instances, and TLAPS proofs for every instance.

Paths are relative to the repository; `api/` is `apps/api/src/`, `web/` is
`apps/web/src/`, `ops/` is `apps/ops/src/`.

    tlc -workers 2 -config BoardRooms_code.cfg MCBoardRooms.tla    # one run
    tlapm BoardRoomsProofs.tla                                     # one module's proofs

PROJECT.json is the index: each run with its properties, for each property a
mutation of the model that breaks it, the source lines of each definition, the
hazards and the theorems.

## 1. Inventory

| Component | State it keeps | Operations | What is hard | Correct when |
|---|---|---|---|---|
| **Board rooms** `api/boards/services/board-rooms.service.ts`, gateway, document repositories | maps `rooms`, `loading`; per room a Y.Doc, sockets, dirty mark, size counter, two timers | open, update, leave, disconnect; load, save, unload, evict | every await may be overtaken; timers; failing writes | joined sockets miss nothing, saved means saved, unloading loses nothing, expiry is final |
| **Board connection** `web/features/board/hooks/use-board-connection.ts` | a Y.Doc per tab, whether it is `open` | connect, open, merge, send the difference, reconnect | drops, restarts, timeouts, offline typing, edits that build on refused ones | tabs converge, nothing typed is lost |
| **Board chat** `web/features/board/hooks/use-board-chat.ts`, `api/boards/services/board-chat.service.ts` | table `board_messages`, the history cached by each tab | read the latest page, receive, send, catch up | REST and socket write one cache in any order | a tab is complete after a drop, and in order |
| **Board seats and expiry** `api/boards/services/boards.service.ts`, `board-expiry.service.ts`, repository | tables `boards`, `board_members` | create, join, open, sweep | races between queries; the sweep | never more members than seats, host always seated |
| **Sandboxes** `web/features/sandbox`, `api/sandboxes` | a row per sandbox; in the editor what is typed, what is saved, what failed | open, edit, autosave, rename, delete | overlapping PATCHes, failures, a cache that outlives the editor | Saved means stored; every edit comes to rest |
| **Audit pipeline** `api/audits` | RabbitMQ queues, a collection | produce, consume, retry, dead-letter | redelivery while a handler still runs, crashes and lost connections between ack and publish | each event stored, logged, or visibly dropped |
| **Sessions** `api/auth`, `api/redis` | refresh records, device index, metadata, blacklist | sign in, refresh, sign out one, the other, all devices | multi-key updates, single-use tokens, several tabs | signed out stays out; the cookie works |
| **Accounts** `api/auth`, `api/users` | the row, links, codes, change requests, ways back | register, verify, Google sign-in, change of address and its reversal, password, closing | read then write by id; a failure between two awaits | a verified address was read by somebody; a change can be undone |
| **Notifications** `api/notifications` | three tables, unread cache, online sockets | emit, read, mark, connect; send mail | idempotency, cache invalidation, async verification, overlapping cron runs | made once and whole, counts catch up, mail is not given up early |
| **Feature access** `api/feature-flags` | flag, a row per user | request, withdraw, decide, grant, remove | find, find again, then save | asking takes nothing away that was there; every decision is announced |
| **Staff realm** `api/staff` | staff row, refresh records, device index, blacklist | sign in, refresh, sign out, suspend, remove, password | ends of all sessions racing with refreshes | ended stays ended |
| **Ops console** `ops/lib/api`, `ops/lib/auth` | token and status per tab, one cookie for all | request, renew once, repeat, restore, sign out | tabs that meet an expired token together | nobody is sent to sign in without a reason; no tab waits for ever |
| Presence and awareness | awareness states, owner of a client id | apply, remove on leave | ids reused on reconnect | a cursor goes when its owner does |
| Users' profiles, forms, blogs, changelog, reference data, search, tour, settings, admin | tables | CRUD | unique indexes | – |
| Mailer, MinIO, backups, metrics, rate limiter | external services | pure I/O | – | – |
| Other web features, `libs/ui`, e2e | React state | – | – | – |

How they interact: browsers talk to the gateway over Socket.IO (calls with
acks, broadcasts to a channel) and to REST; the gateway calls `BoardsService`
for access, `BoardRoomsService` for the document and `BoardChatService` for
messages; the hourly sweep calls `BoardRoomsService.evict` before it deletes. A
change of address or password signs devices out, a decision on a request emits
a notification, a notification queues mail. Audit events go through RabbitMQ to
consumers in the same process. Everything shares Postgres and Redis.

## 2. Modules

| Module | What it is |
|---|---|
| `SharedDocument` | Abstract specification: one document that only grows and a stored copy that follows it, until the board expires. |
| `Seating` | Abstract specification: boards that come with their host's seat, seats taken one at a time while there are any, expired boards that go whole. |
| `BoardRooms` | One document key of `BoardRoomsService` with the gateway handlers, the row and the sweep. Implements `SharedDocument`. |
| `BoardSync` | The browsers around one board: tabs, connections, the room behind them. Implements `SharedDocument`. |
| `RoomChat` | The chat of a room: its table, its broadcasts, each tab's cached history. |
| `BoardSeats` | Creating, joining and opening boards and deleting expired ones, query by query. Implements `Seating`. |
| `SandboxEditor` | One sandbox: its row, the requests of a tab, the editor with autosave and renaming. |
| `AuditPipeline` | Producer, broker, consumers and dead letters. |
| `Sessions`; `Accounts` extends it | Signed-in devices; accounts and addresses, which sign devices out. |
| `Notifications`, `EmailQueue`, `FeatureAccess`; `Notices` composes them | A decision, the notification it emits, the mail that queues, in one process that may restart. |
| `StaffSessions`; `OpsConsole` extends it | The staff realm on the server; the console in several tabs over it. |
| `MCBoardRooms`, `MCBoardSync`, `MCBoardSeats`, `MCNotices`, `MCAccounts` | Symmetry sets and the small constants of the runs. |
| `MCBackOffice`, `MCTabs` | Parts that share no state checked in one run: `part` says which one moves in a behaviour. |
| `BoardRoomsProofs`, `BoardSyncProofs`, `BoardSeatsProofs`, `AuditPipelineProofs`, `AccountsProofs`, `NoticesProofs`, `TabsProofs`, `ConsoleProofs` | Theorems and proofs. |

One rule for all of them: **a step is what Node, or a browser, runs between two
awaits that leave the process.** Each await on Postgres, Redis, the mailer or
the network ends a step, and what was read before it may be stale in the next.
Mutants stand before the definition they replace and say which mistake they make.

### BoardRooms

The microtasks that follow one macrotask belong to it: when a load's promise
settles, everyone who waits for it goes on in the same step (`LoadOpensRoom`,
`LoadFails`, `LoadFindsNothing`), and the sweep after them.

| Code | Model |
|---|---|
| `rooms`, `loading` | `live`, `fetch` |
| `LiveRoom`: `doc`, `sockets`, `dirtySince`, `saveTimer`, `unloadTimer`, `bytes` | variables of the same names, per object identity |
| an `unloadTimer` whose handle was overwritten | `strays` |
| `await spec.save(...)` | a record in `writes`: *sent*, then *landed*, then answered |
| `client.data`, `client.join` | `opened`, `channel` |
| `open`, `openSandbox` | `OpenStart`, then `OpenExpired`, `OpenLive` or `OpenLoads` |
| `update`, `leave`, `handleDisconnect` | `Update`, `Leave`, `Disconnect` |
| `scheduleSave`, `save` | `ScheduleSave`, `SaveTimeout`, `SendWrite`, `WriteLands`, `WriteSucceeds`, `WriteFails` |
| `unload`, `dispose` | `IdleTimeout`, `StrayTimeout`, `Unload`, `Dispose` |
| `BoardExpiryService`, `evict` | `SweepFinds` … `SweepFails` |
| `createIfAbsent` | `StartProject` |

Objects are kept apart by identity because timers and writes refer to an object
while the map is looked up by key; `Collect` recycles an object nothing refers
to. A Y.Doc is the set of edits merged into it, so `Y.applyUpdate` is union and
an encoded update is the set it carries. `Kind` tells the code document (seeded
on first open) from the React project (opened only once started).

`orderly` is a history variable. It turns false when two writes overlap, when a
load reads while a write is on its way, or when an unload removes another
object's key. Those three are possible in the code (section 5), and what the
code otherwise keeps is stated for the behaviours without them.

### BoardSync, RoomChat, BoardSeats

*BoardSync.* `phase` is where the hook is: *off* (disconnected, retrying),
*opening* (`emitWithAck` awaited), *open*, *silent* (the ack timed out, the
socket is still connected), *refused* (answered `ok: false`, disconnected for
good). `member` is the server's view of the same socket. `up` and `down` are
what the connection carries, in order; a drop or restart empties both. `HearAck`
is the answered open: merge, then send the difference. `Seeds` has a value per
seeding since each call of `spec.seed` makes new Yjs insertions. `Save` may
store any state between the row and the memory, which covers a write that
carries an older snapshot.

An edit builds on others (`needs`): what was typed before it in the same Y.Doc,
which Yjs numbers, and whatever it was put next to. `Settled` is what a document
shows, `KeptAside` what it has received and cannot show because an edit below is
missing (Yjs's pending structs). After a refused update (`rejected`) the tab's
next ones are kept aside: they are merged into nothing, relayed to nobody and
make no room dirty, until the missing part comes, with the difference a tab sends
when it opens the board anew, and everything that waited is relayed with it.
`ServerUpdates` relays what the room shows now and did not before, as Yjs's
update event does; `held` records what the room has ever kept aside. The
encoded state of a document holds what it keeps aside too, so an ack or a write
that is sent for another reason carries it.

*RoomChat.* `data` is React Query's cache in each tab, `fetch` the request for
it: *asked*, *read* (the API has selected the page), answered. `wire` carries
broadcasts, acks and the answer to `open` in order. A message goes from `sent`
to `inserted` to `done`; between the insert and the broadcast is the query that
reads it back. `InvalidateQueries` is what React Query does: a request under
way is cancelled and asked again, unless the cache has no data yet, in which
case the first request is joined. `owed` is what a refetch on the way back must
bring, `crossed` whether two messages were between insert and broadcast at once
(their order in the table and on the wire may then differ).

*BoardSeats.* Each query is a step; `pc` is the query a request awaits, `job`
what it has read. The row lock of `addMember` is `lock`; the unique index on the
code and the foreign key of the members are guards (`CodeTaken`, the second half
of `AddMember`); a deletion cascades. Postgres is at READ COMMITTED, so nothing
else holds the queries of a transaction together. A failed query rolls back and
releases the lock (`RequestFails`). To `Seating` a request is one step: the
insert of the board with its host, or the insert of the member, whatever was
counted and waited for before; a batch of the sweep is one deletion.

### SandboxEditor

`files`, `saved`, `failed` and `pending` are the state of `useAutosave` and its
mutation, `Status` is `saveStatusOf`. A PATCH goes *sent* → *found* (`findOwned`)
→ *loaded* (TypeORM's `save` reads the row again and keeps what differs) →
*written* → answered; renaming and saving take the same way (`FindOwned`,
`LoadForSave`, `SaveRow`). An answer reaches the mutation (`FilesSaved`,
`Renamed`, `RequestFailed`) also after the editor is closed, and then changes
the cache only. `cache` is the `SandboxDetail` an editor opens without asking
(`staleTime: Infinity`). `sure` is history: what counts as saved was saved by a
request that no other PATCH overlapped, and nothing was lost or reopened in the
middle.

### AuditPipeline

A message is a record in `copies`: where it is (the client's buffer, a queue, a
handler, acked and about to be republished), its retry header, its deaths.
`Deliver` … `SendToRetryQueue` are the consumer's awaits; `Crash` ends producer
and consumers together (they are one process, ADR-0004), drops the buffer and
returns what was not acked. `rabbitmq.config.ts` gives producer, consumer and
dead-letter consumer a connection each, which may be lost while the process
lives: `ConnectionLost` returns a consumer's unacked messages to their queue
while the handlers go on `adrift` (they may still store their document; their
ack then throws on the closed channel, in the catch block once more, and nothing
is sent back), and `PublishUnconfirmed` leaves an event in the queue *and* in the
client's buffer, to be published again. So an event may be in the pipeline
several times; `no` tells its publications apart. Three facts that the repository leaves to the
broker and the transport are chosen once per behaviour: whether
`audit_retry_queue` exists, whether `audit_dlx_exchange` does, and whether a
message finds its handler by its queue or by its pattern. The properties hold
for all eight.

### Sessions and Accounts

`refresh` is the set of `REFRESH(jti)` records, `rtset` and `listed` the sets
by which they are found again, `black` the blacklist, `tokens` which access
tokens of a device have not expired. A refresh passes through `GetRefreshRecord`,
`CheckUser`, `DeleteRefreshRecord`, the two halves of storing the next one, the
two of "last seen", and sets the cookie; a removal through the blacklist, the
device list, the tokens of each device and one `Exec` each, which deletes the
device's whole set once any token was found in it. `AskForCode` is the sign-in
that stops at a second factor; the step that follows it does not look at the
account again. Keys expire in any order the code's TTLs allow.

In `Accounts`, `work` is a request and the await it is at, with the row as it
read it (`seen`, `row`). `finger` is a live verification link, `mailed` who has
got it, `pending` and `reverts` the records of `EmailChangeService`. What a
link or code proves is in `proven`: whoever returns it has read the mail at
that address. The token that takes a change back is in one mail, Redis has its
hash only: `notice` says whether the mail of a confirmation was delivered or
lost, and `Revert` needs it delivered. Mailing it is a step of its own
(`MailNotice`, `Deliver`), its error is swallowed, and the process may end at it
(`WorkFails`). Ending a change of address or a password change signs devices out
through the actions of `Sessions`.

### Notices

`call` is one `emit`: preferences, row with its idempotency key, receivers,
broadcast and delivery, mail, caches. `reading` is a read-through of the unread
count, which may store what it read before an invalidation. `verifying` is a
`handleConnection` that awaits the token. `batch` is what one cron run has read
and not finished: two runs may hold the same row. `job` is a request on the
flag's rows: what it has read and where it is. `SaveUserAccess` and
`WriteUserAccess` are the two awaits of TypeORM's save: it reads the row by its
id again, then updates the columns that differ from that (`Updated`, which finds
nobody if the row is gone by then, and says nothing), or inserts a row that is
not there. `Announce` is where a decision becomes a call of `emit`, under the key
the code builds from row and millisecond of decision (`DecisionKey`, `now`,
`Tick`): two decisions of one millisecond share it. `overtaken` records requests
whose user was given access after what they checked was read. `Send` are other
services that emit under a key of a device.
`Restart` cuts calls, jobs, runs and connections off.

### StaffSessions and OpsConsole

Token pairs are numbered as issued. A guarded request passes the blacklist and
the principal; a refresh the record, the blacklist, the staff row, the delete
and the store of the next pair; the end of all sessions reads the devices, then
each one's tokens, then deletes both (`GetDevices`, `GetTokens`, `WipeDevice`).
In the console `queue` is the Web Lock with those who wait for it,
`waits` the requests that met a 401 and wait for the renewal, `again` those sent
a second time. `Leave` closes or reloads a tab, `Lost` loses an answer; the
server goes on (`OrphanEnds`).

## 3. Runs

States are distinct states; times are with two workers.

| Run | Instance | States | Shows |
|---|---|---|---|
| `rooms_code` | code document; 2 sockets, 1 edit and the seed, 2 objects, 2 writes in flight, 2 strays, failing database, expiry, sweep | 1 837 k, 100 s | `OrderlyIsStored`, `JoinedHearsUpdates`, `LiveIsOpen`, `EvictedForGood`, `UnloadKeepsEdits`, `IsSharedDocument` |
| `rooms_live` | React project; 2 sockets, 1 object, 1 write in flight, writes as slow as they like, expiry, fairness | 16 k | `OpenAnswered`, `EditsGetStored`, `EmptyRoomUnloads`, `ExpiredGetsDeleted` |
| `rooms_stale_write` | database that never fails | *violated* | `SettledIsStored` |
| `sync_safe` | 2 tabs, 2 edits, 2 seeds, 2 troubles (a drop, a closed page, an open that is late or fails, a refused update; one only after a restart), 1 restart | 992 k, 55 s | `HearsEverything`, `SaysEverything`, `QuietTabsAgree`, `IsSharedDocument` |
| `tabs_live` | *document*: 1 edit, 2 drops (one after a restart), 1 restart, no slow, failing or refused opens and no refused updates; *chat*: 1 tab, 2 messages, 2 mishaps; *editor*: 3 projects, one too large, 2 names, 2 requests, 4 acts or failures; fairness | 265 k, 115 s | `EditsReachEveryone`; `AwayIsCaughtUp`, `OldestFirst`; `SavedIsStored`, `EditsSettle` |
| `sync_silent` | opens may be slow | *violated* | `EditsReachEveryone` |
| `sync_reseed` | 1 restart | *violated* | `SeededOnce` |
| `seats` | 2 requests at a time, 3 users, 2 codes, 2 boards of 2 seats, batches of 1, 1 failing query | 356 k, 55 s | `SeatsKept`, `LocksAreLetGo`, `SweepIsThorough`, `IsSeating` |
| `backoffice` | *audits*: 1 event, 3 retries, 2 losses (a crash or one of three connections), all eight brokers; *console*: 2 tabs, 3 requests at a time, 2 events from outside; fairness | 449 k, 105 s | `Accounted`, `AttemptsBounded`, `Settles`; `EndedStaysEnded`, `GoodSessionIsKept`, `ConsoleSettles` |
| `notices` | 1 user, 1 connection, 3 requests or decisions, 2 milliseconds, 2 other calls with one key, 1 read, 3 events from outside | 1 030 k, 90 s | `OrphansAreReported`, `OnlineIsConnected`, `DecisionIsAnnounced`, `AskingTakesNothing` |
| `notices_settle` | 1 decision, 1 read, 2 cron runs, 2 attempts, no other calls, fairness | 31 k, 55 s | `CacheCatchesUp`, `MailSettles`, `GivesUpLate` |
| `accounts` | 2 accounts, 2 addresses, 2 devices, 2 refreshes, 1 removal, 3 requests, 4 events from outside | 1 797 k, 110 s | `RemovedStaysOut`, `CookieIsGood`, `VerifiedIsProven`, `ChangeCanBeReverted` |

**Why these bounds.** *Rooms*: two sockets give one that leaves while another
opens, and two who share a load. Two objects give a room and its successor, two
writes an overlap, two strays a timer that outlives another. One edit next to
the seed is enough there: a document is a set, and what can go wrong is that an
element is on one side and not on the other. *Tabs*: `sync_safe` has two edits,
so that one may build on another that was refused, and two troubles, so that the
refusal is followed by the drop after which the missing edit is sent; one restart
falls before, between or after the saves, and may follow on both troubles. In `tabs_live` two drops let a tab
lose the connection again while it is catching up. For the chat two messages can be reordered or one of them
missed, and two mishaps are a drop and a failure, or a departure, on top. The
editor needs an edit, a rename, a failure and a departure or another edit.
*Seats*: three users compete for two seats with two requests running at a time,
each followed by further ones, and two codes for two boards collide. With batches
of one a batch that is not full is empty; one that is partly full while more comes
due is covered by the theorem only (`SweepsAreThorough` holds for every `Batch`).
*Back office*: events do not meet, so one is enough; two losses put it in the
pipeline twice and into two handlers at once, one of them adrift, or let a crash
follow on a lost connection. With three requests at a time two tabs can meet a 401
while somebody else ends the sessions. *Notices*: three requests let a row be
decided, asked for anew and decided again, or two decide while the user withdraws;
two milliseconds tell the key that repeats from the one that does not. Two cron
runs, in `notices_settle`, overlap. *Accounts*: two requests race for
one address while a third opens a link; two tabs refresh while one removal runs.
The budgets `MaxOutside` and `MaxEdits` bound what people, time and failures do,
never what the code does by itself; `MaxIssued` of the console is never reached.
The proofs have none of these bounds.

**Starting points** of the console that the budget should not be spent on: the
access token may be past its time, and the other tab a duplicate, just opened,
or refused before.

**Symmetry** is used in safety runs only. **Deadlock** is checked in
`seats`. In the others the system may stop: a board is deleted
and everybody gone, every tab refused or closed, every request of a bounded set
served, a budget used up with nothing under way.

**Fairness** is weak throughout, and of three kinds: Node resumes what it
awaits, the database, Redis, broker and mailer answer (with failure allowed
where the run says so), and timers, cron jobs and TTLs come due. *BoardRooms*:
nobody has to connect, edit, leave or disconnect, and a write need not be
answered before a timer fires. *BoardSync*: Socket.IO reconnects until it
succeeds, each end handles what it receives, an open that is awaited loads its
room; saving and unloading are not needed and not fair. *AuditPipeline*: for each
event something that broker and consumers owe it goes on happening. *Notices*:
each call, read, connection and cron run goes on. *OpsConsole*: as long as
something can happen by itself, something does. *SandboxEditor*: the autosave
timer fires, the API goes on with each PATCH, the browser runs what it answered.

**A cautious reading.** `EditsGetStored` and `EmptyRoomUnloads` are checked with
a database that is slow but does not fail; with failures the code keeps neither
(section 5). `EditsReachEveryone` needs opens that are neither late nor refused.
`SaysEverything` and `QuietTabsAgree` leave out edits the room refused and what
builds on them, `HearsEverything` and `QuietTabsAgree` what waited in the room for
such an edit. `ChangeCanBeReverted` counts a mail that was tried and failed as
sent, `AskingTakesNothing` leaves out requests that were overtaken by a grant,
`DecisionIsAnnounced` a decision that repeats another of the same millisecond.
`RemovedStaysOut`, `EndedStaysEnded` leave out devices that were signing in or
refreshing at that moment, `SavedIsStored` PATCHes that overlap, `OldestFirst`
overlapping posts, `GoodSessionIsKept` lost answers: in each of these the code
does not keep the promise, and section 5 says what it does instead.

`RemovedStaysOut` and `EndedStaysEnded` are action properties: a device that is
out is out for good, not only in the state in which it was put out. The budget of
`accounts` has one removal, so there TLC does not see a device removed a second
time; the proof does.

The type invariants of all modules are proved (section 4), so no run repeats them.

## 4. Proofs

For every number of sockets, tabs, edits, objects, writes, requests, users,
boards, events, devices, calls and rows:

* **BoardRooms** – `TypeCorrect`; `Inductive`, from which `LiveIsAlwaysOpen`,
  `EvictionIsFinal`, `OrderlyIsAlwaysStored` and `UnloadingKeepsEdits`;
  `JoinedAlwaysHears`; the refinement `BoardIsSharedDocument`: `Spec =>
  IsSharedDocument` under `~(DbFails /\ SlowWrites)`.
* **BoardSync** – `TypeCorrect`, `Inductive`, `OpenTabsHearEverything`,
  `OpenTabsSayEverything`, `QuietTabsAlwaysAgree`; the refinement
  `TabsShareOneDocument`.
* **BoardSeats** – `TypeCorrect`, `Inductive`, `SeatsAreKept`,
  `HostsAreAlwaysSeated`, `LocksAreAlwaysLetGo`, `FullAlwaysMeansFull`,
  `SweepsAreThorough`; the refinement `BoardsAreSeated`: `Spec => IsSeating`.
* **Tabs** – of the chat `ChatTypeCorrect`, `TheAwayCatchUp`,
  `HistoryIsOldestFirst`; of the editor `EditorTypeCorrect`, `SavedIsAlwaysStored`.
* **AuditPipeline** – `TypeCorrect`, `Inductive`, `EventsAreAccounted`,
  `AttemptsAreBounded`.
* **Accounts**, with the sessions below them – `TypeCorrect`, `Inductive`,
  `SignedOutStaysOut`, `CookieStaysGood`, `VerifiedStaysProven`,
  `ChangesCanBeReverted`.
* **Notices** – `TypeCorrect`, `Inductive`, `RowsAreNotHalf`,
  `OnlineStaysConnected`, `QueueGivesUpLate`, `DecisionsAreAnnounced`,
  `AskingTakesNoAccess`.
* **Console**, with the staff realm below it – `ConsoleTypeCorrect`,
  `EndedAlwaysStaysEnded`, `GoodSessionAlwaysKept`.

Assumptions are those of the modules: names are distinct, bounds are naturals,
sets that are counted are finite, and an owner is a function into the accounts.
TLC evaluates them in every run.

**The invariants.** *BoardRooms*: `IInv` is the conjunction of four parts.
`ObjectInv`: timers and contents belong to open objects. `LoadInv`: a pending
load excludes a room in the map. `SweepInv`: past its await the sweep has no
load to fear, for an open that starts afterwards is refused by the expiry check.
`StorageInv`: in an orderly run there is one object and at most one write, and
the row agrees with whatever was read from it or last written to it.
`EvictedForGood` is not inductive alone because it says nothing of a load that
starts while the sweep is waiting; `OrderlyIsStored` is not because it says
nothing while a write is in flight. The refinement adds `ShareInv`: the row is
part of what is written, and that is part of what is in memory. Without a room
in memory nothing in flight may fail, and that is what the hypothesis is for.
`JoinedHearsUpdates` is proved with `ChannelInv`, which follows a socket from
the join of the channel to the answer: who waits for a load is in the channel and
not yet counted as having opened.

*BoardSync*: `IInv` accounts for each connection: who has asked and been
answered (`TalkInv`), that a queue carries only what its sender has
(`CarryInv`), that a joined tab has or will hear everything (`StepInv`, which
unlike `HearsEverything` also covers the tab that has joined and not yet been
told), and that the room does not fall behind its row and `held` has what it
keeps aside (`RoomInv`). `NeedsInv` says what an edit builds on: something that
is there already, and does not change. `OrderInv` says that before any restart
whatever is kept aside builds on a refused edit, because what a tab sends comes in
the order it was typed. So until a restart the exceptions of the three properties
are refused edits and what builds on them (lemma `OnlyRefusalsWait`); after one,
also what builds on edits the restart took out of the room. The proof goes tab by tab: a step touches one
tab, except for a relayed update and the room's own steps.

*BoardSeats*: `SeatsKept` needs what a join has counted to be still true when it
inserts (`CountInv`), which holds because it has the lock (`HeldInv`) and
everyone else who inserts needs it, or because its board is gone. The host is
seated because the two inserts of `create` are one transaction, and
`Seating`'s guard on `Take` is what `CountInv` says of a join that is about to add.
`SweepIsThorough` needs `BatchInv`: a batch that is not full has in it whatever
is left of what was due when the sweep began, although boards are created,
joined and deleted between the query that selects it and the one that deletes it.

*RoomChat*: `StoredOK` (a message between insert and broadcast is the last of
the table, while no two were), `FetchOK` (a page that was read is the table as
it was, and holds what is owed) and `WireOK`: what a connection carries is in
order, and a tab that shows a later message shows it already. `OldestFirst` alone
says nothing about the wire and falls with the first broadcast.

*SandboxEditor*: `AloneOK` says of the only PATCH under way what the row holds at
each of its awaits, `SureOK` what the tab, the cache and the header hold as long
as each PATCH was alone, `ShellOK` which of the shell's variables belong to which page.

*AuditPipeline*: `CopiesOK` says of each message what its place implies (stored
if it is past the database, logged if it was acked on the way to the retry
queue, how often its publication was tried from header, deaths and losses), `Apart`
that each publication is in the pipeline once, `AdriftOK` that a handler adrift
which has stored its document has stored it, `Untried` that a publication nobody
has taken has no attempts. `Accounted` alone is not inductive: it
does not know that an acked message was logged before.

*Sessions*: `TokensOK` (who holds which record and token), `RemovalsOK` (what a
removal has read and has still to do), `OutOK` (a device that is out has no
record a refresh could find, because each refresh that could still store one is
in `straddled`, and no token a later removal could list, so that such a removal
changes nothing about it), `AnswersOK` (what a request that is about to answer has
stored). *Accounts* adds `Served`, `WaysBack`, `Shows` and `Agreed`: what a request
has read implies for the row it will write, however old it is, and (`Served`,
`WaysBack`) that the record of a way back is stored before the mail with its
token is tried, and the mail tried before the change counts as confirmed.

*Notices*: `Owns`, `CallOK` and `OneOwnerEach` (at most one call writes under a
key), `PickedOK` for the mail queue (a run's copy of `attempts` is never above
how often the mailer was asked), `JobOK` for the requests (what a request has
read, and when it decided), `Announced` for the hand-over: the call a decision
became carries the key of its row and its millisecond.

*StaffSessions*: `Gone` says of a device that is over more than that its tokens
are of no use now: each is stale or covered by the blacklist entry by number, so
it survives the entry's lapse, which comes after the last covered token's as
long as both realms' access tokens live equally long (section 5).
`ListsOK` says that a device with live pairs is in the index (or has slipped past
an end), `EndingOK` what an end of all sessions has read and still has to wipe,
`NumberedOK` that a request is about a device that is out; without the last a
sign-in could be taken for one on a device that was ended. *OpsConsole*: while
nothing has disturbed it, `Calm` holds: the only refresh is that of the tab with
the lock, its token is on record (`RefreshOK`), what it brings is on record and
nobody else's (`ComingOK`), and the cookie is on record or about to be replaced.
`GoodSessionIsKept` follows from it step by step: a tab is sent away only by a
refused refresh, and none is refused.

**Only model-checked**: liveness, which is outside the prover's reach –
`OpenAnswered`, `EditsGetStored`, `EmptyRoomUnloads`, `ExpiredGetsDeleted`,
`EditsReachEveryone`, `EditsSettle`, `Settles`, `ConsoleSettles`,
`CacheCatchesUp`, `MailSettles`. Every invariant and action property of a
passing run is a theorem. The three violated properties of section 5 are refuted
by TLC and have no proof.

## 5. Where code and documentation part

Three disagreements are runs that TLC must find violated.

1. `rooms_stale_write` – a save of the last leave may overlap a debounced one;
   if Postgres commits the newer first, the older state stays under a room that
   counts as saved (`board-rooms.service.ts:357`).
2. `sync_silent` – a timed-out open leaves the socket connected, so no `connect`
   event follows and the board is never opened again (`use-board-connection.ts:131`).
3. `sync_reseed` – a restart between seeding and first save makes the next open
   seed again, and a tab that stayed open merges both (`board-rooms.service.ts:275`).

Others met while modelling have no run of their own. Where they concern a
step, the model takes it; the checked properties hold in its presence or are
stated for the behaviours without it.

*Rooms*

* `board-rooms.service.ts:142` – a socket that disconnects while its open awaits
  the load is added to the room afterwards and never leaves, so the room is never unloaded.
* `:198` – the unload timer is armed after an await, overwriting a handle that
  may be there; a stray timer that outlives its object removes the successor's
  key (`orderly` turns false). For the React project a socket that leaves while
  it opens again may then be in the room without being in the channel.
* `:358` – the size counter is reset to a snapshot, forgetting updates applied
  during the write; the comment at `:73` calls it an upper bound.
* `:364`, `:369` – when the save of the last leave fails, the room is dirty
  without a timer and the idle timer returns: it neither saves nor unloads until someone comes.
* `:357` – a debounced write that outlives the idle minute of a room emptied
  meanwhile may fail with no room left to retry it (hence the hypothesis in section 4).
* `boards.gateway.ts:336`, `use-board-connection.ts:134` – a failed query answers the
  open like a refusal, which is final for the tab.
* `boards.gateway.ts:288` – an update past the size limit raises an `exception`
  event nothing in the web app listens to, and what the tab types next builds on the
  update that is missing: the room keeps it aside, shows it to nobody and does not save
  on its account, until the tab opens the board anew. When the missing part comes
  all that waited is relayed, but not to the tab that sent that part.
* `main.ts:29` – `enableShutdownHooks()` is not called, so the graceful save
  that `docs/adr/0007-coding-board-yjs-rooms.md` describes does not run; `Restart` saves nothing.
* Presence: `board-rooms.service.ts:311` learns owners from `added` only, so the
  late disconnect of an old socket removes the cursor of the tab that has come back.

*Chat* (`use-board-chat.ts`)

* `:35` – a message stored after the page was selected and broadcast before the
  tab is in the channel, or before the first page has arrived, or whose broadcast
  is then replaced by an older page, is missing until the next fetch.
* `:83` – a send that times out says "Your message didn't send" although it may be stored;
  `board-messages.repository.ts:32` – one whose read-back fails is stored and told to nobody.
* Two overlapping posts may be broadcast in the other order than the table has.
  After a drop longer than a page the page before is not fetched.

*Sandboxes*

* `sandboxes.service.ts:75` – find, then save of all that differs: a rename that
  found the row before an autosave was stored writes the old files back, while
  the header says Saved (and an autosave brings an old name back). With `sure`
  left out of `SavedIsStored` TLC shows it in a dozen steps.
* An answer that is lost counts as a failed save; undoing the edit then shows
  Saved over a row with the other files.
* `SandboxWorkspace.tsx:31` – reopened from the cache during a save, the editor
  shows what the save is about to replace. `use-autosave.ts:72` asks before the
  page is left, not when a link inside the application leaves it.
* A save whose row was deleted meanwhile inserts it again, after "deleted for good".
* The limit on sandboxes counts, then inserts.

*Audits*

* Nothing in the repository declares `audit_retry_queue` or `audit_dlx_exchange`;
  without the first a retried event is gone but for its log line, without the
  second an expired one is.
* A republished event lacks the envelope Nest's transport routes by.
* `rabbitmq.config.ts:70` – after a lost connection a handler goes on whose message
  is back in the queue. The second one meets the document of the first: the
  `auditId` is unique, so it fails, climbs the retry queue and ends as a dead letter
  although the event is stored. So does the copy of an event that was published
  again because its confirmation was lost.
* `logSync` has no caller.

*Sessions and accounts*

* A refresh under way survives a sign-out that has read the device's tokens
  before the new one was added; so does a sign-in (`straddled`).
* `auth.service.ts:838` – the old record is deleted, then the new one stored: a failure
  between them leaves a cookie without a record.
* `redis.service.ts:80` – the index of devices expires by the first sign-in's time and
  is not prolonged by refreshes; a removal of all devices then misses them.
* `users.service.ts:428` – a password change saves the whole row as read, a hash
  before: a change of address, a closing or a deletion in between is undone.
* `users.service.ts:357` – closing that fails half way keeps the address taken.
* An address change confirmed after the account was closed puts an address on
  the closed row; `email-change.service.ts:286` clears a newer pending request with the one it confirms.
* `email-change.service.ts:290` – the change is applied and its request cleared before
  the mail with the revert token is sent; that mail's error is logged and swallowed,
  and a crash at the await leaves nothing to resend it: a way back is stored that nobody has the token of.
* `auth.service.ts:591`, `:720` – the second step of a sign-in, and a passkey, do not look at the
  account's status: closed or suspended after the first, it is signed in.
* A registration that meets a live verification link is refused and leaves its row.

*Notifications and access*

* `notification.service.ts:66` – the idempotency record is stored before the
  receivers; if those fail, the retry is taken for done (`OrphansAreReported` says for whom).
* `notification.gateway.ts:69` – whoever went away during the token check stays
  online until a restart (`late`).
* `use-notification-socket.ts:19` counts on a refetch on focus that `QueryProvider.tsx:27` switches off.
* Overlapping cron runs send the same mail twice.
* `feature-requests.service.ts:131` – withdrawal and approval: the later write wins,
  and a request read before an approval is saved over it, which takes the access away
  again. An update of a row that is gone is no error and is announced.
* TypeORM writes the columns that differ from what its own read found, so
  approving and rejecting at once may leave a row *rejected* and enabled.
* `feature-request-notifications.service.ts:46` – two equal decisions on a row in one
  millisecond share a key, so the second one's notification is taken for a repetition.

*Staff and console*

* `staff.service.ts:71` – "must lose every live session immediately": a refresh under
  way does not; the last `del` of the end of all sessions also forgets a device
  that has signed in meanwhile.
* `use-sign-out.ts:9` – a failed sign-out clears the tab, and the guard restores the session from the cookie.
* `redis.service.ts:508` – the staff blacklist lasts as long as a *customer's*
  access token (`JWT_ACCESS_TTL_MIN`). By the defaults both are 15 minutes, and that is what
  the model takes; with a longer `STAFF_JWT_ACCESS_TTL_MIN` an ended session
  would come back for the difference.
* A refresh whose answer is lost sends the tab to the sign-in page: the token is used up.

## 6. Not modelled

*Within the modelled parts*: restarts in `BoardRooms` (`BoardSync` has them, on
the room's promise); the contents of updates, of which only what an edit builds
on is modelled, in `BoardSync` (`BoardRooms` takes each edit with what it builds on:
what a room keeps aside makes it neither dirty nor heard, so no promise there is about it);
several opens of one socket at a time; both kinds of document side by side (they share
no state but the board's); two sweeps at a time; drops noticed by only one end;
deleting a user, which cascades to memberships and hosted boards. Timers of
equal delay run out in the order they were set, and with `SlowWrites` false no
write outlives the idle minute. In `RoomChat` the latest page holds every
message. In `SandboxEditor` one tab has the sandbox open. In `Sessions` Redis
keeps what it has acknowledged. In `AuditPipeline` a lost connection comes back. The
auth part leaves out the checks of the second factor (that there is one is modelled), one-time
passwords and their limits, reset codes, usernames and profiles: each is a
record with a time limit that one request reads and another deletes, and the
hazards of that are those the address change has.

*Presence*: the awareness protocol is y-protocols' own; what the API adds is
who owns a client id, on top of the rooms' sockets.

*Everything else* is CRUD over one table, rendering, or I/O with an external
service; PROJECT.json gives the reason for each.

## 7. Plan

1. **Done** – `SharedDocument`, `BoardRooms`, `BoardSync`, `BoardSeats`;
   `AuditPipeline`; `Sessions`, `Accounts`; `Notifications`, `EmailQueue`,
   `FeatureAccess`, `Notices`; `StaffSessions`, `OpsConsole`; `RoomChat`,
   `SandboxEditor`; their runs, and the proofs of section 4.
2. **Done** – proofs of all invariants and action properties of the runs; the
   abstract specification `Seating`, implemented by `BoardSeats`.
3. An abstract specification of a session (in or out, and never in again once
   out) that both `Sessions` and `StaffSessions` implement; their action
   properties `RemovedStaysOut` and `EndedStaysEnded` are its step.
4. Presence: client-id ownership on top of `BoardRooms`.
5. Rules as operators against reference definitions, in modules without
   theorems: sandbox paths and limits, username suggestions, lockout windows.
