# A verification model of statusphere

statusphere shows a group of friends what each of them is doing.  A client on every machine collects
a snapshot (foreground window, music, game, hardware), filters it through its owner's privacy
settings and sends it over a websocket to a small server; the server hands it to the other members
of the room and keeps a sample of it for statistics.  Rooms also have a chat and shared photos.

This directory models the parts of that system in which order, concurrency, failure and time matter.
TLC checks the models on small instances; TLAPS proves the main safety results for instances of any
size.  Paths below are relative to `src/`; `A` stands for `server/src/app/modules`, `I` for
`client/internal`.

## 1. The system

### Components

| component | where | state it keeps | operations | what makes it correct |
|---|---|---|---|---|
| rooms | `A/rooms` | table `room_members`; signed invites | invite, join, leave, kick, appoint | one owner per room; a stale check never harms him; a kick is final once invites are dead |
| accounts | `A/accounts` | tables `accounts`, `devices`; signed link codes | register, recover, issue a code, link, revoke | a revoked device has no say; a session has a room |
| realtime hub | `A/realtime/infrastructure/hub.py` | subscribers with bounded queues; last snapshot per device | subscribe, publish, mute, deliver, announce a photo | order, no gap that lasts, nothing for the wrong reader |
| realtime endpoint | `A/realtime/presentation/ws.py` | three tasks per connection | handshake, receive, forward, recheck access, clean up | access lost is felt in bounded time; no subscriber is left behind |
| sampler | `A/presence/infrastructure/sampler.py` | buffer, batch being written | put, flush, stop | what is taken in is stored, the newest per device |
| photo store | `A/photo` | a file and a row per account | post, list, read | an id never gets older bytes |
| chats | `A/chats` | table `messages`, pruned | send, prune, read the history | the newest messages stay |
| presence statistics | `A/presence/infrastructure/readers.py` | none (SQL over samples) | summaries per period | windows and sums |
| rate limit, health check, web, database, crypto, configuration | `server/src/app/platform`, `bootstrap` | windows per key; a pool | - | - |
| transport | `I/transport/ws.go` | the current connection | connect, send, ping, drop, reconnect, close | one connection; what is lost is made up for |
| mobile session | `client/mobile/mobile.go` | status, listen flag, gate, roster | publish, listen, incognito, beat, restore, stop, leave | the room ends up with the last status; hidden is hidden |
| desktop publisher | `I/watcher`, `I/app`, `I/layout`, `I/health` | gate, layout, last collect | collect, annotate, filter, gate, send | the room sees what the machine shows, as its owner allows |
| privacy | `I/privacy` | `privacy.json` and the copy in memory | load, filter, set, recheck | nothing the policy hides leaves the machine |
| photo cache | `I/app/app.go`, `I/photo` | files on disk, the photo shown | poll, fetch, prune | settles on the photo that is shared |
| chat store | `I/chat`, `I/renderer/tui/chatstore.go` | a log and an unread counter per thread | load, ingest, mark read | each message once, no gap but what was lost on the way |
| feed, roster | `I/feed` | last snapshot per device; members | update, expire, refresh, merge | everybody is shown once, present or away |
| renderers | `I/renderer` | terminal modes and selection; the last line written | draw, keys, emit a line | modes exclude each other; the newest line is written last |
| custom fields | `I/collector/custom` | fields, values, cached commands | reload, collect, set | what is shown is what the file says |
| Steam detection | `I/collector/linux/steam` | the process that is followed; what is known of a title, on disk too | scan, follow, look up, ask the store | the game shown is one that runs; the store is not asked too often |
| other collectors | `I/collector/linux`, `I/detector` | a few handles | read | (input and output) |
| statistics and lyrics caches | `I/stats`, `I/renderer/tui/lyrics.go` | a value, its age, whether it is being fetched | get, fetch | one fetch at a time, nothing stale for ever |
| cards and packs | `I/cardlayout`, `client/mobile/packs.go` | none; a file of packs | lay out; save, choose, delete | every tile placed once |
| account files, commands | `I/auth`, `client/cmd/client` | `config.json` | register, link, join, leave, switch | file and server agree, or a retry mends it |
| self-update | `I/selfupdate`, `AppUpdate.kt` | a staged file | check, stage, apply, clean up | a whole binary or the old one |
| Android service and screens | `android/` | a Session, the platform's trackers | start, publish, widgets | calls reach the session one at a time |

### How they interact

* Client to server: HTTP requests (accounts, rooms, history, photos, statistics), each a sequence of
  SQL statements on the server, and one websocket per device for snapshots, chat and the listen flag.
* Server to client: the hub puts events in the queue of each subscriber; a task per connection
  takes them out.  Nothing is acknowledged: a full queue, a cut connection or a restart loses events.
* Inside the server: one event loop.  A function that does not await is atomic; between two awaits
  anything can happen.  The database connects the requests: statements are atomic, checks and writes
  are not in one transaction.
* Inside the client: goroutines (watcher, read loop, pinger, heartbeat, polls, terminal) that share
  structures under mutexes and often look something up under the mutex and use it after releasing it.
* Between processes of one machine: the terminal, the widget's client and one-shot commands rewrite
  the same files in place and notice each other by modification times.

### What is hard in it

Checks that go stale before the write; events dropped without notice and made up for by replays,
heartbeats and reconnects; keys that act on a list that has just changed; three tasks that end in any order; a batch in nobody's hands when its task
is cancelled; two requests that replace a file in one order and its row in the other; history and live
messages that overlap; files read half written; flags restored after a reconnect from a stale copy.
`PROJECT.json` lists them as hazards, each at its line, with the properties that would catch it.

## 2. The modules

| module | models | state and actions |
|---|---|---|
| `Membership` | what the table of members promises | one variable `role`; found, enter, appoint, remove, each atomic |
| `Rooms` | `A/rooms` | the table, signed codes, a clock and the requests in flight; one step per SELECT and per transaction; any request may fail in between |
| `Accounts` | `A/accounts`, `platform/web/deps.py` | devices, accounts, codes and requests; one step per statement, failure between any two |
| `Hub` | `hub.py`, one room | subscribers, queues, last snapshots with their ages; every method one action |
| `Endpoint` | `ws.py`, extends `Hub` | a record per connection: handshake phase, forwarding task, access watch, the job of the receive loop; memberships and revocations change at any time |
| `Sampler` | `sampler.py`, `lifespan.py` | buffer, batch, table, the phase of the process; cancellation, failure, crash, restart |
| `Photos` | `A/photo` and the client's photo cache | file, row, announcements, fetchers at their steps, files on disk, the photo shown |
| `Chat` | `A/chats`, `hub.py` (`deliver`), `chat/history.go`, `chatstore.go` | writers' transactions, the table, the wire and what is lost before it, the history request, the threads |
| `Link` | `ws.go` and `mobile.go` | connections with their pingers and the server's listen flag; three sending goroutines at their steps; gate, policy, file |
| `Privacy` | `privacy.go` | operators only: levels, profiles, hidden applications, `Apply` |
| `Publish` | `watcher.go`, `app.go`, `layout.go`, `health.go`, `privacy/store.go`, `config` | files with modification times, editors at their steps, a tick of the watcher step by step, gate, wire |
| `Roster` | `I/feed`, the member poll of `app.go`, `jsonline.go` | frames, member list, three goroutines that fetch, join, store and hand over; terminal or widget |
| `Desk` | `renderer/tui/tui.go` | lists that arrive between any two keys; selection, modes, focus, prompt, conversation, unread marks, what goes out |
| `Cards` | `I/cardlayout` | the order of the devices, the layout that counts, wildcards, first-fit on the grid as recursive functions; one step re-orders the devices and renders again |
| `Packs` | `client/mobile/packs.go`, `mobile.go` (`offerLocked`), the layout editor of the phone | `layout.json` as a file that can be torn, the save that waits, two callers at their steps; the status, the gate, the frame the server took last and whether another would be passed over; ends of the app |
| `Commands` | `I/auth`, `client/cmd/client`, `config.go` | `config.json`, two processes at their steps, two servers; load, call, truncate, write; failure and death anywhere |
| `Updater` | `I/selfupdate`, the update row of `tui.go` | the program file, stages per client, checks and installs in flight, kills, loss of power |
| `SingleFlight`, `Caches` | `I/stats` | what a cache that asks once at a time promises; the entries, the goroutine that draws the screen and asks, the fetches beside it and their errors |
| `Custom` | `I/collector/custom`, `config/watched.go` | `custom.json`, the loaded fields, a result per command with its run, one tick of the collector step by step |
| `Steam` | `steam.go`, `detect.go` | processes whose ids are used again, the session that is followed, Steam up or down, the game shown |
| `Art` | `art.go` | what each process knows of a title, the shared cache file and its temporary name, the questions to the store; processes end anywhere |

What must hold is in the `...Properties` module of a component, or at the end of the component's own
module where it is short.  The proofs are in `RoomsProofs` (rooms and chat),
`AccountsProofs`, `RealtimeProofs` (hub and endpoint), `SamplerProofs`, `PhotosProofs`, `LinkProofs`,
`PublishProofs` (with the privacy filter) and `ClientProofs` (what `MCClient` puts side by side).
Operators marked "Mutant" are plausible bugs, each of which breaks a property; nothing uses them.
`PROJECT.json` gives the source lines of every definition.

Compositions: `Endpoint` extends `Hub` (subscriptions belong to connections), `Publish` uses
`Privacy`, `Photos` joins server and client, `Chat` joins server, delivery and client, `Packs` joins
the Android editor and the Go session.

Refinements, by `INSTANCE`: `Rooms` implements `Membership` (`ImplementsMembership`, also proved), and
`Caches` implements `SingleFlight` (`ImplementsSingleFlight`, also proved): one fetch of a key is under way
at a time, and no statistics come after newer ones.  The body of an error may come between: `doFetch` does
not look at the status (`stats.go:134`), and `SingleFlight` says so.

The `MC...` modules are the small instances.  Four of them check several components that share nothing
in these models, each for itself: `MCRooms` (`Rooms`, `Hub`, `Chat`), `MCLink` (`Link`, `Sampler`),
`MCShared` (`Photos`, `Roster`, `Steam`) and `MCClient` (the other parts of the clients).  Their
variable `part` picks a component at the start, only that component moves, and its fairness is asked of
its own behaviours only.  The state space is the sum of the components', not the product, and each is
explored as it would be alone.  `MCRooms`, `MCLink` and `MCShared` extend the modules of some of these
components and take in the others by `INSTANCE` (`C!` is the chat, `R!` the roster); `MCClient` takes in all
of its components so: `D!` the desk, `L!` the phone's layout, `A!` the account file, `U!` the updater, `S!` the
caches, `F!` the custom fields, `T!` Steam's titles, `K!` the cards.  The theorems about those are of the component's own
specification (`U!Spec => []OneInstall`), not of the sum.

Abstractions common to all: texts, names and pictures are values or numbers; signatures and
encryption do what they claim; time is a counter of ticks or an event ("the wait is over"), the tick
being the interval that matters (the access recheck, the policy recheck, an invite's lifetime); HTTP is
the sequence of its statements.  The hub's queue holds snapshots, messages and photos: `Hub` bounds it, and in
`Chat`, which has the messages only, any of them may meet a full queue.

## 3. What is checked

Constants called `Max...` bound counters and failures and are named in their modules.

| run | bounds | what it shows |
|---|---|---|
| `rooms` | 3 accounts, 1 room, 2 requests, invites of 1 tick, clock to 3; 3 devices of 2 accounts, 1 subscriber, queue of 2, 3 events; 3 accounts, 2 writers, 3 messages, logs of 2, 1 trouble | one owner, stale checks stay harmless, the table behaves as `Membership`, doors close after the last invite; snapshots in order and none missing; threads without duplicates, nor gaps but for what was lost on the way after the history was read, and the newest messages stay |
| `accounts` | 2 accounts, 3 devices, 2 requests, codes of 1 tick | no request that arrives after a revocation acts for the revoked device; no session without a room |
| `endpoint` | 1 device, 2 connections, queue of 1, recheck of 1 tick, 1 failing statement | access ends within a recheck; what was cut stays silent; hub and connections agree; subscriptions end |
| `link` | 2 connections, 2 calls, 2 troubles; 2 devices, 3 snapshots, 2 failing batches | one connection, hidden stays hidden, no way back, the room settles on the last status, a muted phone stays muted; the newest snapshot is kept, an orderly stop stores all, everything is stored in the end |
| `shared` | 2 posters, 3 fetchers, 2 photos, 1 failure; 2 accounts, 1 change of the room; 2 process ids, 3 titles, 3 starts | a listed photo is served, an id never gets older, the client settles on the photo; the screen settles on the members; the game shown is one that runs |
| `client` | screen: owner, admin and member; cards: up to 4 tiles of one device, 0 to 5 fields, pairs of 32 variants of a device; packs: 2 callers, 4 edits, 2 troubles (lost frames and ends of the app; frames passed over and failed saves are not bounded); commands: 2 processes, 2 servers, 3 commands; updates: 2 clients, 3 releases, 1 end; caches: 2 keys, 3 versions of the statistics, 2 errors; custom fields: 2 edits; titles: 2, ended twice, 1 wait | keys act as shown; a card holds what fits and is the same for any order; the server has the layout on disk where no save failed and no frame was lost, and in the end in any case; an account file names one identity; one install at a time; one fetch at a time, and no statistics after newer ones; a field shows its own command's output; the store is asked once per wait |
| `publish` | 2 edits, 2 scenes, 1 lost write | incognito is felt within a recheck; the room catches up |
| `sampler_cancelled` | 2 devices, 4 snapshots | **finding 1** |
| `link_resume` | 1 trouble | **finding 2** |
| `publish_torn` | as `publish` | **finding 3** |
| `art_half` | 2 processes, 1 title | **finding 4** |
| `steam_flash` | 2 process ids, 2 titles, 3 starts | **finding 5** |

Why these bounds: each is the least at which every action fires and the hazard it is about can occur.
A stale check needs two requests and a third account to act on; reordering needs two events of one
device; overflow a queue shorter than the events; an overtaken write two writers; a pruning conflict
`Limit + 1` messages; a process id that is used again two starts; recovery one failure more than none.
The mutants show that the bounds suffice to see the bugs they stand for.  `MCAccounts` uses symmetry,
which is sound there because its run has no liveness property.  Deadlock is
checked in every run but `rooms` and `client`, where the bounds on the messages and the calls end a
behaviour; their `.cfg` says so.

Each state component has a type invariant.  Those of `Rooms`, `Accounts`, `Hub`, `Endpoint`, `Sampler`,
`Photos`, `Link` and `Chat` are proved; the others hold in the instances above and are not listed in the runs, which are kept for what could be wrong.

### Fairness

* `Rooms`: the clock ticks and a request that was accepted goes on or fails (weak).  Nobody has to ask
  for anything.
* `Endpoint`: the event loop runs a task that can run (weak, per task).  Nothing is assumed of time or
  clients.  That a tick waits for statements in flight (`Prompt`) says that the database answers within a
  recheck interval; `CutWithinRecheck` rests on it.
* `Sampler`: the flush loop wakes, a batch ends one way or the other, a shutdown goes on (weak).
* `Photos`: requests are answered, goroutines run, the client polls every few seconds (weak).
* `Link`: goroutines proceed and the heartbeat comes again.  Strong where a goroutine waits for
  `publishMu`: Go's `sync.Mutex` lets no waiter starve.
* `Publish`: watcher and clock go on (weak); no edit has to happen or end.  Every write of a file gets
  a modification time of its own, and a tick of the watcher is short against the recheck of one second.
* `Roster`: goroutines run and the poll comes again (weak); a poll that is repeated for ever is answered
  sooner or later (strong).
* `Steam`: the collectors run every two seconds, and ten seconds pass (weak).
* `Packs`: the server's interval of half a second passes, and heartbeats come (weak): `beat` arms a timer
  for the next one as long as the session runs.  A status that goes out in its place puts the heartbeat off,
  but has the layout too.  No save, edit or status has to happen.

### Findings

1. `sampler_cancelled`: `stop()` cancels the flush loop inside `save_batch`; `CancelledError` passes
   `except Exception`, so the batch is neither stored nor put back (`sampler.py:25,52`), although
   `server/src/tests/test_sampler.py:34` wants the buffer to keep what a failing write does not store.
2. `link_resume`: `Session.restore` reads the listen flag under the mutex and sends it afterwards
   (`mobile.go:281-286`); a `SetListening(true)` in between is undone on the server.
3. `publish_torn`: `config.Write` truncates and rewrites `privacy.json` (`config.go:48`), `Load` takes an
   empty or broken file for the default policy, and the filter ignores the error (`store.go:47`): a
   hidden machine can publish its window while its note is being changed.
4. `art_half`: all processes write a title's cache through one temporary name (`art.go:218`): one renames
   what the other has just emptied, where the comment at `art.go:216` calls a half-written file impossible.
5. `steam_flash`: the first tick of a title is published before the store has said what it is
   (`steam.go:69-70`, `art.go:98-102`), where the comment at `steam.go:66` says that a tool must not flash up.

Stated in the modules as not holding, each with the trace in its comment, and not runs of their own:

* `NewestShown` (`ChatProperties`): in a full room a live message that arrives between the server's
  SELECT and the answer is dropped, because `add` caps the log before it is sorted (`chatstore.go:57`).
* `WidgetKeepsUp` (`Roster`): the widget's line is remembered before it is written, so the
  older of two lines may be the last one out (`jsonline.go:90`).
* `RepublishesAtOnce` (`Packs`): a save sends the layout once (`packs.go:302`), and the gate takes it for sent
  (`mobile.go:268`), but the server passes it over within half a second of a status (`ws.py:119`): friends keep
  the older card until the next heartbeat or change, although `packs.go:268` says that they need not wait.
* `EditsLand` (`Packs`): one delayed save stands for both surfaces of the phone's layout
  (`PresenceService.kt:337`).
* `SecretKept` (`Commands`): a command that dies in its write leaves a torn `config.json`, and the next
  invite registers anew over it (`auth.go:239`).
* `NeverBack` (`Updater`): of two clients one may install the older release it was told of (`selfupdate.go:117`).
* `OneRun`, `Named`, `RepeatsAsSaid` (`Custom`): a changed command runs beside the old one; values and
  names come from two readings of the file; a changed repeat time waits for the next run (`custom.go`).

`CutWithinRecheck` speaks of connections that are still watched: `watch_authz` has no handler, so one failed SELECT ends the watch of a
connection (`ws.py:73`).

## 4. What is proved

TLAPS checks these for every value of the constants that satisfies the named assumptions.

| theorem | says |
|---|---|
| `RoomsTypeOK`, `RoomsOneOwner`, `RoomsRequestsStayJustified` | a room with members has exactly one owner, whatever requests are in flight |
| `RoomsImplementMembership` | `Spec => M!Spec`: check-then-write requests behave as atomic ones |
| `ChatTypeOK`, `ChatNewestStay`, `ChatShownOnce`, `ChatNothingMissed` | what leaves the table of messages has `Limit` newer ones of its conversation there; no thread shows a message twice; once the history is in, a thread that is not full has all that was stored, but for what a cut connection or a full queue lost after the SELECT that would have found it |
| `AccountsTypeOK`, `AccountsRevokedHasNoSay`, `AccountsSessionHasRoom`, `AccountsRevokeStaysHome` | revocation is the last word; no session without a room; only one's own devices revoke a device |
| `HubTypes`, `HubInOrder`, `HubCaughtUp` | a subscriber gets the snapshots of a device in order, and has or is about to have the last one, unless it was lost to a full queue, is muted or is too old to be replayed |
| `EndpointTypes`, `EndpointImplementsHub` | every step of the endpoint is a step of the hub or leaves it alone |
| `EndpointNoOrphanSubscriber`, `EndpointCutWithinRecheck`, `EndpointSilentWhenCut` | subscriptions belong to connections; access that is lost is felt within a recheck; who is cut says nothing more |
| `SamplerTypeOK`, `SamplerNewestKept`, `SamplerStopKeepsAll` | the newest snapshot is in the buffer, the batch or the table; an orderly stop stores everything |
| `PhotosTypeOK`, `PhotosListedIsServed`, `PhotosNeverOlder` | the file is at least as new as the row that lists it; what a client keeps under an id is never an older photo |
| `LinkTypeOK`, `LinkOneLink`, `LinkStaysHidden`, `LinkNeverBack` | one connection at a time; nothing bare once the switch has returned; no status after a newer one |
| `PublishHidesAtOnce` | while the policy file has been hiding for a unit of time, what is sent is covered |
| `DeskKeysActAsShown` | a key acts on the person, and on the conversation, that the screen shows |
| `PacksTakenIsSaved` | when no save is under way, and since the frame the server took last none has failed and no frame was lost, that frame has the layout on disk |
| `CommandsNoBlend` | an account file never joins one server's token with another's identity |
| `UpdaterOneInstall` | one install per client, its window says so, and the program file is a whole release |
| `CachesImplementSingleFlight` | the cache behaves as one that asks once at a time and shows no statistics after newer ones, though the body of an error in between |
| `CustomOwnOutput` | a field shows its own text or its own command's output |
| `CardsSameCard` | a card does not change with the order in which the feed's map is walked |
| `CardsCardHolds` | tiles stand on the grid and beside each other, none with something to show is left out where it fits, and a wildcard repeats no field that is named |
| `ArtAsksSparingly` | the store is asked about a title once per wait, however often the process ends |

### Assumptions

The sets of accounts, rooms, devices, requests, connections, threads, titles and so on are arbitrary, and
so are the bounds, which are only in `Nat`.  What is assumed of the other constants:

* `InviteTTL \in Nat \ {0}`, `LinkTTL \in Nat`, `QueueSize` and `Recheck` at least 1, `ReplayMaxAge \in Nat`, the
  limits of the chat at least 1; `AccountOf` gives every device an account.
* `"room"`, which stands for the thread of the whole room, is no account (the store has the group apart, and
  the peers of direct messages under their ids).
* A value that stands for none is none: `NoOne` is no account and no device, `NoConn` no slot
  (`SlotAssumption`), `NoFile` and `NoEntry` no entries (`FileAssumption`, `EntryAssumption`), `Torn` and
  `Absent` no policies (`PoliciesAssumption`), `Zeroed`, what an error body reads as, no statistics
  (`ZeroedAssumption`).
* `ServerAssumption`: finitely many servers.  `ScreenAssumption`: the accounts are numbers, in the
  order of the screen, finitely many, with one's own among them, and each has a role.
* `PoliciesAssumption`: no edit has set the deadline of a policy the file holds at the start.
  `ProfilesAssumption`: the owner's own profile for incognito, where there is one, does not show apps or
  games.  The code lets an owner write such a profile; then incognito means what the profile says, and
  nothing is to be shown.
* `DevicesAssumption`: an account has finitely many devices, one per id, as the feed is a map by device id;
  ids, ranks and times are numbers, and the tiles of a layout are records of the type `LaidTile`, the fields
  that `sanitize` reads of the JSON.  Nothing is assumed of what the layouts say, of their lengths or sizes,
  nor of the number of fields.
* `ArtAsksSparingly` has the hypothesis `Program = {p}`, one process per machine.  With two it fails: finding 4.

### Arguments

Hardly any of these properties is inductive.  What each proof carries from step to step:

*Rooms.*  A request past its check writes without looking again.  The inductive invariant is
`TypeOK /\ OneOwner /\ RequestsStayJustified`; the last conjunct says of each request in flight that its
room is founded and its target is not the owner.  It is preserved because no step makes anybody the
owner of a founded room.  The refinement follows: each transaction maps to a step of `Membership`,
every other step to a stutter.

*Chat.*  What a transaction deletes was doomed when its DELETE looked, and other transactions may delete
some of the newer messages before it commits.  The invariant of the table (`ChatInv`) is that what is
doomed stays doomed: of the messages that go with somebody else's commit, the newest one has `Limit`
newer ones, and those stay (`StayOutdated`).  On the reader's side, `Typed` has that a
thread is within its cap, repeats no message and has only its own (`Orderly`), which gives `ShownOnce`: `add`
looks before it appends, and sorting moves entries about without copying one.  That the stable sort
exists is an insertion sort, one entry after another (`InsertionSort`).  `Written` says that nothing bears a later
stamp than the clock and that a transaction's message is in the table from its commit on.  `NoGap` is the invariant of `NothingMissed`: of a message for the reader that is stored, that
nothing can bring any more (`Settled`) and whose SELECT is done, the SELECT has found it, or its thread
has it or is full, or the table has so many newer ones that neither would show it (`Outdated`).  Whatever
adds to what can be missed (a commit, a delivery, a SELECT, the merge) also adds to what finds it.

*Cards.*  `SameCard` does not follow from the order the devices come in being irrelevant to each step: the sort
is stable, so what must be shown is that it never has to be.  Rank, being behind the newest and the id are
compared in turn, and ids differ, so two devices are never level (`OneLine`): there is one sorted list of a
set of devices (`SortsLive`), and the card is a function of that.  That a sorted list exists at all
(`SomeLine`) takes the minimum out, one device after another.  `CardHolds` rests on `Stands`, an invariant
of the recursion of `Pack`: after n tiles what is taken is what the placed ones cover, these lie in the grid
and do not meet, and a tile with no spot would have met something taken at every spot (`StandsOneMore`).
What is taken only grows, so it would still not fit at the end.  For the wildcards, a list that is expanded
has as many tiles of a named field as it had before, less those `sanitize` drops (`ExpandHolds`).

*Accounts.*  The invariant adds what a request knows at each step (`Knows`), that sessions and codes
belong to accounts with a room (`Housed`), and that two requests do not create the same device
(`Distinct`).  `RevokeStaysHome` is an action property that follows from it.

*Hub.*  `Ordered`: what a queue holds of one device is a nondecreasing run of stamps, between the one that
was sent last and the one the room remembers.  A new snapshot and a replay both put the remembered stamp
at the end, and overflow takes away the end only.  `CaughtUp` needs `Ordered`, and that the remembered
stamp is in the queue or has been sent.

*Endpoint.*  Each step is matched with one of the hub, so its invariant holds here too.  `Tidy` ties a slot's
subscription to where its forwarding task is; `Timely` says that the ticks since access was lost and
the ticks until the watcher wakes make no more than a recheck, and what a check in progress has found.

*Sampler.*  `NewestKept` needs that numbers never run ahead of the counter (`Counted`), and
`StopKeepsAll` what is owed in each phase of a stop (`Owed`).

*Photos.*  A post that is under way has written its file already (`PostsAreServed`), and each stage of a
fetch bounds the next: the id by the file, the bytes by the id (`FetchesAreNew`).

*Link.*  Who dials found no connection, and nobody makes one meanwhile (`Dialling`); a status on its way
is the current one, because of `publishMu` (`Holding`); the session's policy hides when the file does,
but between the two statements of `SetIncognito` (`Following`).

*Publish.*  The policy in memory may be any that was ever read.  While the file is the one seen last, the
policy is what it says (`InStep`), for a rewrite raises the modification time; and when the look of this
unit of time is over and the file has been hiding since the unit began, the policy hides, whatever has
been written since (`Hides`).  That a deadline is the business of one edit only (`Begun`) keeps an edit that begins
from moving somebody else's.  The last step is about the filter: an incognito policy covers every snapshot
(`HiddenIsCovered`).

*Desk* needs that the prompt is open only where the next key answers it, and that a line of direct
messages belongs to the title above it.  *Packs* (`PacksInv`): what was let through the gate last
is the file as it was read last, a file that changed since has a save on the way that will offer it, or one that failed, and the
frame the server took is what was let through, or a frame was lost; without a status nothing is read and
the gate is as new.  *Commands*: what is loaded and what is to be written names one identity that its server
knows (`Knows`, `Valid`), and servers only add to what they know.  *Updater*: the installs in flight of a
client are counted by its window (`Counts`).  *Caches*: a fetch of a key is the only one, its entry says so,
and the statistics it brings are between the newest that were kept and what the server has (`newest` is a history
variable, for the body of an error hides what was kept before); the refinement maps what is kept to
the value of `SingleFlight`.  *Custom*: results belong to commands, not to fields, and so does what a tick
has copied.  *Art*: an attempt is on disk before it is made, and what is on disk is not due (`Sparing`).

### Only model-checked

* What needs fairness: `DoorsClose`, `Persisted`, `SubscriptionEnds`, `Converges`, `ShowsTheRoom`,
  `FollowsTheGame`, `Settles`, `StaysMuted`, `RoomCatchesUp`, `SavedArrives`.  Liveness and ENABLED are out of the prover's reach.
* The type invariants not in the table.

Every other property of the passing runs, invariants, action properties and refinements, is a theorem.

*Induction over data.*  The library's induction theorems have operators as parameters, which the provers
cannot instantiate.  Where a proof needs induction over a list (`Merged`, `ByAt`, `InOrder`, `Pack`), it goes
through sets instead: the set of the numbers for which a claim holds has 0, and n + 1 with n, so it is
all of `Nat` (`Counting`, from the well-foundedness of `<`).  That a recursive function equals its own
definition is a lemma for each (`InOrderUnfolds`, `PackUnfolds`): by `Counting` each number has a function
that obeys the recursion up to it, so the CHOOSE finds one.  No module declares a RECURSIVE operator, so
that all stay within the provers' reach.

## 5. Plan

Done, in the order of how much goes wrong for the users if they do: rooms, accounts, hub, endpoint,
sampler, photos, link, privacy and publishing, chat; then the screen, the roster, the cards, the phone's
layout, the account file, the self-update, the statistics caches, the custom fields and Steam.

Theorems worth having next: the type invariants of `Publish`, `Roster` and `Steam`, and safety
properties of the last two, once a run checks some.

Left to model: `Link` with `Stop`, `Leave`, the roster poll of the phone and `Close`, then the Android
service above it; the lyrics cache; statistics periods and rate windows as functions.

Not modelled, and why: drawing, formatting and parsing (layout); collectors and detectors other than
Steam's (reads of the machine; their results are inputs of `Publish`); notifications, health check
(hardly any state); SQL aggregation, encryption, image processing; wiring and settings; install
scripts.  Of the modelled components, what is left out is named in their `PROJECT.json` notes.
