# Verification of meta-sphere-api

meta-sphere-api is a NestJS server for a virtual campus: people walk between rooms, hold sessions, chat, draw on a
shared whiteboard and share files. One Node.js process serves HTTP and socket.io; PostgreSQL (through Prisma), Redis
(through ioredis), MinIO and LiveKit keep the state that outlives it. This directory holds TLA+ models of that code,
the TLC configurations that check them on small instances and the theorems proved with TLAPS. Paths below are
relative to the repository.

The process is single-threaded, so everything that can go wrong goes wrong at an `await`: a handler reads, awaits,
and writes on the strength of what it read, while other handlers, other processes' answers, failures and crashes come
between. No handler of this code opens a transaction or takes a lock. An action of the models is therefore the code
from one await to the next, with the one database, Redis or MinIO operation it ends in.

## 1. Inventory

| Component | State | Operations | Hard behaviour | Correct when |
|---|---|---|---|---|
| Sessions (`src/sessions`) | rows of `sessions`, `session_participants`; invitation tokens | create, update (lock), start, end, join, leave, kick | check-then-write over two to four awaits; two rows written without a transaction; tokens that expire | a kick is final, a lock holds, an ended session is empty and was started, the host stays, a password or token guards entry |
| Realtime gateway, state service, presence (`src/realtime`, `src/presence`) | `connections`, `connnectionsByRoom`, `userSockets`, `onlineUsers`, socket.io rooms | handshake with takeover, disconnect, room switch on session events, snapshots | a handshake awaits the database while sockets close, reopen and session events arrive | maps agree, one avatar per user, routed sockets are registered, clients show who is there, online means connected |
| Files and session-files gateway (`src/files`, `src/session-files`) | rows of `files`, objects in the bucket | upload, delete, host's remove, cleanup after `session.ended` | two stores and no transaction; a unique placeholder key; MinIO failures that are swallowed | a row has its object, an object its row, a tray is emptied, placeholders are released |
| Whiteboard (`src/whiteboard`) | a capped Redis list per session, the clients' boards | join, stroke, undo, clear; relays | three round trips for a stroke, two for an undo, one for a clear | boards and list agree, the cap holds, what is erased is hidden |
| Rooms and occupancy (`src/rooms`, `src/redis`) | room rows, a Redis set per room | join, leave, create | count, test and add are separate commands | capacity |
| Friends (`src/friends`) | rows of `friendships` | request, accept, decline, remove | check-then-write on one row; a unique index over one direction | one row per pair, consent, an end only by removal |
| Messages and chat gateway (`src/messages`, `src/chat`) | rows of `messages`, a capped Redis list, socket rooms | send, delete, list, react, typing, join, leave | store, cache, trim, broadcast with failures between | order, cap, nobody misses a message |
| LiveKit voice (`src/livekit`) | tokens, LiveKit rooms | token, delete room | a token is signed on two reads and outlives participation | tokens go to participants, and of open sessions; the room of an ended session stays empty |
| Auth, users, admin, seed (`src/auth`, `src/users`, `src/admin`, `prisma/seed.ts`) | rows of `users` and `rooms`, JWTs, `.env.seed-output` | register, login, profile, create room, seed | a token is signed from a row read before bcrypt and never checked against it again; find-then-create without a unique index | a token grants no more than the row, a login takes the current password, a zone has one room |
| DTOs, bootstrap (`src/**/dto`, `src/main.ts`) | none | - | - | not modelled |

How they interact:

- SessionsService emits `session.joined`, `session.left`, `session.ended` and `session.invite_friends` through
  EventEmitter2. RealtimeGateway moves sockets between rooms on the first three and signs invitation tokens on the
  last; SessionFilesGateway cleans the tray up on `session.ended`; `user.connected` and `user.disconnected` feed
  PresenceService; `friend.updated` is relayed to sockets.
- RealtimeGateway asks SessionsService for the active session of a user during the handshake.
- Chat, whiteboard and file tray share the socket room `session:{id}`. Only `chat:leave` leaves it, so that closing
  the chat also silences an open whiteboard and tray (chat.gateway.ts:111). The tray never joins it itself.
- AdminController creates rooms through RoomsService; the seed script writes users and rooms past all services.
- Rooms, whiteboard and messages share one ioredis connection: commands run and are answered in the order they are
  issued.

The full list of hazards, each at its line with the properties about it, is in `PROJECT.json`. Many of them are real:
the code does not survive them. A property can then only name the hazard in its premise, and such a hazard has a note
that says so. What keeps a premise honest is that it is needed: see the end of section 3.

## 2. Modules

| Code | Model | Checked with | Proved in |
|---|---|---|---|
| Sessions | `Sessions`, implements `SessionContract` | `MCSessions` | `SessionsProofs` |
| Realtime, state, presence | `Realtime`, implements `CampusMap` (the events) over `CampusMoves` (what they do) | `MCRealtime` | `RealtimeProofs` |
| Sessions, realtime events and LiveKit together | `Campus`, composed with `CampusMoves` | `MCCampus` | `CampusProofs` |
| Files, tray cleanup | `Files` | `MCFiles` | `FilesProofs` |
| Whiteboard | `Whiteboard` | `MCWhiteboard` | `WhiteboardProofs` |
| Room occupancy | `Rooms` | `MCRooms` | `RoomsChatProofs` |
| Friends | `Friends`, implements `FriendshipContract` | `MCFriends` | `FriendsProofs` |
| Messages, chat | `Chat` | `MCChat` | `RoomsChatProofs` |
| Auth, users, guards, admin's rooms, seed | `Accounts` | `MCAccounts` | `AccountsProofs` |

Conventions. A definition whose name ends in `Mutant` is a mistake the definition after it could have been written
with; nothing uses it, and `PROJECT.json` says which property notices it. A variable commented "history" is not in
the code: it records what has happened so that a property can speak of it. Several modules have a variable `env`, a
set of *disturbances* chosen in the initial state and never changed: a behaviour shows only the disturbances in its
`env`. A property such as `"overlap" \notin env => ...` then says exactly which disturbance the code does not
survive. Most runs start from every subset of the disturbances; `MCFiles` and `MCCampus` list the subsets they look
at. A disturbance only adds behaviours, so each set stands for all its subsets, and the sets are as large as the
properties and the number of states allow. What a run leaves out are combinations: in `MCFiles` a late end, an early
deletion and a failing MinIO come two at a time, and in `MCCampus` "twice" (which lets the rows of a user grow) comes
with "early" only. The theorems hold for every set.

### Sessions
`call` holds the requests in flight, each with the await it has reached (`pc`) and what it has read: `seen`
(session status), `locked`, `existing` (the participant row). `JoinBegin`, `JoinCheck`, `JoinWrite`, `EmitJoined` are
`join()` cut at its awaits; likewise for the others. `Fail` rejects the await a request has reached, `Crash` drops all
requests and keeps rows and tokens, `ExpireInvite` lets a one-minute token lapse. A request that a guard rejects
changes nothing and is not an action. Log rows are read back for no decision: a log write is kept as an await that
may fail before the event after it. Passwords and tokens are abstracted to the credential a join presents.

`SessionContract` is the session as a participant is told it works: each change made at once, from the state it
changes. `Sessions` refines it (with `status`, `isLocked`, `member` as they are) as long as no two requests about a
session *race*. `Race` lists the pairs: an end with a creation, an update, a start, a join or a kick; an update with a
creation or a join; a kick with a join or a leave of the same user. `RacelessSpec` is `Sessions` with every pair of
`Race` kept apart from the first read of each to its last write; all other requests (two starts, two ends, two joins of
one user, a leave beside an end) overlap as they like, and what they have read may well be out of date when they write.
The list is as short as it can be: with any of its nine pairs taken out of `Race`, run `sessions_raceless` finds a
violation.

### Realtime
In-memory `join`/`leave` of socket.io and EventEmitter2's listeners run synchronously, so only the database read in
`handleConnection` lets other handlers in: a handshake is `Connect` and then `Register` or `Refuse`; every other
handler is one action. The database's answer and the session events come from the environment; `assigned` records
the room the events of a user last named, and "relocate" lets the two disagree. A socket that closed during its
handshake is registered all the same, but hears nothing: closing it emptied its socket.io rooms and made its `join` a
no-op, so that `joined` of a closed socket stays empty (`Joins`). `event` is history: the event handled last, with the
user, room or session it names. `MCView` leaves it out, because no guard reads it; TLC evaluates `ImplementsMap` on every
transition all the same.

`CampusMap` is what all this promises, event by event: its interface is where each user is shown (`place`) and the event
being handled (`event`). A step names its event and does to the map what that event asks for, to the user or the session
it names: `session.joined` about one user moves nobody else, and nobody moves without an event. `Realtime` implements it,
mapping a user to the room of the socket they are routed to and `event` to itself. The one looseness is "overlap": the
socket of a second connection that nobody routes to may close, or sit in the room of a session that ends. The moves
themselves are in `CampusMoves`, since `Campus` composes them with what makes the events.

### Campus
The composition: participant rows and their order by `joinedAt`, the requests that have written and are not through
(`call`), `CampusMoves` for the gateway, the handshake's two steps, voice tokens and voice rooms. The writes of a request
are steps of their own, as in the code: `create()` writes the session (`CreateSession`) and then the host's row
(`HostRow`), `end()` closes the rows (`EndRows`), writes ENDED (`EndStatus`), deletes the voice room and emits.

The reads of a request and its first write are one step, which may go by *old* reads. `Read(u, s)` is the set of what a
request may have found of a participant's row, `Open(s)` whether it may have found the session open: what is there now,
and under "overtake" also what was there before. A join may so write an ACTIVE row in a session that has ended since,
which is the counterexample of `sessions_race_end`; a leave may write LEFT over KICKED, a late start may reopen a session.
`Alone` is what being without "overtake" means: no request is begun while another about the same user, or one that ends
the session, is under way. The voice token request keeps its two reads apart under every disturbance.

The other disturbances are "twice" (a user in two sessions), "early" (a user connects while in a session that has not
begun), "cross" (an event during the handshake), "lost" (a request fails or the process dies between a write and the
event; LiveKit fails), and "outlive" (a voice token used after its participation).
What `Realtime` studies is given up here: a user has one handshake at a time, it is not cut short and its database read
does not fail, and the gateway is replaced by the moves it implements.

### Accounts
`request` holds registrations and logins between their awaits, `tokens` the tokens handed out, `seed` the running seed
scripts, one action per query. User names stand for user ids, since no operation changes a name. Passwords are compared
as values; bcrypt is the await in which the row may change. A role, password and status are all a row keeps.
Disturbances: the seed replacing the admin's password during a login, two seeds at once, an admin giving a room the
name of a zone.

### Files
`upload[f]` walks through reserve (`__pending__`), put, and final key; `deletion` holds deletions of one file by owner
or host; `cleanup` is `deleteSessionFiles`. Disturbances: a session ending during an upload, a deletion overtaking an
upload, MinIO failing, the database failing, a crash.

### Whiteboard and Chat
Redis commands are applied when they are issued; `pipe` is the queue of handlers whose answer is outstanding, and
only its head goes on. `Whiteboard` also has the two chat messages that join and leave the socket room it shares:
`open` is who has the whiteboard open, `inRoom` who of them is in the room. The client pages are not in the repository.
`Whiteboard` takes a page to draw what it sends, to show what it is sent and to replace its board on `whiteboard:init`; `Chat` takes it to join, then load, then
add what is broadcast. In `Chat` inserts are answered in any order, Redis may refuse a command, and a crash closes
every socket and drops every handler. Relays that keep no state (cursors, live strokes, drawing and typing events)
are not modelled, nor is the 24-hour expiry of the list.

### Rooms
One room: `enter`, `count`, `admitted` are `joinRoom` at its three Redis commands. The row lookup that precedes them
reads what nothing changes.

### Friends
One pair of users, since no operation reads rows of another pair. `request` holds what each request in flight has
read; the row may differ by the time of the write, and a write on a deleted row fails as Prisma's `update` and
`delete` do. `@@unique([requesterId, addresseeId])` is `Taken`. Requests overlap as they like; `raced` records which of
three kinds of *race* has happened: "crossing" (friend requests of both users in flight at once), "turning" (a request
that turns a declined row round, beside an answer) and "disagreeing" (an accept beside a decline). Each property names
the races it does not survive. All other overlaps (two accepts, a removal beside anything, the same request twice) are
harmless, and the list is as short as it can be: without any one of these pairs in `Race` a property of the run fails.

`FriendshipContract` is the friendship as its two users are told it works: each change made at once, by the user who may
make it. `bond` maps the row of the pair to it.

## 3. Runs

| Run | Instance | What it shows |
|---|---|---|
| `sessions` | one protected session, host and two users, two requests in flight | however two requests interleave, fail or crash: the host stays, entry takes a credential; a kick is undone, an ended session reopened, a locked one entered only by a request that read the row before |
| `sessions_raceless` | the same, without the nine pairs of `Race` | refinement of `SessionContract`; kicks final, locks hold, ended is empty |
| `sessions_race_end` | two requests | **violated**: `EndedHasNoGuest` |
| `realtime` | three sockets of one user, one of another, two sessions and the common area | maps, routes and subscriptions always agree, and an event does to the map what it asks for; one avatar, right room, honest views and presence, each up to the named disturbances |
| `campus` | two users, each the host of a session and a guest in the other's, one of whom speaks; two requests in flight | who is shown where agrees with the rows once events are handled; the room and the voice room of an ended session are empty; voice tokens go to participants, and of open sessions; each up to the named disturbances |
| `files` | two tray files, one library file, two deletions, one session | rows and objects, up to the named disturbances; the placeholder is released and the tray of an ended session emptied in the end |
| `whiteboard` | two clients, two strokes, cap one, four handlers waiting | cap, catching up, erasing, for everybody who has not closed the chat |
| `whiteboard_overtaken` | same | **violated**: `ErasedForEveryone` |
| `rooms` | five users, capacity two, three requests | a room is overbooked by at most the number of requests in flight less one |
| `friends` | one pair, three requests, three rows over time | one row, consent, end by removal, refinement of `FriendshipContract`, up to the named races |
| `chat` | two clients, three messages, cache of one, page of two | every message stored is in flight, broadcast once or failed, the cache replays the end of the feed, the feed follows history but for overlapping sends, nobody misses a message that fits the page |
| `accounts` | the admin's name and one other, two passwords, two zones, two rooms, one request, two seeds | tokens, passwords and zones, up to the named disturbances |

The largest are `sessions` with 2.4 and `whiteboard` with 2.2 million states; `accounts` has one million, `campus` and
`realtime` have half a million each. Each run takes about a minute or less on two cores.

Bounds. Each run has two or three actors of the kind that collide, because every race in this code is between a
handler that has read and one that writes: two requests in flight show it, a third shows that the first two
were not special (rooms, friends, realtime). One session, tray or room is enough where no operation touches two;
Realtime and Campus have two sessions and the common area because switching does, and Campus makes each user a host
and a guest so that "in two sessions" happens in both roles. `accounts` has one request because a login collides with
the seed and not with other logins, and as many rooms as zones: a second room for a zone is then one too many for
another. In `campus` there is one session (`MCBound`) under "overtake" and "lost", because stale reads and failures
multiply the states and what they break is between a user and one session, and nobody asks for voice under "twice"; its
view drops who has ever left where nothing reads it. Caps and pages are one or two so that they are reached and exceeded. Message, stroke, row and file ids are
used once, which bounds the runs: where all ids can be used up, the configuration says `CHECK_DEADLOCK FALSE`. `MaxPipe` bounds handlers waiting
for Redis (in `Chat` it is never reached: there are as many slots as messages). `Whiteboard` has four slots and two
strokes, since what goes wrong there is handlers passing each other and needs a stroke to be stored, another to be
erased and a joiner to read the list at once; two strokes are one more than the cap. `Calls`, `Requests` and `Seeds` bound
what is in flight at once. Symmetry is declared over ids the models never compare by anything but equality; the one
run with liveness properties, `files`, has none.

What the violated runs show:

- `end()` writes LEFT over the participants it finds and then ENDED; a `join()` past its status check writes its row
  afterwards, and the participant stays ACTIVE in an ended session (sessions.service.ts:208-218, 237-309).
- An undo or clear is broadcast before the stroke it removes when that stroke is still being stored
  (whiteboard.gateway.ts:73-119).

What the passing runs exclude by a premise is as much a fact about the code. Each disturbance that a safety property
excludes has been allowed on its own, and TLC then finds the property violated, with one exception: "turning" and
"disagreeing" break `FriendsByConsent` only together. What is seen in the counterexamples:

- `OneAvatarPerUser` without "overlap": two handshakes that both found no socket to take over both register
  (realtime.gateway.ts:70-93). `InAssignedRoom` without "relocate": a session event during the handshake finds no
  routed socket and is lost (realtime.gateway.ts:139-145). `ViewsHonest` without "relocate": a takeover tells the old
  socket's room nothing (realtime.gateway.ts:67-79).
- `OnlineHasSocket` without "hangup": `handleConnection` registers a socket that closed while it awaited the database;
  its disconnect was ignored, and the user is online until the next connection (realtime.gateway.ts:82-93, 105-124).
  Without "dbfail": a takeover has dropped the old socket when the read fails, and nobody emits `user.disconnected`.
- `StoredHasObject` without "crash" or "dbfail": the objects of a session are removed before its rows
  (files.service.ts:322-332). `PendingIsReleased` without them: nothing removes the placeholder of an upload that died.
- `TrayIsEmptied` and `NoOrphan` without "late": `deleteSessionFiles` removes the objects whose keys it lists; an
  upload still at `__pending__` leaves its object behind although its row is deleted (files.service.ts:314-334).
- `ShownAtHome` without "overtake": `session.left` names no session, so a leave that is handled after the user has
  joined another session moves them out of that one (realtime.gateway.ts:134-137). Without "early": a handshake looks
  for a running session, the event of a join shows its user in the session whether or not it has started, and a start
  emits nothing; who reconnects before the start stays outside (sessions.service.ts:186-194, 412-424).
- `EndedRoomEmpty` without "lost": a request that fails in its log write emits no `session.ended`
  (sessions.service.ts:220-225).
- `VoiceEnds` without "outlive": LiveKit makes a deleted room again for whoever holds a token
  (livekit.service.ts:46-67). `VoiceEnds` and `VoiceForParticipants` without "overtake": a join that read the status
  before the end leaves an ACTIVE row in the ended session; a voice request that read the status before the end too finds
  that row, a token is signed for a session that has ended, and its user enters the emptied room
  (sessions.service.ts:229-309, 436-477).
- `OneRow` without "crossing": the unique index knows one direction only (friends.service.ts:87-126).
- `NothingMissed` beyond one page: the page holds the oldest messages (messages.service.ts:35).
- `SavedIsShown` and `ErasedIsHidden` of silenced boards: `chat:leave` leaves the room the whiteboard listens to
  (chat.gateway.ts:111).
- `LoginCurrent` without "reseed": a password that the seed replaces during bcrypt still opens the account
  (auth.service.ts:22-25).
- `ZonesOnce` without "homonym": a room an admin gave the name of a zone may be found, changed and published as that
  zone (seed.ts:84-92).

Seen while modelling, without a run of their own: a `leave()` that read the row before a kick writes LEFT over KICKED
and lets the user back in (`KickUndoneOnlyByStale` says nothing but such a stale write does); `toggleReaction` treats
the `text[]` column as a map, so a reaction's key is not among the array elements that are written
(messages.service.ts:98-113, schema.prisma:276); history pages hold the oldest messages, so a room with more than one
page never shows a newcomer the newest (messages.service.ts:35, the premise of `NothingMissed`); `softDelete` is passed
`req.user.sub`, which the token strategy never sets, so the sender is not compared (messages.controller.ts:48,
jwt-token-access.strategy.ts:27-33), and Prisma ignores an undefined filter: `SoftDelete` in `Chat` is not tied to the
message's sender; the download counter is
a Prisma call that nobody awaits and Prisma runs only when awaited (files.service.ts:262).

## 4. Fairness

`Files` has a fair specification. PostgreSQL and MinIO answer each call or fail it, and Node.js runs the handler that
awaited the answer: an upload or a cleanup that has begun takes its next step. That is weak fairness of
`UploadGoesOn(f)` and `CleanupGoesOn(s)`, the disjunction of the handler's own steps, its failures included, and of
nothing else: nobody has to upload, to end a session or to delete. Under it a placeholder is always given up
(`SlotIsFreed`) and the tray of an ended session ends up empty (`EndedIsCleaned`). A crash is not repaired by
fairness, since nothing in the code resumes a handler; both properties exclude crashes and failing database calls.

The other specifications state no fairness: what they say holds whether or not a handler ever goes on, and what must
eventually happen there (an event is emitted, a stored message broadcast) is stated as an invariant naming the request
that will do it (`Settled`, `InFlight`, `Drawing`).

## 5. Proofs

TLAPS checks every theorem for all values of the constants under the modules' named assumptions, which only give the
constants their shape (`Host \in [Sessions -> Users]`, `Idle \notin Request` and the like).

- `SessionsProofs`: all properties of runs `sessions` and `sessions_raceless`. `IInv` adds to the invariants
  `RequestsSound`: what each request in flight still knows for sure, however long ago it read it. A start is only ever
  carried out by a request that read SCHEDULED, a join about to write read an unlocked session and no kick, and its
  credential is in `vetted`. The action properties follow from it step by step. That racing requests
  are all that stands between `Sessions` and `SessionContract` is `RacelessImplements`. Its invariant, `RequestsSafe`,
  does not say that what a request has read is still so, only that what it is about to write is still allowed: a late
  start finds the session ACTIVE at worst, a leave finds its row LEFT, and each other request is shown to leave that
  alone (`CreateSafe`, `MemberWriteSafe`, `UpdateSafe`, `StartSafe`, `CloseSafe`, `EndSafe`), the ones of `Race`
  excepted. The contract's consequences (`RacelessKickedIsFinal`, `RacelessLockHolds`, `RacelessEndedIsEmpty`) follow,
  and so does that one request at a time is enough (`SerialIsRaceless`).
- `RealtimeProofs`: all properties of run `realtime`. `BaseInv` (types, the three parts of `RegistrySound`, a socket in
  its handshake is registered nowhere) holds under every disturbance; that a closed socket hears nothing is part of it.
  Without "overlap" `Exclusive` holds: registered sockets are the routed ones. From it follow one avatar per user, the refinement of `CampusMap`
  event by event, and with
  `SocketsOpen` and `OnlineHeld` that who is online has a socket. `ViewInv` relates what every client was sent to the
  sockets it shares a room with; it needs the handshake's answer to be the assigned room, hence its premise.
- `CampusProofs`: all properties of run `campus`. `OpenRows` has what the voice properties need: one row per user and
  session always, and, unless requests overtake each other, ACTIVE rows in open sessions only. That is not inductive
  while a creation or an end is between its two writes. `Orderly` says what each request in flight still relies on: a
  creation's session is open and its host has no other request, an end has closed the rows of its session, which has not
  been written yet, and no two requests are about one user. `StraysAreRemoved` says that whoever is shown, or about to be, in a session they are not in is named by a
  request whose event will take them out; `EveryoneComesHome` adds that nobody is in two sessions and that who is
  elsewhere than their rows say, or will be after the handshake, has an event coming. Neither property is
  inductive without them, because a handshake carries a room across the event that changes it.
- `AccountsProofs`: all properties of run `accounts`. `RolesKept`: roles only rise, so what a token, a request or a
  script remembers of an admin stays true. `PasswordsKept`: a login past the read holds the current password unless
  "reseed". `ZonesInv`: the one running script remembers, for each zone it is through with, a room that is there, and
  has found the only one of the zone it is at.
- `FilesProofs`: the four safety properties. The invariant relates a row to its upload (`Uploading`), a deletion to the
  row it read (`Deleting`), a cleanup to its session (`Cleaning`), and the calm case (`Calm`), where nothing overtakes.
  Together they give what the run does not state: at rest the two stores agree file by file (`StoresAgreeAtRest`).
- `WhiteboardProofs`: all properties of run `whiteboard`. They rest on the order of the handlers in `pipe`. A handler
  about to replace or empty boards leaves out only strokes whose own handler is behind it (`BroadcastsFollow`); an
  erased stroke that was not overtaken has no handler left to broadcast it (`NotDrawnAgain`), and where it is shown, or
  about to be sent, a handler that hides it is behind (`HiddenInTheEnd`). These need that a client is sent the board
  once at a time (`OneInit`), that who undoes a stroke is not about to be sent it (`UndoerHides`), and that the list
  holds only strokes drawn and not erased, each once (`ListSound`, hence `EachStrokeOnce`, on which `lrem` with count 1
  relies). `ErasedIsHidden` speaks of the empty pipe only and is far from inductive: `HiddenInTheEnd` says what it
  means while handlers wait.
- `RoomsChatProofs`, first half: `OccupancyBound` for any capacity and any finite sets of users and requests. The bound
  alone is not inductive; `ClaimBound` counts the users that requests already let in will still add, each at most one.
  With one request at a time the capacity holds (`OneAtATime`).
- `RoomsChatProofs`, second half: all properties of run `chat`. None of the variables holds the order in which messages
  were pushed, yet the list and the feed both follow it. `IInv` therefore says there *is* a sequence `q` of the
  messages pushed such that the list is its end read backwards (`CacheEnds`), the feed, what waits in `pipe` included,
  follows it (`FeedFollows`), and it follows history but for overlaps and failures (`PushedInOrder`). The step for
  `Push` extends `q`; every other step keeps it. The bounds on the list are counted over it. That a message is
  broadcast once (`EachMessageOnce`) follows, because two places in the feed would order it before itself. A consequence
  the run does not state: once nothing waits and nothing has failed, the list is exactly the end of the feed
  (`ReplayAlwaysExact`).
- `FriendsProofs`: all properties of run `friends`. The invariant says, per race that has not happened, what the
  requests in flight may still do to the row, however it has changed since they read it: all who ask are one user
  (`OneAsker`), the answers agree (`OneAnswer`), nobody turns round a row that somebody answers (`NoTurning`), so that
  the row is gone, still open, or already what the request will make of it (`Steady`), and `wants` with it (`Asked`).
  `KeepsContractAlways` follows action by action, and from it that `Friends` implements `FriendshipContract` when
  nothing races (`RacelessImplements`).

Each of these modules also proves its type invariant, which most of the invariants above stand on.

Every invariant and action property of the passing runs is proved. Only model-checked: the two liveness properties of
Files (`SlotIsFreed`, `EndedIsCleaned`), since liveness is out of the prover's reach, as are ENABLED and induction over
recursively defined data. No module uses recursion. Of the library's operators on sequences `Whiteboard` takes
`RemoveFirst`, about which `RemovedFirst` proves what the invariant needs; `Page` in `Chat` counts, because nothing can
be proved about `SelectSeq`. That two sequences with the same elements in the same order are equal (`SameOrder`) would
be an induction; it is proved by counting intervals instead.

## 6. Not modelled, and why

- DTOs and the websocket guard: tests before a handler starts; the models start where the handler does, with inputs
  that passed. Bootstrap is wiring.
- Listing and reading endpoints: they change nothing. The exceptions that matter to another property are modelled
  (the chat history page, the whiteboard's initial strokes, the snapshot of a room).
- Lobby and area voice tokens: signed for anybody who is logged in, for rooms no state depends on.
- Avatar appearance, positions and their 50 ms throttle, relays (cursors, typing, reactions, tray broadcasts), activity
  logs, download counters, URLs: data no property tells apart.
- A broken Redis connection, on which ioredis repeats unanswered commands; several processes of the server (the
  gateways keep their state in memory, so the code is written for one).
- Database isolation below a single statement: each Prisma call here is one statement or one implicit transaction.
- A user's occupancy of a Redis room after their browser closes: only `POST leave` ends it, which is a step the code
  does not have rather than one that could go wrong.

## 7. Plan

1. A Redis connection that breaks and repeats commands, for Whiteboard and Chat, with bags in place of sets of
   strokes and messages. `EachStrokeOnce` is what it would break first.
2. That every behaviour of `Sessions` is one of `Campus`. A request reads and writes in one step of `Campus` and in
   several of `Sessions`, and `Read` and `Open` say what it may have read by the set of what could have been there; that
   these sets are wide enough needs the history of each row as an auxiliary variable of `Sessions`.
3. Liveness of the events: an emitted end empties its room under weak fairness of requests, in `Campus`.
4. The position throttle, which withholds the last position of a burst.
