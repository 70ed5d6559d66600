# A TLA+ model of online-chat

This directory models the chat server of this repository (C++11, one thread per
connection, one SQLite connection), the parts of its Python client that decide
which messages exist and what a user is shown of them, and its load generator.
Paths are relative to the repository root:
`server.cpp` is `src/server.cpp`, `chat_client_v4.py` is
`client/chat_client_v4.py`.

Run everything from this directory:

    tlc -workers 2 -config MCGroupCommit_store.cfg MCGroupCommit   # any cfg below
    tlapm GroupCommitProofs.tla                                    # any *Proofs.tla

## 1. Inventory

| Component | State | Operations | Talks to |
|---|---|---|---|
| Database, group commit (`database.cpp` 10-25, 36-46, 142-210, 310-356) | `m_`, `cv_`, `in_tx_`, `tx_pending_`, `tx_gen_`, `tx_ok_`, `writers_waiting_`, `commit_cost_ns_`, SQLite's transaction | `insert_room_msg`, `insert_private_msg`; outside batches `create_user`, `create_room`, `insert_offline`, `mark_delivered` | every handler thread |
| Room router (`room_router.cpp`) | `rooms_` with members, `user_room_` | `create`, `join`, `leave`, getters | JOIN/LEAVE handlers, dropConn, broadcasts |
| Sessions (`server.cpp` 248-392, 481-485, 698-874, 1213-1306) | `conns_`, `online_`, each connection's `username`, `authed`, `fd` | accept, LOGIN, AUTH (takeover), LOGOUT, JOIN, LEAVE, kick, heartbeat scan, close | router, token book |
| Message delivery (`server.cpp` 1026-1209) | tables `messages`, `offline_messages` | `doMessage`, relays, `pushOffline` | database, window, limiter, filter, router, sessions |
| Sequence window (`seq_dedup.cpp`) | set of (user, seq) | `check_and_add` | `doMessage` |
| Client engine (`chat_client_v4.py` 145-833) | pending store, tokens, connection state | send, retransmit, retry, flush, reconnect, authenticate, page history | server |
| Challenge, registration (`server.cpp` 533-696) | one challenge per connection | HELLO, LOGIN proof, REGISTER | users table, token book |
| Token book (`token_book.h`) | tokens with user and expiry | issue, validate, gc | LOGIN, AUTH |
| Send queue (`server.cpp` 394-479, 1282-1303, `tls.cpp` 134-150) | `outbuf` per connection, `send_m`, what SSL_write still owes | sendFrame, sendRelay, drain, over-pressure notice and kick, close | every sender, monitor |
| History and inbox (`server.cpp` 946-1022, `database.cpp` 413-528, client) | the client's cursor and `_hist_busy` | keyset pages | messages table, router |
| Rooms on disk (`server.cpp` 202-218, 916-944) | `rooms` table and router | CREATE, loading, lobby | database, router |
| Start and stop (`server.cpp` 139-198, 1313-1333, `main.cpp`, `pepper.h`) | `running_`, the listening socket, `meta`, pepper file | start gates, accept loop, stop, shutdownAll | everything |
| Rate limiter (`rate_limiter.cpp`) | token buckets by key | allow | accept, HELLO, `doMessage` |
| Word filter (`word_filter.cpp`) | a trie | load, contains, filter | `doMessage` |
| Framing, JSON text (`frame.cpp`, `minijson.h`) | the reader's buffer | encode, feed, next; serialize, parse | every frame |
| Hashing (`pwd_hash.h`), log (`log.cpp`) | a digest under way; the file of the day | update, final; write | LOGIN; everything |
| Load generator (`tools/bench_client.cpp`) | counters and samples per connection | send, drain, sum, percentile, sample `/proc` | a running server |
| TLS, sockets | buffers | wrappers of OpenSSL and the system | everything |

How the parts interact: a connection thread reads frames and runs each handler
to its end before the next frame. Handlers of different connections, the
monitor thread and the accept loop share `conns_`/`online_` (mutex `g_m_`), the
router (its own mutex), each connection's socket (`send_m`) and the database
(`m_`, released while waiting on `cv_`). No handler holds a lock from its first
to its last statement, so any two critical sections of a handler can have
anything between them.

What is hard, and what makes each part correct:

* **Group commit.** One writer commits for many; all of them, the writers of
  the next batch and the writers outside batches sleep on one condition
  variable. Correct when a positive answer implies a row on disk, a negative
  one its absence but for causes that can be named, no batch is orphaned, and
  every caller returns.
* **Sessions.** Checks and the updates based on them sit in different critical
  sections; a connection may be dropped by four different threads while its own
  is inside a handler. Correct when `online_` names only connections of that
  user, presence follows the user's current connection, vanished clients are
  found, and the thread of a dropped connection ends.
* **Delivery.** Retransmission on another connection, an in-memory window, two
  tables written one after the other with an ACK between, a receiver that comes
  and goes, and crashes. Correct when acknowledged messages are stored once and
  reach the receiver or wait for it.
* **Send queue.** Three kinds of threads write to one socket, some of them
  ignoring whether they could; SSL_write wants its bytes again; a notice goes
  past the queue; the socket may be closed at any time. Correct when the bytes
  form the frames, in order, and no queue waits for ever.
* **Challenges and tokens.** Correct when a proof opens what it was made for,
  once and in time, and a name has one password, whoever races for it.
* **Start and rooms.** Every call that reaches the disk may be the last.
  Correct when no crash locks the operator out or loses a room, and no gate
  lets in rows that cannot be read.
* **Paging.** Rows arrive with any time stamp, roll back and outgrow frames
  while a client pages. Correct when pages neither repeat nor skip.
* **Algorithms.** Correct when they agree with a definition that does not work
  in steps.

`PROJECT.json` lists the hazards by line, each with the properties that would
notice it.

## 2. Modules

| Module | Models | Composition |
|---|---|---|
| `GroupCommit` | the batch protocol of `database.cpp` | implements `MessageStore` |
| `MessageStore` | what the message table promises its callers | abstract specification |
| `RoomRouter` | `RoomRouter` | |
| `Sessions` | connections, presence, rooms, monitor | `EXTENDS RoomRouter` |
| `Delivery` | client pending store, `doMessage`, `pushOffline`, window, tables | uses an insert as one step, which is what `GroupCommit` establishes, and a relay as one, which is what `SendQueue` details |
| `SendQueue` | one connection's send side | |
| `Challenge` | HELLO, REGISTER, LOGIN, AUTH, token book | details the proof that `Sessions` takes as accepted |
| `Startup` | one process after another on one disk; CREATE | |
| `HistoryPaging` | HIST and INBOX, server and client | |
| `Algorithms` | nothing of its own | `EXTENDS` the next seven, one of them at a time |
| `RateLimiter` | buckets, eviction, callers with late clocks | |
| `WordFilter` | trie, scan, masking | |
| `Framing` | wire frames and `FrameReader` | |
| `MiniJson` | objects and their text | |
| `Sha256` | the block layer of `sha256` | |
| `Log` | the file of the day | |
| `Bench` | the load generator | |
| `MC*` | nothing but constants and symmetry for TLC | |
| `*Proofs` | theorems | extend the module they are about |

Definitions named `Bug_...` are not part of any specification: each is a
plausible mistake in the definition that follows it, used to see that a property
notices.

### GroupCommit

A thread's `pc` names the place in `insert_*`/`enter_batch_locked`/
`finish_batch_locked` where it stands; a step is what a thread does between two
operations on SQLite or on the mutex, so that a crash or another thread can
come between any two. `mutex` and `asleep` are `m_` and the wait set of `cv_`;
a notified thread leaves `asleep` and competes for the mutex like any other.
`inTx`, `txPending`, `txGen`, `txOk` are the members of that name; the EMA of
the commit cost is the Boolean `costly` (at or above `kCommitCostlyNs`), which
any COMMIT may set either way. `sqlTx` is SQLite's own idea of being in a
transaction, which differs from `inTx` after a fatal error. `tentative` and
`durable` are the rows inside the open transaction and on disk. `Faults`
chooses which failures an instance contains. A crash keeps `durable` only.

An INSERT that succeeds is followed by a second statement, `last_insert_id`,
whose failure the code cannot tell from that of the first (`id < 0`, 329-330 and
353-354). The fault "id" is that failure: a starter rolls its batch back
(`StarterInsertFails`), while a joiner answers -1 with its row in the open batch
and a fallback with its row on disk (`IdUnread`). Three histories name why a call
that was told "failed" may have a row all the same: `late` (it read a later
batch's result), `unread` (its id could not be read) and `stray` (it inserted
under a batch whose transaction SQLite had dropped, hence in autocommit).
`MessageStore` calls the refusals of the first two unsure; the header of
`database.cpp`, lines 16 to 24, knows none.

Left out: reads (they wait for nobody), the text of the rows, and spurious
wake-ups, which re-test the same predicates as a notified thread.

### RoomRouter and Sessions

The router's methods are single steps, since each holds the router's mutex
throughout. `Sessions` has a `pc` for each connection thread: reading (`recv`),
inside a handler between two critical sections, closing, ended. `Drop` is
`dropConn`, the two halves of `kickConn` are separate steps because the lock is
released between them. A frame received by a connection that has been kicked in
the meantime is still processed, as in the code, where `recv` hands out what
had arrived before the shutdown. `authed` is looked at when a frame is
dispatched and not again. The monitor's scan picks any set of connections:
idleness and a full `outbuf` are not modelled, only what follows from them.

Abstractions: the proof in a LOGIN is right and a token does not expire
(`tokens` is the set of users with a valid one), both being `Challenge`'s; a
handler kicks at most one connection per frame (a broadcast that kicks several
is that step repeated); the rooms exist from the start (CREATE is in
`Startup`); frames sent to clients are not represented.

### Delivery

One sender with messages 1, 2, ..., each private to one receiver or for the
sender's room. `pend`/`attempts` is the client's pending store; `up` and `down`
are the bytes in flight on each connection of the sender. A broken connection
delivers some prefix of `up` to the server and nothing of `down` to the client.
Every connection has a handler (`pc`, `cur`, `tgt`), and the handler of a broken
connection goes on beside the one of the next. `window` is the deduplicator,
`stored` counts rows in `messages`, `offline` is a message's row in
`offline_messages`. The receiver has one connection at a time and its thread
runs `pushOffline`. An insert answers yes with a row, no without one
(`RouteRefused`) or, as `GroupCommit` shows to be possible, no with one
(`RouteDenied`); a yes is taken to be true, which it is but for the finding of
`stale_result`. `relayed` means that `sendRelay` took the message, that is,
wrote it or queued it; what happens between there and the client is
`SendQueue`'s.

The remaining history variables (`acked`, `refused`, `forgotten`, `caught`,
`unfiled`, `denied`) record what the properties speak about and guard nothing.

Left out: a takeover of the receiver, the order in which two offline rows are
pushed, and the two client threads' race on one pending item (a send is one
step).

### SendQueue

Everything that writes does so under `send_m`, so a send, a drain, a shutdown
and a close are one step each; what lies between them (a lookup in `conns_` and
the relay to what was found, `dropConn` and the shutdown of `kickConn`) is not.
A byte is named by its frame and its place in it. `Accepts` is the kernel: it
takes what fits its buffer and, if the client reads meanwhile, any amount more.
TLS adds what SSL_write has taken of a slice it will have to be given again
(`wpend`, `retry`) and that `outbuf` may have moved in the meantime (`moved`),
which the default OpenSSL mode may refuse. The notice goes to the socket past
the queue, and under TLS past the records, where the client takes it for a
broken stream. Over TCP it may stand in the middle of a frame that is partly
written, and the client's reader then takes its bytes for that frame's:
`StreamIsWhole` is about the bytes of `outbuf` and tolerates notices anywhere, so
it says nothing about this.

Left out: encryption itself, and other connections (a broadcast is one relay
for each).

### Challenge

Random strings are numbers never drawn before and hashes are terms, so that
equality of proofs is equality of what went into them. A client may answer any
challenge ever sent, with any password, in any frame on any connection.
`doRegister` is two steps, with the proof accepted between them and the row not
yet there; `create_user`'s UNIQUE decides. `sendChallenge` repeats an open
challenge without extending it. A restart keeps the users and nothing else.

### Startup

A step is a call that reaches the disk or the kernel, in the order of `main`,
`ChatServer::start` and `Database::open`; the process may be killed between any
two, the calls in `Faults` may fail, and an operator may lose or swap the pepper
file while the server is down. `CREATE` is three steps of a connection thread
(row, id, router), those of several users interleaved. `told` remembers whom
CREATE_OK was sent to. The accept loop, the monitor and the signal are there for
the way a process ends. The handler of the signal only clears `running_`, which
`start` sets after `startListen` (172-173): a signal between these two is lost in
the code, and `StopIsObeyed` speaks of signals that were heard.

### HistoryPaging

The table is in the order of ids and the time stamps are the senders'. A query
is a set of rows in the order of their ranks (`NewestFirst`), `Cut` takes the
page and says whether there is more, an oversized page is dropped. `dirty` rows
belong to an open batch and may roll back after they were read. The client keeps
what `chat_client_v4.py` keeps (`cur`, `cursor`, `busy`, `pos`); `view` is what
its user has been shown since the room was entered.

### Algorithms

Each is the code's computation, step for step where it keeps state between
calls, next to a property that says what it should be without saying how:
tokens granted against time passed, matches against all substrings, frames
handled against frames sent, text parsed against the object serialized, blocks
hashed against the padded message, lines against days, the report against the
messages that were sent in the window. Sizes are parameters (in the
runs, header bytes of one bit, blocks of four, numbers of eight bits); nothing
depends on their values, and the theorems about all but the JSON text hold for all.

The limiter takes any rate, burst and idle time, as `main.cpp` 52-59 does. A key
that `gc_locked` drops, because the table is full or because it was idle, comes
back with a fresh bucket; `early` counts the drops of keys whose bucket was not
full yet. With the defaults (50 tokens a second and a burst of 100, 20 and 40)
only a full table does that: a bucket refills within the 30 s of idling
(`IdleBucketsAreFull`). With `--msg-rate 1` the burst of 40 takes longer than 30 s
to earn, and every collection of an idle key gives tokens away.

The word list may hold any words (`load_file` takes every line). Two kinds of
words break what one would expect of masking, and `FilteredIsClean` says how far:
a word with a `*` in it may be put together by masking others (`f**k` and `uc` make
`f**k` of `fuck`), and a word that begins with the second half of a character, in a
list that is not UTF-8, cuts that character in two. Other words are never left
and never put together, whatever the rest of the list.

`Bench` also documents three things that a reader of its report should know:
acknowledgements that arrive in the tail of 1.5 s after the window count towards
the QPS, which is divided by the window alone; the CPU share is measured over
warm-up and tail as well; and a reading of `/proc` that fails counts as 0
(`bench_client.cpp` 70-74), so that a first reading that fails followed by a last
one that does not charges the server's whole life to the run (`missed`).

## 3. Runs

| Run | Question | Result |
|---|---|---|
| `group_commit_store` | Three message writers and one other thread, two calls each; BEGIN, statements and reads of the new id fail. Does success imply a row on disk? Does the protocol implement `MessageStore`? | holds |
| `group_commit_faults` | Two writers, one other thread; statements, reads of the id and COMMITs fail, SQLite rolls back by itself, one crash, fair threads. | holds |
| `stale_result` | One failing COMMIT, two writers, three calls. | `AckIsDurable` violated |
| `presence` | One user, two connections, two rooms, four frames, vanishing clients, monitor, fair threads. | holds |
| `messages` | A private and a room message, two sender connections, two receiver sessions, one retry, a window of one entry, all faults, one crash. | holds |
| `lost_retry` | A refused message, retried. | `AckMeansStored` violated |
| `send_queue` | Three frames below, at and above the limits, TCP and TLS, a relaying thread, the monitor, a client that stalls or leaves, fair threads. | holds |
| `auth` | Two connections, two names, two passwords, four random strings, four ticks, failing statements, one restart. | holds |
| `restart` | Two users, the lobby and a room, three processes, every failing call that ends a start, two peppers and a swapped one, fair main thread. | holds |
| `paging` | Two rooms, three rows in two seconds, one of them large, pages of two, three requests, broken connections. | holds |
| `enter_room` | One room, one row per page, two requests. | `EnteringShowsNewest` violated |
| `algorithms` | Each algorithm over all inputs of a small size. | holds |

What the passing runs say:

* `AckIsDurable`: a positive answer tells the truth. `FalseAckIsLate` is what
  remains of it when COMMIT can fail: the only false ones are those of joiners
  that wake after a later batch (see `stale_result`). `NackIsNotDurable`: a
  negative answer does, but for calls that are late, unread or stray. A sender
  who is told "failed" may therefore find its message in the history, and a
  retry under a new seq stores it twice.
* `OpenBatchHasOneStarter`, `BatchIsBounded`: no orphaned batch, no foreign row
  in one, and no row of a call that has ended but those whose id was not read.
* `EveryCallReturns`: nobody stays asleep on `cv_`, whatever fails.
* `KeepsStorePromise`: the refinement. `stored`, `accepted` and `refused` of
  `MessageStore` are `durable`, `acked` and `nacked`, and `unsure` are the
  refused rows that are late or unread. That a batch becomes durable as a whole
  is SQLite's COMMIT and is assumed, not checked.
* `RoomsAgree`, `OnlineIsAuthed`, `PresenceOutlivesOldConns`: the tables are
  consistent with each other, and a user's presence ends with its current
  connection and with no other.
* `SilentConnIsDropped`, `DroppedConnEnds`: vanished clients are cleaned up, and
  no thread is left reading a socket that no table mentions.
* `StoredOncePerWindow`: a message is stored at most once, plus once for every
  time the window lost it. `SlotMeansRouted`: a rejected frame leaves no trace
  in the window. `RowlessAckIsRepeat`: an ACK without a row has exactly one
  explanation, a repetition of a frame that was refused or is still in hand.
  `StoredIsRouted`: a stored private message is relayed, kept offline, was in
  hand during a crash or a failing `insert_offline`, or was refused to its sender
  all the same. `RetiredWasRelayed`: an offline
  row is retired only after a relay took it.
* `ReplacedIsBeingKicked`, `ReplacedConnEnds`: a connection that is served while
  its user is reached on another one has a takeover at work that will kick it, and
  its thread does end, even if the connection that took over is dropped meanwhile.
  Exempt are the connections in `overtaken`, replaced by a password login whose
  check came too early: those are never kicked, and stay beside the new one.
  `GhostsAreLateLogins`: a user is online on a dropped connection only after a
  login that was under way when it was dropped. Both exceptions are behaviours of
  the code, exhibited by the configurations below.
* `StreamIsWhole`, `NeverWritesClosedFd`, `QueueIsDrained`: what a client reads
  is what was sent, no number of a closed socket is written to, and queues end.
* `NonceVerifiesOnce`, `AcceptedAsIssued`, `OnePasswordPerName`,
  `TokensLiveTheirTime`: who is let in, by what, for how long.
* `RoomsSurvive`, `GatesAreExact`, `StopIsObeyed`: what a sequence of processes
  keeps, refuses and obeys. A pepper file cut short by a crash is the one state
  of its own that a start refuses.
* `PagesAreExact`: the log shown is a gapless piece of the room's history. That a
  client can go on paging is not promised: an oversized page, which the server
  drops silently, leaves `_hist_busy` set for good. The run contains such pages;
  the run `enter_room` shows a second way to lose a page and contains none.
* The seven of `algorithms` are described with their modules.

Several of these are conjunctions of named parts, each with its own mutants in
`PROJECT.json`.

### Findings

Three runs are expected to fail; each states what a comment or a document of the
repository says and shows a behaviour of the code that does otherwise.
`PROJECT.json` ("findings") has the lines. In short: the result of a batch is
read from a variable that the next batch overwrites; the window keeps the slot
of a message the server refused; a page still on its way to a client, or one
that never comes, swallows the request for the page of a room just entered.

Seven more configurations show further disagreements and can be run by hand.
Where the passing runs check a weaker property, it says what remains true.

| Configuration | Property | What it shows |
|---|---|---|
| `MCGroupCommit_wrap.cfg` | `AckIsDurable` | `tx_gen_` (an int) has wrapped: a starter with a negative generation returns before its COMMIT (`database.cpp` 166, 208) |
| `MCSessions_double_login.cfg` | `LoginRefusedWhenOnline` | two password logins pass the check of `online_` before either sets it (`server.cpp` 775-792), and nobody kicks the first; remains: `ReplacedIsBeingKicked` |
| `MCSessions_ghost.cfg` | `EndedConnIsOffline` | a login registers a connection that was dropped meanwhile (`server.cpp` 791); remains: `GhostsAreLateLogins` |
| `MCSessions_ghost_member.cfg` | `LoginFindsNoRoom` | a JOIN dispatched before its connection was dropped places an offline user (`server.cpp` 372, 842); remains: `RoomsAgree` |
| `MCDelivery_offline_row.cfg` | `AckMeansRouted` | a crash between the ACK and the offline row (`server.cpp` 1112, 1131); remains: `StoredIsRouted` |
| `MCSendQueue_idle_reader.cfg` | `OnlySlowClientsAreRefused` | a frame longer than the queue is refused with "read too slowly" on an idle connection (`server.cpp` 409-413, `PROTOCOL.md` 255); remains: `QueueIsDrained` |
| `MCStartup_pepper.cfg` | `ServedPepperIsStored` | the write of a new pepper is not checked (`pepper.h` 82, against its comment on line 46): users register with a pepper no file holds; remains: `GatesAreExact` |

### Bounds

* `KBatchMax = 2` and `KBatchNeed = 2` (32 and 4 in the code): a batch can be
  full with a starter and one joiner, so the third writer meets the limit, and
  the starter's window is reached. Two calls per thread let a thread meet a
  batch after the one it was in; three calls are needed for a joiner to sleep
  through a whole later batch when there are two writers, and three writers do
  it with two.
* `GenMax = 100` is never reached by the passing runs, which therefore say
  nothing about the wrap; `MCGroupCommit_wrap.cfg` uses 1.
* `MaxCrashes = 1`: the state after a crash differs from a fresh start only in
  what is on disk and in the callers' knowledge, and a second crash meets
  nothing new.
* `Sessions`: two connections of one user are a takeover; the frames bound (4)
  admits login, join, takeover and one frame on the replaced connection. Users
  are independent in this module, apart from kicks of other users'
  connections, which `Scan` covers.
* `Delivery`: one message of each kind; two connections for a retransmission
  that overtakes its handler; two receiver sessions for a push after an
  interrupted one; `MaxEntries = 1` fills the window with one message;
  `MaxAttempts = 1` reaches "failed" and the retry quickly.
* `SendQueue`: a cap of three and a kernel buffer of two with frames of 1, 2 and
  4 bytes, 4 being beyond `MaxBody`: queues below, at and over the cap, partial
  writes inside a frame, and a frame that is never queued. Three frames are two
  in the queue and one behind them.
* `Challenge`: two of everything is a race and a mix-up; four random strings are
  a registration, a login, a token and one more; the ttl of a challenge is two
  ticks so that it can be answered late, repeated and expire; a token book
  above `GcSize = 1` collects.
* `Startup`: three processes are one that dies, one that meets its remains and
  one more; two users race for one room.
* `HistoryPaging`: three rows make a second page, two seconds make rows that
  share a time stamp and rows that arrive before the cursor; three requests are
  a page, its successor and one after a change of room. Only one room is written
  to; the other is there to be entered with the first one's page on its way.
* `algorithms`: three keys in a table of two, with an idle time of two ticks, so
  that a key is dropped as idle both before and after its bucket is full; texts of
  up to three bytes over words that contain, begin and follow each other, with a
  character of two bytes, half of one, and a word with a `*`; bodies of up to three bytes against a limit of two; objects of two
  fields with every escape; messages of up to eight bytes, two blocks; two days
  and lines; three messages of two workers.

### Fairness

* `GroupCommit`: weak fairness of each thread's steps and of taking the mutex.
  Between arrivals no thread can take the mutex forever, since calls are
  finite, so weak fairness is enough and nothing is assumed about who gets it.
  Arrivals and crashes are not promised. A starter's time-out is part of its
  steps: `wait_for` ends.
* `Sessions`: weak fairness of the handlers of each connection, of reading end
  of file after a local shutdown, and of the monitor's steps; every scan that is
  due includes the connections whose clients have vanished, because their
  `last_active` no longer changes. Nothing is assumed about clients.
* `SendQueue`: the monitor's rounds, kicks that have begun, the end of a
  connection's thread once its socket is shut, and a client's reading unless it
  has stalled. No handler has to send again.
* `Startup`: the main thread and the monitor of a process that lives. Nobody has
  to connect, to signal or to start a server.
* The other modules have no liveness property: whether a message or a page
  arrives depends on clients that may never return.

Deadlock is checked in every run but `restart` and `algorithms`, where a process
may be down for good and an algorithm's input ends. `Done` and `Quiet` let the
other systems stop, but only in states where every thread is idle or waits for a
client.

## 4. Proofs

Proved by TLAPS for every value of the constants, by module (`GroupCommitProofs`
is about `GroupCommit`, and so on; `RoomRouter`'s theorem is in `SessionsProofs`):

| Theorem | Statement |
|---|---|
| **GroupCommit** `TypeCorrect` | `Spec => []TypeOK` |
| `BatchHasOneStarter` | `Spec /\ []NoWrap => []OpenBatchHasOneStarter` |
| `BatchesAreBounded` | `Spec /\ []NoWrap => []BatchIsBounded` |
| `FalseAcksAreLate` | `Spec /\ []NoWrap => []FalseAckIsLate` |
| `AcksAreDurable` | `NoCommitFaults`: `Spec /\ []NoWrap => []AckIsDurable` |
| `NacksAreNotDurable` | `Spec /\ []NoWrap => []NackIsNotDurable` |
| `StorePromiseIsKept` | `NoCommitFaults`: `Spec /\ []NoWrap => KeepsStorePromise`, the refinement of `MessageStore` |
| **RoomRouter** `RouterKeepsRoomsAgree` | `RouterSpec => []RoomsAgree` |
| **Sessions** `SessionsTypeCorrect` | `Spec => []TypeOK` |
| `RoomsAlwaysAgree` | `Spec => []RoomsAgree` |
| `OnlineUsersAreAuthed` | `Spec => []OnlineIsAuthed` |
| `PresenceIsKept` | `Spec => PresenceOutlivesOldConns` |
| `TakeoversKickTheReplaced` | `Spec => []ReplacedIsBeingKicked` |
| `GhostsCameLate` | `Spec => GhostsAreLateLogins` |
| **Challenge** `TypeCorrect` | `Spec => []TypeOK` |
| `NoncesVerifyOnce` | `Spec => []NonceVerifiesOnce` |
| `ProofsAreForTheirChallenge` | `Spec => []AcceptedAsIssued` |
| `NamesHaveOnePassword` | `Spec => []OnePasswordPerName` |
| `TokensLastTheirTime` | `Spec => TokensLiveTheirTime` |
| **Delivery** `TypeCorrect` | `Spec => []TypeOK` |
| `StoredOnce` | `Spec => []StoredOncePerWindow` |
| `SlotsAreRouted` | `Spec => []SlotMeansRouted` |
| `RowlessAcksAreRepeats` | `Spec => []RowlessAckIsRepeat` |
| `StoredMessagesAreRouted` | `Spec => []StoredIsRouted` |
| `RetiredRowsWereRelayed` | `Spec => []RetiredWasRelayed` |
| **SendQueue** `TypeCorrect` | `Spec => []TypeOK` |
| `StreamStaysWhole` | `Spec => []StreamIsWhole` |
| `ClosedFdIsLeftAlone` | `Spec => NeverWritesClosedFd` |
| **Startup** `TypeCorrect` | `Spec => []TypeOK` |
| `GatesHold` | `GatesAreRead`: `Spec => []GatesAreExact` |
| `CreatedRoomsSurvive` | `RoomsAreRead`: `Spec => []RoomsSurvive` |
| **HistoryPaging** `TypeCorrect` | `Spec => []TypeOK` |
| `PagesExact` | `Spec => []PagesAreExact` |
| **Algorithms** `RatesHold` | `LimiterSpec => []LimiterKeepsItsRates` |
| `IdleKeysLoseNothing` | `LimiterSpec => []IdleBucketsAreFull` |
| `LinesGoToTheirDay` | `LogSpec => []LinesAreInTheirDaysFile` |
| `FramesArriveAsSent` | `FramingSpec => []StreamIsFrames` |
| `DigestsAreOfMessages` | `ShaSpec => []DigestIsOfTheMessage` |
| `FilterFindsAndClears` | `FilterSpec => []FilterIsExact` |
| `ReportsAreTrue` | `BenchSpec => []ReportIsTrue` |

### Assumptions

The `ASSUME`s of the modules, which TLC evaluates in every run, and the
following hypotheses of single theorems. Each is needed by one of the theorems
that state it, at least: without it TLC finds the property violated.

* `NoWrap` (`txGen >= 0`: the generation has not overflowed);
  `MCGroupCommit_wrap.cfg` shows what happens otherwise.
* `NoCommitFaults` (no COMMIT fails, and SQLite rolls no transaction back by
  itself): otherwise a joiner may read the result of a later batch, which is the
  finding of `stale_result`.
* `GatesAreRead` (the reads of `schema_ver` and `pepper_id`, the count of
  users and the write of `pepper_id` do not fail) and `RoomsAreRead`
  (`list_rooms` and `find_room_id` do not fail): an error there is taken by the
  code for an empty answer. Adding any one of the six to the `Faults` of
  `MCStartup_restart.cfg` violates `GatesAreExact` or `RoomsSurvive`. Every other
  failure, and a kill between any two calls, is covered.
`IdleBucketsAreFull` carries its condition in itself,
`(IdleGc + 1 - 2 * Skew) * Rate >= Burst`: two callers may be late, the one that
was seen last and the one that collects. With `Rate = 1`, `Burst = 2`,
`IdleGc = 4` and `Skew = 2`, where one lateness would leave enough, TLC finds a
key dropped early. The instance of the run does not meet the condition, so that
early drops happen in it; TLC has checked the property with `IdleGc = 3`, and the
theorem is for every value. `RatesHold` does not use it.

### The arguments

**Group commit.** `AckIsDurable` is not inductive: it says nothing about the
threads that are about to be answered. `IInv` adds where every thread of a batch
can stand: the role that goes with each place (`LocalsInv`), who holds the mutex
(`MutexInv`), that the one starter belongs to the open batch (`StarterInv`),
that a joiner's generation is that of the open batch or of a closed one
(`JoinerInv`), that the members of the batch have their rows in SQLite's
transaction while there is one (`RowInv`), and that a joiner exactly one
generation behind reads a true `tx_ok_` (`ResultInv`). The last is the heart of
it: one generation behind, `tx_ok_` still belongs to the joiner's batch;
`FalseAckIsLate` allows an error only for those further behind. `AcksAreDurable`
adds `SureInv`: when nothing can roll a batch back after somebody has joined it,
a joiner left waiting has its row on disk, however late it wakes. `CallsInv`
says that rows and answers belong to calls that were made, and that a call in
progress is unanswered; on it rest `SizeInv` (whoever is counted by `tx_pending_`
and has not inserted leaves room for its row), `NackInv` (the mirror image of
`ResultInv` for a false `tx_ok_`: a row that may still be refused is not on disk,
or is stray) and the refinement, where every step is an
action of `MessageStore` or leaves its variables alone.

**Sessions.** `IInv` of `SessionsProofs` joins typing, the router's invariant,
`OnlineIsAuthed` and what the place of a thread says about its locals. The
decisive fact is that a connection is not authenticated while its thread
executes a LOGIN or AUTH, because no other thread authenticates it; so `SignOn`
never renames a connection that `online_` names. `DropKeeps` states once what
`dropConn` does and is used by kicks, the monitor and the end of a thread.
`PresenceIsKept` is an action property and follows from `IInv` by cases on the
action; so does `GhostsCameLate`, from `StepBringsOnline`, which says that a
connection gets into `online_` in its own LOGIN or AUTH and nowhere else.
`TakeoversKickTheReplaced` is an invariant of its own (`KickInv`): a drop replaces
nobody (`DropReplacesNone`), and a LOGIN or AUTH that replaces a connection either
holds it in `old`, to be kicked, or has overtaken it (`SignOnKick`).

**Challenges.** `ChallengeInv` has three parts: challenges that were sent have
nonces of their own and expire `ChalTtl` after they were first sent
(`IssuedInv`), an open one was sent on its connection and its nonce is in no
accepted proof (`OpenInv`), an accepted one was sent (`AcceptedInv`). For
`OnePasswordPerName`, `RowsInv` relates the rows in the table to the passwords
registered, and the salt of an open login challenge to its row; a registration
whose name was taken meanwhile fails on UNIQUE and changes neither.

**Delivery.** `IInv` says where a handler can stand with a message that has a
row (`HandInv`, `RoutedInv`), and is otherwise the properties themselves, which are
inductive together. `StoredOnce` counts: the rows of a message and the handlers
that hold its slot and have not inserted are never more than its slots, the
present one and those the window lost (`OnceInv`). The client may send what it
likes at any time: these proofs use nothing of its side. Its types need one
fact more, that the loop of `_flush_pending` makes a sequence of messages
(`FlushedIsASequence`).

**Send queue.** `GoodQueue` ties the bytes SSL_write owes to `outbuf` and to
TLS. Every way to move bytes (`Pour`, the two drains, a notice, a client that
reads) is shown to leave `Stream` as it was, or to put a notice between what is
written and what waits, or, for a send, a whole frame at its end
(`PlainDrainsKeep`, `TlsDrainsKeep`, `NoticeIsBetween`, `FrameIsBehind`).
`StreamIsWhole` is stated by what the stream contains and in which order, not
by a fold over the frames, so that each of these is a fact about positions.

**Start-up.** Typing says which parts of the process exist at which call of
`start` (`ProcessInv`). `GateInv` is what the gates rely on: a version mark
stands for rows of one pepper, the one in `pepper_id`, from the moment the mark
is written to the moment the binding is; and what does not fit was put there by
somebody else (`strange`) or is a file cut short. `RoomInv` follows a CREATE
through its three critical sections (`HasItsRow`), interleaved with those of
others and cut off by the end of the process.

**Paging.** The properties themselves say nothing of pages on their way, which
were cut from a table that may have changed since, for a room that may have been
left. `PagingInv` follows them: frames arrive in order, so a page belongs to the
room in which the frames before it leave the client (`LeadsTo`, `RoomsAgree`);
there is one request or page at a time (`OneAtATime`), so nothing is shown between
a request and its page, whose rows therefore lead up to the oldest row shown, or
to where the page was cut (`AskedAbove`, `SentAbove`). A rollback only takes rows
out of `base`. Under it lie facts about one query: rows with different ids have
every rank once (`EveryRankIsTaken`), so `ORDER BY` lists them all, newest first
(`NewestFirstSorts`), and a page is good in itself and ends where its cursor is
(`PageIsGood`). TLC checks `PagingInv` on the `paging` instance and on one with
four rows and pages of one.

**Limiter and log.** `LimiterInv` gives every key a credit (`Credit`): its burst
once, once more for each time it was dropped before its bucket was full, and its
rate since the start, to which a late caller adds no more than `Skew` at each such
drop. Tokens granted and tokens left never exceed it; a key that was dropped with
a full bucket takes nothing with its new one. A bucket is never refilled later
than `Skew` after the key was seen, from which `IdleKeysLoseNothing` follows.
The table stays bounded because an eviction drops at least the least of more than
one key (`FirstHalfIsSome`, from the least-number principle, which the library
states for sets of numbers). `LogInv` says that the open file is that of
`open_date`.

**Framing.** As long as the reader has not failed, its buffer and the wire
together are the frames of the bodies that are not yet handled, one behind the
other: `Frames` gives each its offset, so that a chunk that arrives changes
nothing and a frame that is taken moves the offsets (`StreamInv`). That a header is
read as the number it was written from is arithmetic on quotients and remainders
(`HighIsSmaller`, `HeaderIsRead`). `WaitInv` says that a reader that waits lacks
bytes of the first frame; when the wire is empty, there can be no such frame.

**SHA-256.** A context holds a message (`Holds`): the full blocks and the partial
one are its bytes, in order, and the length is that of the blocks. One byte keeps
this (`AbsorbHolds`), hence any update does (`AbsorbAllHolds`), hence `final`,
which only absorbs more bytes, pads the message once (`FinalPads`); that the zeros
are the fewest is `GapFills`, for any size of block and length field.

**Word filter.** A trie is described by the bytes that lead to each node
(`Paths`): different nodes, different bytes, and every text that leads anywhere
is found there; `Marks` says which of them are words. Adding a word keeps both, one
byte at a time (`NewNode`, `DescendGoesOn`, `GrowReaches`, `MarkHolds`). The inner
loop of the scan stands where the bytes read so far lead, with the longest word
among their beginnings (`FollowGoesOn`), and the outer one adds one match in front
of those found behind it (`ExactAdds`, `ExactSkips`). For masking, `Mapped` tells
of every byte of the result where it stood in the text, and that two which did not
stand beside each other have a `*` between them: a word without a `*` in the result
would therefore have stood in the text, outside every match, which the scan does not
allow (`LeftWordsAreMasked`, `FilterLeavesNoWord`).

**Load generator.** `Accounted` says of one connection that its counters are those
of the messages of the window: sent, answered by ACK, answered by NACK, with what
is pending the rest of them, and one sample to each ACK. It is inductive only with
`Unanswered`: the answers still to come are to different messages that have no
answer yet, so that none is counted twice and one of the warm-up is never pending.
When every thread is done, the loop over the threads adds up what is accounted
for (`SizesAddUp`, `RestsAddUp`, `LengthsAddUp`). A sorting permutation exists for
every list of numbers (`OrderExists`), and the two sorted samples between which a
percentile lies have the other samples on their sides (`RanksAreHeld`).
`CpuCounted` says that the first reading, if it did not miss a server that was up,
is not from before the start.

**Induction over data.** The library's rules of induction cannot be used by the
installed provers, since they take a predicate. `NumbersInduction` states the rule
for a set of numbers instead, from the least-number principle, and `LoopExists`
derives from it that a recursive function over a range is defined by its
equations. All loops of the models that theorems are about are such functions.

### Only model-checked

* Liveness under fairness: `EveryCallReturns`, `SilentConnIsDropped`,
  `ReplacedConnEnds`, `DroppedConnEnds`, `QueueIsDrained`, `StopIsObeyed`. The prover has no rule for
  `WF_` and `ENABLED`.
* `TextIsTheFrame`: the text of a frame and its parser are `RECURSIVE` operators
  over nested values, with which `tlapm` has no SMT backend.
* The three properties of the expected violations.

## 5. Plan

Done: every component of section 1 that keeps state, apart from what section 6
lists, and the safety properties of all modules with more than one actor. Proved:
all safety properties of the passing runs but the one about the JSON text.

What would come next: the JSON text as functions over positions, so that writing
and reading a string could be proved to be inverse.

## 6. Not modelled

Legacy servers and clients, the Python benchmarks, tests and build files: they
are archived or documentation. The GUI and the console of the client: they show
what the engine reports. The compression function of SHA-256, HMAC's pads and
PBKDF2's rounds, and what OpenSSL and SQLite do inside: arithmetic and libraries
without state of this program; `Challenge` and `Sha256` say what is relied on.
Command line, name and content checks that refuse a frame before any state
changes, and the wording of notices. In the client, the race of two threads on
one pending item and the end of authentication after E1004. Handler threads that
outlive `run()`: what they touch then is undefined in the code, and the process
is about to end.
