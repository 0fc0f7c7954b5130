# TLA+ verification of Velta

Velta is a chat client: a vendored Delta Chat core (`src/core`), a JavaScript
user interface (`src/app`) and a Tauri shell (`src/velta-app/src-tauri`). The
shell is the program's own code. It adds a peer-to-peer engine for chats inside
one LAN (`p2p.rs`, `p2p/groups.rs`), messages that are sent later
(`scheduled*.rs`), and the encryption of the core's databases (`db_key.rs`).
These are the parts with state, concurrency and failures of their own, and the
ones modelled here.

Paths below are relative to `src/velta-app/src-tauri/src/` unless they start
with `src/`.

## 1. Inventory

| Component | State it keeps | Operations | Interacts with |
|---|---|---|---|
| group records (`p2p/groups.rs`) | `GroupState` (roster signed by the creator), `GroupRec` (roster, `next_seq`, `have`, `sent_cursor`, `state_cursor`, `removed`, `pending_leave`, `hidden`), `groups.json`, one message log per group | `validate`, `evaluate_incoming`, `GroupRec::new`, `load_groups`, `save_groups`, `append_log`, `read_log`, `scan_log` | called by the group protocol under the engine lock |
| group protocol (`p2p.rs`, 2360-3330) | `Inner::groups`, `GroupRt` (`links`, `gone`, `gap_sent`, `caps`) | `group_create/add/remove/rename/disband/leave/delete/send`; the handlers of `GroupState`, `GroupSync`, `GroupMsg`, `GroupAck`, `GroupLeave`, `GroupGone`; `pump`, `announce_state`, `after_state_applied` | frames on sessions; `groups.json`; the log |
| sessions (`p2p.rs`, 1200-1540, 1806-1885) | `Peer::live`, `Peer::connecting`, one task per session | `trigger_connect`, `connect_and_serve`, `handle_incoming`, `register_live`, `session_task`, `remove_live`, `rebuild_introduced`, `gc_introduced`, `maintenance_loop` | carries all frames; opens with `group_session_open` and `flush_queue` |
| 1:1 chat (`p2p.rs`, 913-970, 1234-1278, 1574-1639) | `Peer::queued`, `Peer::msgs`, a JSONL file per peer | `send`, `flush_queue`, `Msg`, `Ack`, `persist_messages`, `collapse_history`, `remove_peer` | sessions |
| file transfer (`p2p.rs`, 976-1073, 1640-1774, 3400-3930) | `rx_files`, `group_xfers`, credits of a session | `send_file`, `group_send_file`, `group_file_retry`, `stream_group_file`; `FileBegin/Chunk/End`, `GroupFile*` | sessions, histories, groups |
| pairing (`p2p.rs`, 797-909, 1806-1943, 2046-2062) | token, `pair_requests`, `peers.json`, the prompt of the page | `create_invite`, `accept_invite`, `pair_nearby`, `handle_incoming`, `approve_pair`, `add_peer`, `remove_peer` | turns a node into a `Peer` |
| engine lifecycle (`p2p.rs`, 4217-4335) | `P2pState`, the page's preference | `p2p_set_enabled`, `spawn_startup`, `close` | everything above |
| scheduled messages (`scheduled.rs`, `scheduled_store.rs`, `src/app/js/scheduled.js`, `ScheduledAlarm.kt`) | `scheduled.json`, the running pass, Android's alarm | `add`, `update`, `remove`, `claim`, `done`, `fail`, `recover`; a pass of the sender; `rearm` | the core's `send_msg` |
| database key (`db_key.rs`, `lib.rs`) | `dc.db`, `plain.bak` and `enc` of every account, the keychain item, the PIN and Hello wraps | `startup`, `decide_key`, `prepare`, `migrate`, `pin_set/clear/unlock`, `hello_set/clear/unlock`, `lock_now` | the core, started with or without the key |
| others | sidecar supervision, transports, proxies, uploads, webxdc | see `PROJECT.json` | mostly independent of the above |

Hard behaviours: a device can have several sessions with one peer at a time,
and what is not a reply goes to the first registered one whether or not its
far end still exists; a roster change makes every cached "in step" stale; the
log is written before the counters are saved, and 1:1 rows after the lock is
released; any session can end with frames in it; frames above a rate limit
vanish; a session outlives the peer that was removed; an approval races the
timeouts of both ends; an engine starts in the background while it is turned
off again; a request to the core is given up and accepted later; a process ends
between two renames, or between the two copies of a key.

What makes the components correct:

* records: newer epoch wins, a device that is out stays out until a newer
  roster lists it, start-up never reuses a number;
* group protocol: what a device holds of an author is a prefix of what the
  author wrote; a delivered tick is true; members out of the roster get no
  messages; messages and rosters arrive in the end; a leave gets through; a
  deleted chat stays deleted;
* 1:1 chat: between a tick and the row on the other disk is at most one append,
  a text that waits survives a restart, and only the end of a session loses one;
* files: credits are conserved, inbound slots come back, no transfer is stuck;
* pairing: nobody is paired without consent, and nobody is told so before it is
  saved; handshakes end;
* scheduled: one message per decision of the user, and no item that goes
  without one;
* database key: one key, never without a copy, and no row lost on the way.

`PROJECT.json` lists every component, and under `hazards` the places where
the code is exposed to what a test would hardly reach.

## 2. Modules

| Module | Models | Instance | Proofs |
|---|---|---|---|
| `Groups` | `p2p/groups.rs`: roster, record, verdict on a received roster, repair of the counters from the log. Pure operators. | | |
| `GroupMesh` | the group protocol on top of sessions: all state, one action per operation or handler | `MCGroupMesh` | `GroupMeshProofs`, `GroupRosterProofs` |
| `GroupFeed` | the abstract specification of the mesh: per author a feed that others take over one by one, and acknowledgements that never run ahead | | |
| `DirectChat` | 1:1 texts of one device to another, with the locks and file writes of both as steps | `MCDirectChat` | `DirectChatProofs` |
| `FileTransfer` | files of one device to another, 1:1 and group, over several sessions | `MCFileTransfer` | `FileTransferProofs` |
| `EngineLifecycle` | turning the engine on and off | in `Pairing` | in `PairingProofs` |
| `Pairing` | handshakes, prompt and `peers.json`, composed with `EngineLifecycle`: every engine a job starts has a memory of its own | `MCPairing` | `PairingProofs` |
| `Scheduled` | the store, a pass of the sender, the core, the alarm | `MCScheduled` | `ScheduledProofs` |
| `DatabaseKey` | key, migration and locks of the desktop | `MCDatabaseKey` | `DatabaseKeyProofs` |

The modules of the engine are separate because the parts share only sessions
and the engine lock: a text, a file and a group frame do not touch each other's
state. Each has the sessions it needs, at the grain its own races need.

### GroupMesh

`GroupMesh` composes three parts of the code that share the engine lock:
records (`rec`, `disk`, `log`), delivery state (`links`, `gone`, `gap_sent`)
and sessions (`handle`, `task`, `phase`, `chan`). Each action is one critical
section of `Inner`'s mutex with everything it writes to channels and files.
`born` and `signed` are history variables for two properties, `used` counts
the bounds.

* `rec[n]` is `Inner::groups[gid]` of device `n`, with `known = FALSE` for "no
  entry"; `disk[n]` is the entry of `groups.json`. An empty map entry of
  `have`, `sent_cursor` or `state_cursor` is 0, as the code reads it.
* `log[n][a]` holds the lines of author `a`. `log[n][a][s]` is the identity of
  the message stored as number `s`, or 0. Identities count per author in
  `born`, independently of `next_seq`, so that a reused number is visible.
* `links[n][m]` with epoch 0 is "no entry": epochs start at 1.
* A session `l = <<p, q, i>>` was dialled by `p`. `task[l]` are the ends whose
  `session_task` runs, `handle[n][l]` is the position in `Peer::live`, so that
  `v2_tx` is "the smallest". `phase` is idle, dialing (`connecting` is set),
  ring (the dialler is up, the other side has not accepted), up.
* `chan[l][n]` is the FIFO stream of frames towards `n`. The sender's mpsc
  channel and the QUIC stream are one queue. What is written to a session
  whose far end is over is lost, as is what a task had not read when it ends.

The actions have the names of the operations and handlers; `RecvUnregistered`
is a frame on a session whose handle was dropped, `RateLimit` a frame above
`GROUP_FRAMES_PER_SEC`; `Dial`, `Connect`, `Accept`, `Break`, `Notice`,
`Restart` are the life of sessions and processes. `SaveRoster` and
`SaveCounters` are the two ways the code treats a failed write of
`groups.json`: a roster operation returns the error with the memory already
changed and nothing announced; a counter save warns and goes on. A failed
counter save followed by a restart is also the crash between "line written"
and "saved".

Abstractions: one group (groups share sessions and introduced peers and nothing
else); every device speaks protocol 2; names, addresses, texts, timestamps,
system lines, typing hints, size limits and UI events are left out; a signature
is the fact that only the creator's actions build rosters; the creator is
paired with everyone it can invite, as `group_create` and `group_add` demand,
and `remove_peer` is in `DirectChat` and `Pairing` only. Other pairings may be
one-sided. In the code both sides of a pair dial, at start-up and while the
other is offline; `Reach` says which directions get through on the network at
hand (a firewall or an address that is not known stops one of them). With both
directions in `Reach` two sessions of a pair can overlap. The size limits left
out include `MAX_GROUP_MEMBERS` of `validate`. `Accept` checks and registers an
incoming session in one step; the code awaits the opening frame between the
two. Saves inside `group_delete` and `purge_group` do not fail. A failed append
of a received message returns without any change, which is what `RateLimit`
does to the frame. The `connecting` flag of a peer that is dropped and
introduced again during one attempt is not reset.

### DirectChat

Texts of "a" to "b"; the other direction is its mirror image. `out`, `queued`
and `rows` are a's memory and file, `got` and `inrow` b's. `send` writes its
row after the lock (`Send`, then `SaveRow`); a session task that came up
flushes (`FlushQueue`) and then writes (`WriteRows`); a received text passes
four steps of b's task (`RecvMsg`, `StoreMsg`, `WriteIn`, `SendAck`).
`RemovePeer` drops the peer and its handles while the session tasks, which own
a sender of their own, go on; the file goes later (`Unlink`). A restart reads
the file back with `CollapseHistory` and `QueuedFrom`. Texts do not depend on
each other, so lanes are sets and a text may overtake another. `stored`, `lost`
and `cut` are history variables; `cut` has the texts that were in b's memory
and not yet in its file when its process ended. Row appends and the save of
`peers.json` in `remove_peer` do not fail.

### FileTransfer

Files of "a" to "b". `queue` is the channel of a's session task and `wire` the
stream, `xfer` is `MemberXfer` of member b, `stream[i][t]` the task of the t-th
attempt, `rx` is `rx_files` of b in chunks received. The failure path has the
steps of the code: the stream judges whether its attempt is still the current
one, then sets the state, then cancels; the session task finds what it was
sending and fails it one by one; the receiver notes that the peer is offline
under the lock and drops partials after it. A file has `Chunks` chunks, and
may be empty. A file that cannot be created and a chunk that cannot be decoded
or written are faults. Contents, names, sizes in bytes and the second limit,
`MAX_INBOUND_FILES_TOTAL` over all peers, are left out. Of several sessions a
file takes the one with the smallest number, in the code the one registered
first.

### EngineLifecycle and Pairing

A call of `p2p_set_enabled` and the engine it starts are one job. `flag` and
`slot` are `P2pState`, `pref` the page's `localStorage`. `spawn_startup` looks
at the flag, starts the engine, looks again and publishes it: four steps. A
page that is loaded again calls it once more. `Pairing` adds to each job the
memory of its engine (`token`, `listed`, `requests`) and the handshakes, each a
record with the state of both ends. `approved` and `saved` are history
variables. `create_invite` is one step, although it awaits the engine's address
before it stores the token: until then the old token is the current one and
nobody knows the new. Left out: introduced peers (in `GroupMesh`), beacons, the
session that follows a `Welcome`, and removals by the joining device.

### Scheduled

One module for both senders: `run_due` of the shell (Android) and
`ScheduledRunner` of the page (desktop). An item keeps for each of its times
whether it has come; `rev` counts the user's edits, so that "once per decision"
can be stated. `Start` is recover and the list of due items, which are copies;
`Claim` decides on the file and sends the copy's text. The core's `send_msg`
(`src/core/src/chat.rs`) accepts or rejects a request, also after the pass gave
it up. Every operation reads the file first; a file that cannot be read or
parsed is an empty document, and an operation that changes something writes
that back (`Read`, `Emptied`; `unread` remembers the items lost so). `owed` is
a write whose `rearm` has not happened; `kt` is the receiver's own reading of
the file.

### DatabaseKey

Desktop. A database is missing, empty, plain or encrypted with a key, and holds
rows; `own` tells the account's database from a new one in its place. `prepare`
is a step per file operation and account; each can fail (`MaxFaults`) and the
process can end between any two (`MaxCrashes`). `op` is a running command with
the key it holds. A wrap is written in place, so a write that fails or that the
process ends in leaves an unreadable one (`Torn`); a directory that cannot be
listed has no databases (`ListFails`), and the counter of wrong PINs is a
rewrite of the wrap (`CounterFails`). `truth` is what the user knows of an
account, `harm` records the five events after which the code promises less: a
fresh database in the place of a missing one, a rollback to a backup, the only
copy of the key lost with a wrap, a reset of the keychain, and a second key
made while the accounts directory could not be read. The commands that set and
clear a lock are taken in a session that has its databases open, where the page
offers them; the commands themselves do not look. Left out: Android's key
store, wal and shm files, the backoff of wrong PINs, partial export files, what
a core without a key would write while `unlock` prepares, and a failed removal
of an unreadable database.

## 3. Runs

`CHECK_DEADLOCK FALSE` throughout: with every bound used up and everything
delivered the modelled system really has nothing left to do (the pings and
timers that go on forever carry no state).

| Run | Instance | Checks |
|---|---|---|
| `pair_trouble` | 2 devices, 2 messages of the creator, leave, 2 session slots, 1 broken session, 1 restart, 1 dropped frame, 1 failed save of a roster or of the counters; 200k states | `TypeOK`, `PrefixLog`, `AckSound`, and that the mesh implements `GroupFeed` (`FeedSpec`) |
| `pair_live` | 2 devices that both dial, 2 messages of the member, window 1, leave, 1 restart of either, fair; 44k states | `Delivery`, `Convergence`, `LeaveIsHeard` |
| `mesh` | 3 devices, one direction of each pair reachable; n2 and n3 half paired: n2 lists n3, n3 knows n2 from the roster only; a removal racing a message, fair; 24k states | `NoLeak`, `Convergence` |
| `pair_delete` | 2 devices, every roster operation, leave, delete, 1 restart, up to epoch 4; 392k states | `StubIsEmpty`, `OutStaysOut` |
| `direct` | 1 text, both devices dial, 1 break or failed attempt, 2 restarts of either or both, removal by either, fair; 672k states | `TypeOK`, `AckDurable`, `QueueDurable`, `SentIsAccounted`, `Arrives` |
| `media` | 1 direct and 1 group file of 1 chunk, 1 credit, 1 inbound slot, 2 sessions, 2 attempts, 1 fault; 1.2M states | `TypeOK`, `CreditsKept`, `SlotsFreed`, `SendingIsOwned` |
| `pairing` | 1 joiner with 2 attempts, 1 invitation, 2 calls of the toggle, 1 trouble, fair; 216k states | `TypeOK`, `PairedByConsent`, `WelcomeIsSaved`, `RequestReachable`, `HandshakesEnd` |
| `sched_live` | 1 item, 2 edits, both shells, page open, 1 crash, 1 failed write or unreadable file, fair; 244k states | `TypeOK`, `NoDoubleSend`, `NothingLost`, `SendingEnds`, `DueIsTakenUp` |
| `sched_early` | 1 item, 1 edit, no trouble | `StaysUntilDue`, violated |
| `db_key` | 2 accounts, 1 row, 2 keys, both locks, 2 crashes, 2 faults; 2.8M states | `TypeOK`, `OneKey`, `KeyKept`, `DataKept`, `NotStranded` |
| `db_outage` | 1 account, 1 fault | `NothingLost`, violated |
| `late_roster` | 3 devices all paired, 1 message, no trouble, fair | `Delivery`, violated |

Bounds. Two devices are enough for everything between an author and one member,
because a member's counters for one author depend on no third device; three are
needed where a member learns of another through the creator. Two messages make
a gap, a duplicate and a full window of one; two slots make two simultaneous
sessions, of which one may be dead; one break, restart, drop or fault each
makes every pair of them happen in every order. `MaxEpoch` bounds what the user
edits; a leave is always processed, so epochs go one or two further. In `mesh`
the half-paired devices (a late approval pairs one side only, see below) show
both kinds of session end at once: n3 drops its handle when the roster that
introduced n2 is gone, n2 keeps its own. In `pair_live` each side has one
session to dial, so that two can overlap, and a restart makes the dead one that
`v2_tx` still prefers. In `direct` one text suffices, because texts share
nothing but the sessions; each device dials one session, so two can be up, and
two restarts are enough for both devices to lose their memory. In `media` one
credit and one chunk make the stream wait for the session task, one slot makes
the two files compete, two sessions make a retry overlap the attempt before it;
the empty file is covered by the theorem (section 4), which is about any number
of chunks. In `pairing` two attempts make a device replace its own request, two
jobs make one engine race another. In `db_key` two accounts make a migration
that succeeds for one and fails for the other, two keys make a second one
possible.

Symmetry is not used: devices differ (creator, dialler, author) in every
instance, and the liveness runs would not allow it.

Fairness is weak fairness of what is a task or a timer of its own in the code,
per session, end, attempt or item. LAN engine: `maintenance_loop` redials
offline peers forever, an attempt ends by success or `CONNECT_TIMEOUT` and is
tried again, `accept_loop` and the `session_task`s only wait for input, a dead
far end is noticed by the connection's idle timeout at the latest. Pairing:
every wait of a handshake has a timeout at both ends. Scheduled: the clock, the
page's interval timer and its resume (`start` and visibility), a pass whose
request is given up after a minute, the receiver's thread. Only `AlarmFires`
has strong fairness: an alarm that is set again and again fires in the end, as
Android promises; the page's timer covers a lost one. Nothing is assumed of
users, failures or the core's answers; failures are finite by their bounds, so
the liveness properties say what happens once the trouble is over.

`Delivery`, `Convergence` and `LeaveIsHeard` have a condition besides: from some
moment without a session on, the sessions of the pair do not overlap
(`Orderly`). The code does not guarantee it. Both sides dial, and two sessions
that live side by side disturb each other: an opening sync older than a rename
puts the link back (`p2p.rs:3011`), and what is not a reply goes to the handle
registered first, even when its far end is gone (`p2p.rs:485`), so that a roster
or a leave is lost and not repeated while the newer session lives. `pair_live`
contains overlapping sessions; it claims of them only what holds once they are
over. In `mesh` sessions cannot overlap, because one direction of each pair
is open. `DueIsTakenUp` is claimed with the page open: the alarm alone can be
lost (below).

### Violations found

Each of these three runs checks one property, stated from a comment or document
of the repository, and TLC finds a behaviour of the code that breaks it. The
findings in `PROJECT.json` quote the lines.

* `db_outage`: a database was migrated and its backup is still there (the next
  start would remove it). At this start the keychain cannot be reached, so
  there is no key, the database opens neither way, and `prepare` takes it for
  the remains of an interrupted swap: it removes it and puts the plaintext
  backup in its place. What was stored since the migration is gone.
* `sched_early`: a pass has listed a due item, the user moves it to a later
  time, and the pass claims it by its id. The core gets the old text before the
  new time, and the edited item is done with.
* `late_roster`: the opening sync of n3 reaches n2 before the roster does. n2
  answers `GroupGone` and records nothing. When the roster comes n2 syncs, n3
  records n2 and pumps, but does not restate its own epoch; n2 considers n3 out
  of step and its messages do not reach n3 while the session lives.

The following were met while modelling; each is a behaviour of the models that
the checked properties are worded around, or of the code outside them.

Groups: removed, deleted, added again, a fresh record starts at number 1 and
the duplicate is acknowledged unstored (`p2p/groups.rs:230`). Two failed saves
and a restart leave a record that start-up does not repair, and its number is
used again (`p2p.rs:667`). The answer to a leave is lost: retries are ignored,
because the sender is no longer in the roster, and `pending_leave` stays set
(`p2p.rs:3123`, against the comment at 2636), with it the stub of a deleted
chat. Both sides dial at once: an opening sync older than a rename
puts the link back, and the roster sent in answer is stale to the peer
(`p2p.rs:3011`). A peer restarted: its new session is registered behind the
dead one, which keeps taking what is not a reply (`p2p.rs:485`). The frame
dropped by the rate limit is the last one, so nothing reveals the gap
(`p2p.rs:1498`). After a failed roster save and a restart the creator signs two
rosters with one epoch (`p2p.rs:2533`). Dropping a `Peer` does not end its
sessions, as the comment at `p2p.rs:2214` says: the task owns a sender of its
own channel. The liveness properties are therefore claimed for sessions that do
not overlap, without dropped frames, and `Delivery` among three devices is the
violated one.

1:1 chat: a text from a peer that was removed is acknowledged unstored
(`p2p.rs:1603`); rows can be written out of order, so that "states only move
forward" (`p2p.rs:4178`) is not true of the file and a text is sent again after
a restart (`p2p.rs:960`); the duplicate check and the push are two locks, so
both copies can be stored, and a copy is acknowledged on the strength of the
memory, before its row is written (`p2p.rs:1604`): when the reader's process
ends in that append, the author shows a tick for a text the reader never sees
again (`cut` in `AckDurable`). `QueueDurable` is one-directional for the file:
a text whose row "sent" was not written yet is read back as queued.

Files: a 1:1 partial is never dropped when its session dies and holds one of
three slots until the process restarts (`remove_live` drops group partials
only; `src/docs/agents/p2p.md:120` says "the engine discards bad partials"). A
late `group_files_failed` overwrites the state of a retry (`p2p.rs:3728`). The
End frame that cancels an attempt makes a complete file of one whose chunks
were all there (`p2p.rs:3665`) and marks a running retry as done
(`p2p.rs:3706`). An empty group file asks for no credit, so an attempt that
begins on a failing session reports nothing and stays in "sending"
(`p2p.rs:3613`). The limit on inbound transfers is checked and used under two
locks (`p2p.rs:3791`): with several sessions it is exceeded by one each. No
property states it.

Pairing and engine: a late approval pairs one side only, whatever the comment
at `p2p.rs:2048` says, and the Hello of a half-paired device is refused from
then on (`p2p.rs:1857`). "further requests wait" (`src/app/js/p2p.js:89`): they
are dropped. A reload of the page starts a second engine and the first is never
closed (`p2p.rs:4292`); the user's answer goes to the engine in the slot, so a
handshake of the other one times out. A call that turns the engine off between
the second look at the flag and the slot leaves it running (`p2p.rs:4287`,
against `src/docs/agents/p2p.md:32`), and on-off-on can end with the flag set
and no engine, when off takes the one just published (`p2p.rs:4328`): the flag
and the slot agree in neither direction, and no property says so. Handshakes of
a closed engine go on and rewrite `peers.json`.

Scheduled: the claim of an edited item (`scheduled.rs:170`, above) also loses
the edit: the old text is sent and the item is done. A `scheduled.json` that
cannot be read or parsed counts as empty, and the next operation writes that
back (`scheduled.rs:57`): every item is lost. The receiver's rearm can cancel an
alarm that the shell has just set (`ScheduledAlarm.kt:154`); with the page
closed the item then waits for the next start.

Database key: every use of the PIN rewrites `dbkey.wrap` in place, and a crash
in the write loses the only copy of the key (`db_key.rs:615`); so does a failed
read-back in `pin_set` (`db_key.rs:708`). A first `pin_set` whose write fails
leaves a wrap that cannot be read and that the next start counts as a lock
(`db_key.rs:553`): the key is in the keychain and nobody looks there. A
directory that cannot be listed counts as "no encrypted database", so that with
an empty keychain a second key is made (`db_key.rs:168`). A locked start-up
skips `prepare`, so the core creates a fresh database in the place of one that a
swap left missing, and the next migration overwrites the backup
(`db_key.rs:342`). A backup stays for good once rows were deleted
(`db_key.rs:217`), so a later rollback can go back far. `hello_clear` with a
damaged PIN file leaves no root (`db_key.rs:885`).

## 4. Proofs

Seven modules hold theorems. Each proves an invariant inductive, with one lemma
or step per action, and derives the properties from it. The invariants were
checked with TLC on the instances of section 3 or smaller ones first.

| Module | Theorem | Statement |
|---|---|---|
| `GroupMeshProofs` | `Invariant` | `IInv` always holds (A) |
| | `LogsArePrefixes` | `PrefixLog` always holds (A) |
| | `AcksAreSound` | `AckSound` always holds (A) |
| | `ImplementsFeed` | the mesh implements `GroupFeed` (A) |
| `GroupRosterProofs` | `RosterInvariant`, `TypeCorrect` | `RosterInv`, `TypeOK` always hold (B) |
| | `NothingLeaks` | `NoLeak` always holds (B) |
| | `StubsStayEmpty` | `StubIsEmpty` always holds (B) |
| | `OutIsOut` | every step satisfies `OutStaysOut` (B) |
| `DirectChatProofs` | `Invariant`, `TypeCorrect` | `IInv`, `TypeOK` always hold |
| | `QueueSurvives` | `QueueDurable` always holds |
| | `SentIsAccountedFor` | `SentIsAccounted` always holds |
| | `AckIsDurable` | `AckDurable` always holds |
| `FileTransferProofs` | `Invariant`, `TypeCorrect` | `IInv`, `TypeOK` always hold |
| | `CreditsAreKept` | `CreditsKept` always holds |
| | `SlotsAreFreed` | `SlotsFreed` always holds |
| | `SendingHasOwner` | `SendingIsOwned` always holds |
| `PairingProofs` | `Invariant`, `TypeCorrect` | `IInv`, `TypeOK` always hold |
| | `ConsentIsGiven` | `PairedByConsent` always holds |
| | `WelcomeFollowsFile` | `WelcomeIsSaved` always holds |
| | `AnswerArrives` | `RequestReachable` always holds |
| `ScheduledProofs` | `Invariant`, `TypeCorrect` | `IInv`, `TypeOK` always hold |
| | `SentAtMostOnce` | `NoDoubleSend` always holds |
| | `NoItemIsLost` | `NothingLost` always holds |
| `DatabaseKeyProofs` | `Invariant`, `TypeCorrect` | `IInv`, `TypeOK` always hold |
| | `KeysNeverMix` | `OneKey` always holds |
| | `KeyIsKept` | `KeyKept` always holds |
| | `FilesInvariant` | `WholeInv`, `MidwayInv`, `Counted` and `NotStranded` always hold |
| | `RowsAreKept` | `DataKept` always holds |
| | `NeverStranded` | `NotStranded` always holds |

All assume the named `ASSUME`s of the module they are about. These say that
bounds are numbers, that sets are subsets, in `GroupMesh` that the creator and
its invitees list each other, and in `FileTransfer` that credits, slots and
attempts are at least one, as the constants of the code are; a file may have no
chunks. Bounds may be of any size. What else is assumed:

* (A) `Undisturbed`: no chat is deleted and no save of a roster fails;
* (B) `RostersSaved`: no save of a roster fails.

Both are needed; the sections below say why.

### GroupMesh: messages

For any set of devices, pairing, dialling order, window, number of sessions and
any number of breaks, restarts, dropped frames and failed counter saves, under
`Undisturbed`. A member that deletes the chat and joins again starts at number
1, and a record that is not in `groups.json` is not repaired (section 3).

`PrefixLog` alone is not inductive: a message in flight could carry anything.
So `IInv` adds

* `LogsCounted`: a device's own log is exactly as long as `next_seq` says, its
  copy of another's exactly as long as `have` says, and both agree;
* `CountersBehind`: `sent_cursor` of the author is at most `have` of the
  member, and the range of the counters;
* `DiskBehind`: the counters of `groups.json` are at most those in memory,
  and the file knows the group exactly when the memory does; with
  `LogsCounted` this makes the repair at start-up restore the very counters
  (lemmas `LogMaxCount`, `RepairFacts`), up to forgotten acknowledgements;
* `LanesSound`: every frame in flight is one its writer could write now: a
  message as it is in the writer's log, a `have` no larger than the writer's.
  Since logs only grow and `have` only rises, what was sound when written
  stays sound; this is what makes duplicates, several sessions, reordering
  between them and stale frames harmless for safety;
* `NothingUnknown`, `NoStub`: a device without a record has counted nothing.

Channels are handled once, in lemmas about `Sends`, `Reply`, `Taken` and
`PumpFrames` (`LanesSends`, `LanesReply`, `LanesTaken`, `SoundPump`).
`ImplementsFeed` follows step by step: `GroupSend` is `Say`, an accepted
`RecvMsg` is `Store`, `RecvSync` and `RecvAck` are `Learn` or stutter,
`Restart` is `Forget` or a stutter, the rest stutters.

### GroupMesh: rosters

As above, and with chats that are left, deleted and joined again, but not when
a roster is not saved: a creator that restarts without its last roster signs
the same epoch a second time, with another set of members. Deletions rule out
`LogsCounted` across devices, so `RosterInv` speaks of one device at a time
(`DeviceOK`) and of the frames in flight:

* `Saved`: the entry of `groups.json` agrees with the memory in everything but
  the counters, so a restart neither forgets a leave nor brings a device back
  (`OutStaysOut`, `StubIsEmpty`);
* `Bounded`, `Counts`: the file's counters are at most the memory's, and the
  log has exactly the lines they count, none without a record or behind a stub;
* `CreatorFirst`: no signed roster is newer than the creator's own, so that its
  next epoch is new and no frame makes it take over another roster;
* `Rightful`, `LanesIn`: a message in a log or in a lane belongs to a reader
  who was in a signed roster at least as new as the epoch it was written under.
  `pump` writes to the members of the writer's roster only, and a writer's own
  messages are no newer than its roster; `signed` only grows, so what is
  rightful stays so, through sessions, stale frames and duplicates.

### DirectChat

For any texts, sessions, breaks and restarts, with removals by either device.

* `QueueDurable` needs to know who else may write a row: while a text is queued,
  every row on its way to the file says so (`QueueRows`), and no session that
  this run of the author reads carries the text (`QueueQuiet`). Earlier sessions
  may carry it; their end at the author is gone.
* `SentIsAccounted` must also hold of what the next start will read, so
  `SentRows` covers the memory, the rows still to be appended and those in the
  file. `StoredFirst` says that the reader acknowledges what it put into its
  history.
* `AckDurable` is proved from `Durable`: what a knows as delivered, in memory,
  in a row or in an answer on its way (`Told`), is in b's file or in the hands
  of a task that is about to append it (`Kept`), or b's process ended under that
  task (`cut`). A second session answers for a copy in b's memory before its row
  is there (`p2p.rs:1604`), so the append under way cannot be left out of the
  statement, and a restart of b at that moment is what `cut` records.

### FileTransfer

For any transfers, chunks, credits, limits, sessions, attempts and faults.

* Credits and the group chunks on the channel add up in every state of a
  session (`CreditsAll`), not only while it is up.
* A transfer that is sending has an owner that depends on the state of its
  session (`Owner`): on a session that is up, its End is queued or an attempt
  still reports; on one that fails, the session's list has it, or the attempt
  began too late to be found, is stopped at its first chunk and reports by
  itself; on one that is over, an attempt reports. This case split is what the
  three locks of the failure path leave open. With no chunks there is no first
  chunk to stop at: `SendingIsOwned` names the case, and the proof shows that it
  is the only one.

### Pairing and EngineLifecycle

For any devices, attempts, invitations, engines, reloads, restarts and failed
writes. A handshake belongs to an engine that has begun, and such an engine
does not start again (`Placed`, `ShellStepKeeps`), so nothing wipes the
requests of one that waits. Tokens only move forward: one that was not the
current one when the device connected never becomes it (`StaleStays`), so what
passes the comparison, possibly later, was fresh. Whatever reaches `add_peer`
has one of the two consents (`Consenting`); the Welcome is written in a state
where the file has been (`SavedFirst`).

### Scheduled

For any items, shells, edits, crashes, failed writes and unreadable files.
`NoDoubleSend` counts what the core has taken and says nothing of a request
that it may still take. `IInv` adds that there is at most one request per
revision, taken or on its way (`OneRequest`), that an item whose present
revision was requested cannot be claimed (`Spent`), that nothing exists of
later revisions (`NoFuture`), that the item of a running pass stays as it was
claimed or is gone with an unreadable file (`Held`), and that the core's answer
is true (`FailureIsSure`, `SuccessIsSure`). The argument is in `Recovered` and
`Failed`: whenever the outcome is not sure, the uncertain flag keeps the item
unclaimable, and only an edit, a new decision, clears it. `NothingLost` is a
conjunct of the invariant: `done` removes an item only after an answer that is
true.

### DatabaseKey

For any accounts, rows, locks, crashes and faults. `OneKey` is about `dc.db`
only; a second key could come from a root. `LastKey` says that everything that
is encrypted, stored or held is so under the last key made, and no key is made
while an older one is in use: a new key needs an empty keychain, no wrap and no
encrypted database, and an export under way exists only while the process runs
(`OffHoldsNothing`). It holds as long as no key was made in a directory that
could not be listed. `KeyKept` is proved by `Custody`: the last key is in the
keychain or in a wrap (`Kept`), because a command that removes one copy has left
another one, and knows which (`OpHolds`). Which of the copies the next start
looks at follows from the wraps that are there. A failed or torn write is a
harm only when it hits the only copy.

The rows need a second invariant. `DataKept` says that an account's rows are in
`dc.db` or in the backup the next start goes back to; `Whole` adds that the
account's own database is up to date and that a plaintext one is the account's
own, which is what makes it safe to remove a backup. Between the renames of
`migrate` the rows are in one file only, and `Midway` says which, and that the
export is a copy of what it will replace. `NotStranded` follows from `Counted`:
what `prepare` counts of the databases it is done with stays true while it
works on the others, in a pass that could list them.

### Only model-checked

Liveness (`Delivery`, `Convergence`, `LeaveIsHeard`, `Arrives`,
`HandshakesEnd`, `SendingEnds`, `DueIsTakenUp`): fairness is
outside what the prover does. Every safety property of a passing run is stated
by a theorem. Model-checked without its assumption is only what `pair_trouble`
adds: one failed save of a roster, with one restart, does not break
`PrefixLog`, `AckSound` or `FeedSpec`; two would (section 3).

## 5. Not modelled, and the plan

Not modelled and not planned: the vendored core (upstream code, by far the
largest part of the repository; the models use it as a service that opens
databases and takes messages), the views of the user interface, platform glue,
the DNS tunnel, and pure I/O (`PROJECT.json` gives the reason for each). The
map therefore covers a small share of the repository: the state machines of the
shell.

Planned, in this order:

1. Proofs: `PrefixLog` and `AckSound` with at most one failed roster save, which
   so far only TLC checks; `TypeOK` of the mesh without `RostersSaved`; the
   abstract specification of a scheduled message (one decision, one message),
   implemented by `Scheduled`.
2. `GroupStore` and `GroupLog`: the `MAX_GROUPS` cap at load against hidden
   stubs, torn lines and the repair from an unreadable log.
3. The byte stream under a session, and the backpressure of two peers that
   both write.
4. Supervision of the sidecar, and the WebSocket transport.
