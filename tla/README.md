# telegram-cli in TLA+

`tg` is a command-line client of Telegram. Every command works on one *account
slot* of the disk, either directly (it opens an MTProto session itself) or
through the *daemon*: a worker per account that keeps a session open, answers
requests of commands on a unix socket and streams updates to them. These modules
model the parts of the program where several goroutines, processes or crashes
meet: the daemon, its clients, the account slots on disk, the repeated send; and
every command of the tree, as the sequence of its checks, questions and
requests. TLC checks them on small instances. Every safety property that a run
finds to hold is also proved with TLAPS, for every size; liveness is
model-checked only.

Paths are relative to `src/internal/`.

## 1. The system

| Component | Code | State | Operations and interactions |
|---|---|---|---|
| Update filters | telegram/watch.go, telegram/messages.go | none | accept an update by kind and peer, locally (`acceptKind`, `acceptPeer`) and in the daemon (`matches`) |
| Subscription fanout | daemon/subscription.go, server.go, worker.go | the manager's map and ids, per subscription a channel and a drop counter, per connection its set of subscriptions | Subscribe, Unsubscribe, Publish (pump), one streamer per subscription, closeAll, shutdown |
| Watch command | cli/watch, action/watch | the query, the events channel, the limit | local path over a session, or subscribe and read frames of the daemon |
| Updates sink | daemon/worker.go | `updates.ndjson`, `updates.ndjson.1`, the size counter | Write, rotate, open; called by the pump before Publish |
| IPC client | daemon/client.go, runtime/daemon_client.go | pending calls, Events, closed | Dial with Hello, Call, readLoop, Close |
| Daemon socket file | daemon/server.go, client.go, runtime/daemon_client.go | the socket path, the listener | Listen, Close; probe, dial and the choice of path by commands |
| RPC handlers, metrics | daemon/handlers.go, metrics.go | counters per method | one handler per method, run in a goroutine each; the operation the command would run itself |
| Worker log rotation | daemon/logrotate.go | `worker.log`, its backups | rotate at start |
| Service managers | daemon/systemd.go, launchd.go, windows.go, cli/daemon | units of the host | install, start, stop, uninstall, status |
| Account store | account/ | a directory per slot: `account.json`, session, peer cache, recents | Add, Remove, Rename, SetState, atomic writes under a flock held for one write |
| Login, logout, session state | action/auth, authflow, telegram/session, cli/auth | NEW, AUTHED, EXPIRED in `account.json`; the session file | Login, QR login, Run with the flip to EXPIRED, Logout, purge |
| Flood wait | telegram/session/floodwait.go | none between calls | wait and repeat, up to a cap per wait |
| Config file | config, action/config, cli/config | `config.toml` | load and merge, read-modify-write setters, edit and validate |
| Gates and routing | cli/root, command, runtime, program | the selected account | preconditions of commands, daemon or local path, exit codes |
| Message sending | telegram/message_ops.go, action/message, cli/msg, cli/reply | random ids | send, edit, forward, delete, media, retry with the same random ids |
| Peer resolution | telegram/peer, ref | peer cache | parse a reference, resolve, recover a cold peer |
| Chats and members | telegram/chat*.go and neighbours, action/chat, cli/chat, cli/channel | none | validated single requests, pagination |
| Sessions, password, profile, contacts | action/session, password, profile, contact, me | none | validated requests; revoke other sessions after a confirmation |
| Search, inbox, digest, completion | action/search, cli/search, inbox, digest, complete | none | pages of results, filtered |
| Output, prompts, logging | output, ui, logging | none | rendering |

How they meet. A command passes the gates of `cli/root`, picks an account, and
probes the account's socket. If a daemon answers Hello within three seconds the
command sends requests on the connection and reads events from it; otherwise it
opens its own session. In the daemon, Telegram's dispatcher puts events on a
channel; the *pump* takes each, writes it to the sink, and publishes it to every
subscription it matches; a *streamer* per subscription writes it to the client's
socket. All processes of an account share the slot's directory.

### What is hard, and what makes each part correct

`PROJECT.json` lists the hazards, each at its line. In short:

* **Fanout.** Publish sends on channels that other goroutines close; a full
  channel drops and counts; responses and stream frames are written by different
  goroutines; clients may never read. Correct: no send on a closed channel; no
  subscription without a connection that will unregister it; the response comes
  before the stream; each event is delivered or reported lost, and the reports
  come in time; shutdown and disconnection end everything.
* **Watch.** Two implementations of one filter. Correct: the same events on both.
* **Sink.** Kills and failures between remove, rename and open. Correct: the two
  files always hold the last events, within the limit, and nothing is published
  that was not written.
* **IPC client.** Close is run by the reader and by the command; the answer may
  arrive after the caller gave up, the connection may be lost after the request
  was sent. Correct: an answer goes to its call, an operation is not carried out
  twice, the reader never stops for one call, events keep their order, calls and
  the dial end.
* **Socket.** Stat, remove and bind are three steps; sockets outlive killed
  workers; a worker may be there and not answer in time. Correct: a worker can
  start after a crash and be reached; a command passes a worker that serves only
  after it gave up waiting for it, and says so.
* **Account store and session state.** Reads of `account.json` are outside the
  lock under which it is written; rename, purge and rollback meet commands and
  daemons that loaded the slot before; logout has three steps any of which may
  fail or be the last; a removal may stop part way; a login signs in before it
  marks the slot. Correct: each slot names itself, a session the server honours can
  be used or revoked, EXPIRED means a session that is dead.
* **Sending.** A script repeats a send whose answer it did not get; the
  middleware repeats a call that floods; an expired reference makes the builder
  send twice. Correct: one message per key and item, success means stored,
  refusal means not stored.
* **Commands.** Ninety-four commands run their requests here or in the daemon,
  some ask first, several make more than one change. Correct: nothing changes
  before the question is answered, nothing runs on both paths, and an exit code
  that says "correct it and run again" is true.
* **Config, rights, log rotation.** Unlocked read-modify-write of a file or of
  rights on the server, a renamed log that is still written to: listed, mostly
  accepted by the code's own comments, and not modelled.

## 2. The modules

| Module | Models | Composes |
|---|---|---|
| `WatchFilter` | the filters and the peer a row is attributed to, as operators | |
| `LossyFeed` | abstract: what one subscription promises its client | |
| `SubscriptionFanout` | manager, connections, streamers, pump, shutdown | extends `WatchFilter`; implements `LossyFeed` |
| `SubscriptionFanoutProofs` | its theorems | extends `SubscriptionFanout`, TLAPS |
| `MCSubscriptionFanout` | small sets of events and filters, symmetry | |
| `WatchPaths`, `MCWatchPaths` | one query on both paths, fed the same updates | extends `WatchFilter` |
| `WatchPathsProofs` | its theorems | extends `WatchPaths`, TLAPS |
| `TailedLog` | abstract: the log that the file and its backup are together to whoever tails them | |
| `UpdatesSink` | the pump, the two files, failures, kills and restarts | implements `TailedLog` |
| `UpdatesSinkProofs` | its theorems | extends `UpdatesSink`, TLAPS |
| `RemoteCalls` | abstract: what a command may rely on when it hands operations to the daemon | |
| `IpcClient` | one connection: dial, calls, reader, Close, the daemon's end | implements `RemoteCalls` |
| `IpcClientProofs` | its theorems | extends `IpcClient`, TLAPS |
| `DaemonSocket` | workers and commands around the socket path | |
| `DaemonSocketProofs` | its theorems | extends `DaemonSocket`, TLAPS |
| `AccountSlots` | two processes on the slots of the disk: login, logout, purge, rename, switch, use; kills, calls that fail, requests nobody hears of, removals that stop part way | |
| `AccountSlotsProofs` | its theorems | extends `AccountSlots`, TLAPS |
| `MessageSend` | one send that a script repeats: ids, floods, references, lost answers, deduplication | |
| `MessageSendProofs` | its theorems | extends `MessageSend`, TLAPS |
| `CommandSteps` | the vocabulary of commands: a command is a sequence of steps | |
| `ChatOps`, `MessageOps`, `AccountOps` | internal/telegram: the requests of each operation | extend one another |
| `ChatCommands`, `MessageCommands`, `AccountCommands` | internal/action and internal/cli: the commands around the operations | extend one another |
| `DaemonHandlers` | the daemon's methods | extends the commands |
| `CommandPromise` | abstract: what a run of any command promises the script that calls it | |
| `CommandRun` | one run of any command on either path: gates, dial, requests, exit code | extends `DaemonHandlers`; implements `CommandPromise` |
| `CommandRunProofs` | its theorems | extends `CommandRun`, TLAPS |

### State and actions against the code

`PROJECT.json` maps each definition to its lines. The principles:

* **`SubscriptionFanout`.** A step ends where another goroutine can see the
  difference: a lock, a channel or the socket. The RWMutex is the predicate
  `Unlocked`: Publish holds the read lock from `PublishBegin` to `PublishEnd`,
  and everything else that touches the map is one step that needs the write
  lock. `pc[c]` is where the handler of connection `c` is (waiting for a request,
  replying, closing a channel, closing all); `stream[s]` is where the streamer of
  `s` is (`handle*` of server.go, `streamSubscription`). An unsubscription is two
  steps, out of the map and then closing the channel, as in the code.
  `ResetDropped` is the atomic swap. Events are followed per subscription by
  their number among the events that matched it, which is all the promise is
  about. A request may name a subscription of another connection, as the code
  allows. A write to a socket blocks for as long as the client does not read.
* **`WatchPaths`.** The local channel blocks the dispatcher, the daemon's drops.
  An update is a record with its kind, conversation, author and rows.
* **`UpdatesSink`.** A file is a sequence of pieces of size 1. Every system call
  of `Write` and `rotateLocked` is a step, may fail, and may be the last before a
  kill. A failed write may leave part of a line, and the next line continues it.
* **`IpcClient`.** Close is four steps (flag, connection, pending, Events) that
  two goroutines may be running, guarded by the same `closeAt`, as by `sync.Once`. A nil map and
  closed channels panic in the model too. With `SharedClient` calls, reading and Close have goroutines of
  their own, which is what the type's comments offer; without, one goroutine does
  all, which is what the commands do. Commands subscribe last. The socket holds
  `WireCap` frames.
* **`DaemonSocket`.** A bind makes a new socket file; a closed listener removes
  the *path*, whoever's file is there, and Close removes it again; so does Listen
  when the mode of the new file cannot be set. Time is a choice: a command may
  give up on a worker at the probe, the dial or Hello (`GiveUp`: 200 ms at
  client.go:76, three seconds at client.go:115, or another schema), whether or
  not that worker would have answered, and is then in `late`. `excused` are the
  commands during whose choice there was, at some moment, no worker that served,
  or more than one process. `overlap` is TRUE from the start of a worker that
  finds another until one starts that finds none: the service manager does not
  do this, `tg daemon run` may. A Stat that fails for another reason than absence is not modelled.

* **`AccountSlots`.** A process takes a step per system call another process can
  see. `AtomicWrite` is `Lock` (make the directory, open and lock
  `account.lock`) and `Put`; `proc[p].w` says where the command goes on when it
  succeeds or fails. Any call may fail (`Fails`, `PutFails`) and any request may stay
  without an answer (`NoLine`); where the code ignores an error (the rollbacks of
  AddAccount and RenameAccount, the session file of a logout without a session) the
  command goes on. A removal that fails or is killed leaves what it had not come
  to (`Remains`). Commands work with the Meta they loaded at their start, as
  in the code. The lock belongs to the file, so it moves with a renamed
  directory. `killed`, `failed` and `raced` remember what was killed, where a call
  failed and which classes of commands overlapped, because the properties say
  which disturbances break a slot and which do not. Three classes are told apart:
  logins, removals (purge, rename), others. `unsure` are the sessions of logins
  that ended after the server had signed them in and before the slot was marked
  AUTHED, for whatever reason: nothing on disk tells them from dead ones.
* **`MessageSend`.** A random id is a key and a position. Without a key each run
  has ids of its own. The server is `Accept`, `Refuse` and `Lose`; it keeps a
  message unless it has the id. `FloodWaits` repeats the encoded request, ids
  included; `Refresh` goes back to `Draw`, which reads the next id of the same
  reader. The daemon's flood settings are its own.
* **Commands as data.** A function of internal/telegram or internal/action is a
  sequence of steps (`Get`, `Put`, `Check`, `Ask`, `Save`, ...), its callers
  append theirs, and what a branch or a loop does is `Either`, `Maybe`, `Each`.
  `CommandRun` gives each kind of step its meaning once: who runs it (`at`), what
  can go wrong, what error and so what exit code it ends with. So the shape of a
  command is one line next to its Go function, and the hazards of all of them
  are checked in one run. Values of flags, rows and titles are left out: a check
  of the input passes or fails. A loop runs up to twice. `auth` commands that
  change a slot are in `AccountSlots`, `watch` in `WatchPaths`.

### Seeded faults

A definition under a comment `Fault:` is not part of any specification. It is
the definition that follows it with a bug this code could have had (a lock not
taken, a counter not reset, a step skipped), kept so that each property can be
seen to fail: replacing the one by the other makes TLC report the property that
`PROJECT.json` names under "mutants".

## 3. The runs

| Run | Instance | Shows |
|---|---|---|
| `fanout_connections` | 2 connections, 2 subscriptions, 1 event, channel of 1, symmetric | `Lifecycle`, `NoSendOnClosed`, `ResponseFirst`, `NoOrphan` while connections subscribe, unsubscribe each other's subscriptions, leave and are shut down |
| `fanout_lag` | 1 connection, 1 subscription, 4 events of two kinds, 2 filters, channel of 1 | `TypeOK`, `FeedInv`, `Accounting`, `DropHasCarrier`, `CleanEnd`, `ImplementsLossyFeed`; and `LagSurfaces`, `ShutdownDrains`, `DisconnectCleansUp` under fairness |
| `watch_paths` | 3 updates, queries with and without a limit, channels of 1 and 2 | `LocalShowsAll`, `SameWhenUnauthored` |
| `updates_sink` | 5 events, files of 2, 2 failures, 3 runs | `Retention`, `ImplementsTailedLog`, `SizeBound`, `QueuedIsPublished` |
| `updates_sink_rotation` | 1 failure | violates `RotationKeepsLoop` |
| `ipc_client` | 2 callers, 2 calls, 2 updates, Events of 1, 1 frame in flight | `AnswerIsOwn`, `ImplementsRemoteCalls`, `ReaderNeverStuck`, `EventsInOrder`, `CallsEndWithConnection`, `DialSettles` |
| `ipc_client_closed` | 1 caller, as the commands use it | violates `InFlightCallReturns` |
| `daemon_socket` | 2 workers, 2 commands, 4 binds, kills anywhere | `ServingReachable`, `RestartsAfterCrash`, `FallbackHasCause` while commands may give up on any worker |
| `command_run` | every command, every state of the slot, the server's errors flood and usage | `ConfirmedFirst`, `OnceAcrossPaths`, `RefusalChangesNothing`, `ImplementsPromise` |
| `account_slots` | 2 processes, 2 names, 3 commands, 2 sessions, 1 mishap (a kill, a failing call or an unheard request), symmetric | `SlotsWhole`, `NoSessionLost`, `ExpiredIsDead`, `LiveIsUsable` |
| `message_send` | 6 kinds of message, 3 runs, 2 floods of up to 2 seconds, 2 losses, every flood policy on either path | `OncePerKey`, `SuccessIsStored`, `RefusalStoresNothing` |
| `message_send_key` | 1 run | violates `WireIdIsKey` |

**Why the bounds are enough.** Two connections and two subscriptions give every
pair of roles: the owner, a stranger that unsubscribes its id, a subscription
being closed while another is published to. A channel of 1 with 4 events
overflows, is drained and overflows again, with one event in the streamer's
hand; a lag frame can be reported, pending and growing at the same time. Two
failures and three runs give a failure in a rotation, a restart on what it left,
and a failure in the next. A channel of one and one frame in flight make every
send of the client's reader and of the daemon able to block. Four binds are two
replacements of each worker. In `account_slots` two commands overlap and a third
finds what they left; one mishap hits every step, including those of the
overlapping commands. (`Relevant` cuts off what follows a mishap in a history that
is not orderly, of which no property of the module says anything again.) Three runs of a send are a first one, one whose answer was
lost, and one after it; two items make an album and a forward of several. Two
floods are one that is waited for and one that is too long. In `command_run` the
two errors stand for all that `MapExitCode` tells apart on the wire: one that is
mapped to an exit code which allows a retry, and one that is not; the errors a
function singles out are in its own steps. Safety does not rest on the bounds of
the state machines: it is proved for all of them (section 4), counters of
events, calls, binds, runs and mishaps included. What stays bounded there is the
shape of the model itself: the command tree with its loops of up to two rounds,
and the six kinds of message.

**Where runs may stop.** `CHECK_DEADLOCK FALSE` is in every configuration:
each system ends (the daemon shuts down, a command returns, the bounds are
used up, the script has what it wanted). That nothing waits for ever is what the
liveness properties say.

**Fairness.** Only goroutines of the program are fair, never a client, the
user, the network or the disk.
* Weak fairness for steps of runnable goroutines, and for writes to a socket
  whose peer has closed it: such a write returns an error.
* Strong fairness in three places: for the writers of the RWMutex (Go blocks new
  readers once a writer waits, so the pump cannot starve them), for the pump's
  select on a cancelled context (a select with two ready cases picks at random),
  and for the scanner of a connection that closed (what it has buffered runs
  out). The last assumes that the handler of a request it has read returns; for a
  subscription by reference that includes a request to Telegram
  (daemon/server.go:404), which has no timeout of its own.
* `ReadingClients` (a client reads, so its writes return) is a hypothesis inside
  `LagSurfaces` only: without it no overflow can be reported, and the
  shutdown has to work without it.
* In `IpcClient` nothing obliges the daemon to answer, the user to interrupt or
  the command to finish: `CallsEndWithConnection` says that calls end *if* the
  connection does, `DialSettles` that the dial ends, by its timer if need be. In
  `UpdatesSink` only the pump is fair.

## 4. What is proved

Every safety property of a passing run is a theorem, for all values of the
constants; four of them are refinements, of `LossyFeed`, `TailedLog`,
`RemoteCalls` and `CommandPromise`. Each proof follows one pattern: type correctness; an inductive
invariant that says, for each program point, what holds there and why (TLC
checked each of them before it was proved); the property read off it. The
assumptions on constants are named in the modules and evaluated by TLC on every
run: bounds are numbers, capacities positive, markers such as "none" are no
processes or names. Two say more, `TreeAssumption` and `PushedAssumption`, and
are discussed at their module.

**`SubscriptionFanoutProofs`** (`FanoutAssumption`)

| Theorem | States |
|---|---|
| `TypeCorrect` | `Spec => []TypeOK`; no channel outgrows its capacity |
| `LifecycleHolds` | map, subscriptions, streamers and connections agree at each program point |
| `NoPanic` | Publish never sends on a closed channel |
| `NoSubscriptionOrphaned` | a registered subscription has a connection that will unregister it |
| `ResponseBeforeStream` | nothing of a subscription precedes its response |
| `FeedCorrect` | `Spec => []FeedInv` |
| `NothingUnaccounted` | each event that matched is delivered, reported, queued, in hand or counted, once |
| `NoStrandedDrop` | a counted drop has an event behind it that makes the streamer report it |
| `CleanEndHolds` | a stream ended by its channel has reported the fate of every event |
| `FanoutIsLossyFeed` | the fanout implements `LossyFeed` |

The argument has two layers. `NoSendOnClosed` is not inductive: it needs to know
that what Publish still has to visit is in the map, that what is in the map is
not closed, and that a handler that is about to close a channel has taken it out
of the map. `Lifecycle` says this and, for each program point of a handler, what
it holds; with `TypeOK` it is inductive (`Life`). The second layer, `FeedInv`,
is inductive on top of `Life`: the accounting identity; the queue's events are
increasing and later than what the streamer holds and what the client saw last;
the gap before the event in hand is covered by what was reported or is about to
be. The step simulation of `LossyFeed` reads off it: `WriteLag` is `Tell`,
`WriteUpdate` is `Show`, `PublishSend` is `Match`, everything else stutters
(lemmas `LagTells` and `UpdateShows`).

**`AccountSlotsProofs`** (`SlotsAssumption`)

| Theorem | States |
|---|---|
| `SlotsTypeCorrect` | `Spec => []TypeOK`, with `Course`: where each command can be and what it knows there |
| `LiveUsable` | `LiveIsUsable`: a live session lies beside an `account.json` |
| `SlotsStayWhole` | `SlotsWhole`: once all is quiet, every slot names itself unless a command was killed or a removal failed part way, and the default is a slot |
| `SessionsPlaced` | `NoSessionLost`: once all is quiet, every session of `Sure` is in a slot |
| `ExpiredIsOver` | `ExpiredIsDead`: once all is quiet, a slot marked NEW or EXPIRED has none |

Each property holds only under a condition on what was disturbed, and a state in
the middle of a disturbed run satisfies hardly anything. So each invariant has
the form "condition => facts", and the conditions are such that once one is
false it stays false:
* `Noted`: commands that run at the same time have been recorded in `raced`.
  From it, a removal under `Orderly` is alone (lemma `Alone`).
* `Minted`: no key is newer than the counter, so a fresh key is no slot's.
* `Orderly` is what all four share: no removal overlapped another command, no
  rename stopped half way or failed to move the directory back, no logout went on
  without removing the session file, and no call failed while a login overlapped.
* `Orderly => Kept`. The core is `Owns`: what a command has loaded stays true
  from one of its system calls to the next, although it holds no lock between
  them. It names the slot as long as nobody renames, its `account.json` stays as
  long as nobody removes, the file it writes is still in a directory, a moved
  directory is where the rename put it. `Fresh` adds that a login that makes a
  slot has the directory to itself, so that its rollback removes nobody else's.
  `LiveUsable` follows.
* `Unbroken => Begun`: a directory without `account.json` has a login that is
  making it, or undoing it. `Steady => Pointed`: `default_account` names no slot
  only while a removal is about to clear or move it, and the removal works with
  the value as it is. With `Kept` they give `SlotsStayWhole`.
* `Apart => Sound`, where `Apart` is `Orderly` with no login overlapped, for the
  sessions (`Sure`: those the server honours, without `unsure`): what a command is about to do with one
  (`Minds`: the session in its hand is its slot's, and a slot it is about to mark
  NEW or EXPIRED has none that the server honours); the login that will mark a
  slot AUTHED is under way (`Waking`); each session is in one slot and in one
  command's hands. This gives the last two.

Facts about a command are operators on its record, the directories and the
sessions, so that a step of another command keeps them as long as it keeps what
they read.

**`MessageSendProofs`** (`SendAssumption`)

| Theorem | States |
|---|---|
| `SameIdsCorrect` | `Spec => []SameIds` |
| `SentOnce` | a script that repeats a send with its key stores each item at most once |
| `RefusalIsClean` | a run that was told no has stored nothing |
| `SuccessIsComplete` | a run that succeeds leaves every item stored |

`OncePerKey` counts copies, which no step preserves by itself. `SameIds` says
why there is one: with a key and no refreshed reference, what is stored and what
is in flight has for each item the id of its position, so two stored messages of
one item are equal (`OneAtMost`). The keystone is that a reader is used up after
`Items` ids: a second `Draw` happens only through `Refresh`. `RanEnds` relates
what a run stored to where it is: nothing before an `Accept`, and after one only
the answer "stored" or an unknown end. `IdsNameItems` says that ids and items
determine each other, so a message the server drops as a duplicate is the item
itself; that gives `SuccessIsComplete` also for the runs that stored nothing new.

**`CommandRunProofs`** (`TreeAssumption`, `RpcErrorsAssumption`)

| Theorem | States |
|---|---|
| `RunKeepsPromise` | `ImplementsPromise`: every run of every command is a run of `CommandPromise` |
| `ErrorFinal` | `ErrorIsFinal`: after an exit code other than "lost" nothing changes |
| `OnePathOnly` | `OnceAcrossPaths`: no change both here and in the daemon |
| `RefusedUnchanged` | `RefusalChangesNothing`: "correct it and run again" means nothing was changed |
| `AgreedFirst` | `ConfirmedFirst`: a destructive command changes nothing before it is agreed to |

`ErrorFinal` looks at no script: whoever has reported an error has stopped. The
three after it are a static analysis of the scripts and a proof that it is sound.
For each command and handler the module computes sets of positions closed under
the jumps a step can make (`Onward`): where the client may be after a change of
its own (`Mine`), after a call that may have changed something (`Theirs`), before
it was agreed to (`Calm`), and where a handler may be after a change (`Later`).
`TreeAssumption` states what these sets must satisfy: no call after a change, no
change after a call that may have made one, no refusal after either, no change or
call in `Calm`. It is decidable, and TLC evaluates it on every command and every
handler at each run of the module. The proof shows that a run stays in these
sets whatever fails on the way, so that a new command needs no new proof, only to
pass the evaluation. (`Reached`, which computes them, halves the script at each
call: a recursion step per position would be too deep for TLC's stack.)

`RunKeepsPromise` puts the four together, as steps: at any time the run may ask,
change something on its one side, or report, and `CommandPromise` says what each
of these allows after the others. It adds what the properties of states leave
open: the order of agreement, change and report, that a report is made once, and
that only "lost" leaves it open whether something still changes. `Spoken` says
who has already reported: a command that runs or waits has not, and a daemon that
works on after its command is gone works for one that reported "lost". Then a
step that changes something (`ChangesOpenly`) or reports (`ReportsOnce`) finds
the promise still open, and `AgreesWhenAsked` is the only step that agrees.

**`DaemonSocketProofs`** (`SocketAssumption`)

| Theorem | States |
|---|---|
| `SocketTypeCorrect` | `Spec => []TypeOK` |
| `Sequential` | workers that follow one another are one at a time, and find the path as their own steps left it |
| `ServingIsReached` | `ServingReachable` |
| `CrashesAreSurvived` | `RestartsAfterCrash` |
| `ChoicesAreServed` | a choice that met neither a moment without a worker nor an overlap always has a worker |
| `LocalPathHasCause` | `FallbackHasCause`: such a choice ends locally only after it gave up, and says so |

`Alone` says what a worker knows at each point of Listen: what Stat saw is still
so, what Remove removed is gone, what it bound is at the path. For the choices of
commands, `ChoiceIsServed`: one that is not `excused` has a worker that serves, and
what it dialled is that worker's socket (`Served`); so the stat, both dials and
Hello find it, and only `GiveUp` leads past it.

**`IpcClientProofs`** (`ClientAssumption`)

| Theorem | States |
|---|---|
| `ClientTypeCorrect` | `Spec => []TypeOK`; no buffer outgrows its capacity |
| `ClientIsRemoteCalls` | `ImplementsRemoteCalls`: the connection implements `RemoteCalls` |
| `OneExecution` | `ExecutedOnce`: nothing runs locally once the daemon was asked |
| `AnswersMatch` | `AnswerIsOwn` |
| `ReaderMovesOn` | `ReaderNeverStuck` |
| `UpdatesInOrder` | `EventsInOrder` |

`OnePath`: a client without Hello has asked for nothing, and one with it never
takes the local path. `OneAnswer`: the answer to a request is in one place only,
on the wire, in the reader's hand, in the call's channel or with the call; so the
channel of one answer is never full when the reader gets there. `Flow`: what the
command consumed, what Events holds, what the reader holds and what is on the
wire continue each other without a gap.

`RemoteCalls` has no wire, no reader and no Close: an operation is asked for,
carried out once, returned once. The refinement needs `Ledger` besides: every
request that exists anywhere, on the wire, taken by the daemon or in a call, was
asked for (`Asked`); a response under way is one no call has returned (`Fresh`);
and updates are pushed only after a subscription was carried out (`Streams`). Most
steps stutter, which the lemmas `Aside`, `ReaderAside` and `DaemonAside` say for
dial, timer, Close, reader and network once and for all.

**`UpdatesSinkProofs`** (`SinkAssumption`)

| Theorem | States |
|---|---|
| `SinkTypeCorrect` | `Spec => []TypeOK`, with the file open except between renaming and opening |
| `SinkIsTailedLog` | `ImplementsTailedLog`: file, backup and pump implement `TailedLog` |
| `PublishedAfterWrite` | `PublishedWasWritten`: nothing is shown that was not written, and in order |
| `SizeIsBounded` | `SizeBound` |
| `LastEventsRetained` | `Retention` |

`Sequenced` orders what is queued, in hand, written and published. `Sized`: in a
run the counter is the file's size, it is at the limit when the file is rotated,
and only a failure lets the file grow past it. `Kept`: the two files are in
order, hold the last of what was written, and all of it unless they are as long
as one full file; `Spoilt`: each event that continued a cut line is paid for by
the call that cut it. `Retention` is `Kept` and `Spoilt` put together (`TwoFiles`).

The properties of states say what the two files hold; `SinkIsTailedLog` says how
they change. A write appends one line (`LogWrites`), a failing one at most a piece
without an end (`LogIsCut`). Removing the backup, or renaming over it when that
failed, takes whole lines from the front, never below a full file
(`LogIsTrimmed`, from `Sized`); close, open and restart change nothing that a
reader of both files sees. Publish shows the newest line
(`LogShows`), for which `Latest` is needed: what the pump has written and not yet
published is the last it wrote.

**`WatchPathsProofs`** (`PathsAssumption`, `PushedAssumption`)

| Theorem | States |
|---|---|
| `LocalIsComplete` | `LocalShowsAll` |
| `DaemonIsComplete` | until it drops one, the daemon path shows or queues every update it accepts, in order |
| `PathsAgree` | `SameWhenUnauthored` |

Each path lists a set of updates in order; on updates attributed to their
conversation the two filters accept the same (`FiltersAgree`); and a set of
numbers is listed in order in one way only (`SameList`, by the first place where
two lists differ). `PushedAssumption` is a fact about Telegram: a delete names
the messages it deletes, and a resolved peer has an id.

**Only model-checked.** Liveness (`LagSurfaces`, `ShutdownDrains`,
`DisconnectCleansUp`, `QueuedIsPublished`, `CallsEndWithConnection`,
`DialSettles`): fairness is defined with ENABLED, which is beyond TLAPS's temporal
backend. The three properties of the violated runs, which are false. What a
recursive definition computes for every input is out of reach as well (the
induction theorems take an operator, which the backends cannot instantiate); so
invariants speak of sets of positions and elements instead of filtered
sequences, and the position sets of `CommandRun` are assumed closed, which TLC
evaluates, and not derived from the recursion that computes them.
The refinements are of specifications that state safety only: that a queued
event is published or a call ends is among the liveness properties above.

## 5. What the runs found

* **`RotationKeepsLoop`**: a failed rotation is returned as a write error, which
  ends the pump and the worker, although the event was written and the comment
  says otherwise (daemon/worker.go:211-214).
* **`InFlightCallReturns`**: `readLoop` closes the client when the daemon goes
  away; a `Call` that starts then assigns to a nil map and panics
  (daemon/client.go:188, 276).
* **`WireIdIsKey`**: a sticker or gif whose file reference has expired is sent a
  second time under the second id of the reader, while message_ops.go:34 says
  that a single message goes out under `--random-id` itself
  (telegram/message_ops.go:144, telegram/gif.go:60). A repeated command with a
  fresh reference is then stored twice; `OncePerKey` leaves that case out.

Met while modelling, without a run:

* `matches` compares the row's `FromID`, the author of a message when it has one;
  the local path compares the conversation, although subscription.go:156 says one
  mirrors the other. A member's message in a watched group is shown by `tg watch`
  without a daemon and not with one (`SameWhenUnauthored` leaves it out).
* A second worker started by hand removes the socket of the live one
  (daemon/server.go:115-117), which then serves unreachable, and removes the
  second's path when it closes (`ServingReachable` and `FallbackHasCause` leave
  the time of such an overlap out).
* `tg watch me` resolves to a peer whose id becomes 0 (telegram/watch.go:200), so no
  message or edit of the own chat is shown, on either path. Through the daemon it
  shows the deletes outside channels, of every chat, because their rows have
  the id 0.
* The comment of `MaybeDialDaemon` reserves its error for a daemon that declined,
  "e.g. schema mismatch" (runtime/daemon_client.go:33); a failed Dial, a mismatch
  included, is the local path with a warning (:56-62).
* A write that failed part way is continued by the next run's first line, which
  spoils that event for a reader of the file (`Retention` bounds it to one event
  a failure).
* `readLoop`'s select may send on Events after Close closed it
  (daemon/client.go:304; the model panics there too, and the properties are
  about what happens before).
* A rename that is killed between moving the directory and rewriting `Name`
  leaves a slot whose `account.json` names the other; a later login on it writes
  to a directory of the old name, made again without an `account.json`
  (account/rename.go:36). `LiveIsUsable` leaves it out.
* A login asks for `Self` after it has signed in. When that fails the slot stays
  NEW or EXPIRED beside a session the server honours
  (telegram/session/login.go:32, qrlogin.go:74), and the next logout deletes
  `session.bin` without revoking it (action/auth/logout.go:190). The properties
  leave these sessions out as `unsure`.
* A removal that fails part way may leave a directory without `account.json`
  (account/store.go:79). Login says that the account exists, logout that it does
  not, so no command removes it.
* Two logins that make the same slot may both pass the check for the directory;
  if the write of one of them then fails, its rollback removes the directory the
  other has logged in to (account/store.go:51, 64). `Orderly` leaves out a failure
  while a login overlaps.
* A command that fails as unauthorized writes back the Meta it loaded, over a
  login that succeeded meanwhile (telegram/session/run.go:106). The properties
  leave that overlap out.
* A logout of a slot that is NEW or EXPIRED deletes `session.bin` without revoking
  anything, also with `--purge`, whose question says that it revokes
  (action/auth/logout.go:169).
* One directory without `account.json` makes `tg auth list` fail for all
  (action/auth/list.go:50).
* A 401 ends with exit code 3 and marks the slot on the local path; through the
  daemon it is exit code 1 and the slot stays AUTHED (program/status/exit.go:57,
  daemon/server.go:427).
* Rights are read, changed and written back; a failed read counts as no rights,
  and changing an administrator's rights then drops the title that
  cli/chat/admin/admin.go:81 promises to keep (telegram/perms.go:118,
  telegram/member.go:266).
* Deciding join requests and reporting with a block leave part of the work done
  behind exit codes that do not say so (telegram/join_request.go:84,
  telegram/contacts.go:126); a failed install leaves its unit
  (daemon/systemd.go:66).
* The config setters write `--config` or the default, and do not look at
  `TG_CONFIG`, which readers prefer (action/config/actions.go:279,
  config/write.go:19).
* The answer to an old daemon names `tg daemon restart`, which no command
  registers (cli/msg/send/send.go:144); the codes network, rate_exhausted,
  peer_ambiguous and cache_miss are documented and never produced
  (program/status/codes.go:25).

## 6. Plan

1. **Account register**: an abstract slot that one process at a time changes, and
   the slots without overlapping removals shown to implement it.
2. **Pure algorithms**: limits and pagination of history and search, parsing of
   references, the merge of configuration sources, against definitions that do
   not iterate.

## 7. What is not modelled, and why

`PROJECT.json` "components" has the status of each part. Left out:

* rendering of output, prompts, wording, the text of service units: no state;
* metrics and the stats file: counters nothing decides on;
* worker log rotation: one rename by one process at its start, with a handle that
  belongs to the service manager;
* the parsing of references, times and filters, and the order of limit and filter
  on a page: pure functions, in the plan;
* `recent.json` and shell completion: best-effort caches and reads;
* the dialogue of a login (code, password, QR): one step that succeeds or not;
  the rotation of API credentials;
* the values of rights, titles and flags: the requests carry none in the model,
  so a lost update of rights is listed as a hazard and not checked.

Telegram itself, the MTProto library, the terminal and the host's service manager
are environment: they appear as nondeterministic choices where the code meets
them.

## Running

    tlc -config FanoutConnections.cfg MCSubscriptionFanout.tla
    tlc -config UpdatesSink.cfg UpdatesSink.tla
    tlc -config CommandRun.cfg CommandRun.tla
    tlapm SubscriptionFanoutProofs.tla
    tlapm MessageSendProofs.tla
    tlapm CommandRunProofs.tla
    tlapm DaemonSocketProofs.tla
    tlapm IpcClientProofs.tla
    tlapm UpdatesSinkProofs.tla
    tlapm WatchPathsProofs.tla
    tlapm AccountSlotsProofs.tla

The last one takes about ten minutes, the others a few each.

`PROJECT.json` "runs" names the module and configuration of each run.
