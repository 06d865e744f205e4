# A verification development for kdeconnect-nx

kdeconnect-nx is a KDE Connect client for the Nintendo Switch: a background
process (the sysmodule) that finds other devices, keeps a TLS session with each
and serves plugins over it, and an overlay that talks to the sysmodule over IPC.
This directory holds TLA+ models of it, the TLC configurations that check them on
small instances, and proofs of the main properties of its core with TLAPS.

Paths below are relative to `src/`; `K` stands for
`sysmodule/src/net/kdeconnect_client.cpp`.

## 1. Inventory

### Threads

| thread | runs | started by |
|---|---|---|
| main | `NxApplication::processEvents` every 100 ms; stops and restarts the client | the process |
| IPC | `IpcService::thread_func`, one command at a time | `IpcService::start` |
| kc-network | `network_loop`: accept, UDP identities, reaping of finished threads | `start` |
| kc-broadcast, kc-mdns | identity broadcasts, mDNS probes | `start` |
| kc-accept, kc-connect | one per connection: `handle_new_connection` | kc-network |
| kc-io | one per session: `io_loop`, hence `handle_packet`, every plugin's `on_packet`, and `handle_pair_packet` | the connection's thread |
| kc-payload-stream | one per upload | whoever calls `send_payload_reader` |
| psc | `PscMonitor::thread_func`: sleep and wake-up | main |

### Components

| component | state | operations | what makes it correct |
|---|---|---|---|
| Session table (K, `utils/network_util.cpp`, `utils/stack_thread.h`) | `sessions_` (session_mutex_), `pending_threads_` (pending_mutex_), `running_`, `needs_restart_`; per session `disconnected`, `fd`, `tls`, `io_thread`, `send_queue` | `start`, `network_loop`, `handle_discovered_peer`, `handle_new_connection`, `io_loop`, `send_payload_reader`, `stop` | every thread is joined exactly once; the TLS context is used by one thread; a device that counts as connected is served; `stop` returns and leaves nothing |
| Pairing (K 747-936, `utils/storage.cpp`) | `pair_state`, `paired` (neither locked), the device record | `handle_pair_packet`, `request_pair`, `accept_pair`, `reject_pair`, `unpair` | consent of both users; session, record and peer agree |
| Packet framing (K 1113-1168, network_util) | `send_queue`, mbedtls's buffers | `send_packet`, `read_line_tls`, `send_all_tls` | packets are delivered whole, in order, and without waiting for the next one |
| Payloads (K 631-745, 1020-1111, `utils/album_art.cpp`, `write_app_icon`) | the bytes left, the files and who has them open | `download_payload` and its callers, `send_payload_reader` | the file is complete or is gone, whoever else is at it |
| Discovery (`mdns/mdns_discovery.cpp`, `mdns/mdns.h`, K 146-226, 400-461) | the cooldown map, the sockets, the packet buffers | questions, answers, probes, broadcasts | devices find each other, and not themselves; a packet says what was put into it |
| IPC (`ipc/ipc_server.c`, `ipc/ipc_service.cpp`, `common/src/kdec/ipc_client.cpp`) | the table of handles, `running_` | accept, process, close, one handler per command | a command sees one consistent state; sessions stay within the table |
| Application (`nx_application.cpp`) | the shared pointer to the client | `processEvents`, `restart_client` | one client at a time; no use of a stopped one |
| Storage, TLS identity (`utils/storage.cpp`, `net/tls.cpp`) | files | save, load, remove, `load_or_create` | a crash leaves a readable record, and a certificate that fits its key |
| Plugins (`plugins/*`) | media state, debounce tables, volumes, commands | `on_packet`, getters used by IPC | what the overlay is shown is one state of one player; no notification twice |
| Helpers (`utils/settings_store.cpp`, `psc_monitor.cpp`, `hiddbg_util.cpp`, `album_art.cpp`) | caches, counts | load/get/set, start/stop, retain/release, LRU | counts stay non-negative; caches bounded |
| Packet documents (`net/json_body.cpp`) | a pointer to a document, owned or lent | parse, copy, move, set, take out | one owner per document; a body acts as a value |
| Overlay (`overlay/src/gui/*`) | a copy of the device list, of a player, of a menu; a decoded cover | buttons, sliders, periodic refresh | it shows what is so, and acts on what may be old |
| Diagnostics (`common/src/utils/nxlink_sink.cpp`, `utils/mem_tracker.cpp`, `tools/*`) | the cached messages, the trace's buffer | log, flush, reconnect; record; replay; send a program | the log arrives in order and says what is missing; the trace can be replayed, wherever it ends |

### How they interact

The connection's thread starts the io thread *before* the session is in the
table, and cleans up the session it replaced *after* it has released the lock.
The io thread calls plugins and the pairing code, which call back into the
client (`send_packet`, `device`, `send_payload_reader`), and through it take
`session_mutex_` and `pending_mutex_`. The IPC thread calls the same pairing
code from the other side, on a shared pointer it obtained from the table. Main
calls `stop`, which joins all of them.

### What is hard

- A session is ended by three parties: its io thread, the handler that replaces
  it and `stop`. They share `fd` and `tls` without a lock.
- Two handshakes of one device may be past the "already connected" check at the
  same time.
- `stop` joins threads that themselves join threads that want a lock.
- Waits for a peer are meant to be bounded by a receive timeout.
- `paired` is kept in the session, in storage and at the peer; packets get lost
  with the connection, and a device can be unpaired while it is offline or on
  its way back.

The complete list, each with the line where it bites, is `hazards` in
`PROJECT.json`.

## 2. Modules

| module | models |
|---|---|
| `SessionLife.tla` | what the session table promises, without threads: the abstract specification |
| `Sessions.tla` | the session table, its threads and `stop` |
| `MCSessions.tla` | the instances of `Sessions` TLC checks |
| `SessionsProofs.tla` | its inductive invariant and theorems |
| `SessionsRefinement.tla` | the proof that `Sessions` implements `SessionLife` |
| `Pairing.tla` | pairing with one device: threads, storage, overlay, peer |
| `PairingProofs.tla` | its inductive invariant and theorems |
| `Application.tla` | main's restarts of the client, and the IPC thread that holds it; checked on its own |
| `Identity.tla` | the files of the TLS identity, with power cuts and failed accesses |
| `Downloads.tla` | payloads that arrive: `download_payload`, its three users and the files they share |
| `DownloadsProofs.tla` | its inductive invariants and theorems |
| `MCHost.tla` | composes what the client stands on: `Identity` and the nine modules that follow |
| `HostProofs.tla` | the inductive invariants of those ten, the theorems about `Identity` and about `MCHost` |
| `Settings.tla` | the settings in memory, in their file and on the screens |
| `IpcServer.tla` | the server's table of sessions, the overlay's connection to it |
| `MemTracker.tla`, `TraceTools.tla` | the trace of allocations, and what the tools make of it |
| `LogSink.tla` | the log's way to a host |
| `Keyboard.tla` | keys typed for devices, and hiddbg's users |
| `Screenshot.tla` | the search for the picture that was just taken |
| `PscMonitor.tla` | sleep, wake-up and the end of the thread that hears of them |
| `Records.tla` | the record of a paired device, written over in chunks |
| `MCPeer.tla` | composes what a phone and the console see of each other: `Pairing` and the eleven modules that follow |
| `Media.tla`, `TitleBar.tla` | the players of another device, and the cover in the overlay's title bar |
| `Volume.tla`, `Sinks.tla` | the console's volume, turned by phones; a computer's, turned by the overlay |
| `Notices.tla`, `Battery.tla`, `Commands.tla` | notifications, battery reports, the commands a phone may run |
| `DeviceList.tla`, `DeviceScreen.tla` | the overlay's list of devices, and the screens of one |
| `JsonBody.tla`, `Mdns.tla` | the documents of packets, the packets of mDNS |
| `PluginProofs.tla` | the inductive invariants of `JsonBody` and of the plugins, `Media` to `Commands` without `TitleBar` |
| `PeerProofs.tla` | those of `TitleBar`, `DeviceList` and `DeviceScreen`, and the theorems about `MCPeer` |
| `MCWire.tla` | composes what packets travel by: the five modules that follow |
| `Framing.tla` | the io thread between TLS records and packets |
| `Meeting.tla`, `Discovery.tla` | two consoles that connect to each other; how they find each other |
| `NxLink.tla` | the tool that sends the program and prints its log |
| `Uploads.tla` | files that the console sends, over ports that come back |
| `WireProofs.tla` | the inductive invariants of `Application` and of those five, the theorems about `Application` and about `MCWire` |

Operators that begin "Mutant:" in their comment are deliberately wrong versions
of the definition that follows them. `PROJECT.json` says which property
each of them must break; they are part of no specification.

`MCHost`, `MCPeer` and `MCWire` put parts side by side that share no state in the
code, and `part` says which one a behaviour is about: the others stay in an
initial state, so each is checked on all of its own interleavings and the states
add up instead of multiplying. A property of such a module is the conjunction of
what its parts' modules state, under `part = "..."`. The modules below state
their properties, each with the exceptions that the code makes.

### Sessions

One connection `c` of `Conn` is at once the socket, the pending thread that
runs `handle_new_connection` for it and the `DeviceSession` it may become.

| variable | code |
|---|---|
| `running`, `needsRestart` | `running_`, `needs_restart_` |
| `net` | program counter of `network_loop` |
| `pend` | `pending_threads_`; its `done` flags are `pc = "done"`, `up = "done"` |
| `pc` | program counter of the pending thread of a connection |
| `table` | `sessions_` |
| `old` | the local `old_session` |
| `disc`, `fd`, `tls` | the fields of `DeviceSession`; `fd = "scoped"` while a `ScopedFd` owns the socket, "leaked" when its number is forgotten |
| `closes` | history: how often `close` was called on the session's descriptor |
| `io` | program counter of `io_loop`; "ended" is a thread to be joined |
| `req`, `up` | the upload thread an io thread is about to push, and how it fares |
| `announced` | history: the sessions that got the identity resent on connecting |
| `stop`, `toStop`, `cur` | program counter of `stop()` and its locals |

Every action is what one thread does between two accesses to shared state; the
names say which thread (`Net…`, `Io…`, `Stop…`, and `Clean…` for the part of
`handle_new_connection` that retires the old session). `pending_mutex_` is held
for longer than one step by `stop` only, so it is `stop = "joinPending"`.
`Handshake` stands for everything between the check and the session, with the
peer's choice of its outcome. What plugins do with a packet is left out, but for
the one thing that touches this state: a command that asks for a screenshot
starts an upload (`IoUpload`, `IoPush`). `StackThread` swallows a failure of
`pthread_create`; `ThreadsFail` lets that happen. With `MemoryFails`, a handler
may run out of memory once it has a session (`OutOfMemory`), which its thread
catches (K 369-371, 454-456). What becomes of the session depends on how far it
is: without an io thread it is destroyed and the number of its socket forgotten;
with one, but not yet in the table, it is served and nobody will ever join it
(`pc = "lost"`); in the table, it is not announced. The safety properties say
what holds then: everything but for those two leaks. `SessionAnnounced` and
`DisconnectedIsReleased` are about handlers that have memory.

`CloseFd` closes the descriptor number as it was read: two threads may both have
seen it open. `KC_CLOSE_RAW` tests once more before it closes, which narrows
that window and does not shut it; the model allows every outcome.

`SessionLife` says what all this amounts to: a session comes up once, takes its
device's place in the table once, goes down once, and is released once, which
it may be only when it is out of the table; the table is emptied when no
session can enter it any more; and the client has stopped when every session
is released. Where memory fails (`MayLose`), a session may be lost instead, before it
is in the table and only there. `Life`, at the end of `Sessions`, maps the fields of a session to
its abstract life (`LifeOf`): it is "down" from `disconnected` on, and "released"
when its thread has been joined, its socket closed and its TLS context freed, in
whatever order its io thread and its retirer came to do that; it is "lost" with
`pc = "lost"`, whatever its io thread then still does.

### Pairing

One device, with its sessions one after the other (`Sess`). `pairState`,
`paired`, `cert` and `disc` are fields of the session, `stored` is the record
in storage, `inq` and `outq` what is on the way (for `outq`, `send_queue`
included). Each unlocked read and write is a step: `IoWrite1..3` are
`pair_state`, `paired`, record in `handle_pair_packet`; `IpcWrite1..3` the same
in the IPC commands; `IpcOffline1..3` the same, in the other order, in `unpair`
of a device that is offline; `HsLoad` … `HsAnnounce` the reads and writes of
`handle_new_connection`.
`IpcBegin(op)` is a button: it is offered for what the overlay last fetched
(`view`), which may be old. A timestamp is abstracted to how the check in
`handle_pair_packet` sees it: "ok", "skewed" or "ms" (milliseconds taken for
seconds, always off).

The peer is external: it follows the rules of the protocol, one packet per step,
and sends the unpair packet on connecting, as our own side does. With `PeerIsNx`
it checks acceptances as this program does; other clients check requests only.

Two specifications say which overlaps are considered: `Spec` all of them;
`SerialSpec` none, and no crossing packets, because a request and a refusal that cross leave the two
sides of this protocol disagreeing whatever the implementation does.

### Application

`client_` is `slot`, and a client is a piece of memory of `Client`, used again
once it is "gone". `refs` is the use count of its shared pointer. Main goes
round `processEvents` (`CheckNeeds`, `CheckOnline`), with `restart_client` as
`Reset`, `MainDestroyed`, `Make` and `StartOk` or `StartFails`; `ret` is where it
returns to. The IPC thread copies the pointer in two steps, because the copy
(`nx_application.h` 15) is not locked: it reads `client_` (`IpcCopy`) and then counts
itself (`IpcRef`). A client is "closing" while the thread that dropped its last
reference runs `stop()`; what `stop()` does, and that it returns, is the subject of
`Sessions`. What a command does with the client is left out, and so is the
destructor of `NxApplication`, which only a debug build with `DEBUG_EXIT_TIMEOUT`
reaches.

If main dropped the last reference between the two steps, the copy revives the count of
a client that is being destroyed, or is gone: the command uses it, and comes to the
last reference a second time, so that `stop()` and the destructor run twice, side by
side even (`Drop` goes by the count alone). `revived` records that, and from then on the
process may die (`Die`). That is undefined behaviour, of which the model has the
use count as the machine would keep it. `NoStray` says what holds in every case (a client
that runs has an owner, one that is being destroyed has a thread that does it), and
what holds as long as no copy came late: exactly one thread destroys a client, and
nobody uses it meanwhile. The two liveness properties end with a late copy.

The comment at `nx_application.cpp` 53 ("destroy old client before allocating the new
one") does not hold in the model: the old client may still be running when the new
one is made, because a command holds it; the new one then finds the UDP port taken
(`udp`) and receives no broadcasts until the next restart. What holds all the same is
that neither is leaked.

### Identity

An identity is the key that was generated, with the certificate and the device id
made for it; the two files (`disk`) each hold one of them, nothing, or something
that does not parse (`Torn`). `chain` is the certificate at the head of `cert_`,
the one mbedtls presents; `Parse` appends to it, so a certificate that a failed
`load_from_files` left there stays at its head. `pc` runs through
`load_or_create`: `Load`, `Generate`, `write_file` for the certificate and then for
the key, each in two steps (the file is created or sized, then written), and
`Parse`. A power cut may come between any two of them (`PowerCut`); one in the
middle of a write is the write failing half-way (`WriteFails`) and then the
restart. `known` is history: the identity the first client ran with. With
`ReadsFail`, `read_file` may fail on a file that is there, which the code cannot
tell from a missing one; the properties are stated without it.

### Downloads

`pc[t]` is where the io thread `t` is in `download_payload` and in the caller it
returns to: the share plugin, `AlbumArt::download_raw` (`OpenArt`, `CheckArt`,
`Touch`) or `write_app_icon` (`DecodeOpen` … `Unlink`, which decodes the received
`png` into an `rgba` file). The copy loop counts units: `left`, `fill` and `off` are
`remaining`, `chunk_fill` and `offset`. Each call of the file system is a step of
its own, and what threads share is the files: `exists`, `got` (which units are
as they should be) and who has them open (`wr`, `rd`). Nothing else keeps two
threads apart, so two devices, or the old and the new session of one, may be at
one file together. The file system is external: an open file cannot be deleted or
opened for writing, and one open for writing cannot be opened.

A name stands for contents, as it does for icons (a hash of them) and album art
(a hash of their origin); two devices that share different files of one name are
outside the model. A session may be torn down at any time (`TearDown`); a session
that comes up removes the decoded icons (`ClearIcon`), and the overlay opens
album art for reading. `lru_touch` may remove any picture, since its list is not
locked. With `OpenFails` a file nobody has open may fail to open, with `RowsFail` a
row of a decoded icon may fail to be written, of which `write_app_icon` takes no
notice; each of them is assumed away by one property.

### What the client stands on

**Settings.** `values` is the map in memory, `saved` the file, absent, whole or
torn; `boot` is how far the start is, since the IPC thread runs before `load`.
`set` is a write to the map and then the three steps of `save`; `screen` is what
the overlay read. The sysmodule may be killed between any two (`whole`, `want`,
`hurt` and `astray` are history). Properties: what was chosen lasts, and
is used by every program that serves commands (`ChoiceLasts`), a start finds the last whole file or the defaults and no
mixture (`NoMixture`), and the screen shows what is in effect (`ScreenIsTrue`). `IpcService::start` returns before
`load()` when the name cannot be registered or the thread not be made (`ServiceFails`,
`boot = "alone"`): the client then runs on the defaults, whatever the file has, although the header
says "Call load() once at startup". `ChoiceLasts` is about programs that serve commands
for that reason. The file is safe all the same: only a command saves it, and there is no
thread to serve one.

**IpcServer.** `table` is `handles`, `srv` where the loop of `ipc_server.c` is,
`server`, `client` and `msg` the two ends of each session and what is in it;
`gui`, `conn` and `refCnt` are the overlay's, which probes for the service by
registering its name for a moment (`probing`). Another process takes sessions
away, up to the table's limit. Properties: the table is the open sessions
(`TableIsOpen`), the use count is the connection (`CountIsConnection`), a command
returns and an overlay finds a service that stays up (`CommandReturns`,
`Reconnects`).

**MemTracker, TraceTools.** The wrapper of `malloc`, `free` and `realloc` in each
thread of `Worker` (`at`, `call`, `arg`), the buffer `wbuf` and the `file`. A trace
may be cut anywhere; the tools replay what is left. `close_trace` writes out the
buffer with the mutex (`CloseTrace`) and closes the file without it (`CloseFile`); what
other threads record in between (`refill`) stays in the buffer. Properties: a replay finds
nothing allocated twice, the buffer does not run over while there is a file, and takes no
more than one record of each thread afterwards, and both tools agree with each other and
with the program.

**LogSink.** `mutex_` is `holder`, `sock` the connection, `cache` the messages that
wait. Two threads connect again without the mutex, the background thread and main.
A connection that is broken may take some more before a write fails. A
message that waits stays until it is written; one that comes when the write fails is
lost without a word (`lost`). Properties: the host gets messages in order
(`InOrder`); where messages were turned away by a full cache there is a warning, and
where any others are missing they are lost ones (`GapIsSaid`); a connection that fails
loses one message and no more (`LossIsOne`); what waits is sent or kept
(`WaitingIsKept`), and a host that can be reached is connected to. The first
two except a connection that is made while a thread is between what waited and its own
message (`beside`), for that one then overtakes.

**Keyboard, Screenshot, PscMonitor.** The count of hiddbg's users with every
plugin's keys (`act`, `left`, `old` for the layout that is put back). The button
that is pressed and the album that is polled for a new file, over midnight and
beside the user's own pictures: what is sent was taken after the command came, but it
may be the user's own picture, and if the folder could not be read at first
(`blind`) an old one (`SentIsNew`). The answers to the power manager against `stop`, with
a `GetRequest` that may fail: the thread then waits for a signal that does not come
before an answer (`missed`).

**Records.** `stored` is the file of a paired device, unit by unit, `storing`,
`toStore` and `written` are `write_file` in the middle of a save, which `BreakOff`
ends: a power cut or a failure. A mixture of two records parses where the one
ends with the end of the other. `mayBe` and `unbroken` are history: the records
that may be in the file. Properties: what was saved is loaded (`SavedIsLoaded`),
and what was broken off is no mixture (`BrokenOffIsWhole`), with the exception
of two records that are both longer than a chunk of 1 KiB (`LongOnes`), which a
certificate may make them: such a device is turned away from then on (K 496)
until its record is removed.

### What a phone and the console see of each other

**Media.** A field of `state_` is modelled by whose it is and after how many
seeks, so a mixture of two players shows. The io thread handles a packet at a
time, as `state_mutex_` has it; the IPC thread reads in separate calls (`step`).
`mixed` and `torn` record that the player changed between two of these.

**TitleBar.** A cover is a set of places; a pixel is the place it was sampled from
(`Sampled`), so an in-place scaling that overwrites what it has still to read
shows. The buffer has the places of the decoded cover and no more (`Buffer`); what is
written past them is lost in the picture and puts the heap in doubt (`memory`, `Crash`).
`CoverIsShown` says that the picture is right wherever the cover is at least as large as
the target, and that at the top, where nothing is enlarged, the loop stays inside the
buffer at all sizes. At the side it does so only with covers that have as many pixels as
the square: a smaller one is enlarged past the end of the buffer, against the comment
on the loop ("write offset <= read offset"), and the property lets that pass by name.

**Volume, Sinks.** The console's master volume with `volume_` and `muted_` of each
session's plugin; a computer's volume, kept there in steps of `max_volume` and
here in percent, with the slider that was opened on what the plugin knew
(`GetVolumeSinks`). The rounding of both conversions is modelled.

**Notices.** `posted` is the ring of remembered ids, `due` what Ultrahand will
show and delete. Duplicates, icons that come late, the ring's eviction, notices
without an id (`ArriveNameless`) and files that cannot be written are steps. Such a file
may be left as it was or spoilt (`Spoilt`), and its notification counts as posted.

**Battery, Commands.** A thread that has connected or paired a phone stores and sends
the console's battery (`on_connected`), main or the IPC thread sends a change, and the io
thread answers a request; two atomics of one status are written one after the other.
The properties except exactly those overlaps.

**DeviceList.** `GetDevices` copies the shared pointers of the sessions and then
reads each one's fields, unlocked (`ReadActive`, in two steps), then the files of
those without a session (`ToFiles`, `ReadFile`). `kept` holds a session that was
replaced after the copy. `UntouchedIsShown`: a device that nothing happened to
during the poll is shown as it is.

**DeviceScreen.** `page`, `row` and `shown` are the open screen, made once from
`menu` (`remote_commands_`); `trusts` and `linked` may change under it. The
phone edits its commands, leaves and comes back. `UnpairedIsLeft` says that no
stale screen asks an unpaired phone for anything; `MenuIsTheirs` that the menu
is the phone's once nothing is on its way.

**JsonBody.** `doc`, `root` and `owns` are a body's fields; `lent` says which
bodies look at a document of another's, `meant` what each would hold as a value.

**Mdns.** A packet is a sequence of cells; names are compressed by a table of
places (`PutLabel`) and read by following references, as in `mdns.h`, both as
recursive functions on the label and the step. The records are those
that `mdns_discovery.cpp` makes. `PacketIsRead`: what is parsed from a packet is
what was put into it, in a buffer that held others before. `QuestionIsAnswered` says
which record answers which question; one for the texts of the instance alone is
never answered (`mdns_discovery.cpp` 181-182). The packets are those that the program
itself makes.

### What packets travel by

**Framing.** `rest` is what the peer has not sent yet, `socket` the records that
arrived, `plain` what mbedtls has decrypted, `line` the line read so far. The io
thread sends what is queued, waits, and reads a line to its end (`ioStep`).
`crammed` records that a record held the ends of two lines: `select` then waits
although mbedtls holds a line, and that line stays until more arrives, which
`ArrivedIsHandled` excepts. `LinesAreWhole` says that packets are whole, in order
and none too long, `QueuedIsSent` that queued ones go out.

**Meeting.** What each of two consoles does with its end of each connection; both
dial when they hear of each other, and either may be switched off without a word.
`AgreeAtRest`: whatever the order in which crossed connections were installed,
at rest both have the same one or neither has one. `StaysMet`: hearing of each
other again parts no one who has met.

**Discovery.** The two sockets of the mDNS thread as bounded queues, the cooldown of
probes, and a device that stops, starts, and may come to another address at any time.
Only main's seeing the network go and come restarts the client
(`nx_application.cpp` 66-75); until then it tells its old address (`says`), and it takes
one of two devices whose word is right (`Reachable`) for them to find each other.

**NxLink.** The tool's conversation with the loader and its log server, which polls
a listening socket and one connection in turn.

**Uploads.** `upload` is where an upload's thread is, `port` the port it listens at,
`named` and `offer` the packet that says so and how it fares, `caller` who waits to
be accepted, `visitor` who was, and `remaining` the counter of the copy loop, which
`got` is compared with. A receiver gets its own file (`OwnFile`) unless it came
after the 15 s and found its port in use by the next upload (`late`); what remains
is what is missing (`RestIsMissing`); and a port comes back unless the receiver
falls silent (`PortComesBack`): no timeout ends the handshake or a send. An upload
whose thread cannot be created keeps its port for ever (`StartThread`); the
property speaks of those that have one.

## 3. Runs

| run | instance | result |
|---|---|---|
| `sessions_safety` | 2 connections of one device, 1 upload, any interleaving, `stop` at any time; threads may not be created and memory may run out; symmetric; 0.35 M states | `SessionLife` is implemented, every io thread is joined once, no TLS context is freed under its thread, and `stop` leaves nothing but what such a failure has lost |
| `sessions_liveness` | 2 connections, fair threads that can be created, peers that answer or break; 67 k states | a connected device is served, `stop` returns, sessions are released, lasting ones announced, a failed listener leads to a stop |
| `sessions_silent_peer` | 1 connection, fair threads, the peer may go silent | `StopTerminates` violated |
| `sessions_upload_stop` | 2 connections, 1 upload, fair peers | `StopTerminates` violated: deadlock |
| `peer` | `MCPeer`: pairing with 3 sessions and 6 acts of the users, threads not overlapping, and the eleven parts beside it; 1.1 M states | session, record, peer and the user's will agree; screens show what is so; phones are told what is so; documents and mDNS packets are sound |
| `pairing_stale_load` | 2 sessions, 3 acts, everything overlaps | `UnpairSticks` violated |
| `pairing_nx_peer` | 1 session, 2 acts, the peer is a second console | `PairingAgrees` violated |
| `application` | 2 clients, fair threads, failing starts, network on and off, a copy counted late and what follows; 19 k states | no client is leaked, and without a late copy none is stopped twice or used too late; a restart is retried until it succeeds |
| `wire` | `MCWire`: 2 packets each way in records of up to 3 bytes; 2 consoles with 2 connections and a crash; 2 devices that look for each other, one move; nxlink; 2 uploads that share a port; 66 k states | packets are whole and move; two consoles agree on their connection and find each other |
| `host` | `MCHost`: 5 identities with a power cut or a failed write at any point, and the parts beside it; 260 k states | the first identity a client ran with is kept; settings, device records, IPC table, trace, log, keyboard, screenshot and power monitor keep what their modules promise |
| `identity_torn_key` | 5 identities, as in `host` | `IdIsCommonName` violated |
| `downloads_share` | 2 threads, 1 name, 2 units in a chunk of 2, icons of 1 row; 0.7 M states | what is reported as saved is whole, nothing partial is left, torn-down sessions end their downloads |

The five violations are disagreements between the code and what its comments
or `protocol.md` say; `findings` in `PROJECT.json` quotes the lines.

### Bounds, and why they are enough

- **Two connections of one device and an upload** allow a session to be replaced
  by a handler that is past the check, while its io thread pushes an upload and `stop`
  begins: every role (old, new, to be stopped) can be taken at once, and it is
  what the deadlock takes. A third connection allows a replacement to be replaced
  while it is at work; three were checked too, with memory that fails and without uploads
  (2.6 M states). The proofs need no bound.
- **Three sessions and six acts** allow pair, lose the connection, unpair
  offline, reconnect, pair again, and lose that, too. `MaxQueue` is never
  reached when threads do not overlap: queues hold what one act and one
  announcement put there.
- **Two clients** in `application` are one in `client_` and one that a command still
  holds or destroys; the next one takes memory used before, which is where a late
  copy does its harm. There are no bounds on time: clients are made for ever.
  `NoStray` was checked with three clients, too (131 k states), and is proved for any number.
- **Five identities** are one that runs and four starts that were cut off before
  it, each leaving its own remains in either file.
- **Two threads and one name** are a race for one file; a third could only repeat
  what one of the two does. Two units in a chunk of two allow a download that
  breaks off before, in and at the end of a chunk, with and without something
  to flush. Three units and two rows were checked too, without the liveness
  property. The proofs need no bound.
- **In `host`**: three sessions of the kernel and a table of two are a table at its
  limit with one more waiting; two settings with three values tell a mixture from
  either whole; a trace of two blocks and two threads allows a block to be freed by
  one and allocated by the other while either writes; a cache of two messages and
  five messages overflow it and go on; two users of hiddbg are one that leaves
  while one types; records of one chunk, of a chunk and a part, and of two are each
  case of where a save can break off and what it can leave behind.
- **In `peer`**: two players, two phones and two notifications are what can be mixed
  up; a sink that counts to 3 and a percent scale that counts to 2 make both
  conversions round; covers of every shape up to 5 by 5 against a square of 3 and
  a frame of 4 by 2 are too wide, too high, both, exact and too small; three
  bodies allow one that owns, one that borrows and one that takes; a buffer of 24
  cells holds most packets, and the longest do not fit; two devices and three events allow one to be replaced while the other
  is read.
- **In `wire`**: packets of up to two bytes in records of up to three put an end
  of a line anywhere in a record, and two ends into one; two connections between
  two consoles are a crossed pair, and a third could only be one that comes after
  one of them ended; one lost datagram and one move are a device that is looked
  for where it no longer is, or that tells an address it has left; two uploads with one port are the last port there is,
  and one that is used again.
- Deadlock is checked in `sessions_liveness`, `sessions_silent_peer`, `application`,
  `identity_torn_key` and `downloads_share`. It is not in
  runs with uploads, where the program has the deadlock that
  `sessions_upload_stop` is about, nor in `Pairing` and the composed runs, where
  the bounds on what users, phones and networks do bring a part to an end.

### Fairness

`ProgramFairness` is weak fairness of each thread's own steps (the kernel runs
runnable threads) and of main's reaction to `needs_restart_`, polled every
100 ms (`nx_application.cpp` 61-83); a read from a socket this side has shut
down returns. Nothing is assumed of the user, so `stop` need not be called.
`PeerFairness` adds that every wait for a peer ends: it answers or its
connection breaks, by its own doing or by TCP keepalive (K 74-80). That is an
assumption about the peer which the code does not enforce, and
`sessions_silent_peer` shows what happens without it.

In `Downloads`, each thread's own steps are weakly fair. Its waits are not: a
payload connection need not come up, nor anything arrive on it; but a read that
times out after half a second (K 639) comes back to the test of the loop, so
`EndCopy` is among the thread's own steps.

In `Application`, main, a command that has begun, and the clock of the cooldown
are weakly fair; that `stop()` is among main's steps rests on `StopTerminates` of
`Sessions`, with its assumption about peers. Strong fairness of `StartOk` says
that a start which is tried again and again succeeds in the end (the TCP ports
become free): what the retries are for, and an assumption about the environment.
`Die` is not fair: a process that a late copy has hurt may live on.

In the parts of `MCHost`, the server's loop and the overlay's polling (`Serve`,
`Gui`), the log's background thread and whoever holds its mutex, and the threads
of `PscMonitor` are weakly fair (not that a `GetRequest` succeeds); a send that is stuck ends with its connection.
In `MCWire`, the io thread of `Framing` is (`Io`), and `Finish` adds that a line which
has begun is completed or its connection breaks; so are the handlers of
`Meeting`, whose sockets have timeouts, and in `Discovery` each device's timer
and its two sockets, with what a question leads to being through before the next
one 15 s later; the server of `NxLink`; and the threads of `Uploads`, whose
`select` returns in time. No part assumes that a user acts, that
a datagram arrives, or that a peer answers.

## 4. Proofs

All for any sets `Conn`, `Id`, `Upload` and any `IdOf`, under
`SessionsAssumption` (the null values are not connections or uploads, the two
kinds of thread are distinct); for `Pairing` under `PairingAssumption`, any
bounds; for the parts of `MCWire` under `WireAssumption`: the bounds are numbers, the
sets of consoles and of devices are finite, two consoles meet (a connection has two
ends), packets and files are not empty, and a file is read at least once; for the services of `MCHost` under `HostAssumption`: the bounds are
numbers, the sets of users and of threads are finite, there are settings with
a least offered value, and texts and chunks are not empty; for the parts of
`MCPeer` under `PeerAssumption`: the bounds are numbers, the null values are not
players, bodies, documents or hashes, the levels have those that the code starts
from, a computer counts its volume in 100 steps or more, sizes of
covers are not 0, and the sets of devices and of commands are finite.

**Sessions.** None of the properties is inductive: that nobody joins an io
thread twice depends on who else may still hold the session. `IInv` adds

- `Phases`: what the place of a handler says of its session (no TLS context
  before `StartIo`, an owned socket up to it);
- `References`: the table, every `old_session` and `to_stop` hold published
  sessions and no two of them hold the same one. This is the heart of it;
- `Retired`: a published session nobody holds any more has been taken down
  completely;
- `CleanPhases`, `StopPhases`, `IoPhases`: how far each of the three that end
  a session is, e.g. that past the join there is no io thread.

From `IInv` follow `TypeCorrect`, `NoOrphanTheorem`, `OneRetirerTheorem`,
`TlsExclusiveTheorem` and `QuiescentTheorem`. Three theorems take an invariant
of their own relative to `IInv`: `ConnectedIsServedTheorem` (`HasThread`, under
the assumption that threads can be created), `AtMostTwoClosesTheorem`
(`CloseCount`, which credits each close to the io thread or to the retirer: the double
close of a descriptor can happen, but never a third one) and
`NoResurrectionTheorem` (`Sockets`).

**Refinement.** `SessionLifecycleTheorem`: `Spec` implies `SessionLife`'s
specification under the mapping `Life`, whether or not threads can be created and memory
lasts. It takes two more invariants: `Marked`
(whoever closes a session's socket has set `disconnected` before, so no session
is released without having gone down) and `Kept` (what is in the table, or has
still to enter it, has not been taken down). The proof has a lemma per kind of
step; each shows which abstract step it is, or that it is none.

**Pairing.** `PInv` says where evidence of consent is carried: in the session's
`pair_state`, in packets under way, in what the overlay shows, and in the
program counters of the threads that are about to write. `MutualConsentTheorem`
holds under `Spec`, every interleaving.

`PairedIsStoredTheorem`, `UnpairSticksTheorem` and `PairingAgreesTheorem` hold
under `SerialSpec`, in which the threads take turns: `Pairing_stale_load`
shows what becomes of `UnpairSticks` when they do not. `OneThread` says what taking turns
comes to: who is at work, on which session, and that all but the newest
session are disconnected. `Recorded` has the record follow the newest session, with the
places between the two writes of a pairing or an unpairing as its only
exceptions; `Asked` has only our own request leave a session in "Requested";
`NotWanted` says at each step of an unpairing or a refusal what of it is
settled. These four with `PInv` are inductive (`SerialInductive`). For the
agreement of the two sides `Agreeing` lists the situations they can be in with
each other: at rest, one or both having asked, an answer or an unpairing on its
way in either direction, and the same while the io thread reads a packet or the
IPC thread writes one. `PairingAgreesTheorem` assumes `Compatible`: a peer that
does not run this program, whose clock is right and which presents a
certificate. With a console as the peer it is false (`Pairing_nx_peer`).

**Application.** `IInv` says that a client which lives is used by `client_` or a command
and counts no more than these, and that one which is being destroyed has a thread
that does it (`Owned`); that as long as no copy came late, the count is exactly who uses the
client, it lives for as long as that is not zero, and one thread destroys it
(`Counted`); and that `client_` is null while it is replaced (`Replacing`). With it,
`NoStrayTheorem` and `ApplicationTypeCorrect` hold for any set of clients. The count of a
client after a late copy is what `Owned` still bounds: from above only, so the
client may be destroyed while it is used, but none is left behind.

**Identity.** Neither property is inductive: whether the pair on disk is whole
depends on how far the start that wrote it came. `IInv` adds `Files`, what each
step of `generate_self_signed` says of the files: a key file that parses stands
beside its own certificate, and no start that writes finds one. That holds because
the key is written last, and because a start that fails to write the certificate
gives up. `Known` adds that an identity which was run with is in both files, and
that no start generates from then on. `IdentityLastingTheorem` and `LoadedIsUsableTheorem` assume `~ReadsFail`.

**Downloads.** `IInv` adds to the types `Place` (what the counters add up to in
the copy loop, and which kind of file each part of the code is at), `Locks` (who
has which file open; in particular that a file open for writing is there, and has one
writer) and `Written` (what was flushed is in the file). The point of `Locks` is
that nobody else can disturb a file between its open and its close.
`NothingPartialTheorem` adds `Accounted`: a shared file that is not whole, or an
icon as it was received, has a thread that has still to complete or remove it,
which may hand it to another when its delete fails because the other has it
open. `IconIsWholeTheorem` adds `Decoded` and `IconsAccounted`, the same for the
decoded icon. They assume `~OpenFails` and `~RowsFail`.

**What the client stands on.** `HostInv` is the conjunction of an invariant for
each of the nine services, and `HostStep` says that a step of one is a stutter
of the others. Of the invariants that are not just types,

- `StoreKept` (settings): the file is torn or whole, and at each step of loading, choosing and
  saving the values in memory are those wanted or the ones last saved, unless a
  write failed; a program whose service did not start has none, and writes nothing;
- `RecordsMixed` and `RecordsWritten` (the record of a paired device): every unit in the
  file belongs to one of the records that a save was broken off between, at most
  where that record has text, and the first chunk is from one of them. `CStringIsPrefix` says
  what `read_file` makes of the zeros between;
- `TableHolds` and `UseCounted` (IPC): the table has the open sessions, once each, at
  every step of the server thread, also between a message that ends a session
  and its removal (`RemoveAtProperties`); the overlay's count is one from the
  connecting on;
- `ShotsNew`: what was there when the command began is not later than the picture
  that the search started from, on the same day. The newest picture exists because sets of
  numbers have a least one (`LeastNatural`, by well-foundedness of `<`);
- `HidCounted` (keyboard): the guard of hiddbg counts one for its users together, and
  one for each thread that has left the user count but not yet the service; `LayoutKept`
  says whose layout is set at each step of typing;
- `LogKept` and `Accounted`: what the host got and what waits for it are one log (`Told`),
  which is in order, has a warning between messages that others were dropped between, and
  ends with one if a later message was dropped. Every step leaves that log as it is or
  appends to it. Every message is in it, dropped, lost, or being written, so what is
  missing without a warning was lost, and a loss costs a connection;
- `PscHistory` and `PscPlaces`: what the thread knows of the console at each of its places,
  and where it can be while `start()` or `stop()` is where it is;
- `BlocksOwned`, `TraceRight` and `BufferRoom` (the allocation trace): a block in a call belongs to
  one thread; the last record of a block is of the other kind than the one that its
  state, or the thread that has it, will lead to; after the trace was closed the buffer takes
  one record more from each of the threads that had looked before.

With them `TypesOKTheorem`, `FilesHoldTheorem`, `TableIsOpenTheorem`,
`SentIsNewTheorem`, `KeyboardIsBackTheorem`, `LogIsToldTheorem` and
`AwakeIsKnownTheorem` state the invariants of the run `Host` for every number of
users, sessions, messages, settings, records and pictures, and
`TraceIsReplayable` the part of `TraceReplays` that is about the program:
`Mem!TraceReplays` and `Mem!BufferFits`. The other two, `WholeIsRead` and
`ReportsAgree`, are about what the scripts compute from a trace by recursion and
folds over it, and stay with TLC.

**What packets travel by.** `WireInv` is the conjunction of an invariant for each of
the five parts, and `WireStep` says that a step of one is a stutter of the others.

- `FrameInv`: the bytes of the peer are one chain (`Chain`, `Follows`), from the last byte
  of `line` through what mbedtls has decrypted and the records that arrived to what
  is still to be sent; so the next byte can only go on with the line or end it. A
  line's bytes are of one kind and fewer than the limit while the thread goes on; the packets
  sent, those in the queue and the one a failure swallows are consecutive. `LinesFollow`
  shows that the lines of any lengths are such a chain;
- `MeetInv`: an end that is up is its device's session, and an end that got as far as
  the check has another end that was told;
- `SearchInv`: the types of what waits at the sockets, with `NeverItself` and
  `GoodbyeIsLast`, which are inductive with them;
- `UploadInv`: no two uploads listen at one port; a receiver calls one upload once,
  its own unless it is late (`UploadCalls`); at each stage, what the visitor has and
  what the thread counts as remaining add up to the file (`VisitorHas`);
- `NxInv`: at each stage of the tool's conversation, what can be under way in either
  direction, and that the blocks that the loader has and those under way are those
  that were sent, while the link holds (`UpPlaces`).

`WireIsWholeTheorem` states the invariant `WireIsWhole` of the run `Wire`, for lines and
records of any length and any number of packets, losses, crashes, devices, moves,
uploads and blocks.

**What a phone and the console see of each other.** `PhonesInv` is the conjunction
of `SerialInv` (pairing) and of an invariant for each of ten parts; `PhonesApart`
says that a step of one is a stutter of the others.

- `TrackInv` (media): the seeks on their way to a player are in their order and later
  than what it has applied (`SeeksInv`); while positions are taken from packets,
  no packet that may be under way was sent before a seek (`LockInv`); so the position
  that is kept is after the last seek (`PlaceInv`), but for the moment between
  sending a seek and writing the position it leads to (`Anchoring`);
- `OwnInv` (volume): `volume_` of a session is what its phone asked for last, if it
  has, and one phone at most has turned the console last;
- `TheirsInv` (sinks): the newest word of the computer is what its sink is (`WordInv`);
  the slider, scaled, is no louder than what the user saw or chose, and the newest order is
  what it stands for (`SliderInv`). `RawOf` and `Percent` lose at most what rounding
  loses, for any two scales, which takes lemmas about `\div`;
- `NewsInv` (notifications): the ring has one entry for an id, an entry that still keeps
  duplicates away was posted, and what was posted lately has one (`EntriesInv`);
- `ChargedInv` (battery): main, the io thread and the one that connects meet in the cache, and
  what the cache has is what was told or is about to be, unless two of them were at it (`ToldInv`); and the
  two halves of a phone's report are of one report, unless it is being stored (`ReportInv`);
- `OrdersInv` (commands): a list under way is of the setting as it is, or as it was before
  a change that is remembered;
- `JsonInv` (documents): a body without a document of its own has none, or is the one view
  that an iteration lends (`BodyInv`). There is a lemma for each way in which a body comes to
  own a document, writes to it, hands it on or frees it;
- `CoverInv` (title bar): each step of the scaling loop reads at a place that it has not
  written yet (`ReadsAhead`), so the buffer before each step is the new pixels up to there
  and the source from there on (`Buffer`); and what is left after the shrinking fits
  the frame (`TargetFits`), so that the loop stays inside the buffer, for covers and frames
  of any size at the top, and at the side for covers with as many pixels as the square. The loop is a function on the steps taken,
  which equals `Buffer` because there is no least step at which it would not;
- `ListInv` (device list): a device is in one place of a poll at a time (`OnePlace`), and
  one that was left alone is still to be read, is listed as it is, or found no room (`Followed`);
- `DeviceScreenInv`: an unpaired phone is paired on no screen (`PartedInv`); where
  both sides are paired and connected, the last list on its way or the menu is the phone's,
  or a word that makes it send one is on its way to it (`MenuInv`).

With them `PeerIsSoundTheorem`, `ScreensAreTrueTheorem` and `PhonesAreToldTheorem`
state the invariants of the run `peer` for every number of players, phones, sinks,
notifications, commands, documents, devices and sizes. The first excepts the part "mdns".

Only model-checked:

- the liveness properties: proving them takes fairness and ENABLED, which this prover
  does not handle;
- the part "mdns" of `PeerIsSound`: that a packet is read as it was written is a claim
  about two recursive functions over names and records, to be shown by induction over
  that data;
- `WholeIsRead` and `ReportsAgree`, for the same reason.

## 5. Not modelled

- The decoder of pictures (`stb_image.h`), vendored: a function of its input.
- Drawing and layout of the overlay, wording, and the log's file: no property is
  about them.
- The pairing verification key: displayed to the users, never compared by the
  program.
- `send_payload`, the variant for a payload in memory, which nobody calls.
- The UDP broadcasts at the start: the identity that `Meeting` already lets arrive
  at any time.
- The parts of `mdns.h` that the program never calls, the table of key codes of the
  keyboard, and the scripts that look up symbols.
- The contents of packets and payloads, beyond what a property tells apart.

The note of each component in `PROJECT.json` says what of it is left out.

## 6. Plan

1. The hazards no property excludes. Most are steps of the models which the code lets
   happen, and the properties name them as exceptions: `PROJECT.json` says at each
   hazard which exception that is. Two could have a property of their own: an upload that is
   pushed after `stop` has cleared `pending_threads_` (K 1107), for which
   `QuiescentAfterStop` would have to speak of uploads; and a read error taken for a missing
   identity (`utils/storage.cpp` 213), which `IdentityLasting` assumes away.
2. Proofs that a packet of mDNS is read as it was written, name by name, in a module
   whose packets are given by their length instead of by recursion over records.
3. Datagrams of mDNS that others make: cut, or with the records of several devices.
