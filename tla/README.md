# seestar-proxy in TLA+

seestar-proxy stands between one Seestar telescope and many clients (phones,
scripts). It keeps one connection per telescope port, shares it among the
clients, answers discovery in the telescope's name, can record a session and
replay it, and can expose itself through WireGuard or Tailscale. This directory
holds TLA+ models of its components, the TLC runs that check them on small
instances, and TLAPS proofs, for every size, of every safety property the runs check:
of the control and imaging proxies, discovery and pairing, the recorder and its replay,
the telescope's status and the traffic log, the WireGuard endpoint with its TCP stack,
and the start with its settings and keys.

`PROJECT.json` lists components, runs, mutants, the map from definitions to
source lines, hazards and theorems. Paths below are under `src/src/`.

## 1. Inventory

| Component | State | Operations | Hard behaviour |
|---|---|---|---|
| Control proxy (`control.rs`) | id counter, pending map behind a lock, upstream channel (256), per client a response channel (64) and an event receiver, `handshake_done`, up flag | accept, read request, register, send, write reply or event; connect, drain, write loop; read line, route; heartbeat | five kinds of task interleave; reconnects with requests in flight; a reader that outlives its connection; full channels and a full map; lock held across an await |
| Imaging proxy (`imaging.rs`) | frame ring (32), receivers, command channel (256), up flag | publish, receive or lag, read line, heartbeat, reconnect | slow clients, joining in mid-stream, outage with heartbeats queueing |
| Discovery (`discovery.rs`) | cached device info, `have_real_info` | probe, TCP fallback, answer scans, learn, re-probe | lost, duplicated, own datagrams; firmware errors |
| Recorder and replay (`recorder.rs`, `replay.rs`) | `control.jsonl`, frame files, manifest, counters | record line, record frame, finalize; load, replay | overlapping writers, failing writes, exits without a manifest, directories used twice |
| Traffic log (`metrics.rs`, `dashboard.rs`) | ring (bounded), sequence counter, stream cursors, the page's table | push, `log_since`, stream turn, reconnect, restart | number taken outside the lock; pages outlive the process |
| Telescope status (`metrics.rs`, `hooks.rs`) | two copies of what the telescope does: for the dashboard and for scripts | apply an event, reset on connect | two resets at different moments, a reader that outlives its connection |
| Hook engine (`hooks.rs`) | Lua state, telescope table | per message: pass, block, reply, inject | hooks run inside other tasks' steps |
| WireGuard endpoint (`wireguard/mod.rs`, `dns.rs`, `tunnel_discovery.rs`) | peer address, session, channels to and from the stack | read datagram, egress, timer, announcement; answer DNS, scans, pings | roaming, late and repeated datagrams, expiring sessions, a full channel |
| WireGuard TCP stack (`netstack.rs`, `bridge.rs`) | smoltcp sockets, channels | poll turn, bridge pipes | drops in full channels, sockets that are not reopened |
| Configuration and start (`config.rs`, `main.rs`, `wireguard/keys.rs`, `tailscale/mod.rs`, `ntp.rs`) | settings in force, key files, running tasks | load and merge, resolve, raw mode, keys, QR code, spawn, Ctrl-C | three sources of settings; kills between two steps; parts that fail without stopping the rest |
| Pairing tool (`bin/ble_pair.rs`) | where the exchange is | scan, connect, challenge, verify, hand over WiFi settings | replies without ids, lost commands, unasked notifications |

Interactions: clients reach the two proxies over TCP (directly, or through the
bridges); the proxies call the hook engine, the recorder and the metrics inside
their own steps; the dashboard polls the metrics; in transparent mode the first
clients tell the proxies the telescope's address.

What makes them correct: a reply goes to the client that asked, once, with its
own id; nothing waits for ever; limits hold; a slow or dead client harms nobody
else; every client sees one image stream in order; clients are sent to the
proxy and never past it; a replay is the session; what a user set is in force;
a QR code shown once stays valid; what a part fails at stops no other part.

## 2. Modules

| Module | Models |
|---|---|
| `ControlMux` | the control proxy: every task, one action per step between two awaits |
| `RequestLedger`, `ControlMuxRefinement` | the abstract promise about requests, and the mapping that shows the proxy keeps it |
| `ControlMuxInv`, `ControlMuxProofs` | the inductive invariant, and the TLAPS proofs of it and of the refinement |
| `ControlMuxLive` | fairness and liveness of the control proxy |
| `ImagingFanout`, `FrameFeed` | the imaging proxy, and the abstract feed it implements |
| `DiscoveryBridge` | the discovery bridge over an unreliable network |
| `SessionRecording` | the recorder, its directory, and what a replay of it plays |
| `TrafficLog` | the log ring, the dashboard's stream and the page |
| `TelescopeStatus` | the two copies of the telescope's state; extends `TrafficLog`, whose log the same readers write |
| `TunnelStack` | a port of the WireGuard endpoint's TCP stack, its channels and bridges |
| `PacketLoop` | the WireGuard endpoint's packet loop, DNS, tunnel discovery and pings |
| `Startup` | settings, the steps of `main`, key files, restarts |
| `Pairing` | the Bluetooth pairing tool against a telescope |
| `ImagingFanoutProofs`, `DiscoveryBridgeProofs`, `SessionRecordingProofs`, `TelescopeStatusProofs`, `TunnelStackProofs`, `PacketLoopProofs`, `StartupProofs` | the TLAPS proofs about the module each is named after (section 5); `DiscoveryBridgeProofs` also holds those about `Pairing`, whose names are its own so that both can be extended |
| `Picking` | what a filter over a sequence collects, for `TrafficLog` and `SessionRecording` |
| `MC*` | symmetry sets, settings and packets for TLC |

`ControlMux` holds the control proxy's part in everything else: the readers of
`TelescopeStatus` and `SessionRecording` are its readers, `TunnelStack` is behind
the `inject` and `egress` channels of `PacketLoop`, and `Startup` spawns the tasks
the other modules describe.

### ControlMux and control.rs

A line to or from the telescope is the id the proxy allocated for it, or `Anon`.
`pc` is the handler's place in `handle_client`: `reading`; `replying` (a hook
answered in the telescope's place); `lock` (an id is allocated, the pending map
is next); `overflow` (the map is full, the error is being sent with the lock
held); `sending` (registered, waiting for the upstream channel). `up` is the
upstream task: connecting, locking and draining the map, running the connect
hook, serving. `rd[e]` is the reader of connection `e`; `taking` is between the
read and the lock, `routing` between the removal from the map and the send. The
lock is not a variable: `LockFree` says that no task is at a point where it
holds it over an await (the overflow reply; the drain). `owner`, `refused`, `got`, `greeted`
and `panicked` are history. Slots bound the readers alive at one time, not the number of
reconnects: a dead reader's slot is used again. A reader ends in one of two ways:
`ReaderEnd` clears the flag, `ReaderPanic` does not, because the log lines cut the
text of a line at a fixed byte (lines 626-637 and 656) and a cut inside a character
ends the task before line 773. The like cuts of a client's line (424-427) end its read
loop with the connection, which is `ReadError`.

Abstractions: aborting the writer task takes effect at once; an accept and the
subscription to events are one step, although the code pauses 200 ms between
them; lines a hook script injects carry no id the proxy allocated; a connect
attempt that fails changes nothing and is left out. The log level is the default,
`info`: with `-v` more log lines cut texts (95, 237, 439, 450; `imaging.rs:60`, `:121`)
and can end the tasks they are in, the upstream task included.

### ImagingFanout and imaging.rs

Frames are their numbers. `ring`, `tail` and `next` are tokio's broadcast
channel: a receiver that falls behind by more than the capacity gets `Lagged`
and goes on at the oldest frame left. `pc` and `wr` are the two tasks of a
client. The upstream task, its readers and the heartbeat task are as in the
control proxy; heartbeats are made whether or not there is a connection.

### DiscoveryBridge and discovery.rs

An info is its serial (the telescope's, a placeholder, none) and its address.
The network is a set: reading a datagram may leave it there (duplication),
`Lose` removes it, sets have no order. Every answer is broadcast, and the
bridge may hear it. Clients and telescope are the environment. `Misled` says that
the bridge holds for real info what is none: an error answer with a code
(`discovery.rs:166-179`), or the fallback's serial `unknown`.

### SessionRecording, recorder.rs and replay.rs

A frame takes its number (`TakeFrame`), then its file is written; nothing
orders the writes of two readers. The three writes of a control line may fail
separately: `torn` says that the last line has no newline, and what is written
next is joined to it and unreadable. Names are compared as text: `Shifted` divides
a number by the base again and again, `DigitCount` says how many digits the padded
name has, `Bytes` gives the digits and the kind as byte ranks, and `Before` is the
order of `sort`. `frame_paths` is the files in that order, `control_messages` the
readable lines of the telescope.

### TrafficLog, metrics.rs and dashboard.rs

`TakeSeq` is the `fetch_add`, `PushEntry` the push under the ring's lock.
`Tick` is one turn of the event stream with the page's reaction; `Restart`
gives a new process the old pages. `log_since`, the page's test for new entries and
its window are filters (`Picked`). The page compares the proxy's timestamps with the
browser's clock, so `Expire` lets any entries of the table turn out too old, also
ones that have just come; what was too old stays so (a clock set back is left out).
Entries are evicted (`InWindow`) only in a turn that brought something, as `appendLog`
returns early otherwise. `taken` is history: all the page ever appended. What
`recordStore` keeps of the entries for the page's recording button is left out.

### TelescopeStatus, hooks.rs, metrics.rs and control.rs

A field of a copy holds the connection whose event set it, 0 for false, zero or
nil. The upstream task's `Connect_telescope` resets the dashboard's copy,
`on_upstream_connect` the scripts' copy; between the two it waits for the lock of
the pending map. A reader applies an event to the Lua table (`ReadEvent`), logs it
in two steps (`LogTake`, `LogPush`), applies it to the status and asks the script.
`shared` is history: a reader of an earlier connection was alive at the reset.
`MaxConns` bounds the connections of a whole behaviour, through restarts of the proxy.

### PacketLoop, wireguard/mod.rs, dns.rs and tunnel_discovery.rs

One action per branch of the `select!`, with one disjunct of `ReadDatagram` per
result of the decryption. The network is two sets; a packet's datagram may come
again, anything may come late or never. boringtun is external: a session (none;
made, which the client has not used; current), whether a handshake of its own is
under way, and the packets it keeps meanwhile. The client roams from address to
address, loses its session and makes a new one. Packets are numbered in the order
the client sent them. `Packet` is what the handlers look at: protocol, addresses,
ports, and what a payload is about; `Script` gives the packets among which the client
chooses each time, and `Hosts` the addresses inside the tunnel. The UDP packets have
a length field that counts their header: a smaller one, to the discovery port, is
not checked (`tunnel_discovery.rs:43`) and ends the loop with a panic, which is left out.

### Startup, config.rs, main.rs, keys.rs

`setup` is what the user wrote: partial assignments for the command line, the
environment and each candidate file. A flag on the command line can only be turned
on (clap's `SetTrue`), while the environment and the file can also say `FALSE`. `pc` walks through `main`; what may fail is a
disjunct, fatal (`Exit`) or logged (`Goto`). `key_file` and the clock outlive the
process, `Kill` may come between any two steps, also between the creation of a key
file and its content (`Torn`). A key is the number of the pair it belongs to. The
probe of the telescope is awaited by `main` itself and cuts the answer it logs at a
fixed byte (`wireguard/mod.rs:206-209`), so it may end the process. `Kill` ends the
process and not the machine: what was written stays written. Files that are there can
be looked at (`path.exists()` is also false when it fails).

### Pairing and ble_pair.rs

The tool writes a command and takes the next notification for its reply.
Notifications are told apart by what they are about, which the tool does not see,
and by their form, which it does. The telescope loses commands, refuses, answers
late, garbles, and notifies of its own accord. While the tool sends a command or waits
for its reply, `pc` is the name of the command, and `written` tells the two apart: the
wait has a time limit, the call that writes has none. `InCall` says that the tool is in
such a call of the Bluetooth library. `misread` is history: the tool took
for a reply what was none.

### TunnelStack, wireguard/netstack.rs and bridge.rs

One turn of `run_stack` is one action: an event changes the socket, then `Turn`
takes a new connection, moves one message each way, or drops the entry of a
closed connection. smoltcp is external: a socket with a state and two buffers of
bytes, `Data`, `Ack`, `Fin`, `Rst` as the peer's events, and `Emit` for a poll that
only sent something. A byte is its place in its stream. The two ports share
only the turns, so one is modelled. The socket that listened becomes the connection:
a reset in the handshake makes it listen again, any other end leaves it closed.
`hole` is history: the directions in which a full channel, a short `send_slice`
or a failed write has lost bytes.

## 3. Runs

All runs pass (TLC explores all states). An invariant named `...Inv` joins the types of
a module with its structural invariants.

| Run | Instance | Shows |
|---|---|---|
| `control_safety` | 2 clients, 2 overlapping connections, 2 ids, all capacities 1 | the invariant of the proofs (`ProxyInv`); replies reach their owner (`RoutedToOwner`), once (`AtMostOneReply`); the map keeps its limit; while a connection is served nothing waits for an earlier one (`NoOrphan`); only answers nobody waits for are broadcast; the flag is up without a reader only after a reader's panic (`UpFlagHonest`) |
| `control_hooks` | 1 client that pipelines 2 ids, hooks, events and notifications | the refinement of `RequestLedger` |
| `control_liveness` | 1 client, 1 connection at a time, fairness | a request leaves the map in the end; a handler returns to its read loop |
| `imaging_safety` | 2 clients, ring of 1, 2 frames, 2 lines of one client, 2 connections, transparent | what a client saw is the stream since its accept, with gaps only after a real lag (`NothingMissed`, `FanoutInv`); lines in order and once; refinement of `FrameFeed` |
| `imaging_liveness` | one client stalled, channel of 1 | the other client is served to the end; a line gets its place behind any number of heartbeats |
| `dashboard` | 2 connections in a behaviour, whose readers may overlap, 2 events, ring of 2, 3 entries, 1 page, 2 processes, any entry may expire at any turn | the ring is the latest pushes, the cursor never runs ahead, and what a page takes and shows is in the order of the numbers and lacks only what expired (`DashboardInv`); no entry shown twice; after each turn the page shows what is in the ring and in its window, and after one that brought something nothing else, if pushes came in order and within one process (`PageIsCurrent`); a script asked about an event finds it applied; no flag survives a reconnect, and the copies agree, unless an earlier reader was still at work |
| `recording` | 2 readers, 2 tasks, names of 2 binary digits, 3 frames, 2 lines, 2 recordings | an exact replay of the first recording; no frame overwritten, one file for each, no line twice (`DirInv`); control playback of the latest session only |
| `discovery` | 2 clients, all kinds of answers | no answer to an answer (`BridgeInv`); never the telescope's address; real info is kept; a telescope that was away is found, with its own serial number, unless the bridge was misled (`InfoLearned`) |
| `tunnel` | 2 connections on one port, 4 bytes each way, channels of 1 message | both streams in order and without repetition, complete unless a drop is on record (`StreamsInOrder`); the same piece by piece, and a connection has its own channels and bridge (`StackInv`); what the proxy sends leaves its channel |
| `packet_loop` | 2 addresses, 2 packets of four kinds, channels of 1, 1 expiry | each packet is fed to the stack once or dropped for want of room, each query answered once (`LoopInv`); replies go to the asker (`RepliesMirrored`); announcements reach a client that stays, wherever it roamed to |
| `startup` | 85 setups from four kinds of source, 3 starts | the settings in force are those the sources gave, the verbosity the highest of those asked for (`StartupInv`); a configuration shown without a warning stays the one (`QrSurvivesRestart`); a process gets to run its proxies, or ends for a fatal reason or in the panic of its probe (`GetsToRun`) |
| `pairing` | 2 unasked notifications, 2 other devices | answers are true however late they come, and what the tool claims is so (`PairingInv`); it ends, or hangs in a Bluetooth call without a time limit (`PairingEnds`) |

Why the bounds are enough: every hazard is a race of two or three parties at a
limit, so two clients, two readers and capacity one or two reach the full, the
empty and the contended case; two ids allow a refused request and one that
overtakes it; two frames on a ring of one make a receiver lag; two binary
digits are to three frames what four decimal digits are to 1001; three starts
are a killed one, one that finds what it left, and one more; two packets fill a
channel of one, and the first of them is the one that makes the session active.
The events of `dashboard` are `Stack`, whose flag both copies hold, and
`ScopeHome_working`, whose flag only the dashboard holds.
`CHECK_DEADLOCK FALSE` is used where the system may stop: the recorder's process
ends; a transparent imaging proxy whose clients never tell an address waits; a
tunnel port stays closed after its connection; the last start and the pairing tool end.

Each property has a mutant of the code (`*_OffByOne`, `*_Skip`, ...), an
alternative definition next to the one it replaces, under which TLC finds the
property violated.

### Disagreements met while modelling

Statements of docs and comments that the code does not keep. Where a definition
is named, TLC refutes it on the constants of the module's safety run; no run lists
it, because a listed run states what holds.

- `AnswerTargeted` (`control.rs:6` "Routes responses back to the originating
  client"): the answer to a request refused while still queued is broadcast to
  everyone (`control.rs:747`).
- `HandlerReturns` with two clients and one of them in `Stalled`
  (`control.rs:24-26` "an immediate error response rather than being queued
  indefinitely"): the error is sent inside the lock (`control.rs:488`); one client
  that stops reading blocks all handlers.
- `StreamIntact` (`wireguard/bridge.rs:15-16` "pipes data bidirectionally"): bytes
  already acknowledged to the peer are dropped when the channel to the bridge is
  full (`netstack.rs:253`), or when `send_slice` takes a part (`netstack.rs:263`).
- `HeartbeatAfterHandshake` (`control.rs:8` "Sends heartbeats only after handshake
  completes"): one that waits in the channel across a reconnect is the first line
  of the new connection.
- `AddressSubstituted` (`discovery.rs:8` "substituting its own address"): an error
  answer with a `code` and no `result` is cached for good and has no address.
- `DownMoves` without the peer's packets: bytes from the proxy move only in a turn
  in which the poll changed a socket, so with a silent peer they wait. And after a
  connection was closed nothing listens on its tunnel port again.
- `RefusedNotSent` (`control.rs:194` "they will never be answered"): a request
  refused while its line is queued is still sent to the telescope.
- `UpFlagLive`, `ImagingFlagLive` (`metrics.rs:56-58`): a reader of an abandoned
  connection that ends late clears the flag of the live one.
- `UpFlagDown` (the same comment): a reader that panics in cutting the text of a line
  (`control.rs:626-637`, `656`) leaves the flag up with no reader.
- `AddressResolved` (`control.rs:132`): with `Transparent = TRUE`, a first client
  that was not redirected makes the proxy settle on the local host.
- `RealSerial` (`discovery.rs:67-68`): the TCP fallback's serial `unknown` and an
  error answer that has a code (`discovery.rs:166-179`) count as real, and the
  telescope is not asked again.
- `ExactFrames` without its last two conditions: after 10^4 frames names no
  longer sort like numbers, and a second recording leaves old frames.
- `PageIsCurrent` without `InOrder` and `SameRun`: an entry pushed after a later
  number was streamed, or logged after a restart, is never shown. And the table keeps
  "entries within the rolling window" (`dashboard.rs:252`) only while entries come:
  without new ones nothing is evicted (`dashboard.rs:422`).
- `NoStaleFlag` and `CopiesAgree` without `~shared` (`hooks.rs:172-174`): a reader
  of the abandoned connection can set a flag after, or between, the two resets.
  `view_mode` is reset in the Lua table alone, `tracking` in neither.
- The header of `config.rs` (3-7) puts the config file above the environment, the
  comment at the merge (230-231) the file below both; the code does the latter (`Fills`),
  and `SettingsHonoured` follows it. A default given explicitly on the command line
  loses to the file all the same.
- `main.rs:188-191` logs the failures of the WireGuard part and goes on, but a panic in
  cutting the answer of the probe (`wireguard/mod.rs:206-209`) ends `main` before the
  proxies are spawned (`ProbeTelescope`).
- A torn key file disables WireGuard at every later start (`LoadKey`); the QR code
  is shown before the UDP socket is bound, so it may be shown for a tunnel that
  does not come up.
- Raw mode without an upstream (with replay, or transparent) ends in a panic
  (`RawMode`).
- Announcements go on after the session expired (`session_active` is never
  cleared); DNS replies come from port 4720 (`build_discovery_response`), not 53;
  nothing but the telescope's name is answered or forwarded.
- `ClaimsTrue` without `~misread`: a challenge the telescope sends of its own
  accord while a reply is awaited, or a notification that is not JSON, is read as
  success by the pairing tool.
- `doc/architecture.md:202` says the discovery cache is not refreshed; the loop
  replaces it as long as it holds the fallback (`Learn`).
- `hooks.rs:13` "Called for each telescope response": `on_response` is called only
  for responses whose id is not in the pending map.

## 4. Fairness

Tokio polls every task that is ready: weak fairness of its step. Its `Mutex` and
bounded channels serve waiters first come first served, and `select!` chooses at
random among ready branches: strong fairness for a task that waits for the lock
or for room, and for the receive branch of the write loops. Of the outside: the
telescope accepts a connection again in the end, answers what it received while
the connection lasts, and an abandoned connection ends. A client outside
`Stalled` keeps reading its socket or breaks. For discovery: clients go on
scanning, and a datagram sent again and again arrives in the end. For the
tunnel: the peer acknowledges and goes on sending packets, if only keepalives.
For the packet loop: the client sends keepalives, or handshakes while it has no
session, and of what goes from and to its present address something of each type
gets through; nothing is assumed of other datagrams, nor that a handshake of the
endpoint's own completes. For start-up: the program takes its next step,
since its waits have time limits, except the one for the tailnet, which `Step` of
`Startup` leaves out. For pairing: the scan and the waits for the telescope's words
have time limits, the steps between them are the tool's own (`Step` of `Pairing`). Of
the calls of the Bluetooth library, which are awaited without a limit (`Call`),
nothing is assumed. For the log's page nothing is assumed either.
Nobody is forced to send data, connect or disconnect.

## 5. Proofs

Every theorem holds for all values of the constants that satisfy the assumptions of
its module (sizes are positive, "none" values are no members of the sets they stand
beside); TLC evaluates these assumptions in the runs. Where an invariant is not
inductive as a run states it, its strengthening is part of the `...Inv` that the
run of the module checks, or is conjoined to it in the proof module.

| Module | Theorem | States |
|---|---|---|
| `ControlMuxProofs` | `RoutingInvariant`, `TypeCorrect`, `PendingLimit`, `RoutingCorrect` | `[]RoutingInv`, `[]TypeOK`, `[]PendingBounded`, `[]RoutedToOwner` |
| | `ProxyInvariant`, `RepliedOnce`, `NothingOrphaned`, `BroadcastsUntracked`, `FlagHonest` | `[]ProxyInv`, `[]AtMostOneReply`, `[]NoOrphan`, `[]BroadcastUntracked`, `[]UpFlagHonest` |
| | `ImplementsLedger` | the proxy implements `RequestLedger` |
| `ImagingFanoutProofs` | `FanoutInvariant`, `NothingIsMissed`, `LinesOrdered` | `[]FanoutInv`, `[]NothingMissed`, `[]LinesInOrder` |
| | `ImplementsFeed` | the fan-out implements `FrameFeed` |
| `DiscoveryBridgeProofs` | `BridgeInvariant`, `AddressHidden`, `RealInfoStays` | `[]BridgeInv`, `[]NeverTelescopeAddress`, the action property `RealInfoKept` |
| | `PairingInvariant` | `PairingSpec => []PairingInv`, of `Pairing` |
| `SessionRecordingProofs` | `DirectoryInvariant`, `FramesExact`, `ControlExact` | `[]DirInv`, `[]ExactFrames`, `[]ExactControl` |
| `TelescopeStatusProofs` | `StatusInvariant`, `HookSees`, `FlagsReset`, `CopiesInStep` | `[]StatusInv`, `[]HookSeesEvent`, `[]NoStaleFlag`, `[]CopiesAgree` |
| | `LogRing`, `EntriesOnce`, `PagesCurrent` | of `TrafficLog`: `[](RingIsSuffix /\ NumbersOnce)`, `[]NoEntryTwice`, the action property `PageIsCurrent` |
| | `DashboardInvariant` | `[]DashboardInv`, the invariants of both |
| `TunnelStackProofs` | `StackInvariant`, `StreamsOrdered` | `[]StackInv`, `[]StreamsInOrder` |
| `PacketLoopProofs` | `LoopInvariant`, `RepliesGoBack` | `[]LoopInv`, `[]RepliesMirrored` |
| `StartupProofs` | `QrSurvives`, `KeysOnDisk`, `StartupInvariant` | `[]QrSurvivesRestart`, `[]KeysFollowFiles`, `[]StartupInv` |

The arguments:

- **Control proxy, first layer.** `RoutedToOwner` speaks of replies already queued; to
  preserve it one must know that whoever is about to queue one holds the right
  request. `RoutingInv` adds that: `Ownership` says that every holder of a request
  (pending map, handler before registration, handler with an overflow error, reader
  that took an entry, response channel) agrees with `owner`, the history of who an id
  was given to; `OwnerStep` shows that an id, once given, keeps its owner.
  `PendingBounded` is inductive by itself because the size check and the insertion are
  one critical section.
- **Second layer.** At most one reply needs that a request is in at most one place at
  any time (`ReplyParts`: handler, map, reader, response channel, already answered),
  and `NoOrphan` that a line is in at most one place too (`LineParts`: a task's hand,
  the channel, the telescope's side of one connection). Few steps move a request or a
  line; the proof shows what those do and that every other step moves nothing
  (`QuietActions`, `QuietLines`). `NoReaderYet` says a connection that is being set up
  has no reader, which the flag and the drain rest on. The flag needs no more: each
  store of it leaves it up only where a reader is alive, and `panicked` says that one
  has died since without a store.
- **Request ledger.** A request is open in the ledger as long as it is held anywhere.
  The same places show that a step opens a request, closes one, or keeps the ledger.
- **Imaging.** Slots of the ring are frame numbers modulo its size; frames less than
  the size apart have different slots (`RemaindersDiffer`), so a receiver that is
  not lagging reads its own frame. Line order is proved by the positions in the queue
  and the last line forwarded of each client.
- **Discovery.** The network holds only datagrams of known kinds; an answer in it has the
  proxy's address because the cache has it or none.
- **Pairing.** `ClaimsTrue` speaks of what the tool has said; to preserve it one must know
  that the answer it is about to believe is true. `AnswersTrue` says this of every
  notification on its way, whatever the telescope did since: what it confirmed
  (`verified`, `wifi`, `trusts`) it never takes back. An answer to another command, or
  one that is not JSON, sets `misread` when it is believed.
- **Telescope status.** `StatusInv` says where each reader is between the two updates
  and that both copies hold what the readers' progress implies; `shared` excepts
  overlaps.
- **Traffic log.** The ring is the end of the history of pushes, position by position.
  `PageFollows` says of what a page took (`taken`) that its numbers grow, that `lastSeq`
  is the last of them and the cursor at most one further, whatever of it has left the
  window since. The table is in the same order and has nothing else, and what it lacks
  has expired; from this no entry is shown twice. What a turn sends, and what the window
  keeps, is given by `Picks`: `Picked` keeps the elements at the chosen positions, in
  their order and each once. `PageFollows` also says that the page took what the
  ring has up to `lastSeq`, when pushes came in order. The turn takes the rest, and what
  was taken is shown or expired, which gives `PageIsCurrent`.
- **Recording.** Two halves that share only the phase and the session. Frames: a number
  was taken by one reader only (`FilesNumbered`, `NoFrameOverwritten`). Lines:
  each is in the file or in a task's hand, not both (`LinesOnce`), and nobody holds
  anything when no process runs (`NothingHeld`).
- **Replay.** `OneFileEach` says that a number of the session is in one file name only,
  whatever the kind, so after a recording without failures frames and files correspond.
  For numbers below `Power[Width]` all names have `Width` digits; of two of them the
  first digits that differ are found at the last place where the numbers, cut off there
  (`Shifted`), differ, and order the names like the numbers (`NumbersSort`). So there is
  only one way to sort the files. Lines: the picked lines have increasing
  positions, and `LinesOnce` tells the lines of the latest session apart.
- **Tunnel stack.** `StreamsInOrder` flattens the channels, which is not inductive step by
  step. `PiecesInOrder` says the same of the pieces: each is in order, each comes
  before the next, and together they hold every byte unless a hole is on record. A
  lemma for each movement of bytes (arrive, read, send, deliver, acknowledge, drop)
  and `TurnStep` for a whole turn of the loop do the rest. `EntryFollowsSocket` says
  that nothing was done yet for connections to come, which a new connection needs.
  `Flattened` then goes from the pieces to the streams: pieces in order, put one after the
  other, are in order and hold the bytes of all, and an increasing sequence that holds
  the numbers up to `top` and no others is `Upto(top)`.
- **Packet loop.** `FreshPackets` says that packets the client has not sent yet are
  nowhere; with it `EachPacketOnce` is inductive. Types of endpoint and client are
  parts of their own.
- **Keys.** `KeysFollowFiles` follows one start through its steps and counts the pairs
  a process may still generate, so that a torn file is never a pair's number.
- **Settings.** `MainInv` says that from the load to the end of the process the settings
  are what the load made of the sources (`Loaded`); before it there are none. What the load
  makes of them is a matter of fields: the cases of `Fills` for fields with and
  without a default (`FieldsHonoured`), disjunction for flags (`FlagsHonoured`), where
  the proof needs that a flag of the command line is never `FALSE`, since `Parse` prefers
  the command line to the environment. `HooksMerged` follows the loop that appends the
  file's hooks one by one. The verbosity is the maximum of those asked for: it is one of
  them, and none is above it.

Facts about recursively defined functions (`Picked`, `FlattenSeq`, `Shifted`, `Power`, the
loop over the hooks) hold for every length because the proof modules reason from a least
counterexample: `Least` says that a non-empty set of naturals has a smallest member (from
`WellFoundedInduction`, stated for sets), and a recursion is met by a function because
of the shortest prefix for which it would not be (`PickedExists`, `FlattenExists`). Each
proof module that needs these lemmas states them for itself.

Only model-checked is liveness: `RequestSettles`, `HandlerReturns`, `FramesArrive`,
`LineForwarded`, `InfoLearned`, `DownMoves`, `AnnouncementsArrive`, `GetsToRun` and
`PairingEnds`. Fairness and ENABLED are out of the provers' reach.

The provers know nothing of what is in a string, so that the defaults of the settings are
strings is an assumption (`DefaultsAreStrings`), which TLC evaluates.

## 6. Not modelled

- The bodies of messages, wording, logging, HTML, rates and measurements: no
  property is about them. Cryptography (boringtun), smoltcp's TCP, Lua, clap's and
  serde's parsing, Bluetooth and the operating system are external.
- What a hook script computes, and how its return value is decoded: the decision
  is a choice in `ControlMux`.
- The raw pipe of `main.rs` and the copying of the Tailscale bridge: each copies
  bytes between two sockets.
- `read_line_limited` (`control.rs:535`): a line is atomic; `protocol.rs`: pure
  classification, whose results are the kinds of message the modules use.
- `qr.rs`'s drawing, the arithmetic of `ntp.rs`, checksums and byte layout of the
  tunnel's packets, `bin/ble_scan.rs`, which only prints.
- The dashboard's recording button, the entries its page keeps for it (`recordStore`),
  and the routes that return one value.
- A loss of power (`keys.rs:61` does not sync what it wrote), a clock that is set back.
- Panics in cutting the text of a line for the log at levels below `info`
  (`control.rs:95`, `237`, `439`, `450`; `imaging.rs:60`, `121`), and the one of a UDP length
  below 8 on the discovery port (`tunnel_discovery.rs:43`).

## 7. Plan

Done, in order of importance: control proxy, imaging proxy, recorder and replay,
discovery, traffic log, tunnel stack, packet loop, start-up with keys and settings,
telescope status, pairing, and the proofs of section 5. One run asks one question; new
properties join the run of their module.

Left:

1. `read_line_limited`: the result depends on the bytes and not on how they are
   cut into chunks. The raw pipe with a half-open client.
2. Liveness beyond the bounds of the runs, should the provers come to handle fairness.
