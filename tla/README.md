# A TLA+ verification project for linrdp

linrdp is an RDP server for Linux. It is a set of processes that share state
through files, file locks, descriptors, signals and sockets, and hardly any of
what makes it right is visible from inside one function. This project models
those processes, checks the models with TLC on small instances, and proves the
most important safety properties with TLAPS for instances of any size.

Paths below are relative to `src/linrdp/src/` unless they say otherwise.
`PROJECT.json` holds the machine-readable side of this page: every component,
every run and what it shows, the source lines behind every definition, the
hazards, the findings and the theorems.

## The system

| part | source | state | operations | hard part |
|---|---|---|---|---|
| supervisor | `supervisor.rs`, `main.rs` | listeners, budget of workers | bind all, poll, reap, accept, admit, fork, drop a dead listener | process numbers reused, limits, a shrinking vector of listeners |
| UDP dispatch | `udp_dispatch.rs` | channels, requests, client routes | register, route, deliver, forget a worker | datagrams against registrations against exits |
| tunnel loop | `udp.rs` | the client being accepted | receive, accept, fail, serve | failed accepts, retries |
| session lifecycle | `session/mod.rs`, `session/keeper_main.rs`, `session/keeper.rs`, `session/backends/` | account locks, keepers, desktops | find, probe, forget, allocate, spawn, hand over, wait, publish, end | every process may die at any step; desktops outlive keepers |
| registry | `session/registry.rs` | one record file per display | write, read, forget, set the lock flag, lock all | files are rewritten in place, read-modify-write without a lock |
| display allocation | `session/display_alloc.rs` | one lock file per display | allocate, hand off, adopt, release | locks shared by descriptor across fork |
| gate | `session/gate.rs` | the screen a worker may touch, a generation | bind, read name, number, cookie, connect | readers on other threads while it moves |
| router, logon form | `session/router.rs`, `greeter.rs` | the identity, what to lock | route, show the form, bind, lock on disconnect | the form's thread against the connection's task |
| capture, input | `capture.rs`, `gfx_display.rs`, `main.rs` | cached X connections | connect, mint a source, poll, follow, attach | caches that must follow the gate |
| session controller | `session_ctl.rs` | a counter of clients | connect, disconnect | counts per process |
| authentication | `auth.rs`, `pam.rs`, `sam.rs` | the SAM file | decide, capture, rewrite | several writers of one file |
| clipboard, files | `clipboard.rs`, `x11_selection.rs`, `session/fileagent.rs` | formats offered by each side, transfers | offer, request, answer | both sides own the clipboard at once |
| microphone | `mic.rs` | recording or not, its channel | ask for a channel, close it | a channel that is asked for, refused, closed and moved by others |
| audio | `sound_real.rs` | playing or not | start, stop, follow the session | the session moves while it runs |
| Wayland | `wayland/` | the compositor desktop in use | publish, attach, relock | D-Bus calls that fail halfway |
| RDP-UDP | `src/crates/ironrdp-rdpeudp` | handshake, send and receive windows | send, acknowledge, retransmit, give up | loss, repetition, reordering, wrap-around |
| RDP-UDP tasks | `src/crates/ironrdp-rdpeudp-tokio` | buffers and wakers shared by three tasks | poll, wake, close, drain | a wake-up that comes before the sleep |
| connection sequence | `src/crates/ironrdp-acceptor`, `ironrdp-connector`, `ironrdp-async` | two state machines and one stream | one PDU at a time | early PDUs, reactivation under traffic, an end that stops |
| server core | `src/crates/ironrdp-server` | the client loop: reader, dispatcher, display | accept, replay, dispatch, resize, route | one lock, and tasks that are dropped where they wait |
| dynamic channels | `src/crates/ironrdp-dvc` | channels, Soft-Sync | create, close, move to the tunnel | TCP and tunnel are not ordered against each other |
| display loop | `gfx_display.rs`, `gfx.rs`, `src/crates/ironrdp-egfx` | debts, surface, encoders, frames in flight | grab, encode, acknowledge, start over | a client that lags, suspends, restarts or resizes in the middle |
| codecs, other channels | `src/crates/` | per message | encode, decode | data |
| configuration, service, doctor, command line | `config/`, `configtui/`, `service/`, `cli/`, `doctor.rs`, `daemon.rs` | files | one-shot commands | none of the kind a model checker finds |

How they interact: the supervisor forks a worker for each TCP connection and
passes it the socket and a datagram channel. The worker authenticates the
client, or shows a logon form on a private X server, and looks for a session of
the account under the account's lock. Without one it claims a display number
and forks a keeper, which inherits both locks, starts an X server (or a
headless GNOME session), publishes a record and lets go of the account. The
worker then binds its gate to that display; capture and input follow the gate.
When the client leaves the worker marks the record locked and exits; the
keeper and the desktop stay. A supervisor that starts again first marks every
record locked.

On the connection itself, the acceptor and the client's connector agree on
protocols, channels and a size. After that three tasks of the server share it:
one reads PDUs, one dispatches events, one draws. The display loop turns damage
of the screen into frames of the graphics pipeline. Meanwhile the client may
build an RDP-UDP tunnel, which has a driver and two pumps of its own, and the
dynamic channels then move to it.

## Modules

| module | models |
|---|---|
| `Sessions` | workers, keepers, desktops, the registry, the display and account locks, supervisor restarts |
| `Handover` | one worker: task, form thread, gate, capture source, input |
| `Supervisor` | the poll loop, the budget, the UDP dispatch, the tunnel loops of the workers |
| `SeqNumbers` | sequence numbers that travel as their low part |
| `RdpUdp` | two ends of the RDP-UDP transport and the network between them |
| `Fifo` | what a stream transport promises; `RdpUdp` implements it |
| `UdpStream` | the driver, the two pumps and the shutdown of a tunnel, with their buffers and wakers |
| `Connect` | acceptor, connector and the part of the server that takes over, with reactivations |
| `Dynamic` | the dynamic channels, the client loop, the tunnel queue and the microphone watcher |
| `Graphics` | the display loop, the graphics pipeline and the client's surface |
| `MC...` | small instances for TLC |
| `...Proofs` | lemmas and theorems; `TunnelProofs` has those of `UdpStream` and `SeqNumbers` |

A definition whose name ends in `_Something`, with a comment that begins
"Variant", "A plausible slip" or "A wrong version", is the definition without
that suffix with one plausible mistake in it. These show that the properties
notice such a mistake.

### Sessions

One *login* is one worker together with the keeper and the desktop it may
start; `UserOf` and `BackendOf` give its account and the kind of desktop it
chose. The state of the code is mapped like this:

- `wpc`, `kpc`: the step of `attach_or_create`, `create`, `bind` and
  `on_disconnected` a worker is at, and of `keeper_main::run` and a backend's
  `serve` a keeper is at. A kill is possible at every step.
- `afd`, `dfd`: which of the two processes have a descriptor of the account's
  and of the display's lock file. A `flock` is free when nobody has one, which
  is how it survives the fork and how it ends with a death.
- `reg`: a record file. `fs::write` truncates first, so each `write_record` is
  two steps and a reader may meet an empty file; `open` says whose descriptor
  a removed file still belongs to.
- `cookie`: the cookie file of an account and a display. An X server accepts
  the cookie it was started with, which is what `desktop_is_live` tests.
- `desk`: the X server or GNOME session, which goes on when its keeper dies.
- `spc`, `scur`, `stmp`: the `lock_all` scan of a supervisor start.

Bounds: `MaxFaults` deaths and timeouts, `MaxRestarts` restarts, display
numbers `First .. Last`. Two logins of one account are enough for two processes
to meet at every lock and file; three logins of two accounts on one number add
its reuse, by the same account and by another. Logins of the same account and
kind are interchangeable, which `Symmetry` uses.

### Handover

A *screen* is an account's desktop, the logon screen or the ambient display.
`bound`, `gen` and `env` are the gate; every read of the gate in
`gate::connect` is a step of its own, so that the gate can move between two of
them. `fac` and `src` are the capture factory's cache and the frame source,
`inp` the input handler's cache. `lpc` is the route to a desktop, which runs on
the connection's task (`main = "binding"`) or on the form's thread. Two
accounts suffice: one to be let in and one to be kept away. `MaxLost` bounds
how often a source is dropped; once is enough for a second mint. `MaxFaults`
bounds what keeps the disconnect from locking: `set_locked` fails on a missing
or torn record, which `on_disconnected` logs and passes over, or the worker is
killed before it gets there.

### Supervisor

`spc` and `idx` are the place in `run`'s loop: reap, poll, every UDP port,
every channel, every listener, then the removal of dead listeners. A listener
is named by its index in `live`, as in the code. `workers`, `channels`,
`requests` and `clients` are the books, `proc` is what the kernel knows, and
`tun` is the state of a worker's `tunnel_loop`. `MaxQueue` bounds sockets and
channels (a full one loses the datagram, as in the code), `MaxFaults` failing
system calls, `MaxBroken` broken listeners, `Hashes` the requests ever made.

### RdpUdp, SeqNumbers, Fifo

`RdpUdp` has one record per side for the send window with its retransmissions
and congestion window (`snd`) and one for the receive window (`rcv`). An action
is one call into `RdpeudpConnection` by the driver: a datagram is received, the
next transmit is taken, a write is queued, a timer fires. `net` is a set of
datagrams, which may be lost, repeated and read in any order. Sequence numbers
are kept in full and sent modulo `Wire`, as in `seq.rs`, and `FirstData` and
`FirstChannel` are chosen so that both wrap. Durations are left out: a timer
that is set may fire at any time, and firing before the answer can have come is
one of the faults a scenario allows. A scenario bounds writes, window sizes and
each kind of fault. `Fifo` is two streams that deliver a prefix of what was
written until an end closes; the property `IsFifo` is its specification under
the mapping in `RdpUdp`.

### UdpStream

`awake` is the set of tasks due to be polled and `wakers` the wakers that are
registered in `SharedIo`; a task that finds nothing to do leaves its wakers and
sleeps. The driver's loop is one action per place where it can be interrupted:
the top, the branches of its `select!`, what follows a branch, the release on a
close. The connection is reduced to the room in its send buffer and to what its
receive window holds back (`held`, at most `RecvWindow`): a datagram is kept for
one that is missing, or releases everything kept behind it at once. The write
pump hands over several pieces of a message in one write, up to `MaxWrite`, and
a write is taken whole once the buffer is below its mark. So both buffers may
pass their marks, by one release and by one write, and these are the bounds in
`TypeOK`. `MaxSocket` bounds what the socket keeps. The marks are one, a write is
one or two pieces and a release one or two payloads, so that both buffers fill
and overshoot, and the peer may vanish.

### Connect

`client` and `server` hold the state a side is in (`at`, named as in the code)
and what it has learnt. One action is one step of a sequence: a PDU is read and
answered, or only written. `up` and `down` are the two directions of the TCP
stream. A step that fails ends its side and writes nothing, and the other side
then reads the end of the stream, as `single_sequence_step` does it. The
configurations are those the comments of the acceptor and the connector speak
of: with and without NLA, with a message channel or without one, clients that
join channels one by one, type before the Font Map, answer the tunnel request
late, come back with an auto-reconnect cookie or stop responding. A cookie that
verifies takes the place of the validator in `client_accepted`; it is fresh or
stale, and counts only with TLS. `display` is the size of the screen the encoder
is made for: once it has been asked, a display follows the client's size or,
fixed or without such a mode, keeps its own (`request_initial_size_sync`).
`SizeAgreed` says where the two sizes are the same and names the configuration
where they are not, of which a comment warns
(`src/crates/ironrdp-server/src/server.rs:4333`): linrdp honours the size of the
client and the display is fixed.

### Dynamic

`dvc` is the server's channel manager, `srv` the client loop with its lock, the
PDU in its hand, the batch it dispatches and what a handler still has to write
(`job`). A handler that writes may have to wait with the lock held. A new
desktop size drops the other two tasks where they wait, with what they hold.
`tun` and `queue` are the tunnel task, `mic` the microphone watcher, `cli` the
client's channel manager. TCP and the tunnel each keep their order, and
nothing orders one against the other. A message is its number on its channel,
so order and loss can be read off `heard`. What the processor of a channel says
to a message, or when its channel starts, is an input (`Replies`): nothing, a
message, or that the channel is to end, which only the graphics pipeline asks
for. Frames that waited for the Soft-Sync Response are read one after the other,
each with its own answer. The retraction of a USB device, the other way a
processor ends its channel, is left out: linrdp never calls `retract_request`.
A scenario bounds messages, recordings, sizes, tunnels, their loss and channels
ended by their processors.

### Graphics

The screen is a column of rows and the content of a row is a version number.
`next_update`, `Grab` and `Encoded` are the display loop from one await to the
next; what the client sends and what it reads happens in between. `dsp` holds
the debts (`pending`, `rect`), the surface and the encoders, `gfx` the
pipeline with its frames in flight, `events` the output that waits for the
event loop with the generation it belongs to. `gfx.window` is the number of
frames that may be in flight; after every frame the loop may set it anew
anywhere between `MinInFlight` and `MaxInFlight` (`update_in_flight_window`), so
there may be more frames in flight than the window of the moment, never more
than the largest one. A client that stops its output and resumes it has the
rectangle it names drawn again, and a Refresh Rectangle ends the stop as well
(`Redrawn`). `lost`, `missed`, `drawn` and `met` are history. Frame pacing and
timeouts are nondeterminism. A scenario fixes what the client supports and
bounds changes, sizes, restarts, closures, suspensions, refreshes, windows and
faults; two rows tell a part of the screen from the whole. What the client makes
of the messages follows `src/crates/ironrdp-egfx/src/client.rs`, with the checks
its decoders leave to the codec (numbers and references) as those of a client
that refuses what it cannot decode; its restarts, refusals and suspensions are
inputs, for no client in this repository does them.

`NothingStale` compares the screen as it is now with what the pipeline took, and
excuses by name the rows that the code does lose. `Painted` carries it on to the
client. Its premise `Served` assumes three things the code does not see to: the
last grab did not fail, no encoder died or gave nothing, and the pipeline has
not forgotten over a new size that the client's acknowledgements are suspended.

## What the runs check

| run | properties | instance |
|---|---|---|
| `accounts` | `DisplayExclusive`, `OwnDesktopOnly`, `ClaimsTrackWork` | three logins of two accounts, one number, one fault |
| `restart` | `RestartLocks`, `OneStartPerAccount`, `LoginSettles` | two logins of one account and both kinds of desktop, one fault, one restart, with fairness |
| `handover` | `OnlyOwnScreens`, `CachesFollow`, `SentIsLocked` | two accounts, one lost source, one failed lock or killed worker (299,918 states) |
| `workers` | `BudgetKept`, `BooksLive`, `OneClient`, `RoutesOwn` | two listeners, two process numbers that are reused, two client addresses, one broken listener |
| `answered` | `Answered` | two listeners, one failing call, one broken listener, with fairness |
| `rdpudp` | `TypeOK`, `NothingForgotten`, `HolesAdvertised`, `IsFifo`, `Settles` | three scenarios: a small receive window, a full send buffer with a failing handshake and a close, keep-alive probes |
| `tunnel` | `NoLostWakeup`, `OrderKept`, `CloseSettles`, `WritesGoOut` | marks of one, messages of two pieces, writes of up to two, releases of up to two payloads |
| `connect` | `Agreement`, `OnlyTheRightOnes`, `ClientHeard`, `TunnelAgreed`, `Settles` | eighteen configurations, one resize, two PDUs of the client's own (216,501 states) |
| `dynamic` | `TypeOK`, `InOrder`, `MovedOnce`, `MicrophoneKept`, `NoneLeftBehind`, `MicrophoneReleased`, `HeldDataArrives` | seven scenarios: traffic, a resize, a lost tunnel, a channel ended by its processor, the microphone with and without a tunnel (107,020 states) |
| `graphics` | `TypeOK`, `NothingStale`, `RefChainKept`, `Decodable`, `Painted` | two rows, a window of two or three frames, fifteen scenarios (247,522 states) |

`rdpudp`, `connect`, `dynamic` and `graphics` run under fairness, too. The
comment above a property says what it states and which code it is about.

Runs that show a disagreement between the code and what the repository says of
it (details under `findings` in `PROJECT.json`):

| run | property | what happens |
|---|---|---|
| `one_desktop` | `OneDesktopPerAccount` | a login reads a record between the truncation and the write of another client's lock, finds no session, and starts a second desktop |
| `graphics_restart` | `RebuiltAfterRestart` | a client restarts its pipeline in front of a screen that does not change; the loop looks for its surface only when it has a frame, so the client's stays empty |

Deadlock is not checked: in every model the system may stop. Logins all end, a
worker exits, a supervisor whose listeners are all gone returns, and a
connection is idle or over once the traffic a scenario allows has been had. That
something which should still happen does happen is what the liveness properties
state.

The models also show the following, which no run states. The models have them
as the code does, and they are listed as hazards.

- `RoutesOwn` holds as long as no listener breaks: when one does,
  `live.remove` moves the listeners behind it down one place and the books of
  the dispatch keep the old numbers.
- The lock flag of a record follows the last writer, not the last client: the
  lock of a client that leaves can cross the attach of the next one.
- A headless GNOME session that came up is refused, because the liveness probe
  (`session/mod.rs:254`) is an X11 handshake and its record names no cookie.
- A client that leaves between the form's bind and its note leaves the desktop
  unlocked (`session/router.rs:354`), and a process that exits under the form's
  thread leaves the form's X server (`session/router.rs:143`).
- The desktop also stays unlocked when the lock of a leaving client fails, which
  is only logged (`session/router.rs:356`), and when its worker is killed.
  `SentIsLocked` is about workers that leave by themselves and can write.
- A source is stamped with the generation read after its connection was made
  (`capture.rs:1357`): when the gate moves in between, the source shows the logon
  screen and bears the stamp of the desktop, so that it does not follow
  (against `capture.rs:1376`). `CachesFollow` names the case.
- A fixed display and a client of another size, whose size linrdp honours, leave
  an encoder that does not draw at the size of the session, until the first
  resize; `SizeAgreed` names the case.
- When frames that waited for the Soft-Sync Response are read, one of a channel
  may be answered and the next make its processor end the channel. The route is
  forgotten before the answer is written, so it goes over TCP, where the client
  takes data of a moved channel for an error. `MovedOnce` names the case.
- `poll_flush` does not look at `closed`: a flush that waits when the stream
  closes with data left sleeps again
  (`src/crates/ironrdp-rdpeudp-tokio/src/stream.rs:217`).
- A negotiation failure is put into a buffer that is not written, because the
  step that fills it fails (`src/crates/ironrdp-acceptor/src/connection.rs:747`).
- A new size of the screen that comes upon a restart of the client's pipeline
  does not reset the ClearCodec sequence number, against `gfx_display.rs:1280`;
  `SeqKept`, a part of `Decodable`, names the case.
- A grab that fails is not tried again before the screen changes, although the
  comments say "retry next tick" (`capture.rs:756`, 844, 944): the damage has
  been taken from the queue by then, and nothing is owed.
- A new size clears the frames in flight and with them the note that the client
  has suspended its acknowledgements
  (`src/crates/ironrdp-egfx/src/server.rs:1475`). The frames that follow are
  counted, never acknowledged, and fill the window for good, against the
  comments at 639 and 678.
- When x264 cannot be set up, a repayment in bands stands in for the frame; if
  the first band is turned down, the rows outside it are neither drawn nor owed
  (`gfx_display.rs:1956`). `NothingStale` counts them as lost.

### Fairness

- `Sessions` (`restart`): workers, keepers and the scan take the steps they
  can. These are straight-line code and waits with a deadline; X servers either
  come up or the wait ends. Clients, deaths and session ends are not assumed to
  happen.
- `Supervisor` (`answered`): the loop runs, since `poll` has a timeout of one
  second; and from some moment on the ports do not fill faster than they are
  emptied (`Drains`). The second is a real assumption: `accept_all` and
  `read_socket` do not leave a port before it is empty.
- `RdpUdp` (`rdpudp`): the two drivers run, datagrams that are not lost are
  read, and a timer that is set fires when nothing else happens. Losses are
  bounded by the scenario. Neither end has to close.
- `UdpStream` (`tunnel`): a task that is due is polled, and a peer that is there
  acknowledges. `select!` is not biased, so a branch that is ready again and
  again is taken in the end; hence strong fairness for the write branch and the
  idle timer.
- `Connect` (`connect`): both drivers go on while they have something to read,
  and the timer of `accept_finalize` fires.
- `Dynamic` (`dynamic`): the tasks and the client run on while any of them has
  something to do. Nobody has to speak, record, confirm a tunnel, close a
  channel or change a size.
- `Graphics` (`graphics`): the loop goes on while it is not waiting, the server
  and the client read what they are sent, and time passes.


## What is proved

All models but `RdpUdp` have theorems that TLAPS checks: they hold for every
value of the constants that the named `ASSUME`s admit, where a run looks at one
instance. Each theorem follows from an inductive invariant, which TLC has found to hold on
the instance of the run first.

`HandoverProofs`: `TypeCorrect`, `OwnScreens`, `Following`, `LockedOnLeave`, for
every set of accounts and any number of lost sources. The invariant `IInv` adds
four strengthenings. `ReachInv`: whatever the gate, the environment, a cache or
a half-made connection names is nothing, the logon screen or the account on the
route, and there is no such account before the route begins; so no account but
the right one can ever be named. `StampInv`: no stamp is ahead of the gate, and
a connect that began at the present generation has read the present screen;
needed because a connect takes three steps. `SourceInv`: until the gate has moved
to a desktop every name read of it is the one it has, and afterwards the
environment names what it does; so a source that is minted from an up-to-date
cache leads where the cache leads. `LockInv`: from the attach to the
unlock, the record has the lock state it was read with, and whoever is served is
noted.

`SessionsProofs`: `TypeCorrect`, `DisplayExclusion`, `ClaimsAccounted`,
`SingleStart`, `OwnDesktop`, `RestartLocked`, for every set
of logins, range of numbers and number of faults and restarts. The conjuncts of
`IInv`: `ControlInv` (a keeper exists only after its worker's spawn),
`RecordsInv` (every record that is stored, read, or about to be written names a
session whose keeper was started, on its own number and, for a worker, of its
own account), `AccountExclusive`, `ClaimsTrackWork` (a lock is held exactly by
the processes at the steps that need it; this makes `DisplayExclusive` and
`OneStartPerAccount` inductive), `CookieInv` (a cookie file of an account holds
the cookie of a session of that account) and `ScanInv` (what `lock_all` has
passed is locked, or was unlocked since). The argument rests on three facts
about steps: beyond three steps of the worker, claims only shrink; a session
that was spawned stays spawned and keeps its number (`SessionsStay`); and a file
says something new only after the second half of a write (`Keeps`).

`SupervisorProofs`: `TypesKept`, `WithinBudget`, `NothingInherited`,
`OneClientOnly`, `OwnListener`, for every number of listeners, addresses, clients, process numbers and limits. `Types`
says more than that variables are in their domains: which entries of `ready`
are polled, and where the loop's index may be. `BooksLive` is inductive with
`Counted` (the budget counts every process that is not reaped yet, so that a
fork is within it). `OneClient` needs to know when a client may be heard at all:
`Still` (a process that is gone hears nothing), `Unread` (a worker no route leads
to has an empty channel), `Single` (no two clients of a worker are routed at
once) and `Heard` (what is in a worker's channel came from a client that is
still routed to it). `RoutesOwn` needs `Own`: a listener keeps its place in the
vector while none is removed, and what a channel, a request and a client
remember is that place. `ReapTakes` and `ReapFacts` say once what reaping leaves
of the books; the facts about cardinalities that the steps use are collected in
`Counts` and proved in `CountsHold`.

`TunnelProofs`: `ReconstructExact` and `ChannelSkipsZero`, for every width of
the wire format. The first is what lets `RdpUdp` compare sequence numbers that
wrap: the full number is recovered whenever it is less than half the range away
from the reference. And of the tasks of a tunnel `WakeupsKept`, `WakersStay`,
`BoundsKept`, `WritesInOrder`, for every size of the buffers, the receive window,
a write and a message.
That a task which sleeps has nothing to do is inductive only with `WakersKept`:
whatever it waits for finds the waker it left. The bound of `read_buf` needs
what `has_room` said at the head of the loop (`RoomSeen`), the order of writes
is proved place by place (`Placed`), and that the write pump finds the next
write of a message when it wants one (`Fed`) follows from the order, because the
last write of a message is the one whose number is a multiple of its length.

`ConnectProofs`: `CredentialsRight`, for every set of configurations, sizes and
resizes and any traffic before the session. The invariant says where a server
may be when the credentials are wrong and something checks them (`Wrong =>
Refused`): up to the end of CredSSP; from there to the Client Info only if
CredSSP was not negotiated; beyond it only if the validator of
`client_accepted` is still to come, with the credentials kept for it; or at its
end. In a session only if the validator is the one check there is and a
cookie stands for the credentials. It says nothing of the streams, so the argument does not depend on what the
client sends, or when.

`DynamicProofs`: `TypesKept` and `NoneBehind`, for any number of channels and
recordings, any scenarios and any room in the queues. The invariant adds to
`TypeOK` that ids which were not given out yet are unused, without which a new
channel could take the place of an open one. It says nothing of the messages.
The proof follows the layers of the code: what a call of the channel manager
leaves of its books (`Stays`), what writing leaves of the lock (`Held`), what the
end of a handler may add, which is the one place where the channels move
(`Moves`), the handlers (`LoopStep`) and the steps (`StepOK`).

`GraphicsProofs`: `RowsAccounted`, for any height of the screen, any range of
windows and any client, and `NoRowForgotten`, the same without excuses where no
grab and no encoding fails and x264 can be set up. The first takes two halves.
`ScreenInv` is about the screen and the image the grabber compares with: when no
grab is due, the two are the same, unless the last grab failed. `ImageKept` is
about that image and the pipeline: between two frames, every row of it has been
taken or is owed or is among the lost ones. While a frame is encoded the second
does not hold: the image has been replaced, and what changed in it is neither
drawn nor owed. `JobOK` says what holds instead: the change is in the job, a
repayment has all that is owed, and whichever way the job ends, acknowledged,
dropped or given up, covers it. Two facts make that inductive: while the loop
holds back, everything is owed (`HoldOK`), and there is a surface only once the
pipeline was ready (`ReadyInv`). `NoRowForgotten` adds `Unharmed`: no fault is
left to happen, none has happened, nothing is lost, and a frame that is turned
down finds all its rows in the job or owed (`Safe`). Both are about the loop and
the pipeline; that what the pipeline took is what the client shows is checked by
`Painted`.

Assumptions: the named `ASSUME`s of the modules, which say that special values
are different from ordinary ones, that sets of processes are finite, that bounds
and sizes are naturals (positive where the code has a positive constant), and
that the wire format has an even number of values. TLC evaluates them in the
runs.

Only model-checked:

- The liveness properties (`LoginSettles`, `Answered`, `Settles`, `CloseSettles`,
  `WritesGoOut`, `MicrophoneReleased`, `HeldDataArrives`, `Painted`): they need
  fairness, which is out of reach of this prover.
- `RdpUdp`, refinement of `Fifo` included, what `Graphics` says of the client's
  decoders (`RefChainKept`, `Decodable`) and of its types, what `Connect` says of
  messages (`Agreement`, `ClientHeard`, `TunnelAgreed`), and `InOrder`,
  `MovedOnce` and `MicrophoneKept` of `Dynamic`. They are about sequences that
  are filtered, folded, sorted and searched, and what such an operator returns
  for every sequence needs an induction over data that the installed provers
  cannot do.

## What is not modelled

- Pixels, codecs, PDU encodings and samples: data without control.
- PAM, logind, TLS and the configuration: calls and files with one actor.
- GNOME on the console: it binds to a desktop that already runs and starts
  nothing.
- The clipboard, redirected devices and sound: protocols of one message at a
  time between the client and a program of the session.
- What a session's programs do, and clients other than by the messages they
  send.
