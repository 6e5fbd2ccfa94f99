# A verification project for fips-nostr-bootstrap

TLA+ models of the programs of this repository, the TLC runs that check them on
small instances, and theorems about them that TLAPS checks for every instance.
`PROJECT.json` lists components, runs, mutants, the source lines behind every
definition, findings, hazards and theorems. Paths below are relative to the
repository; `bin/` is `rust/fips-nostr-rendezvous/src/bin/`.

    tlc -workers 2 -config Rendezvous.cfg MCRendezvous
    tlapm RendezvousProofs.tla

## 1. The system

Two peers behind NATs find each other over Nostr and then talk over UDP. A
server publishes an *advert* and listens for private messages (gift-wrapped
DMs). A client sends it a *traversal offer*; the server answers with its
addresses and a *punch* window; both then send probes to each other's addresses
until one comes through. When the offer fails the client starts over with the
older *hello*, answered by a *server-info*. On the punched path the programs
exchange `FIPS1` session frames (a remote shell), or hand the socket to a FIPS
node.

### Inventory

| component | state | operations | interacts with | what makes it correct |
|---|---|---|---|---|
| Remote shell, `bin/fips-shell-server.rs` 751-933 | per session: directory, slot `running` with the cancel sender; one task per command with child, pipes, cancel receiver | command, cd, Ctrl-C, clean-up, result | datagrams from the client; children of the system | the slot is emptied again; every command is answered, if the answer fits a datagram; a kill has a cause; Ctrl-C kills |
| Rendezvous, `bin/fips-web-daemon.rs` 695-1190 and `bin/fips-shell-server.rs` 651-749, 1184-1386 | client: `pending_answer`, `pending_server_info`, `pending_punch`, `punch_hashes`, `active_session`, the connect call; server: `pending_handoffs`, `session_hashes`, `sessions`, the notify task | connect, offer, answer, hello, server-info, punch, session frame, timeouts | relays, UDP, the web page | a client uses only what the server agreed to, on an attempt still being made; results arrive on the path in use; a connect call returns |
| Handoff, `bin/fips-console-*.rs`, `bin/fips-video-daemon.rs`, `fips_handoff.rs` | the one socket, `udp_shutdown`, the FIPS node | stop receiving, take the socket, start the node | as above, and the FIPS crate | both ends give their socket to the same session; the processes survive it |
| STUN observation (all binaries) | `pending_stun`, observation and its time | refresh, probe, response | STUN servers, all tasks of the process | an answer belongs to its probe; a failure does not hide a success; a refresh returns |
| Advert discovery (client daemons) | advert cache | refresh, notification, listing | relays | the newest unexpired advert of a peer wins |
| Advert and inbox relays of servers | next renewal | publish, look up | relays | a running server stays advertised; offers and answers go where their receiver listens |
| Offer, answer and punch rules, `lib.rs` 384-530, `src/traversal_signal.ts`, `src/punch_planner.ts` | none | validate, plan, negotiate, schedule | called by the rendezvous | the two ends punch at the same time and try every path between them; an answer is of its offer |
| Video frames, `bin/fips-video-daemon.rs` | frames in assembly, latest frame | send, receive a fragment | the FIPS node, the page | a picture is shown whole; what arrived is shown |
| HTTP interface of the daemons | events, lists | requests, server-sent events | browser | reflects the state of the daemon |
| Handshake machine, `src/handshake.ts` | state, nonces, timestamps, timers, binding, log | `apply`, `onTimeout` | called with messages and a clock | nothing has its effect twice or out of order; a binding is pinned; waiting ends |
| TypeScript library, `src/*.ts` | little | build and parse messages, simulate | tests | round trips, freshness |
| Embedded relay, `src/embedded_relay.ts` | events, subscriptions | EVENT, REQ, CLOSE | test clients | stored and live events reach each matching subscription |
| Node package, `packages/fips-nostr-rendezvous` | pending responses, punch hashes and timers, sessions, caches of adverts and relays | connect, offer and hello, punch, session frames, close | the apps | a session is agreed, or named by a probe in JSON; the ends of one in use keep one path; a connect settles; a closed node stays closed |
| Apps, `apps/*.mjs` | shell children, terminals, calls | run, stream, call | daemons, browser | as the shell; a call is set up once |
| Console terminal, `bin/fips-console-server.rs` 959-1031 | lines read, line under way | send, response, end | the FIPS node | lines keep their order; the process ends with its input |
| bootstrap-client, mobile `api.rs` | one call | hello, probes, handoff file, echo test | a relay, a peer | success is reported of this call only |
| stun-lite, scripts, launchers | none, or see `PROJECT.json` | | | |

### What is hard

* *Interleaving.* Every program is a set of tokio tasks that share tables behind
  locks, each held for one access. Between any two awaits of the notify task a
  packet, a timer or another connect call may come.
* *The network.* Private messages are sent again every 3 or 5 seconds and every
  copy is answered; relays and UDP lose, repeat, delay and reorder. Late packets
  of attempts that failed go on for the whole punch window of 30 s.
* *Two ends, no agreement.* Nothing confirms a path: each end takes the first
  packet it sees for the answer.
* *Timeouts and fallback.* One connect call goes through up to five waits, and
  what it gives up on is never withdrawn from the other end.
* *Failure.* Errors in a task end it, and `main` selects on the tasks, so an
  error may end the process.

Every hazard is in `PROJECT.json` at its line, with the properties that would
catch it.

## 2. Modules and the code

| module | models | run |
|---|---|---|
| `ShellExec`, `ShellExecProofs` | the remote shell; theorems about it | `shell`, `MCShellExec` |
| `Rendezvous`, `RendezvousProofs` | connect call, notify task, UDP tasks of both ends; theorems | `rendezvous`, `MCRendezvous` |
| `Bootstrap` | what a rendezvous promises (abstract) | as `ImplementsBootstrap` in `rendezvous` |
| `PunchPlan` | addresses and targets of both ends | in `punch` |
| `PunchTiming`, `HandoffProofs` | one connect call against two clocks, extends `PunchPlan`; theorems | `punch`, `MCPunchTiming` |
| `Adverts`, `AdvertsProofs` | adverts, the cache of a daemon, relays for offers and answers; theorems | `adverts`, `MCAdverts` |
| `Handoff`, `HandoffProofs` | console server and its clients, up to the FIPS nodes; theorems | `handoff`, `handoff_daemon_outlives`, `MCHandoff` |
| `Terminal`, `FipsAppProofs` | the console loop on top of a FIPS node; theorems | in `console` |
| `ConsoleDaemon` | HTTP interface of the console daemon | in `console` |
| `Console`, `FipsAppProofs` | composes the two: lines of the terminal become events of a page; theorems | `console`, `MCConsole` |
| `StunObservation`, `StunObservationProofs` | the cached observation and the probes behind it; theorems | in `stun` |
| `StunPacket` | the parser of STUN responses, and an encoder of RFC 5389 | in `stun` |
| `StunResponses`, `StunObservationProofs` | composes the two: the packets in which responses arrive; theorems | `stun`, `MCStunObservation` |
| `VideoFrames`, `FipsAppProofs` | pictures cut into datagrams and put together again; theorems | `video`, `MCVideoFrames` |
| `RendezvousNode`, `RendezvousNodeProofs` | the Node package: connect, responder, sessions, close; theorems | `node`, `MCRendezvousNode` |
| `BootstrapProbe`, `HandshakeProofs` | bootstrap-client and the core of the mobile app; theorems | `probe`, `MCBootstrapProbe` |
| `Handshake`, `HandshakeProofs` | `HandshakeMachine`; theorems | `handshake`, `MCHandshake` |

Variables keep the names of the code in camel case (`sessionHashes` is
`ServerState.session_hashes`); where a function waits, its position is a value
of `phase`, `notify` or `pc`. One action is what a task does between two awaits
on something that can take time; a lock is released before any such await in the
code modelled, so these are the only points of interleaving that matter.
Definitions named "Mutant of X" are not part of a model: they are the variants of
X listed in `PROJECT.json`, each a plausible mistake that one of the properties
must catch.

**ShellExec.** A frame is delivered never, once or again. `ReceiveCommand` is the
`tokio::spawn` of the UDP loop; `RunEmpty`, `RunCd`, `RejectBusy`, `TakeSlot` are
the four ways through the critical section of `handle_shell_command`;
`SpawnChild`, `SpawnFails`, `CleanupFailed`, `ChildExits`, `CancelChild`,
`ChildKilled`, `Cleanup`, `SendResult` follow the spawned task. `cancel[t]` is what
the receiver of `t` would yield: armed, sent (Ctrl-C), or dropped, when the sender
left the slot otherwise; `select` takes either of the last two for an interrupt.
An answer is one datagram, whatever the command has written. `Long` has the frames whose answer may be longer
than that: `Reply` then records it in `results` or, when the socket refuses it and the error is dropped, in `unsent`.

**Rendezvous.** `dms` and `udp` only grow, which gives loss, duplication, delay
and reordering at once. An attempt `a` is one call of `api_connect`, and may use
two sessions, `<<a, "offer">>` and `<<a, "hello">>`. `Path` stands for the pairs of
addresses between which packets pass, so that a probe, an acknowledgement or a
frame arrives on the path it was sent on. The server's notify task is the variable
`notify`: it has answered, it has recorded the peer, it is done. Whether an answer
validates, is accepted, or has usable targets is a choice of the action that needs
it. `active[c]` is the session and path of the client, `session[s]` the path of
the server. The server process may end at any await (`Stop`, `ReplyFails`, `StartPunchFails`) and
be started again with the same `--nsec` and `--udp-port` (`StartAgain`): its tables are empty then, and the
clients do not notice. `agreed` remembers, for the properties only, what any of its processes punched for.

**Bootstrap.** Attempts, sessions agreed to, sessions in use; no messages.
`Rendezvous!Abstract` is the mapping: `agreed` is what any process of the
server has put in `session_hashes`, `using` is
`active_session`, and all the phases of a call under way are "trying".

**Handoff.** Signalling is reduced to one question and one answer for each client;
the subject is what comes after: the record of the peer, the first punch packet
that takes the only socket, `udp_shutdown`, the pause of 50 ms, the node, and the
ends of the processes. The node is external; it is there or not.

**RendezvousNode.** The same rendezvous in JavaScript, where a callback runs to its end and
an action is what happens between two awaits. Offer and hello go out together under one
nonce, so an attempt is its own nonce, and the two kinds of messages, which have the same
effect on either side, are one `request` and one `response`. `handling` holds the handlers that await
the STUN refresh, which the relay pool does not wait for. `ReceivePunch` is the socket's
message handler together with the `connect` its event wakes up. `Close` is `close()`; what
awaits something at that moment goes on, and finds out when it asks the socket for its
address (`HandleClosed`, `Refreshed`) or not at all (`SendOffer`, `ResponseTimeout`).
`agreed`, `returned` and `heard` are history. Punch packets come in two formats. A binary one has the hash of
its nonce, which must be registered; one in JSON names the nonce, and is taken as it comes (`Known`).
The programs that send those (`bootstrap-client`, `apps/fips-combo-client.mjs`, the mobile app) have no other part
here than `JsonProbe`: a probe for a nonce of their own, on any of their paths, at any time. Left out: which advert is found,
and `punchSessions` (its one reader cannot find anything in it).

**StunObservation.** A call of `refresh_traversal_observation` is a pair of a task and
a number; `at` is the await it has come to. The code keeps the observation and the
time it was made at behind a lock each, so `Begin`, `ReadCache`, `Store` and `Mark` are
four steps. `observedAt` is absent, fresh or stale, and `Expire` may come at any time. An
address is named by the probe whose response reports it: an answer that went to the
wrong probe shows. Between a send and its timeout `pendingStun` holds the probe and `rx`
what its oneshot channel holds; `ProbeFailed` leaves the entry, as the code does.

`StunPacket` is `parse_stun_binding_success` over bytes. `Walk` is its loop, a recursive function of the
offset; `Covered` the masking of port and host with the cookie. `IsReadFor` compares the parser with an
encoder of RFC 5389 for a sequence of attributes, each with the address it is about, and for
packets cut off anywhere. `StunResponses` applies it to the responses on their way, for any set of such
sequences; `MCStunObservation` takes up to two attributes, of every length modulo four, with two addresses.

**VideoFrames.** One call of `send_video_frame` for each picture; it draws an id from
`FrameId` and hands its chunks to the FIPS node one by one. `net` only grows. `Keep` is
what a datagram makes of the entry of its frame, `Incomplete` and `Complete` the two ways
out of `accept_video_datagram`. A chunk is the pair of its picture and its place, so what
is shown says where it is from. Left out: the refusal to send while no session is up, and
the limit of 2 MB on a picture, below which the 16-bit counts of chunks do not wrap.

**Adverts.** A relay holds the last advert of a server (`stored`) and has seen all (`wire`); a
subscriber may be handed any of them at any time. `Start` is `main` up to the first advert,
`Renew` a tick of the task behind it, `reached` the relays that took the event. The daemon's
`refresh_advert_cache` is split where it awaits: `Fetch` fills `batch`, `MergeBatch` puts it into
the cache under the lock, and `ReceiveAdvert`, the branch of the notify task, may come in
between. `at` follows `api_connect`: find or choose a target, collect the relays, look the
target up once more in `send_offer`. `Skew` is how far the clock of a server is ahead: its
adverts are dated by it. `heard` and `missed` are history.

**PunchPlan, PunchTiming.** `PunchPlan` has the pure rules: which addresses an end tells the other
(`Described`, `Endpoint`), and which pairs of addresses it tries (`PlanPunchTargets`; all of them in every
round, so their order is left out). `PunchTiming`
runs one call with numbers for the waits: `at` is the await of the client, `wake` when its
timer fires, `busy` the message the server is answering. `Tick` does not pass a timer that
is due or a probe that is to be sent; everything else may take any time up to the bounds
`MaxSend`, `MaxAnswer` and `MaxLatency`. `Guarded` paths go through address translation that
lets a packet in only after one went out. `Named` has the addresses with a host name, as `--public-host` may be one:
`parse()` refuses it when a punch starts, which fails the call at the client (`Rejected`) and, after the answer is out, ends the
process of the server (`StartServerPunchFails`). It may also end for any other reason (`Stop`); its punches end with it, and
it is not started again.

**BootstrapProbe.** `program` says which of the four calls is made, `acks` how the peer writes the
acknowledgement: the server of the Node package in binary, `scripts/udp-transport-via-nostr.mjs` as JSON.

**Terminal, ConsoleDaemon, Console.** `Terminal` is the thread that reads lines, the channel of 32
and the loop `run_console_runtime`. `ConsoleDaemon` has every connect call of a daemon as a
process: `StopUdp`, `TakeSocket`, `StartNode`, `SetActive` and `EmitStatus` are what it does between
awaits, and all calls share `active_session`, `console_runtime` and the socket. A page is a
position in the list `emitted`; when it lags by more than `EventSlots`, its stream ends and it opens
another. `Console` lets the node of the terminal lose, repeat and reorder lines on their way.

**Handshake.** `Transition` is the switch of `apply` as a set of triples; the
actions `RejectEarly`, `RejectReplay`, `RejectStale`, `RejectInvalid`, `Accept` are
the ways out of `validateCommon` and of the switch, with what each has recorded by
then. `accepted` is the part of `logs` that was accepted, `rejected` the last
rejection returned.

## 3. The runs

| run | shows | instance | distinct states |
|---|---|---|---|
| `shell` | the slot always belongs to a task that will empty it; overlap and kills are bounded by interrupts; a cancelled command loses its child; if commands end, every command taken is answered, but for an answer that fits no datagram | 1 session, 3 frames, 2 tasks; one answer may be too long | 215,000 |
| `rendezvous` | both ends agree on the sessions in use, also when the server was started again, and no failed attempt is revived; a session taken up without a punch is one its client uses, on the path it uses; results are shown on one path; refinement of `Bootstrap` | a trusted and an untrusted client, 1 attempt each, 2 paths, 2 processes of the server | 568,000 |
| `punch` | a call is over in a time that nothing on the network can stretch; both ends punch at the same time, unless the server has ended; a call that has begun to punch fails only if there is no path between the addresses told, if an end may begin after the client has given up, or if the server has ended | 3 clients and 3 servers by what they know of their addresses, one of each with a name for an address, 2 paths, clocks 2 units behind, 1 and 2 ahead | 3,690,000 |
| `adverts` | the cache keeps the newest advert; a running server stays advertised; offers and answers go where their receiver listens; a call without a target takes the newest | 2 servers, one with a fast clock, 2 starts with different relays, clock to 2 | 3,110,000 |
| `handoff` | who found a path is expected by the server; the socket goes to a client that punched; connect calls return | a daemon, a command-line client | 69,000 |
| `console` | lines keep their order; messages go to the peer the daemon calls active; a page that has read its stream shows the active session and all messages since; the terminal ends with its input | 2 connect calls, 1 message, 1 page, 2 lines, channels of 1 slot | 1,560,000 |
| `stun` | responses are read as the answer to their probe; an address belongs to the probe it names; a cached call gets an observation no older than the age it looked at; a refresh returns | `main` and two tasks with a call each, 2 STUN servers; 111 responses, each cut anywhere | 268,000 |
| `video` | what is shown is whole; what arrived under an id of its own is shown | pictures of 2, 2 and 1 chunks, 2 frame ids | |
| `node` | sessions are agreed, but for those of the server that a probe in JSON named; a frame that got through proves one path; `connect` returns the remote of its session and settles; a closed node stays closed | a trusted and an untrusted client, 1 attempt each, 2 paths, a nonce of an older client on one of them; the trusted client and the server may close | 439,000 |
| `probe` | the handoff file and a successful echo are of this call | 4 programs, 1 earlier call, 3 probes | 860 |
| `handshake` | replay, order, pinning; timed waits end | 10 messages, clock to 5, skew 0 | |
| `handoff_daemon_outlives` | *violated*: a daemon ends with its own handoff, though a message of the code speaks of what it does after it | as `handoff` | |

### Seen while modelling

In the models, but without a run:

* *Shell.* Ctrl-C frees the slot at once, so that one session may have two children for a while
  (`bin/fips-shell-server.rs` 920, 830; `OverlapBoundedByInterrupts` says how many at most). The
  clean-up of the first may then empty the slot of the second, whose cancel sender is dropped; `select`
  takes that for a Ctrl-C (886) and the user reads "Interrupted (SIGINT)" (903). A failed spawn is
  answered before its slot is emptied, so that the next command may still be refused (853).
  A grandchild that keeps the pipes open keeps the command from being answered (895). So does output of more than
  about 65 kB: it is read whole and sent as one datagram, which the socket refuses, and the error is dropped (766, 853, 908).
* *Rendezvous.* Each end keeps the path of the first packet it sees (`bin/fips-shell-server.rs` 733,
  `bin/fips-web-daemon.rs` 1359, 1375); when they differ the client drops every result
  (`ShownOnOnePath` says why it must). `docs/ARCHITECTURE.md` 16 has one established path. One reply that
  cannot be published ends the server (1258). A server started again takes a session up with its next
  frame (1102), on the path of its client (`ResumedOnPath`), unless a repeated offer makes it punch
  again: then a late probe may settle it on the other path.
* *Clocks.* With a server ahead by 32 s or more (`StartDelay` of 3 s, `Duration` of 30 s and `Grace` of
  5 s) the client gives up before the server's punch begins. With one behind, the answer
  "precedes" its offer and is refused, which costs the call the fallback to the hello.
  The hello names one address, and prefers that of the interface to `--public-host`, unlike the offer.
* *Names.* Without an address from STUN, `--public-host` goes into an offer or an answer unchecked (`bin/fips-console-client.rs` 515), but a punch starts with
  `host.parse()`. A client with a host name there gets an answer and ends the server by it, for all clients
  (`bin/fips-console-server.rs` 677, 708, 1356, 1443); a server with one makes every call fail that pairs with it.
* *Handoff.* The console server answers every client, also after its socket is gone
  (`bin/fips-console-server.rs` 1140): a second client finds its path and starts a node that nobody serves,
  where `docs/nat-test-plan.md` 20 asks for no false bind. `start_at_ms` is awaited without a limit in
  bootstrap-client.
* *Console.* Two overlapping connect calls without `--handoff-fips` may tell the pages in another
  order than they set `active_session`. A stream that lags by more than 256 events ends; the page that
  opens it again sees the status, but not the messages in between. The end of the node is noticed at
  the next line only.
* *Handshake.* An acknowledged handshake has no timer (`src/handshake.ts` 33;
  `docs/protocol-spec-v0.2.md` 44 promises bounded failure). With a skew above 0 the window of timestamps moves down with every
  message (141); a message rejected because it came too early has spent its nonce (135).
* *Node package.* A PROBE or PROBE_ACK in JSON opens a session for the nonce it names, with no punch registered and without
  a look at `trustedNpubs` (`packages/fips-nostr-rendezvous/src/index.ts` 434, 440); `SessionIsAgreedOrNamed` has it
  for an exception. A `connect` that timed out leaves its nonce registered, so that a late probe opens
  a session all the same, and `close()` leaves the interval of a `connect` under way
  (`packages/fips-nostr-rendezvous/src/index.ts` 873, 797); the list of advertised peers keeps
  adverts that have expired (1238).
* *bootstrap-client, mobile.* Against the server of the Node package, which acknowledges in binary,
  `--mode connect` never hears a PROBE_ACK and fails. The ping of the app names no session, so that
  what it reports as a round trip is a late `fips_status` of the session its probes opened;
  `OkMeansSession` says what can be relied on.
* *STUN.* A probe that times out leaves its entry in `pending_stun` (`bin/fips-shell-server.rs` 395).

### Bounds

Sets are as small as the case needs, and no smaller: a slot taken over by a second
command while the first one still has a child takes two tasks, and two commands
with a Ctrl-C between them three frames; a disagreement about paths
takes two of them. Attempts of one client share only the table of punches and the active
session; what several of them do to each other is left to the theorems, which hold for any number.
Messages
are never bounded in number: `dms`, `udp` and `net` are sets of kinds of messages
that may each be delivered any number of times, or never; the shell bounds the tasks and
frames instead (`Task`, `FrameId`). One call of each task is enough for refreshes that
overlap in every way; two servers for a late response of the first while the second is
asked. Three pictures under two ids collide, with the same number of chunks and with
another. `Horizon` ends the messages of a handshake, and
the clock goes on for both timeouts after it.

`Closing` bounds `node`: the untrusted client, whose requests nobody handles, is not closed; the theorems have any nodes.
`MaxStarts` bounds how often the server of `Rendezvous` is started: with two processes, everything the first one began is
met by one that knows nothing of it. The theorems have any number.
`MaxNow` and `MaxStarts` bound `Adverts`: two intervals are enough for a renewal to fail and an advert to
expire, two starts for one server to come back with other relays or for two servers to compete; the
theorems have no such bounds. In `PunchTiming` a unit is the retry of the offer, 3 s. The
waits of 15 s and 60 s are two units each, so that a copy is sent again once and the call falls back; the window
of 30 s is two, the start 3 s and the grace of 5 s one, so that the fast clock ahead by two is beyond the limit and that
by one is not; the validity of 60 s
is four, as long as the wait for an answer at its longest, so that skewed clocks miss it. `MaxSend`, `MaxAnswer` and `MaxLatency` are a unit each. The run ends with the
call. `MaxProbes` bounds the probes of `BootstrapProbe`, `MaxLines` and `MaxEvents` what is read and
told in `Console`; its channels have one slot instead of 32 and 256, so that they do fill up.
`CHECK_DEADLOCK FALSE` stands wherever processes end, frames run out or the clock stops. No run uses symmetry.

### Fairness

* `ShellExec!FairSpec`: tokio runs every task that is ready. `EveryCommandAnswered`
  has `CommandsEnd` for a premise, that a command ends and closes its pipes;
  `CancelStopsChild` does without.
* `Handoff!FairSpec`: the timers of a connect call fire
  (`tokio::time::timeout`, `sleep`). Nothing is assumed of the network or the peer.
* `RendezvousNode!FairSpec`: timers fire, and what `connect` awaits ends within its own limit.
* `Handshake!FairSpec`: time goes on and the caller calls `onTimeout`.
* `StunObservation!FairSpec`: tokio runs the tasks and the timer of a probe fires.
  `VideoFrames` has no fairness: nothing has to arrive.
* `Terminal!TerminalFairness`, in `ConsoleSpec`: the loop runs, and a node that goes on running takes the commands
  from its channel. Nothing is assumed of the input, or that a node runs.
* `Rendezvous`, `Adverts`, `PunchTiming` and `BootstrapProbe` have none. In `PunchTiming` a timer that is due stops the clock
  instead, so that "in time" is a safety property.

## 4. What is proved

Assumptions are the named ASSUMEs of the modules, which TLC evaluates in each run:
sets of clients, attempts, paths and messages are arbitrary, not even finite.

**RendezvousProofs.** `Invariance` proves `IInv`. The safety properties are not
inductive alone: that a client uses only what the server committed to
(`ActiveIsCommitted`) depends on what packets in flight say. So `IInv` says of every
message what it proves about its sender: a DM is of an attempt that was begun; a
probe or an acknowledgement to the client is of a session a process of the server agreed to; a
probe to the server is of a session the client punches for; a result travels on the
path the server keeps, if it never ended. `HashesAreAgreed` ties the tables of the running process to what was
agreed, and makes them the same for the first one. `notify` carries the same facts over the awaits of the
notify task. Each action is one step of the proof, which only has to look at the
messages the action adds. `Resumed` follows commands instead: one is sent by a client that uses
its session, on a path that never changes (`CommandsAreOnPath`), and nothing but a command opens a
session whose hash the process does not know. From `IInv` follow `Agreement` (the three safety
properties), `ResultsOnOnePath` (an action property), and `Refinement`: each step is
a step of `Bootstrap` or a stutter (lemmas `AbstractInit`, `ClientStepRefines`,
`ReceivesPunchRefines`, `StepRefines`).

**RendezvousNodeProofs.** A session exists for a registered nonce only, or at the server for one that a probe in JSON
named (`SessionInv`), and a nonce is
registered after the exchange of messages only (`HashInv`, `AgreedInv`). `OnePath` rests on what a
frame in flight says of its sender: it travels on the path the sender keeps, as long as
the sender is not closed (`FrameInv`); whoever accepts it keeps that path too, and neither ever
changes (`HeardInv`). `Returned` needs that a `connect` that waits for the punch has no session
yet, hence that one that waits for the response has registered nothing (`PhaseInv`).

**HandshakeProofs.** `ReplaySafe` from the invariant that accepted messages are on
the record of nonces; `InOrder`, for skew 0, from the invariant that the last
timestamp of a sender is at least that of every accepted message of it, which
rejected messages also raise but, without skew, never lower; `Pinned` from the
invariant that a binding exists in `direct_established` and `closed` only, from which
no transition leads to a state that takes a confirm.

**ShellExecProofs.** `SlotSafe` and `KillsInterrupted` follow from invariants about who
may hold a slot: its holder is a task of the session that is not past its clean-up, with
an armed receiver, and a kill leaves an interrupt behind. `OverlapBounded` needs a count:
a command under way outside the slot has lost its sender, to Ctrl-C or to the clean-up of
another command. `Cancelled` is the set of both, and the proof shows that an interrupt adds
at most one to it, and that a clean-up which empties somebody else's slot only swaps
one command outside for another.

**FipsAppProofs, VideoFrames.** `IInv` says of every chunk in `pending` and in `shown` that it is of
*a* picture with that id and that number of chunks, at its place (`Belongs`), and of
every entry that its count is the number of its chunks. So an entry whose count is
full has no empty place (`CompleteIsFull`), which gives `WholeShown`. If an id belongs to
one picture only, all its chunks are of that picture (`OwnChunk`); `HeldInv` adds that
those which arrived are in the entry until the picture is shown. If all have arrived
and the picture was not shown, the entry would be full, which `Counted` excludes: that
is `ArrivalShown`.

**StunObservationProofs.** `OwnAnswer`: the channel of a probe holds the response to that
probe or nothing (`RxInv`). The other two compare what a call saw when it began with a
cache that others write since, two cells one after the other. The cache holds the last
observation stored (`CacheInv`), and one that no call has marked yet is of a call about to
(`UnmarkedInv`). So a call that saw a fresh mark finds at least the observation marked
(`CacheCurrent`); and a call that saw none, because there was nothing or because the mark
was still to be made, overlaps with whoever stored what it replaces (`BegunInv`), which
leaves the aged observations for `FailureOverlaps`.

**StunObservationProofs, StunPacket.** `ParseReads` is about any attributes that fit into a response,
where the run takes two at a time. `XorTwice` says, bit by bit, that masking with the same byte twice gives back what was there;
so what is read from a value is its address (`ValueIsRead`). `BodiesUnfold` and `WalkIs` show that the two recursive
functions are what their definitions say, by induction over how much of the packet is left. `PassReads` is one pass
of the loop: it reads the attribute it has come to, or finds it cut; `WalkReads` puts the passes
together, from the first attribute with an address backwards. `AllRead` needs the types of `StunObservation` and, of the
transaction ids, that they differ.

**HandoffProofs.** What makes a connection an expected one is followed along its way: the notify
task, once it has recorded the peer (`NotifyInv`), registers the hash of a session the server knows
(`HashInv`); packets to a client are of such sessions (`PacketInv`), and a client that goes on
has had such a packet (`PathInv`). The record is removed by the step that hands over the
socket only, which makes its session the adopted one: "known" survives it. `SocketPunched` needs of
packets to the server that their sender punched.

**AdvertsProofs.** Everything the daemon works with was published: `StoredInv`, `BatchInv`, `HeardInv`
and `AdvertInv` follow an advert from the wire to the offer, and `WireInv` says of all of
them that they are not of the future and name the relays of the process they are of. `Learn` takes the newest of a set of
adverts, which need not be finite: `GreatestInteger` shows that there is one because dates are
bounded by the clock, by well-foundedness instead of induction. `Advertised` rests on
`RenewedInv`, that between the last advert a relay took and the next renewal there lies one interval for
every renewal that failed. `Meet` and `FirstNewest` follow.

**FipsAppProofs, Console.** `Ordered`: the channel holds the last lines that were read (`ChannelInv`), and those
taken from it, without the blank ones, are what the node was asked, but for the one the loop waits for (`AskedInv`).
`SentToActive`: with `--handoff-fips` at most one call gets as far as the socket (`SocketInv`), so nobody's node is
in use but its own (`RuntimeInv`, `SendInv`). `Shown`: the last status that was told is current, or a call
is about to tell another, and so is the one a page shows if no later one is left to read (`LastStatusInv`,
`PageStatusInv`). Two of them rest on `Without`, a recursive function over
sequences. The library's induction theorems take an operator and cannot be used; `LeastNatural`
gets the least number of a set from the well-foundedness of the inclusion of finite sets instead, and `Induction`
from that; `KeepsExists`, `KeepsUnique` and `WithoutAppend` then say what `Without` computes.

**HandshakeProofs, BootstrapProbe.** The client goes on after the hello only with a reply to this call, and the relay
has one only if the server was asked (`InfoInv`, `RelayInv`); an acknowledgement in JSON and a `fips_status` come
from a server that heard a probe (`HeardInv`). `HandoffSafe` and `OkSafe` follow, for any earlier calls and any number of probes.

**HandoffProofs, PunchTiming.** `TimingInv` dates everything by the moment `t` at which the server read the message
it goes back to. `TimeInv` bounds where the call may be and when it moves on, and gives `Timely`.
`WillPunch(k, t)` says that the server has answered the message and will punch for it, has punched
within its delay or its own slowness, has nobody to punch, or has ended; once true it stays true
(`WillPunchStays`). Answers in flight (`MailInv`), the one in the channel (`ReplyInv`) and the punch of the client
(`PunchInv`) carry it on with an age of at most `Late`; that is `Together`. For `NotLost`, a
window that has begun has let its end send on all its paths (`OpenedInv`), so that a path on
which both windows have begun is heard within the same unit (`UnheardInv`), guarded or not.
The proof was a finding about the model: with the bounds stated before, `WindowsTogether` and
what is now `LostToClocksOrEnd` held for the constants of the run only. TLC shows both violated where the server takes
longer to answer than `StartDelay`, or the delay itself is as long as the client waits. `Apart` and
`BeginsTooLate` now say so, and hold for every value of the waits and delays.

Only model-checked: what is about liveness, which is beyond TLAPS as are ENABLED and with it fairness: `EveryCommandAnswered`, `CancelStopsChild`, `ConnectReturns`, `ConnectSettles`,
`TimedStatesEnd`, `RefreshReturns`, `ConsoleEnds`.

## 5. What is not modelled, and why

* Contents: which addresses there are, the text of frames, the output of commands.
* A client daemon that starts again, anywhere, and a server that starts again in `Handoff`, where the node
  holds its sessions: a process that ends stays down. `Rendezvous` and `Adverts` have restarts of the server.
* Frames of strangers: `udp_task` asks of a session frame only its magic (`bin/fips-shell-server.rs` 1102), and
  every datagram in the models is of a program of this repository.
* Address translation that changes its mind: in `PunchTiming` a mapping lasts for the call.
* The shell server with `--handoff-fips`: `udp_task` ends with the handoff (1090), and the process with it.
* `main` of the console daemon ending by itself: nothing outlives it.
* Components marked `not_modelled` or `partly` in `PROJECT.json`, each with its reason: launchers,
  scripts, user interfaces and `stun-lite` keep no state; the TypeScript reference library and the embedded relay
  are called by tests and demonstrations, one step after the other; the calls of the
  WebRTC page depend on a browser component this repository does not define.

## 6. What could follow

1. The caches of the Node package as a second instance of `Adverts`, and the older JavaScript apps.
2. An abstract specification of `Handoff` and of `RendezvousNode`, as `Bootstrap` is one of `Rendezvous`.
