# RemotePlay: verification project

TLA+ models of RemotePlay, the TLC runs that check them on small instances, and
TLAPS proofs of the properties that matter most for every instance.

## The system

RemotePlay streams a game from a *host* to up to four *clients* and sends their
input back. `PROJECT.json` lists every component with its status, the source
lines each definition models, the runs, the faults that break each property,
the findings, the hazards and the theorems.

| Part | Source | Modules |
|---|---|---|
| control protocol | `networking/Protocol` | `Protocol` |
| TCP transport | `networking/TcpTransport` | `TcpTransport`, `TcpRelay` |
| host session, client session | `host/HostSession`, `client/ClientSession` | `HostSession`, `ClientSession`, composed in `ControlChannel` |
| coordinators | `app/HostCoordinator`, `app/ClientCoordinator` | `HostCoordinator`, `ClientCoordinator`, composed in `MediaSetup` |
| adaptive bitrate | `adapt/AdaptiveBitrate` | `AdaptiveBitrate` |
| secure channel | `security/SecureChannel` | `SecureChannel`, abstract: `DatagramService` |
| UDP media | `networking/UdpProtocol`, `UdpTransport` | `SequenceTracker`, `FragmentReassembler`, `JitterBuffer`, composed in `MediaReceiver`; `UdpTransport`, `UdpLifecycle` |
| streamers, video encoder | `host/HostStreamer`, `encoding/VideoEncoder` | `HostStreamer`, `VideoEncoder`, `Letterbox` |
| sound | `audio`, `encoding/AudioCodec`, `client/ClientStreamer` | `AudioCapture`, `AudioPlayback` |
| input | `input/InputInjector`, `VirtualGamepad` | `InputInjector` |
| signaling | `signaling/SignalingClient`, `server/signaling-server/server.py` | `SignalingClient`, `SignalingServer`, `TcpRelay` |

A host registers a session with the signaling server and gets a code; a player
joins with the code, over the LAN or, through the server's relays, over the
internet. The player's client session connects over TCP, sends HELLO, waits for
the host's decision, negotiates a codec and is CONNECTED. The coordinators then
exchange keys over the same connection, and the host starts a streamer for the
player on a worker thread. Media goes over UDP: encoder, secure channel,
fragments; then tracker, reassembler, jitter buffer, decoder. Input comes back
the same way and is applied by the injector under the player's permissions. Once
a second the host feeds link statistics to the bitrate controller.

## How the models correspond to the code

An action is a stretch of code that no other thread can observe half done: a
whole handler where everything runs on one thread, the code between two locks,
joins or waits where several threads meet, the code between two `await`s in the
server. Variables bear the names of the fields they stand for; history
variables, read only by properties, are named as such in each module's opening
comment. Definitions introduced with "Fault:" or "For comparison:" are mutated
forms of the next definition and are used by no specification.

### Control channel: `Protocol`, `TcpTransport`, `HostSession`, `ClientSession`, `ControlChannel`

Every handler and posted lambda of a session runs on that session's single
network thread, so each is one action; `setState`, `pushInputPermissions`,
`dropClient` and `rebuildSnapshot` are part of the action that calls them.
`HostSession` has one action per handler, posted command and timer of the client
table; `ClientSession` has the same for one session per connection.

- A connection is a FIFO queue per direction (socket buffers, outbox and
  network together). An end is open, closing (the last write of `sendAndClose`
  is outstanding) or closed. `mute` is the socket that `ClientSession::finish`
  leaves behind: it posts `close()` and stops the `io_context` before the post
  can run. Frames not read when the other end closed may be lost
  (`LoseAfterClose`); `CutLink` removes the path without telling either side.
- A session code is right or wrong. The permission record is one of the three
  values the code stores: built-in default, configured default, all off.
- Application messages (0x0010 and up) are opaque, except `KeyReady`, whose body
  the coordinators leave unset.
- `Tick` lets 2 s pass, the heartbeat period of both sides. Idle times are
  counted in ticks and capped past the largest timeout.
- `Env` selects what users and the network may do in a run. The theorems hold
  for every `Env`. `PromptDelivery` makes a tick wait until everything due has
  been handled; only violation runs use it, to show that the finding does not
  need a slow scheduler.

Client ids are never reused by `HostSession`, and each join creates a new
`ClientSession`, so an id stands for one connection.

### Coordinators: `HostCoordinator`, `ClientCoordinator`, `MediaSetup`

Each coordinator lives on its Qt thread and gets the events of its session from
the Qt queue; a worker thread starts each streamer. A Qt step ends where the
thread can block: at a streamer's stop, at the injector's mutex, at a worker's
join. `HostCoordinator` has the streams table with its slots, the key exchange,
the workers, fatal errors, kick, rumble from the ViGEm thread, and `stop()`.
`ClientCoordinator` has join, key exchange, STREAM_START and STREAM_STOP, the
watchdog, the worker and `stop()`. `MediaSetup` extends the client's, instantiates
the host's as `Host` and connects the two for one player by two ordered channels
that end when either session does.

Both modules take the session to pass every message up. The run `key_ready`
shows that the real session refuses SESSION_KEY_READY as the coordinators encode
it; what the coordinators would do behind a session that accepts it is what
these modules check. `ClientSays` and `HostSays` say in which order the other
program sends; no client sends STREAM_STOP or KEYFRAME_REQUEST over the session
(it has them as datagrams), and the host's cases for them are left out. Some branches guard against
situations the present program does not produce (a second STREAM_START with a
streamer present, a watchdog that finds the streamer running, a relay end woken
without its partner); they are modelled all the same.

### Media on the wire

- `SecureChannel`: `finish`, `seal` and `open` of both ends. The network may
  bring any sealed datagram at any time and any number of times. Keys are
  symbolic; the first eight bytes of a ciphertext, where `open` looks for the
  counter, spell any number. `DatagramService` is the abstract specification:
  each message is delivered at most once, and only if it was sent.
- `SequenceTracker`, `FragmentReassembler` and `JitterBuffer` are the three
  classes of `UdpProtocol.cpp`, each fed anything at all. `collecting` tells a
  reassembler that the transport collects after every fragment (video, audio) from
  the one for input, which it never collects; `wild` marks that `feed` went on with
  a buffer it had just evicted, where the model stops. `MediaReceiver` puts
  them together as `handleDatagram` and `pollVideo` do, behind a sender and a
  network that loses, repeats and reorders.
- `UdpTransport`: what each end takes for its peer (direct or relay), learning
  from what arrives, the client's ping timer with the fallback. A sealed datagram is
  bound to the header as it was before the flag and the size were set, and opens
  only under that header; silence ends with any datagram of the session, since
  `lastRx` is stored before it is opened. `SetPeer` stands for `setHostEndpoint` and
  `setClientEndpoint`; the first has no caller, the second only names the relay.
- `UdpLifecycle`: `bind` and `stop` against the io thread, its queue, the ping
  timer, and other threads that send.

### Host's pipeline and sound

- `HostStreamer`: `start` with its failures, the capture loop, `stop` on the Qt
  thread and on the UDP io thread, split at `stopMutex_` and at each join.
- `VideoEncoder`: `setBitrate`, `applyBitrateIfDirty`, keyframe flag and encoder
  restart, with the reads and writes of the unlocked fields as steps of their own.
  `Letterbox`: the fitting of the picture in `encode`, in integers as the code
  computes it, over frames of changing size.
- `AdaptiveBitrate`: `update` with the sample as a record of integers, and
  `setManual`. The proportional steps are integer divisions; they agree with the
  floating-point products of the code on every rate from 2000 to 50000 kbps. At
  the ceiling `upStreak_` grows without limit in the code; it is only compared
  with `upStreakNeeded` and stops there in the model.
- `AudioCapture`: the WASAPI thread that opens its own device, `start` and `stop`
  around it, and the framing of samples into Opus packets. `AudioPlayback`: decode
  loop, stall watchdog, `WasapiPlayer` with its render thread, `stop`. FFmpeg's
  sample FIFO is external; as the code allocates it, an element is one byte, so
  `AudioCapture` counts blocks and packets in stereo frames of four bytes and the
  FIFO in bytes. The conversion of a packet's time to microseconds is left out.

### Input and signaling

- `InputInjector`: permissions, held keys and buttons, virtual pads, rumble,
  disconnect and shutdown; two players share the host's keyboard. `ExtendedKeys`
  are pressed with the extended flag and released without it by `releaseAllKeys`
  (`InputInjector.cpp:154`, `:193`); such a release leaves them down.
- `SignalingServer`: one coroutine per connection and the registry, with other
  connections served at every `await`. A session goes by the connection of its
  host. `on_leave` of a host iterates over a dictionary that changes at every
  `await`: `iterated` is the iterator, with the size it was made for, the entries it
  still expects and the slots ahead of it. It raises, as CPython's does, when the
  size has changed or an entry is left when none is expected, and an insertion may
  compact the dictionary and put entries behind it. `late` records who joined or
  left while the host was leaving. `TcpRelay`: two dialling attempts and the
  server's two coroutines, from the handshake to the pipe's end. A drain raises when
  its end was reset, an attempt that is refused keeps its socket, and the client's
  watchdog, which counts from the clock's epoch until a connection is adopted, may
  stop the thread of a dial. `SignalingClient`: caller, reader and dialling
  threads around one pending line.

## Runs

Parts that share no state are checked together in one run: the MC module
(`MCMediaWire`, `MCHostMedia`, `MCSession`) extends them and has a variable
`part`, chosen in the initial state. Only the chosen part takes steps, under its
own fairness, so the run is the disjoint union of the parts' state spaces.

| Run | Shows |
|---|---|
| `control_one` | one player, everything that users and the network can do: types, approval, events, permissions, application messages, finality of a disconnect |
| `control_capacity` | two players and one slot: the limit on players |
| `control_liveness` | one player, fair threads: nobody waits forever on a peer that gave up, left or lost its path |
| `media_wire` | parts `channel`, `tracker`, `reassembler`, `receiver`, `transport`, `lifecycle`, `capture`, `playback`: no nonce is used twice and nothing is delivered twice (`DeliversAtMostOnce`, a refinement), and the window refuses what it should and nothing else; losses are counted honestly; frames are handed up whole, popped in order, and leave, and a collected stream never evicts a buffer; a client that hears nothing falls back to the relay; no thread outlives its context; the sound keeps its time and its threads end |
| `host_media` | parts `abr`, `encoder`, `letterbox`, `streamer`, `qtstop`: the hysteresis of the controller; every keyframe request is answered; every picture fits; the capture loop never loses a member and a destroyed streamer leaves nothing; the Qt thread's stop returns |
| `session` | parts `setup`, `callbacks`, `slots`, `joins`, `injector`, `server`, `relay`, `client`: media follows the session, slots are unique, what the game sees follows the permissions, host and server agree on the players, the registry follows the hosts; nobody waits for ever, a relay pair that pipes ends together, signaling calls return |
| `approval_window`, `server_full`, `key_ready`, `revocation`, `first_open`, `stuck_keys` | violations: what a document, comment or test says and the code does not do |

`SessionTypeOK` (`MCSession`) and `HostMediaTypeOK` (`MCHostMedia`) are the type
invariants of the parts of those two runs. They hold too and can be
added to the INVARIANTS of `MCSession.cfg` and `MCHostMedia.cfg`.

**Deadlock** is checked in the control channel, where time can always pass. The
three sum runs allow it: players leave, streams are stopped and bounded channels
run empty.

### Bounds

- *Control channel.* The properties of `control_one` and `control_liveness` speak
  of one client at a time, and clients only meet in the size of the table; the
  capacity run adds the second competitor for a single slot. `MaxBacklog = 2`
  lets a message wait behind another, which is enough for every crossing.
  Timeouts of zero or one tick make every timer race every message; the run on
  the approval window uses the code's values (75 s, 15 s, 12 s as 37, 7, 6 ticks).
- *Controller.* 2000 to 3000 kbps: a few steps reach either end. The samples hit
  each threshold from both sides; streaks and cooldown are the code's own.
- *Secure channel.* A window of 2 and 4 datagrams let one fall out of the window
  by any order of arrival. One sender suffices, since the directions share only the key.
- *Receive path.* The tracker sees 8 numbers with a window of 3, the reassembler
  4 frames of up to 3 fragments with at most 3 in flight, so that the window, the
  age limit and the limit on buffers are all passed. `MediaReceiver` sends 3
  frames, of one and of two fragments, with repetition.
- *Transport.* Two changes of the peer, one tick of silence: every order of
  timer, direct and relayed datagram. Two calls of `bind` and one sending thread
  give every overlap of an old and a new context.
- *Encoder, streamer.* One failure, one restart and one new rate, at any point of
  an encode; three calls of `stop` from two threads. The window sizes of
  `Letterbox` are odd, even, tiny, larger than the target, wide and tall.
- *Sound.* Blocks shorter and longer than a packet, and a FIFO that fills up; a
  playback queue that overflows.
- *Sessions.* Three players for two slots; two joins of one client; two queued
  events. Three signaling connections are a host with two players or two hosts.
  One plain key, one extended key and one button, held by two players; one pad for
  two players.

### Fairness

Weak fairness is assumed of threads that have work: the network threads, the Qt
loops, the workers, the capture, decode and render threads, the server's coroutines
in a relay, and of timers and time. `io_context`, the Qt loop, asyncio and the
operating system's scheduler run whatever is ready. Strong fairness is assumed in
two places: of taking `stopMutex_` by a waiting stop, since a mutex that is released again and
again is obtained in the end, and of a frame being captured, since a game that
goes on drawing yields a frame again and again between time-outs. Relayed datagrams are delivered (the
server forwards them); nothing is assumed of the direct path. In `MediaSetup`
the control channel delivers while both sessions last. Nothing is assumed of
users, of connection attempts from outside or of the network elsewhere. The
liveness run of the control channel leaves out application messages and input
toggles: with a bound on the backlog a user who never stops sending would keep
time from passing, which the code does not do.

## Findings of the violation runs

- **Approval window.** A waiting client hears nothing until the host decides and
  its watchdog ends the session after 12 s; the host's request stays open for 75 s.
- **SERVER_FULL.** The test counts records, including the one of a kicked client
  whose connection is still closing.
- **SESSION_KEY_READY.** The envelope is sent with the body of an empty
  CLIENT_HELLO and refused as malformed; the client that confirms its keys is dropped.
- **Revocation.** Input the host switched off before HELLO comes back with HELLO.
- **First open.** `seal` encrypts the counter with the payload, `open` reads it from
  the first bytes of the ciphertext, so a fresh datagram is refused unless these
  happen to spell its counter. What the channel delivers it still delivers once.
- **Stuck keys.** `releaseAllKeys` releases without the extended flag, so an arrow
  key or the right Alt held by a player who leaves stays down.

## Disagreements

Further statements of comments and documents that the models do not keep. Each
is a definition at the end of its module, under the heading "Statements of
comments, tests and documents that the code does not keep". To see the behaviour,
add the definition to the run's cfg (as PROPERTY where marked P, else as
INVARIANT); TLC prints the counterexample.

With `MCControlOne.cfg` and `MCHostMedia.cfg`:

| Definition | What the code does |
|---|---|
| `SnapshotIsTableCopy` (`MCControlOne.cfg`) | `setClientInput` changes the record and does not rebuild the rows that `clients()` returns (`HostSession.h:95`) |
| `CooldownThenStreak` P (`MCHostMedia.cfg`) | the streak grows during the cooldown, so changes are a streak apart, not cooldown plus streak (`test_abr.cpp:68`) |

With `MCMediaWire.cfg`:

| Definition | What the code does |
|---|---|
| `SinkOpensSealed` | the header is changed after it was bound: flag and size are set once the payload is sealed (`UdpTransport.cpp:402`, against `UdpTransport.h:132`) |
| `BothReturnToRelay` P | the host has no ping timer, and no datagram opens that would tell it of the client's new path (`DEPLOYING.md:34`) |
| `DuplicatesRecognised` | a number exactly 64 below the newest shares its slot with it and is taken for a first arrival |
| `NoFrameTwice` (`MaxCompleted = 2`) | a frame of one fragment is handed up on every copy, and a completed frame is built again from repeated fragments |
| `PopsAfterTarget` P | behind a gap the comparison mixes nanoseconds with milliseconds, so the frame leaves at once |
| `SendsAreSafe` | a send tests the socket on its own thread and uses the io context after `stop` may have destroyed it |
| `PacketsHoldTheirSamples` | the FIFO's element is one byte, so half of each block is written and read (`AudioCodec.h:33`) |
| `PtsFollowsTime` | silent blocks are skipped and take no time (`ROADMAP.md:14`) |
| `PacketsPlayedOnce` | the samples are not cleared between two packets of one poll |
| `PlayerStartReturns` P | `WasapiPlayer::start` joins the render thread before it clears `running_` (`WasapiPlayer.cpp:107`) |

With `MCHostMedia.cfg`:

| Definition | What the code does |
|---|---|
| `ScalerMatchesSource` | the scaler is rebuilt when the fitted size changes, not when the source's does |
| `BitrateApplied` | a rate set during a re-open or a restart is recorded and never applied |
| `IoStopIsSafe` | `stop` on the io thread destroys the transport with that thread still joinable (`HostStreamer.cpp:337`) |
| `IoStopReturns` P, `StopReturns` P (module `HostStreamer`, `SPECIFICATION HostSpec`, same constants: the part `streamer` of the run has no fairness) | `stop` on the Qt thread joins the io thread while holding the lock the io thread's `stop` waits for |

With `MCSession.cfg` (for the host's coordinator through its instance `Host`: define
`X == Host!FatalErrorFreesSlot` in `MCSession` and check `X`):

| Definition | What the code does |
|---|---|
| `Host!FatalErrorFreesSlot` | the fatal-error handler stops the streamer and keeps the entry and its slot |
| `Host!WorkerEventsAreSafe` | a worker's queued failure runs after `stop()` released the session it uses |
| `Host!FoundStreamStays` (with `MCClients == {player, bo}` and without `UNCHANGED hArrived` in `Crowded`, so that two players get their keys) | the rumble callback looks up `streams_` on the ViGEm thread while the Qt thread erases |
| `StreamIsKeyed` | a STREAM_START before the keys starts a stream without them |
| `StreamEndsWithSession` P | `stop` finds `running_` not yet set by a start under way and returns |
| `RelayIsDialled` P | `startViaRelay` is called on a `ClientApp` without a session and does nothing |
| `HeldBySomebody` (`ExtendedKeys = {}`, `InputFails = TRUE`) | a release that SendInput fails to make is not made again |
| `ButtonsFollowMouse` | `setPermissions` releases held buttons only when the keyboard is taken away (`InputInjector.cpp:109`) |
| `PadFollowsPermission` | a new record starts with `controller` set, so the first grant adds no pad |
| `RumbleReachesItsPlayer` | the injector has one rumble sender, the last client's |
| `ClosedMeansClosed` | a table that changes during `on_leave` of the host ends the loop with an exception before the session is removed |
| `ActiveSessionsStay` P | expiry counts from the creation of a session, not from its last use (`DEPLOYING.md:27`) |
| `OldSessionsExpire` P (module `SignalingServer`, `SPECIFICATION SignalingSpec`, same constants) | ids are `len(by_id) + 1`; a reused id hides the older session from the expiry (`server.py:85`) |
| `MediaStaysInSession` | the relay keeps the endpoint of a player who left |
| `NoHalfPair` P | a reset while `relay_paired` drains raises past the loop that closes the other side, which stays attached (`server.py:304`) |
| `PipeIsUnchanged` | bytes that arrive with the line `relay_paired`, or before it, are not handed to the session |
| `ReaderIsJoined`, `DiallerKeepsSocket` | `disconnect` returns early when the reader has ended by itself; a connect that timed out leaves its helper inside the socket |

## Theorems

A theorem holds for every value of the constants that the named ASSUMEs allow:
any finite set of clients or connections, any window, queue, limit, timeout, range
and threshold. The bounds that cap a run (`MaxEvents`, `MaxJoins`, `MaxStops`,
`MaxBinds`, `MaxSent`...) are arbitrary naturals in the proofs. Two theorems have
a hypothesis besides: `KeysAreReleased` assumes that SendInput does not fail, and
`PlayersKeepTheirSlots` that the session admits no more clients than there are
player slots (`CoordinatorConstants`; both are 4 in the code, `Version.h` and
`assignPlayerIndex`). `SetupAssumption` says the same for the session.

Control channel (`ControlChannelProofs`, `ControlMessagesProofs`):

- `TypeCorrect`: `Spec => []TypeOK`. One lemma per handler; frames appended to a
  queue keep it a sequence of messages of its direction.
- `LimitHolds`: `Spec => []PlayersWithinLimit`. Inductive over `TypeOK`: only
  `HandleClientHello` adds a player, and its test on the size of the table bounds
  the players because every player has a record, the joining client's included.
- `HandshakeHolds`: `Spec => []HandshakeFollowsApproval`, and from it
  `ApprovalHolds`. That a connected client was approved is not inductive:
  `HandleClientCapabilities` only tests for AUTHENTICATING. A client answers with
  its capabilities only after it read HOST_CAPABILITIES, which only
  `approveClient` sends, so the invariant also covers the frames in both queues.
  Each action is shown to be *quiet*: it creates no such frame and no connected
  state unless the client is approved or the frame before it already existed.
- `EventsHold`: `Spec => []EventsTrackTable`; `FinalityHolds`:
  `Spec => DisconnectedIsFinal`. The inductive invariant `RecordsMatchEvents` adds
  that a client reported gone has no live record and that its connection was
  once accepted, so it cannot be accepted again. Each step is shown to move every
  record in one of five ways (`RecordMoves`: it rests, enters, joins, leaves or is
  forgotten), and the invariant is proved once per way.
- `PermissionsHold`, `AppMessagesHold`, `AppFindsConnected`: `PermissionsAgree`,
  `AppMessagesAreExpected` and `AppMessagesFindConnected` are invariants. They
  rest on one inductive invariant, `ConnectionsAgree`: for each connection the
  two ends fit together (`EndsAgree`), the last permission in the queue is the
  recorded one (`PermissionFollows`), a client past the negotiation is not behind
  it at the host, and every application message on its way to a client that is
  not connected yet has the negotiation's result or a kick in front of it
  (`MessagesFollow`). `ControlMessagesProofs` names what can happen to one
  connection (the host writes, permits, forwards, admits, connects, kicks or ends;
  the client handles, ends, writes, starts or opens; the network connects or
  loses) and proves that each preserves the agreement, and then
  shows that every step does one of these to every connection.

Bitrate controller (`HostServicesProofs`):

- `AbrTypeCorrect`, `StepsHold`, `SpacingHolds`: it stays in its range, moves only
  after full streaks, and spaces its changes. `AbrIInv` relates the counters to
  the history: a streak is part of the present run of samples and began after the
  last change, and the cooldown is what is left of it.
- `SettlingHolds`: on a steady link it stands still only at the floor or at the
  ceiling. `Settling` adds the other direction: the cooldown does not outlast the
  samples since the change, and away from the bound the streak has counted every
  sample of the run since then.

Secure channel (`MediaReceiverProofs`), for every window, any number of datagrams
and any network:

- `NoncesUnique`: `SecSpec => []NonceUsedOnce`; sealed counters are below the send
  counter, which only grows.
- `ReplayWindowExact`: `SecSpec => []WindowIsExact`, and `AtMostOnceHolds`: the
  channel implements `DatagramService` (`DeliversAtMostOnce`). The invariant ties
  the window to the history: a slot within the window of the newest counter
  holds a counter exactly when that datagram was opened, and no datagram was
  opened twice. The numbers that a ciphertext's first bytes spell do not matter.

Streamer and picture (`HostServicesProofs`):

- `StreamerIsSafe`, `TeardownHolds`: `CaptureKeepsMembers` and `TeardownIsComplete`
  for any number of stops and failures. `StreamerInv` says who holds `stopMutex_`,
  what `start` has built at each of its steps and what `stop` has taken down at
  each of its own; the two properties follow where these meet.
- `PicturesFit`: `BoxSpec => []PictureFits` for every target and every sequence of
  source sizes. It is arithmetic: the fitted size is the largest even one in
  proportion, by cases on which side is the tight one.

Receive path, transport and sound (`MediaReceiverProofs`, `MediaWireProofs`):

- `WholeFramesOnly`: the received counter is the number of fragments held, so a
  frame that completes has all of them.
- `CollectedNeverEvicts`: `ReassemblySpec => []NeverOverfull`. With
  `GcAge + 2 <= MaxInFlight` (64 and 96 in the code) the collection after every
  fragment of video or audio leaves at most `GcAge + 1` buffers, so the eviction in
  `feed` is not taken. For input, which is not collected, the theorem only says that
  the map stays within its limit; the eviction can be reached there.
- `LossCountIsHonest`: `TrackerSpec => []LostAccountsForMissing`. `TrackerCounts`
  adds that the window remembers only numbers that came, and that nothing beyond
  the highest number did. The proof counts the missing numbers between two bounds.
- `JitterBounded`, `FramesPopInOrder`: the queue is bounded, and `PopsInOrder` holds.
  `JitterInv`: the queue is sorted and nothing in it is older than the last frame
  handed out.
- `TransportThreadIsSafe`: `LifeSpec => []ThreadKeepsItsContext`.
- `ReceivePathHolds`, `PathPopsInOrder`: the same promises in the composition
  `WireSpec` of the run `media_wire`, where tracker, reassembler and jitter buffer
  feed one another. `WireTypeCorrect` and `SoundHolds` state `WireTypeOK` and
  `SoundStaysInStep` of it. `WireInv` is the conjunction of the parts' invariants;
  for the sound, each byte in the FIFO was fed in a block around the time the packet
  clock will give it, an ended capture thread has let its devices go, and the
  playback queue is an end of what was pushed.

Coordinators (`HostCoordinatorProofs`, `MediaSetupProofs`, `SessionProofs`):

- `PlayersKeepTheirSlots`: `SlotsAreUnique` and `OrphansStop` of the host's
  coordinator. Slot uniqueness needs room when a queued event is handled, which
  depends on the whole event queue: `QueueOK` says that at no point of the queue,
  as the Qt thread works through it, are there more streams than the session
  admits clients (`CrowdOf`), and that nobody comes back behind their own
  disconnection. `CoordinatorInv` adds what workers and teardown agree on.
- `ClientIsOrderly`: nothing of a stream outlives the client's `stop()`, and the keys
  are confirmed in order. `ClientInv` says what may be queued in each state of the
  session, and that a queued STREAM_START finds the keys.
- `SlotsStayUnique`, `MediaIsInStep`: `SlotsAreUnique` and `MediaFollowsSession` of
  `MCSpec`. `SetupInv` joins the invariants of both sides: what the client heard is
  a beginning of what the host said, the host heard no more than the client said,
  and the host says each message once (`SayingInv`). The host's lemmas are proved
  in `HostCoordinatorProofs` and used through an INSTANCE of it.

Input and signaling (`HostServicesProofs`):

- `InputStaysPermitted`, `KeysAreReleased`: the second states
  `InputFollowsPermissions`, the first the part of it that a failing SendInput
  leaves intact. `InjectorInv` is that part with the types and, without failures,
  `PlainHeld`: what is down and not an extended key is held by somebody.
- `HostIsToldOfPlayers`, `RegistryIsKept`: `HostKnowsPlayers` and
  `RegistryFollowsHosts`. `SignalingInv` adds that a connection has one slot, of the
  session it belongs to (`SeatsAgree`), where each role can wait (`RolesAgree`), that
  a host which is leaving has told everybody its loop has visited
  (`RegistryAgrees`), and what is ahead of an undisturbed iterator: as many players
  as it still expects (`IteratorAgrees`).

Every invariant and every action property of the passing runs is stated by a theorem, and the
refinement of `DatagramService` too. Only model-checked are the liveness
properties, since fairness and ENABLED are beyond the prover:
`HostForgetsGoneClients`, `ClientsNoticeTheEnd`, `JoinIsResolved`, `KeyframeServed`,
`QtStopReturns`, `HeldFramesLeave`, `SilentClientFallsBack`, `SoundThreadsEnd`,
`NobodyWaitsForEver`, `PairEndsTogether` and `CallsReturn`. So are the relay, the
signaling client and the video encoder, whose runs check liveness alone.

## Not modelled

- Device and codec calls, FFmpeg, DXGI, WASAPI, ViGEm, the widgets, logging and
  paths have no protocol state; what they return to the code that calls them is
  a choice in the models. Cryptographic primitives are ideal.
- Frame header parsing (`Packet`), session code generation and the clamps of
  `Config` are pure computations; the configuration file is written by one
  truncating stream.
- `InputSender` and `ControllerReader`: no part of the program creates an
  `InputSender`, so its queue and thread never run.
- The race of `ClientSession::stop` with `finish` on two threads, and a second
  `start` on a running `HostStreamer`, which the coordinator never makes.
- Statistics and their refresh, presentation of frames, the switch to a software
  encoder, the start of hosting over the signaling server. `goodRttMs` of the
  controller is never read.
- Wrap-around of client ids and counters after 2^32 and 2^64 steps.

## Plan

1. Compose `ControlChannel` with the two coordinators in place of the ordered
   channels of `MediaSetup`.
2. `HostStreamer` under `HostCoordinator`: one module for the locks of both.
3. State and prove safety of `VideoEncoder`, `TcpRelay` and `SignalingClient`, of
   which the runs check liveness.
