# A TLA+ model of the PACC PulseAudio module

PACC is a PulseAudio module that makes a virtual loudspeaker. What is played on
it is handed to WebRTC, and a browser that connects to the module's control
server negotiates a peer connection over which it receives the sound. This
directory models the parts of the module that decide something: the sink's IO
thread, the capture device the sound goes through and how a voice engine brings
it up, the copies of the sink's volume the engine is told, the control server,
the signalling between the server, its handler and the peer connection, and the
loading and unloading of the module.

## The system

Four threads meet in the module.

| thread | runs | started by |
|---|---|---|
| PulseAudio's main loop (the core) | `pa__init`, `pa__done`, `sinkEventCb` | the sound server |
| the module's main thread | `PAModule::exec`, the Qt event loop, `WebsocketServer` | `PAModule::init` |
| the IO thread, `pacc-sink` | `PASinkPriv::threadFunc` and what it calls, down to `PAAudioDeviceModule::write` | `PASinkPriv::init` |
| the worker | `Worker::run`: WebRTC's signalling thread, `Conductor`, `ControlServerHandler` | `WebRTCWriter` |

The voice engine of WebRTC has threads of its own, which call
`PAAudioDeviceModule`.

| component | state | operations | meets the others by |
|---|---|---|---|
| `PAAudioDeviceModule` | `m_do_record`, `m_recording_initialized`, `m_remaining_data`, the buffer's rate, channels, block and callback | `write`; `InitRecording`, `StartRecording`, `StopRecording`, `SetStereoRecording`, `RegisterAudioCallback`; `Init`, `Terminate`, the queries and setters of its features | `write` is called by the IO thread, the rest by the engine; `m_mutex` |
| the IO thread of `PASink` | `m_timestamp`, `m_block_usec`, the sink's `thread_info` | `threadFunc`, `processRewind`, `processRender`, `onSinkProcessMsg`, `onSinkUpdateRequestedLatency` | messages of the core, handled in `pa_rtpoll_run`; `Writer::write` |
| `PASink`, main side | `m_instance`, `m_sink`, `m_thread`, `m_muted`, `m_avg_volume` | `instance`, `init`, `drop`, `onSinkEvent`, the getters | called by the module's main thread, the core, the engine |
| `WebsocketServer` | `m_socket`, `m_pending_messages` | `onNewConnection`, `socketDisconnected`, `processTextMessage`, `sendMessage` | signals to the handler, queued for the worker; `m_socket_mutex` |
| `ControlServerHandler` | its connections to the conductor's signals | `onClientConnected`, `onMessage` and the five message types | `sendMessage`; calls and signals of `Conductor` |
| `Conductor` | `m_peer_connection`, `m_stream` | `open`, `close`, the accessors, `OnSuccess`, `OnFailure`, `OnIceCandidate` | called by the handler and by the library, on the worker |
| `WebRTCWriter`, `Worker` | the thread, the device | start, `run`, stop | queued call of `run`; `quit` and `wait` |
| `PAModule` | `m_application`, `m_control_server`, `m_writer` | `init`, `exec`, `stop` | starts the main thread; destroyed by the core |

What is hard in it:

- **the writer's boundary**: chunks of any length in, blocks of 10 ms out, with
  the engine starting and stopping the recording in between;
- **time**: late wake-ups, conversions that round, latency changes, rewinds and
  suspensions all move `m_timestamp` against the clock;
- **copies made by one thread and read by others** without a lock: the volume and
  the mute switch, brought up to date by events that are merged and ignored;
- **answers and assertions**: what the device says of its features must agree with
  what its setters take, or the engine gives up or the process ends;
- **connections that are replaced and lost** while another thread sends;
- **subscriptions and snapshots**: a client is sent what is known and subscribes
  to what comes, while the peer connection is reset by it or by others;
- **unloading**, which races with the start of the main thread, and joins three
  threads in an order.

The assertions of the code (`Q_ASSERT`) stay in every build, since both project
files define `QT_FORCE_ASSERTS`; calls with effects inside them are made.

## The modules

| module | models | abstract specification | proofs |
|---|---|---|---|
| `AudioDevice` | the recording in `webrtc/pa_audio_device_module.cpp` | `BlockStream` | `AudioDeviceProofs` |
| `VoiceEngine` | what the device answers of its features and asserts of their use, under an engine that starts up on it; composed with `AudioDevice` | `AudioDevice` | `VoiceEngineProofs` |
| `SinkThread` | the IO thread in `pa_sink.cpp` | `Playback` | `SinkThreadProofs` |
| `SinkVolume` | the subscription, `onSinkEvent` and the getters in `pa_sink.cpp`, as the device passes them on | | `SinkVolumeProofs` |
| `WebsocketServer` | `websocket_server.cpp` | `MessageRelay` | `WebsocketServerProofs` |
| `Conductor` | `webrtc/conductor.cpp`, as functions of its state | | |
| `Signalling` | `webrtc/control_server_handler.cpp`, composed with `WebsocketServer` and `Conductor` | `MessageRelay` | `SignallingProofs`, `SignallingCounts` |
| `Lifecycle` | `pa_module.cpp`, the start and end of the worker in `webrtc/writer_webrtc.cpp`, the singleton, `init` and destructor in `pa_sink.cpp` | | `LifecycleProofs` |

The constants of each module are given their values directly in the `.cfg`
files. Operators introduced as "Mutation" are wrong variants of the definition
that follows them. Nothing of the models uses them: they exist so that each
property can be seen to fail when the code is changed in that way.

### AudioDevice

A byte is its position in the stream the sink offers. `write()` is three
actions, `WriteBegin`, one `DrainBlock` for each turn of its loop, and
`WriteEnd`, because the methods that do not take `m_mutex`
(`RegisterAudioCallback`) can fall between two turns; `io` is where `write()`
is, and `MutexFree` says that the mutex can be taken. `WriteIgnored` is a
`write()` while nothing is recorded, and `WriteDividesByZero` one that starts
before the channel count is set. `accepted`, `handed` and `received` are
histories: what joined `m_remaining_data`, what was passed to
`SetRecordedBuffer` and what the engine's transport was given.
`AudioDeviceBuffer` is WebRTC's; it holds one block and delivers it.

### VoiceEngine

The engine is external, and the device cannot choose how it is used. Two kinds of
engine are looked at. `AudioDevice` by itself allows any order of calls. In
`VoiceEngine` an engine follows the interface: it initializes the device,
registers its transport, asks of each feature whether it is available, sets it
to the answer, and gives up when it is refused what it was offered; then it
records any number of times, unregisters and terminates. For each feature
`answer`, `accepts` and `asserts` are what the device answers, which arguments
its setter takes, and which ones fail a `Q_ASSERT` of it. Calls that change
nothing in the device are settled in one step, `SettleOthers`; `todo` lets the
rest come in any order, while the IO thread writes (`WriteAny`). That the
device is used as `AudioDevice` demands is itself checked and proved
(`UsesTheDevice`), so that what holds there holds here.

### SinkThread

One turn of `threadFunc` is `BeginPass` (the clock, the rewind, the decision to
render), `RenderChunk` for each chunk, `EndRender`, and the sleep, which
`WakeByTimer` or a handled message ends. `Dispatch` is the part all messages
share. The core's side is `Put`, `Suspend`, `Resume`, `Unlink` and `Shutdown`,
each waiting for its message to be handled, as `pa_asyncmsgq_send` does. A
`pa_rtpoll_run` that fails leaves the thread in `"failed"`, where it takes
messages until the shutdown. Time is a counter that `Tick` advances at any
point, so that a pass may take any time and the thread may wake late; with
`Prompt` it advances only while everyone waits, which makes the violation
below depend on no delay at all. Sound is counted in frames. Both conversions
round down, as `pa_usec_to_bytes` and `pa_bytes_to_usec` do.

`Drop` is `PASink::drop` clearing `m_instance`, before the destructor unlinks the
sink. From then on the callbacks of the IO thread, which look the sink up with
`instance()`, find a second `PASink` that nothing has initialised, while the loop
goes on with the first. `HandleGetLatency` then answers from an `m_timestamp` that
may be anything (`InstanceTimestamps`, with the values of `Uninitialised`), and
`UpdateRequestedLatency` sets the `m_block_usec` of the second and the limits of
the real sink, so that the loop's `blockUsec` and `maxRequest` no longer belong
together. `latency` is what the inputs have last asked for.

`Playback` is what the sink promises of its pace, without its thread, messages
and conversions: a clock, whether the sink is opened, and up to when sound is
rendered. It maps to `now`, `opened` and `m_timestamp`.

### SinkVolume

PulseAudio changes the mute switch and the channels' volumes and queues an event
for those who listen, merging it into one that still waits. `onSinkEvent`, on
PulseAudio's thread, is two steps, `OnSinkEvent` for `m_muted` and `CopyVolume`
for `m_avg_volume`, because the engine's threads read both without a lock, in
`TellVolume` and `TellMuted`. Settings are numbered, so that a copy says which
setting it was made from: a volume and a mute switch of different changes can
be told apart though their values agree. The sink is put and subscribed to on the
module's own thread, so PulseAudio's main loop may take events between the two
(`EventGoesBy`), and those do not come to the module. `missed` marks a setting
that no event to come announces to it: the one the sink starts with, one changed
while nobody listened or while the event of the new sink still waited, and one
whose event went by before the subscription.

### WebsocketServer

Each operation is one action, since `m_socket_mutex` is held through it. A
client is one connection. `link` is the connection with its QWebSocket;
`"left"` is the time between the client's going away and the `disconnected()`
signal, in which `sendMessage` writes to nobody (`lost`). What a client sent
before it left is still let through. Messages are numbered as they are sent.

### Conductor and Signalling

`Conductor` runs on the worker only, so its operations are functions from state
to state; `failed` stands for a failed `Q_ASSERT` or a call through a NULL
`m_peer_connection`, after which nothing happens any more. Peer connections are
numbered, and a message is the connection it came from with the number of the
candidate (0: the session description).

`Signalling` is the composition: `Connect`, `ClientSends` and `Disconnect` are
steps of the server on the main thread, joined with the signal they emit.
A signal becomes an event for the worker if the handler is there (`wired`), and
is lost otherwise. The worker handles one event or one callback of the library
at a time. What a handler sends is in `outbox`, and `SendNext` passes it on one
message at a time, because the main thread runs in between. The lambdas
connected to the conductor's signals are counted, `iceSubs` and `descSubs`:
they are all the same. `asked` and `sent` are histories of the requests and of
the messages, so that what is sent can be compared with what was asked for.

The library fails in two ways, where `OfferMayFail` allows it. With `OnFailure` no
offer was made. With `OnSuccessInVain` it was, but `SetLocalDescription` fails: its
observer only warns, and `OnSuccess` announces the description all the same. Who
has subscribed is sent it, but the connection has no description for those who ask
later, and gives no candidates. Whether the description that was handed to
the library can still be read when it is announced is up to the library; the code
has a TODO at this place.

### Lifecycle

`core` is where PulseAudio's thread is in `pa__init` and `pa__done`, `main` where
the main thread is in `PAModule::exec`. `EnterLoop` clears `quit`, as the start
of `QCoreApplication::exec` does, so that a `quit()` before it is forgotten.
`PASink` objects are numbered, because there can be two: `GetInstance` is
`PASink::instance`, which the IO thread's message handler calls too, and
`DropSink` clears `instance` before the destructor, whose `Unlink`, `Shutdown` and
`JoinIo` follow. `made` and `released` are what `PASinkPriv::init` made, which is
less when it fails (`Failures`), and what the destructor released. The parts go
in the order of `~PAModule`: the server, the sink, then the members, the writer
with its worker first. The worker's rtc thread is told to quit by nobody;
`RtcThreadQuits` supposes that it is, so that the rest of an unload can be
checked. `run` is a call queued on a thread that is being started: the worker is
`"starting"` until it is delivered (`WorkerRuns`), and a `quit()` that comes first
ends the thread without it (`WorkerQuits`). After refused arguments the destructor
takes down a message queue that was never made, and the process may crash
(`JoinIo`). `EarlyUnload` lets the module be unloaded before its event loop runs.

## What is checked

| run | question | states | result |
|---|---|---|---|
| `adm_recording` | with an engine that follows the device's answers, does every recording start, and is each of its blocks heard, once and in order? | 12 thousand | holds |
| `adm_any_engine` | for any order of calls, and blocks that are refused, is the sound passed on unchanged, in whole blocks, and only while recording? | 7 thousand | holds |
| `sink_thread` | does the thread implement `Playback`, stay within the latency, catch up with the clock, answer the core and end after a failure; and what does the writer get ahead by? | 504 thousand | holds |
| `sink_resume` | is the writer ahead of the time since a resume by no more than the latency? | | violated |
| `sink_volume` | is the engine told the sink's present mute switch and volume, once the events are handled, and no mute switch older than the volume before it? | 118 thousand | holds |
| `server_relay` | is each message pending, delivered or lost, once and in order, and `m_socket` never dangling? | 2 thousand | holds |
| `signalling` | is a peer connection always there, nothing missed, nothing old after something new, nothing sent more often than all clients together asked, and does a client that asks get a description? | 337 thousand | holds |
| `signalling_early_client` | is the connection there also for a client that comes before the handler is made? | | violated |
| `lifecycle_orderly` | unloaded while its event loop runs, does the module end its main and its IO thread before what they use, is every wait for them answered, and does it come to an end? | 275 | holds |
| `lifecycle_hangs` | does it come to an end with the worker as it is? | | violated |
| `lifecycle_worker` | does the worker outlive nothing it uses? | | violated |
| `lifecycle_early` | is the main thread over before its parts are torn down, whenever the module is unloaded? | | violated |

### What the violations show

- **`sink_resume`.** No code brings `m_timestamp` up to date when the sink is
  resumed. The loop renders the whole time it was suspended without sleeping,
  and the receiver gets that much sound at once.
- **`signalling_early_client`.** The server listens before the worker has
  connected the handler to it. A client in between has its `clientConnected`
  signal lost, so the conductor is never opened, and its first request calls
  through a NULL pointer.
- **`lifecycle_hangs`.** `~WebRTCWriter` tells the worker's `QThread` to quit, but
  `Worker::run` never returns to that thread's event loop: it leaves its own loop
  only when the rtc thread is told to quit. PulseAudio's thread waits for ever.
- **`lifecycle_worker`.** The control server and the sink are destroyed while the
  worker runs, which sends through the one and whose engine asks the other.
- **`lifecycle_early`.** Only if `m_application` is set does `~PAModule` wait for the
  main thread. Unloaded before, the parts are torn down while they are made.

### What the passing runs bound

Some behaviour is surprising and yet agrees with what the code says of itself.
The properties state it as it is:

- A rewind moves `m_timestamp` back, but the writer keeps what it has: the same
  time is rendered and written again. `WriterPaced` says how far the writer gets
  ahead by this.
- Subscriptions outlive the client that made them, so that a second client that
  asks once may receive the description twice. `SentAsOftenAsAsked` says that the
  requests of all clients together are the limit.
- From `drop()` to the end of the IO thread its callbacks use a second `PASink`,
  which `instance()` makes because `drop()` has cleared the first, and which nothing
  has initialised. `SecondSinkOnlyAtUnload` says that it happens then only, and
  that there is never a third. What comes of it is in `SinkThread`: a latency
  asked for then may be reported as anything (`LatencyBounded` holds until `drop()`),
  while the loop still does not render beyond what the inputs ask for
  (`RenderWithinLatency`).
- The setting the sink starts with is never read: until the first change the
  device reports a volume of 0, not muted. A change whose event goes by before
  the subscription is not read either, until the next one. `CopiedWhenQuiet`
  leaves out what is `missed`.
- A volume may be told with the mute switch of a later change;
  `MutedNotOlderThanVolume` excludes the opposite only.
- A channel amplified above `PA_VOLUME_NORM` is reported above `maxVolume`. No
  property is about the range: without such channels it is a fact about means.
- `WriterPaced` allows a microsecond for each chunk, and what was rewound. Over
  many chunks the first adds up: it is a drift without end.
- When the library fails to make or to set an offer, who asks later finds no
  description: `DescriptionArrives` excepts it.
- `StopRecording` leaves `m_recording_initialized` set, and the last partial block
  in `m_remaining_data`: the next recording starts with it. An engine that calls
  `InitRecording` only when `RecordingIsInitialized` says no would do without it;
  `RecordingStarts` assumes one that always does. `m_initialized` is not
  initialized by the constructor: `EngineInit` allows either value.
- After invalid arguments the destructor takes down a message queue that was never
  made. `UnloadCompletes` allows the process to crash there, and nowhere else.
- An unload between the setting of `m_application` and the start of the event loop
  has its `quit()` forgotten, and waits for ever. The step is in the model
  (`EnterLoop`), but `lifecycle_orderly` unloads from the loop, and no property
  holds of this case.

### Bounds

- `AudioDevice`: at 200 Hz a block is 8 bytes, 2 samples of 2 channels. In
  `adm_recording` chunks of half a block and of one and a half make writes that
  complete no block, one and two, and leave something or nothing; 40 bytes are
  five blocks, enough for several recordings with a remainder in between. In
  `adm_any_engine`, with 28 bytes, the chunk of 20 bytes drains two blocks in one
  write, so that a refused block is followed by another one.
- `SinkThread`: frames of 2.5 µs make both conversions round, with latencies of
  1, 2 and 3 frames. Four microseconds of clock hold several passes, a late
  wake-up, a suspension and a rewind between them. `sink_resume` uses exact
  frames of 2 µs and no rewind, so that rounding plays no part in it.
- `SinkVolume`: two channels of two volumes each, whose mean may have to be
  rounded; four settings, so that changes are merged, and one of them is missed;
  two events of other sinks in the queue, before and after those of this one.
- `WebsocketServer`: with three connections one can be replaced, one lost and one
  late; with four messages there are some pending, delivered and lost at once.
- `Signalling`: two clients, one after or in place of the other, with two
  requests each (one of them may be a reset), and one candidate for each peer
  connection, of which there can be several.
- `Lifecycle`: one load and one unload, with every stage of either thread. The
  state space is small and complete.

Deadlock is not checked, since every instance may stop: the engine ends, a
division by zero ends the process, the IO thread ends, the subscription ends,
clients run out of requests, and an unloaded module does nothing more. That
nobody waits for ever is what the liveness properties say.

### Fairness

- `WF(WriteStep)`: `write()` returns. The rest of `AudioDevice` is up to its
  callers. `SF(StartUp)` in `VoiceEngine`: an engine goes on with its start-up;
  some of its calls wait for `m_mutex`, which is taken and freed by each
  `write()`, and is free while the IO thread sleeps between them. An engine is
  not forced to stop, to record again or to end.
- `WF(Deliver)` in `SinkVolume`: PulseAudio's main loop delivers its events, and
  the handler returns. Nobody is forced to change anything or to ask.
- `WF(ThreadStep)`: the IO thread is scheduled, and the poll returns when the
  timer or a message is due. `SF(Teardown)`: PulseAudio's main loop takes its
  events in order, so a posted unload is reached though suspensions and resumes
  come before it. `Tick`, `PollFails` and the inputs' requests are never forced.
- `WF(SocketDisconnected(c))`: the main thread's event loop delivers each
  `disconnected()` signal.
- `WF(MakeHandler)`, `WF(HandleEvent)`, `WF(SendNext)`, `SF(OnSuccess)`: the loop of
  `Worker::run` serves WebRTC's messages for 100 ms and then Qt's events, over
  and over. Finishing an offer is one of WebRTC's messages: it gets its turn
  however many events of clients come between, though a reset may withdraw it.
- In `Lifecycle`, weak fairness of the main thread, the IO thread, the teardown, the
  worker's start and its steps: each thread is scheduled. `SF(WorkerEnds)`: where
  `RtcThreadQuits` supposes that the rtc thread is told to quit, the worker's loop
  looks at it between any two things it does. Nothing forces an unload.

## What is proved

TLAPS checks these for every value of the constants, within the assumptions the
modules state of them. Each module has an inductive invariant from which most of
its properties follow; histories and counts get invariants of their own on top.

Every invariant and every action property that a passing run checks is a theorem
here. A liveness property cannot be one: fairness and ENABLED are out of the
prover's reach. But a liveness argument has two parts, that in each state which
waits for something there is a step to come that leads there, and that this
step is taken. The first part is safety. Where it takes more than the type
of the state to see, it is proved, and it is called here the *safety core* of
the liveness property. The last part is left to the fairness, and to TLC.

**`AudioDeviceProofs`**, for any sample rate that makes whole samples in 10 ms,
one or two channels, and any chunk sizes:

- `BytesPreserved`, `DelayBounded`, `TypeCorrect`: from the inductive invariant
  `DeviceInv`. `StreamIntegrity` alone is not inductive: that a turn of the loop
  hands over exactly what it removes needs `SamplesPerBlock * BytesPerSample` to
  be `BlockSize`, hence that during a write the rate and channels are those of the
  device (`ControlInv`, which the mutex keeps), and the arithmetic lemma
  `BlockArithmetic`.
- `StopIsFinal`: no block is delivered unless `m_do_record` is set.
- `NoFaultWhenNegotiated`, assuming `EngineNegotiatesFirst`: the code itself does not
  check the channel count, so nothing weaker will do.
- `ImplementsBlockStreamSafely`: initial states and steps of the device are those
  of `BlockStream`. `BlocksLeaveAtOnce` is the safety core of its fairness: a whole
  block that has been taken is handed over in the same `write()`, and never waits
  for the next one, which may not come.
- `DeliveredInOrder`: the engine gets whole blocks of those that were handed over,
  never an older one after a newer one, and the same one again only if the buffer
  refused what came between. `OrderInv` makes it inductive: what is handed over are
  whole blocks, `m_remaining_data` is newer than the block the buffer holds, and
  that block is the last one received, or newer.

**`VoiceEngineProofs`**: `EngineUsesTheDevice` shows each step of the engine to be
one of `AudioDevice` or a stutter; its invariant relates `todo` and `engine` to the
device (a recording is under way only if the transport and the channels are
settled). With it the invariant of `AudioDevice` is taken over, and gives
`EngineCausesNoFault`. `EngineMeetsNoAssertion` holds for mono and stereo.
`EngineIsNotRefused`: the engine gives up nowhere, and when it is ready to record a
recording does start. `EngineGetsTheStream` collects what the device keeps under
such an engine: the steps of `BlockStream`, no byte lost or kept back, the order,
and the silence after a stop. `EngineHearsRecordings`, for a buffer that refuses
nothing, adds that what was handed is a whole number of blocks, each as long as the
part of the stream it is (`OneMoreBlock`).

**`SinkThreadProofs`**, for any rate of at most a frame per microsecond, any latency
range whose shortest holds a frame, and any number of rewinds:

- `SinkTypeCorrect`, `RendersWithinLatency`, `ReportedLatencyBounded`,
  `RendersWithoutRewind`, `WritesPaced`, `RewindsOnlyUnplayed`: from `SinkInv`. It
  strengthens the properties by three facts: `max_request` is the latency asked
  for, in frames, and `m_block_usec` is that latency until `drop()`; while a pass
  renders, `m_timestamp` is at most `now` plus the duration of what the pass `ate`
  (the latency bound itself is not inductive, because a chunk is bounded by
  `max_request` and not by time); and what was written lasts at most until
  `m_timestamp` plus the slack. The lemmas on rounded division (`RoundTrip`,
  `ChunksAdd`, `ChunksRoundOnce`, `RewindBounded`) are what these rest on.
- `SinkImplementsPlayback`: from the same invariant, action by action.
- `RenderingGetsOn`: each chunk is of at least a frame and moves `m_timestamp` on, and
  a pass renders until the latency is filled or `max_request` taken. It is the safety
  core of `CatchesUp`, and rests on lemmas about the conversions: a latency holds a
  frame, and a frame lasts (`SomethingFits`, `FramesLast`).
- `RequestsAreHeard`: the core sends nothing to a thread that has ended, and after a
  failed poll an unload is under way. It is the safety core of `RequestsHandled` and
  `StopsAfterFailure`.

**`SinkVolumeProofs`**, for any volumes and any number of settings:
`ReportsTheSetting`, `ReportsInOrder`, from `VolumeInv`. Its core is
that a setting which no queued event announces has been copied, or is being
copied, or is `missed`; and that the numbers of the copies never fall and
`m_muted` is never older than `m_avg_volume`.

**`WebsocketServerProofs`**, for any clients and messages: `SocketNeverDangles`,
`MessagesAccountedFor` and `ServerImplementsRelay`, from `ServerInv`. That each
client gets its messages in order needs that pending messages rise and are newer
than all that any client got (`PendingIsNewer`). `OneClientAtATime`: who is connected,
or has left unnoticed, is who `m_socket` points to.

**`SignallingProofs`**, for any number of clients, requests and candidates. The
server's invariant is taken from `WebsocketServerProofs`, whose module is
instantiated with the server of `Signalling`.

- `NewerNeverBeforeOlder`: what is still to be sent is of the latest connection,
  nothing sent is newer, and what was sent rises (`OldestFirst`); the server keeps
  the order.
- `NeverWithoutConnection`, assuming `WiredFirst`: while there is no connection the
  queue is empty or begins with `clientConnected` (`ConnectsFirst`).
  `signalling_early_client` shows that the assumption is needed.
- `NobodyMissesAnything`: what is due to a connected client, it has or is in the
  outbox (`DueIsSent`). A client that has just connected has asked for nothing yet,
  and who has been served has subscribed (`AskedByConnected`).
- `DescriptionOnItsWay`, assuming `WiredFirst`: a connected client that waits for
  a description has its request in the queue, or an offer under way with a
  subscription to its end, or the description in the outbox, or an offer has
  failed or could not be set. It is the safety core of `DescriptionArrives`. It
  needs that no request is lost between the client and the handler, through resets
  and the requests of others (`NoRequestLost`).
- `SignallingImplementsRelay`: the composition implements `MessageRelay` too; the steps
  of the worker either send one message or leave the server alone.

**`SignallingCounts`**, about the same composition:

- `NoCopyTooMany`, in two steps. Each request is counted once, as an event to come
  or a subscription (`RequestsInv`); and what was sent of a message and is about to
  be is at most the subscriptions for its kind (`CopiesInv`). The requests are those
  of all clients together: one that asked once may get more copies than one.
- `NothingBeforeItAppears`: nothing is sent of a peer connection which that has not
  given yet. The second step needs it: a request is answered with what there is,
  and subscribes to what comes, so that what comes must not have been sent.

**`LifecycleProofs`**, for any parts that fail to be made. `LifeTypeCorrect` holds
whenever the module is unloaded (from `EarlyInv`). The rest assumes that it is
unloaded while its event loop runs (`~EarlyUnload`; `lifecycle_early` shows what
happens to one of them without), and follows from `LifeInv`, which says
for each stage of the two threads what has been made, what has gone and which
message may be under way:

- `IoThreadIsSafe`, `TeardownWaits`, `OneSinkUntilUnload`, and
  `ThreadIsNotDestroyedRunning`: the main thread's `QThread` is over when it is
  destroyed.
- `NobodyWaitsForTheDead`: whoever waits for the main thread or the IO thread has a
  message under way to a thread that is alive, does not wait in turn and takes it;
  no message is sent over another. It is the safety core of `UnloadCompletes`, as
  far as these two threads go. The wait for the worker is not covered: nothing tells
  its rtc thread to quit, as `lifecycle_hangs` shows.

Only model-checked: the liveness properties themselves, beyond their safety cores.

## What is not modelled

- WebRTC, QWebSocket and PulseAudio's core, but for the calls the module makes and
  receives. Races inside them cannot be told from this code.
- That `finished()` deletes a module which nobody unloads: nothing but the unload
  ends the event loop.
- Certificates, JSON and SDP as text. Of the device `m_agc`, which is only
  reported, the recording of raw data to a file, which goes straight to the
  buffer, and the queries of names, delays and of a playout that does not exist.
- The step size of the volume, a constant of the sink. Asked for when `init` has
  failed, or not been called, it reads through a NULL `m_sink`; when the engine asks
  is up to WebRTC.

## Plan

1. Done: all modules above, with their runs and proofs.
2. A composition of `SinkThread` and `AudioDevice` that follows sound from the clock
   to the engine, and shows how the latency of both adds up.
3. The proofs that such a composition would allow: a bound on the delay from the
   sink to the engine, for every rate and latency.
4. `m_agc` and the raw recording, should a property depend on them.
