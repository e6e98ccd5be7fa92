------------------------------- MODULE SinkThread -------------------------------
(***************************************************************************)
(* The sink's IO thread (pa_sink.cpp).  m_timestamp says up to when sound  *)
(* has been rendered; the thread sleeps until then, renders the configured *)
(* latency ahead, writes it to the writer and sleeps again.  PulseAudio's  *)
(* messages are handled while it sleeps: one message wakes it once.        *)
(*                                                                         *)
(* The callbacks of the sink look it up with PASink::instance().  Once the *)
(* unload has begun with PASink::drop(), that is a second PASink, made     *)
(* there and never initialised, while the loop still uses the first one.   *)
(*                                                                         *)
(* Times are in microseconds from the start of the thread, amounts of      *)
(* sound in frames.  PulseAudio's core and pa_sink_render are external.    *)
(***************************************************************************)
EXTENDS Integers, FiniteSets

CONSTANTS
  Rate,          \* frames per second
  UsecPerSec,    \* PA_USEC_PER_SEC
  InitialBlock,  \* kBlocUsec
  MinLatency,    \* the sink's latency range, which the module leaves at
  MaxLatency,    \*   PulseAudio's defaults
  Latencies,     \* the latencies the sink's inputs ask for
  NoLatency,     \* (pa_usec_t) -1: no input asks for one
  MayFail,       \* pa_rtpoll_run may fail
  MaySuspend,    \* the sink may be suspended and resumed
  Prompt,        \* the thread and the core do at once what they have to do
  Uninitialised, \* values of an m_timestamp that nothing has set
  MaxRewinds,    \* bound: rewinds requested
  MaxClock       \* bound: the length of a run

(* Frames last a microsecond or more, and the shortest latency holds one.  *)
ASSUME RatesAssumption ==
  Rate \in Nat \ {0} /\ UsecPerSec \in Nat \ {0} /\ Rate <= UsecPerSec
ASSUME LatencyAssumption ==
  /\ MinLatency \in Nat /\ MaxLatency \in Nat /\ InitialBlock \in Nat
  /\ Latencies \subseteq MinLatency .. MaxLatency
  /\ InitialBlock \in MinLatency .. MaxLatency
  /\ MinLatency * Rate >= UsecPerSec
  /\ NoLatency \notin Latencies
  /\ Uninitialised \subseteq Nat
ASSUME SinkBoundsAssumption ==
  /\ MayFail \in BOOLEAN /\ MaySuspend \in BOOLEAN
  /\ Prompt \in BOOLEAN /\ MaxRewinds \in Nat /\ MaxClock \in Nat

VARIABLES
  clock,         \* pa_rtclock_now()
  sinkState,     \* m_sink->thread_info.state
  request,       \* the message of the core the thread has still to handle
  pc,            \* where the thread is in threadFunc
  now,           \* now, as read at the top of the loop
  timestamp,     \* m_timestamp
  latency,       \* the latency the sink's inputs have last asked for
  blockUsec,     \* m_block_usec, of the PASink whose loop it is
  maxRequest,    \* thread_info.max_request, and max_rewind, always the same
  rewindFrames,  \* thread_info.rewind_nbytes; 0 when none is requested
  ate,           \* ate
  unloading,     \* PA_CORE_MESSAGE_UNLOAD_MODULE has been posted
  dropped,       \* PASink::drop() has been called
  written,       \* history: the frames passed to m_writer->write
  slack,         \* history: the microseconds rewound, and one for each chunk
  resumed,       \* history: clock and written when the sink was last resumed
  rewinds        \* history: the rewinds requested, for the bound

core == <<sinkState, request, unloading, dropped>>
setting == <<latency, blockUsec, maxRequest>>
timing == <<timestamp, setting, rewindFrames, rewinds>>
pass == <<now, ate, written, slack>>
vars == <<clock, core, pc, timing, pass, resumed>>

--------------------------------------------------------------------------------
(* pa_usec_to_bytes and pa_bytes_to_usec, in frames; both round down.      *)
UsecToFrames(usec) == (usec * Rate) \div UsecPerSec
FramesToUsec(frames) == (frames * UsecPerSec) \div Rate

Lesser(m, n) == IF m < n THEN m ELSE n

(* PA_SINK_IS_OPENED: running or idle                                      *)
Opened == sinkState = "opened"

Init ==
  /\ clock = 0
  /\ sinkState = "init"
  /\ request = "none"
  /\ pc = "top"
  /\ now = 0
  /\ timestamp = 0
  /\ latency = InitialBlock
  /\ blockUsec = InitialBlock
  /\ maxRequest = UsecToFrames(InitialBlock)
  /\ rewindFrames = 0
  /\ ate = 0
  /\ unloading = FALSE
  /\ dropped = FALSE
  /\ written = 0
  /\ slack = 0
  /\ resumed = [at |-> 0, written |-> 0]
  /\ rewinds = 0

--------------------------------------------------------------------------------
(* One turn of the loop in threadFunc                                      *)

(* Mutation: the rewind is not limited to what has not been played yet.    *)
RewoundWithoutLimit(t) == IF Opened /\ timestamp > t THEN rewindFrames ELSE 0

(* processRewind: what is taken back, at time t.                           *)
Rewound(t) ==
  IF Opened /\ timestamp > t
  THEN Lesser(rewindFrames, UsecToFrames(timestamp - t))
  ELSE 0

(* Mutation: the loop renders before it looks at a requested rewind.       *)
BeginPassIgnoringRewind ==
  /\ pc = "top"
  /\ now' = IF Opened THEN clock ELSE 0
  /\ ate' = 0
  /\ pc' = IF Opened /\ timestamp <= now' THEN "render" ELSE "poll"
  /\ UNCHANGED <<clock, core, timing, written, slack, resumed>>

(* Mutation: the loop renders whatever the state of the sink.              *)
BeginPassSuspendedToo ==
  /\ pc = "top"
  /\ now' = IF Opened THEN clock ELSE 0
  /\ timestamp' = timestamp - FramesToUsec(Rewound(now'))
  /\ slack' = slack + FramesToUsec(Rewound(now'))
  /\ rewindFrames' = 0
  /\ ate' = 0
  /\ pc' = IF timestamp' <= now' THEN "render" ELSE "poll"
  /\ UNCHANGED <<clock, core, setting, rewinds, written, resumed>>

(* The top of the loop: the clock is read, a rewind is processed, and the  *)
(* thread renders when all that was rendered has been played.              *)
BeginPass ==
  /\ pc = "top"
  /\ now' = IF Opened THEN clock ELSE 0
  /\ timestamp' = timestamp - FramesToUsec(Rewound(now'))
  /\ slack' = slack + FramesToUsec(Rewound(now'))
  /\ rewindFrames' = 0
  /\ ate' = 0
  /\ pc' = IF Opened /\ timestamp' <= now' THEN "render" ELSE "poll"
  /\ UNCHANGED <<clock, core, setting, rewinds, written, resumed>>

RenderMore == timestamp < now + blockUsec /\ ate < maxRequest

(* Mutation: what the chunks before took is not counted.                   *)
RenderUncounted ==
  /\ pc = "render"
  /\ RenderMore
  /\ \E frames \in 1 .. maxRequest - ate :
       /\ timestamp' = timestamp + FramesToUsec(frames)
       /\ written' = written + frames
       /\ slack' = slack + 1
  /\ UNCHANGED <<clock, core, pc, now, ate, setting, rewindFrames, rewinds, resumed>>

(* processRender: pa_sink_render gives a chunk, at most what was asked.    *)
RenderChunk ==
  /\ pc = "render"
  /\ RenderMore
  /\ \E frames \in 1 .. maxRequest - ate :
       /\ timestamp' = timestamp + FramesToUsec(frames)
       /\ ate' = ate + frames
       /\ written' = written + frames
       /\ slack' = slack + 1
  /\ UNCHANGED <<clock, core, pc, now, setting, rewindFrames, rewinds, resumed>>

EndRender ==
  /\ pc = "render"
  /\ ~RenderMore
  /\ pc' = "poll"
  /\ ate' = 0
  /\ UNCHANGED <<clock, core, timing, now, written, slack, resumed>>

--------------------------------------------------------------------------------
(* pa_rtpoll_run.  The timer is armed for m_timestamp while the sink is    *)
(* opened; a message is handled before the timer is looked at.             *)

(* Mutation: the timer is never armed.                                     *)
TimerDisabled == FALSE

TimerDue == Opened /\ timestamp <= clock

(* Time passes at any point; when Prompt, only while everyone waits.       *)
Tick ==
  /\ clock < MaxClock
  /\ Prompt => pc = "poll" /\ request = "none" /\ sinkState # "init" /\ ~TimerDue
  /\ clock' = clock + 1
  /\ UNCHANGED <<core, pc, timing, pass, resumed>>

WakeByTimer ==
  /\ pc = "poll"
  /\ request = "none"
  /\ TimerDue
  /\ pc' = "top"
  /\ UNCHANGED <<clock, core, timing, pass, resumed>>

PollFails ==
  /\ MayFail
  /\ pc = "poll"
  /\ pc' = "failed"
  /\ unloading' = TRUE
  /\ UNCHANGED <<clock, sinkState, request, dropped, timing, pass, resumed>>

(* Mutation: after a failed poll no message but the shutdown is taken.     *)
DispatchInPollOnly == pc = "poll" /\ pc' = "top"

(* Messages are dispatched in the poll and, after a failure, by            *)
(* pa_asyncmsgq_wait_for, which goes on until PA_MESSAGE_SHUTDOWN.         *)
Dispatch ==
  /\ pc \in {"poll", "failed"}
  /\ pc' = IF pc = "poll" THEN "top" ELSE "failed"

(* The messages that change the sink's state and those of the inputs are   *)
(* in one queue: a pending one of the former comes first.                  *)
DispatchOther == request = "none" /\ Dispatch

(* PA_SINK_MESSAGE_SET_STATE goes through to pa_sink_process_msg.          *)
HandleSetState ==
  /\ request \in {"opened", "suspended", "unlinked"}
  /\ Dispatch
  /\ sinkState' = request
  /\ request' = "none"
  /\ resumed' = IF sinkState = "suspended" /\ request = "opened"
                THEN [at |-> clock, written |-> written] ELSE resumed
  /\ UNCHANGED <<clock, unloading, dropped, timing, pass>>

(* PA_SINK_MESSAGE_GET_LATENCY only answers, from the m_timestamp of the   *)
(* PASink that instance() gives.                                           *)
InstanceTimestamps == IF dropped THEN Uninitialised ELSE {timestamp}

ReportedLatencies ==
  {IF end > clock THEN end - clock ELSE 0 : end \in InstanceTimestamps}

HandleGetLatency ==
  /\ DispatchOther
  /\ UNCHANGED <<clock, core, timing, pass, resumed>>

(* Mutation: max_request is not recomputed for the new latency.            *)
UpdateBlockOnly(usec) ==
  /\ DispatchOther
  /\ latency' = IF usec = NoLatency THEN MaxLatency ELSE usec
  /\ blockUsec' = IF dropped THEN blockUsec ELSE latency'
  /\ UNCHANGED <<clock, core, timestamp, maxRequest, rewindFrames, rewinds, pass, resumed>>

(* onSinkUpdateRequestedLatency, of the PASink that instance() gives, sets *)
(* its own m_block_usec, and the limits of the sink it is handed.          *)
UpdateRequestedLatency(usec) ==
  /\ DispatchOther
  /\ latency' = IF usec = NoLatency THEN MaxLatency ELSE usec
  /\ blockUsec' = IF dropped THEN blockUsec ELSE latency'
  /\ maxRequest' = UsecToFrames(latency')
  /\ UNCHANGED <<clock, core, timestamp, rewindFrames, rewinds, pass, resumed>>

(* An input asks for a rewind: pa_sink_request_rewind keeps the largest,   *)
(* and never more than max_rewind.                                         *)
RequestRewind(frames) ==
  /\ DispatchOther
  /\ rewinds < MaxRewinds
  /\ frames \in rewindFrames + 1 .. maxRequest
  /\ rewindFrames' = frames
  /\ rewinds' = rewinds + 1
  /\ UNCHANGED <<clock, core, timestamp, setting, pass, resumed>>

(* Mutation: after a failed poll the thread no longer takes messages.      *)
HandleShutdownInPollOnly ==
  /\ pc = "poll"
  /\ request = "shutdown"
  /\ pc' = "finished"
  /\ request' = "none"
  /\ UNCHANGED <<clock, sinkState, unloading, dropped, timing, pass, resumed>>

HandleShutdown ==
  /\ pc \in {"poll", "failed"}
  /\ request = "shutdown"
  /\ pc' = "finished"
  /\ request' = "none"
  /\ UNCHANGED <<clock, sinkState, unloading, dropped, timing, pass, resumed>>

--------------------------------------------------------------------------------
(* The core's side: pa_sink_put, suspend and resume, and the unload, which *)
(* drops the PASink; its destructor unlinks the sink before it shuts the   *)
(* thread down and joins it.  The core waits for each message it sends.    *)
Send(message) ==
  /\ request = "none"
  /\ pc # "finished"
  /\ request' = message
  /\ UNCHANGED <<clock, sinkState, unloading, dropped, pc, timing, pass, resumed>>

Put == sinkState = "init" /\ Send("opened")
Suspend == MaySuspend /\ ~dropped /\ Opened /\ Send("suspended")
Resume == ~dropped /\ sinkState = "suspended" /\ Send("opened")

(* The instance is cleared before the destructor of what it was begins.    *)
Drop ==
  /\ ~dropped
  /\ request = "none"
  /\ sinkState \in {"opened", "suspended"}
  /\ dropped' = TRUE
  /\ UNCHANGED <<clock, sinkState, request, unloading, pc, timing, pass, resumed>>

Unlink == dropped /\ sinkState \in {"opened", "suspended"} /\ Send("unlinked")
Shutdown == sinkState = "unlinked" /\ Send("shutdown")

--------------------------------------------------------------------------------
ThreadStep == BeginPass \/ RenderChunk \/ EndRender \/ WakeByTimer
           \/ HandleSetState \/ HandleShutdown

Teardown == (unloading /\ (Put \/ Drop)) \/ Unlink \/ Shutdown

Next ==
  \/ Tick
  \/ BeginPass \/ RenderChunk \/ EndRender
  \/ WakeByTimer \/ PollFails
  \/ HandleSetState \/ HandleGetLatency \/ HandleShutdown
  \/ \E usec \in Latencies \cup {NoLatency} : UpdateRequestedLatency(usec)
  \/ \E frames \in 1 .. UsecToFrames(MaxLatency) : RequestRewind(frames)
  \/ Put \/ Suspend \/ Resume \/ Drop \/ Unlink \/ Shutdown

(* The thread runs whenever it can.  The core handles its own messages in  *)
(* order: suspending and resuming do not put an unload off for ever.       *)
Spec == Init /\ [][Next]_vars /\ WF_vars(ThreadStep) /\ SF_vars(Teardown)

--------------------------------------------------------------------------------
(* The types of the variables.                                             *)
TypeOK ==
  /\ clock \in Nat
  /\ sinkState \in {"init", "opened", "suspended", "unlinked"}
  /\ request \in {"none", "opened", "suspended", "unlinked", "shutdown"}
  /\ pc \in {"top", "render", "poll", "failed", "finished"}
  /\ now \in Nat
  /\ timestamp \in Nat
  /\ latency \in MinLatency .. MaxLatency
  /\ blockUsec \in MinLatency .. MaxLatency
  /\ maxRequest \in Nat
  /\ rewindFrames \in Nat
  /\ ate \in Nat
  /\ unloading \in BOOLEAN
  /\ dropped \in BOOLEAN
  /\ written \in Nat
  /\ slack \in Nat
  /\ resumed \in [at : Nat, written : Nat]
  /\ rewinds \in Nat

(* One call of processRender does not fill the buffer beyond the latency   *)
(* the inputs have asked for, whatever the sizes of the chunks: not even   *)
(* after drop(), when m_block_usec stays behind and max_request alone      *)
(* follows what they ask for.                                              *)
RenderWithinLatency == pc = "render" => timestamp <= now + latency

(* Whatever the order of latency changes, rewinds, late wake-ups and       *)
(* suspensions, the latency reported to clients is within the sink's       *)
(* latency range, as long as the module is not unloaded.  From drop() on   *)
(* it may be anything: it is worked out from an uninitialised m_timestamp. *)
LatencyBounded == ~dropped => \A usec \in ReportedLatencies : usec <= MaxLatency

(* pa_sink_render asserts that no rewind is pending.                       *)
RenderWithoutRewind == pc = "render" => rewindFrames = 0

(* A rewind takes back only what has not been played when the loop reads   *)
(* the clock: m_timestamp never goes back behind that time.                *)
PlayedIsNotRewound == [][timestamp' < timestamp => timestamp' >= now']_vars

(* While the sink is opened the thread never stays behind the clock, also  *)
(* when it wakes late, after a suspension or when the latency changes.     *)
CatchesUp ==
  Opened /\ timestamp <= clock ~> timestamp > clock \/ ~Opened \/ pc = "failed"

(* The core waits for each message it sends to be handled: it never waits  *)
(* for ever, not even for a thread whose poll has failed.                  *)
RequestsHandled == request # "none" ~> request = "none"

(* A thread whose poll has failed has the module unloaded and ends.        *)
StopsAfterFailure == pc = "failed" ~> pc = "finished"

(* What the writer was handed is ahead of real time by at most the latency *)
(* and what was rewound, apart from less than a microsecond of rounding    *)
(* for each chunk: through suspensions and latency changes, nothing else   *)
(* makes the sink play too fast.                                           *)
WriterPaced == FramesToUsec(written) <= clock + MaxLatency + slack

(* Since the sink was last resumed, the writer is handed no more than the  *)
(* configured latency ahead of the time passed since then ("Fill the       *)
(* buffer up the latency size"): stated without any slack, for a run in    *)
(* which the conversions are exact and nothing is rewound.                 *)
PacedSinceResume ==
  FramesToUsec(written - resumed.written) <= clock - resumed.at + MaxLatency

(* The thread keeps the pace the sink promises: nothing is rendered while  *)
(* the sink is suspended, nor too far ahead, and a rewind takes back only  *)
(* what has not been played.                                               *)
Play == INSTANCE Playback WITH
          opened <- Opened, end <- timestamp, Most <- MaxLatency
ImplementsPlayback == Play!Spec
================================================================================
