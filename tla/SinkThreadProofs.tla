---------------------------- MODULE SinkThreadProofs ----------------------------
(***************************************************************************)
(* What the sink's IO thread guarantees for every sample rate of at most   *)
(* one frame per microsecond, every latency range and any number of        *)
(* rewinds, suspensions and latency changes.                               *)
(***************************************************************************)
EXTENDS SinkThread, TLAPS

(* Division by a positive number rounds down.                              *)
LEMMA DivisionBounds ==
  ASSUME NEW m \in Nat, NEW d \in Nat \ {0}
  PROVE  /\ m \div d \in Nat
         /\ (m \div d) * d <= m
         /\ m < (m \div d) * d + d
OBVIOUS

(* The quotient is the largest number whose multiple is not above.         *)
LEMMA DivisionLargest ==
  ASSUME NEW m \in Nat, NEW d \in Nat \ {0}, NEW q \in Nat, q * d <= m
  PROVE  q <= m \div d
<1>1. m \div d \in Nat /\ m < (m \div d) * d + d
  BY DivisionBounds
<1>2. SUFFICES ASSUME q >= (m \div d) + 1 PROVE FALSE
  BY <1>1
<1>3. q * d >= ((m \div d) + 1) * d
  BY <1>1, <1>2
<1>4. ((m \div d) + 1) * d = (m \div d) * d + d
  BY <1>1
<1>5. QED BY <1>1, <1>3, <1>4

--------------------------------------------------------------------------------
LEMMA ConversionTypes ==
  ASSUME NEW n \in Nat
  PROVE  UsecToFrames(n) \in Nat /\ FramesToUsec(n) \in Nat
BY RatesAssumption, DivisionBounds DEF UsecToFrames, FramesToUsec

(* Converting a duration to frames and back never gains time: a buffer of  *)
(* the frames of a latency is not longer than the latency.                 *)
LEMMA RoundTrip ==
  ASSUME NEW usec \in Nat
  PROVE  FramesToUsec(UsecToFrames(usec)) <= usec
<1> DEFINE f == UsecToFrames(usec)
           u == FramesToUsec(f)
<1>1. f \in Nat /\ f * UsecPerSec <= usec * Rate
  BY RatesAssumption, DivisionBounds DEF UsecToFrames
<1>2. u \in Nat /\ u * Rate <= f * UsecPerSec
  BY <1>1, RatesAssumption, DivisionBounds DEF FramesToUsec
<1> HIDE DEF f, u
<1>3. u * Rate <= usec * Rate
  BY <1>1, <1>2, RatesAssumption
<1>4. u <= usec
  BY <1>2, <1>3, RatesAssumption
<1>5. QED BY <1>4 DEF f, u

(* Chunks converted one by one never last longer than converted together.  *)
LEMMA ChunksAdd ==
  ASSUME NEW m \in Nat, NEW n \in Nat
  PROVE  FramesToUsec(m) + FramesToUsec(n) <= FramesToUsec(m + n)
<1> DEFINE a == FramesToUsec(m)
           b == FramesToUsec(n)
<1>1. a \in Nat /\ a * Rate <= m * UsecPerSec
  BY RatesAssumption, DivisionBounds DEF FramesToUsec
<1>2. b \in Nat /\ b * Rate <= n * UsecPerSec
  BY RatesAssumption, DivisionBounds DEF FramesToUsec
<1> HIDE DEF a, b
<1>3. (a + b) * Rate <= (m + n) * UsecPerSec
  BY <1>1, <1>2, RatesAssumption
<1>4. a + b \in Nat /\ (m + n) * UsecPerSec \in Nat
  BY <1>1, <1>2, RatesAssumption
<1>5. a + b <= ((m + n) * UsecPerSec) \div Rate
  BY <1>3, <1>4, RatesAssumption, DivisionLargest
<1>6. QED BY <1>5 DEF a, b, FramesToUsec

(* And together they last less than two microseconds longer.               *)
LEMMA ChunksRoundOnce ==
  ASSUME NEW m \in Nat, NEW n \in Nat
  PROVE  FramesToUsec(m + n) <= FramesToUsec(m) + FramesToUsec(n) + 1
<1> DEFINE a == FramesToUsec(m)
           b == FramesToUsec(n)
           c == FramesToUsec(m + n)
<1>1. a \in Nat /\ m * UsecPerSec < a * Rate + Rate
  BY RatesAssumption, DivisionBounds DEF FramesToUsec
<1>2. b \in Nat /\ n * UsecPerSec < b * Rate + Rate
  BY RatesAssumption, DivisionBounds DEF FramesToUsec
<1>3. c \in Nat /\ c * Rate <= (m + n) * UsecPerSec
  BY RatesAssumption, DivisionBounds DEF FramesToUsec
<1> HIDE DEF a, b, c
<1>4. c * Rate < (a + b + 2) * Rate
  <2>1. (m + n) * UsecPerSec = m * UsecPerSec + n * UsecPerSec
    BY RatesAssumption
  <2>2. (a + b + 2) * Rate = (a * Rate + Rate) + (b * Rate + Rate)
    BY <1>1, <1>2, RatesAssumption
  <2>3. QED BY <1>1, <1>2, <1>3, <2>1, <2>2, RatesAssumption
<1>5. c < a + b + 2
  BY <1>1, <1>2, <1>3, <1>4, RatesAssumption
<1>6. QED BY <1>1, <1>2, <1>3, <1>5 DEF a, b, c

(* More frames last longer.                                                *)
LEMMA FramesMonotonic ==
  ASSUME NEW m \in Nat, NEW n \in Nat, m <= n
  PROVE  FramesToUsec(m) <= FramesToUsec(n)
<1>1. n - m \in Nat /\ m + (n - m) = n
  OBVIOUS
<1>2. FramesToUsec(m) + FramesToUsec(n - m) <= FramesToUsec(n)
  BY <1>1, ChunksAdd
<1>3. QED BY <1>1, <1>2, ConversionTypes

(* No frames last no time.                                                 *)
LEMMA NothingLastsNoTime == FramesToUsec(0) = 0
<1>1. FramesToUsec(0) \in Nat
  BY ConversionTypes
<1>2. FramesToUsec(0) + FramesToUsec(0) <= FramesToUsec(0)
  BY ChunksAdd, 0 + 0 = 0
<1>3. QED BY <1>1, <1>2

(* A rewind is at most as long as the sound that is still to be played.    *)
LEMMA RewindBounded ==
  ASSUME NEW t \in Nat, timestamp \in Nat, rewindFrames \in Nat
  PROVE  /\ FramesToUsec(Rewound(t)) \in Nat
         /\ FramesToUsec(Rewound(t)) <= timestamp
         /\ FramesToUsec(Rewound(t)) > 0 => timestamp - FramesToUsec(Rewound(t)) >= t
<1>1. CASE Opened /\ timestamp > t
  <2>1. timestamp - t \in Nat
    BY <1>1
  <2>2. UsecToFrames(timestamp - t) \in Nat
    BY <2>1, ConversionTypes
  <2>3. Rewound(t) \in Nat /\ Rewound(t) <= UsecToFrames(timestamp - t)
    BY <1>1, <2>2 DEF Rewound, Lesser
  <2>4. /\ FramesToUsec(Rewound(t)) \in Nat
        /\ FramesToUsec(Rewound(t)) <= FramesToUsec(UsecToFrames(timestamp - t))
    BY <2>2, <2>3, FramesMonotonic, ConversionTypes
  <2>5. FramesToUsec(UsecToFrames(timestamp - t)) <= timestamp - t
    BY <2>1, RoundTrip
  <2>6. FramesToUsec(UsecToFrames(timestamp - t)) \in Nat
    BY <2>2, ConversionTypes
  <2>7. QED BY <2>4, <2>5, <2>6
<1>2. CASE ~(Opened /\ timestamp > t)
  <2>1. Rewound(t) = 0
    BY <1>2 DEF Rewound
  <2>2. FramesToUsec(0) = 0
    BY NothingLastsNoTime
  <2>3. QED BY <2>1, <2>2
<1>3. QED BY <1>1, <1>2

--------------------------------------------------------------------------------
(* A pass of the loop reads a clock that is not ahead of time; while it    *)
(* renders, no rewind is pending and what it has eaten accounts for all    *)
(* that is buffered beyond now.                                            *)
PassInv ==
  /\ now <= clock
  /\ pc = "render" => /\ Opened
                      /\ rewindFrames = 0
                      /\ ate <= maxRequest
                      /\ timestamp <= now + FramesToUsec(ate)

(* What was written lasts until m_timestamp, but for rewinds and rounding. *)
WrittenInv == FramesToUsec(written) <= timestamp + slack

(* The inductive invariant.                                                *)
SinkInv ==
  /\ TypeOK
  /\ maxRequest = UsecToFrames(latency)
  /\ ~dropped => blockUsec = latency
  /\ PassInv
  /\ timestamp <= clock + MaxLatency
  /\ WrittenInv

LEMMA SinkInit == Init => SinkInv
<1> SUFFICES ASSUME Init PROVE SinkInv
  OBVIOUS
<1>1. UsecToFrames(InitialBlock) \in Nat
  BY LatencyAssumption, ConversionTypes
<1>2. /\ InitialBlock \in MinLatency .. MaxLatency
      /\ MinLatency \in Nat /\ MaxLatency \in Nat
  BY LatencyAssumption
<1>3. TypeOK
  BY <1>1, <1>2 DEF Init, TypeOK
<1>4. PassInv
  BY DEF Init, PassInv
<1>5. maxRequest = UsecToFrames(latency) /\ blockUsec = latency
  BY DEF Init
<1>6. timestamp <= clock + MaxLatency
  BY <1>2 DEF Init
<1>7. WrittenInv
  BY NothingLastsNoTime DEF Init, WrittenInv
<1>8. QED BY <1>3, <1>4, <1>5, <1>6, <1>7 DEF SinkInv

(* The top of the loop: a rewind leaves the buffer no longer than before,  *)
(* and rendering starts with nothing buffered.                             *)
LEMMA BeginPassStep ==
  ASSUME SinkInv, BeginPass
  PROVE  SinkInv' /\ (timestamp' < timestamp => timestamp' >= now')
<1> USE DEF core, setting
<1>1. /\ now' \in Nat /\ now' <= clock /\ timestamp \in Nat /\ rewindFrames \in Nat
      /\ timestamp' = timestamp - FramesToUsec(Rewound(now'))
  BY DEF SinkInv, TypeOK, BeginPass
<1>2. /\ FramesToUsec(Rewound(now')) \in Nat
      /\ FramesToUsec(Rewound(now')) <= timestamp
      /\ FramesToUsec(Rewound(now')) > 0 => timestamp' >= now'
  BY <1>1, RewindBounded
<1>3. timestamp' \in Nat /\ timestamp' <= timestamp
  BY <1>1, <1>2
<1>4. FramesToUsec(0) \in Nat
  BY ConversionTypes
<1>5. TypeOK'
  <2>1. slack' \in Nat
    BY <1>2 DEF SinkInv, TypeOK, BeginPass
  <2>2. QED BY <1>1, <1>3, <2>1 DEF SinkInv, TypeOK, BeginPass
<1>6. PassInv'
  <2>1. now' <= clock'
    BY <1>1 DEF BeginPass
  <2>2. ASSUME pc' = "render"
        PROVE  /\ Opened'
               /\ rewindFrames' = 0
               /\ ate' <= maxRequest'
               /\ timestamp' <= now' + FramesToUsec(ate')
    <3>1. timestamp' <= now' /\ ate' = 0 /\ rewindFrames' = 0 /\ maxRequest' \in Nat
      BY <2>2 DEF BeginPass, SinkInv, TypeOK
    <3>2. Opened'
      BY <2>2 DEF BeginPass, Opened
    <3>3. QED BY <1>1, <1>3, <1>4, <3>1, <3>2
  <2>3. QED BY <2>1, <2>2 DEF PassInv
<1>7. /\ maxRequest' = UsecToFrames(latency)' /\ UNCHANGED clock
      /\ (~dropped => blockUsec = latency)'
  BY DEF BeginPass, SinkInv, UsecToFrames
<1>8. timestamp' <= clock' + MaxLatency
  BY <1>1, <1>3, <1>7, LatencyAssumption DEF SinkInv, TypeOK
<1>9. timestamp' < timestamp => timestamp' >= now'
  BY <1>1, <1>2, <1>3
<1>10. WrittenInv'
  <2>1. FramesToUsec(written)' = FramesToUsec(written)
    BY DEF BeginPass, FramesToUsec
  <2>2. /\ slack \in Nat /\ slack' = slack + FramesToUsec(Rewound(now'))
        /\ FramesToUsec(written) \in Nat
        /\ FramesToUsec(written) <= timestamp + slack
    BY ConversionTypes DEF SinkInv, TypeOK, WrittenInv, BeginPass
  <2>3. QED BY <1>1, <1>2, <2>1, <2>2 DEF WrittenInv
<1>11. QED BY <1>5, <1>6, <1>7, <1>8, <1>9, <1>10 DEF SinkInv

(* What is eaten in one pass is not longer than the latency.               *)
LEMMA AteWithinLatency ==
  ASSUME TypeOK, maxRequest = UsecToFrames(latency), NEW n \in Nat, n <= maxRequest
  PROVE  FramesToUsec(n) \in Nat /\ FramesToUsec(n) <= latency
<1>1. latency \in Nat /\ maxRequest \in Nat
  BY LatencyAssumption DEF TypeOK
<1>2. FramesToUsec(n) <= FramesToUsec(maxRequest)
  BY <1>1, FramesMonotonic
<1>3. FramesToUsec(maxRequest) <= latency
  BY <1>1, RoundTrip
<1>4. FramesToUsec(n) \in Nat /\ FramesToUsec(maxRequest) \in Nat
  BY <1>1, ConversionTypes
<1>5. QED BY <1>1, <1>2, <1>3, <1>4

LEMMA RenderChunkStep ==
  ASSUME SinkInv, RenderChunk
  PROVE  SinkInv' /\ timestamp' >= timestamp
<1> USE DEF core, setting
<1>1. PICK frames \in 1 .. maxRequest - ate :
        /\ timestamp' = timestamp + FramesToUsec(frames)
        /\ ate' = ate + frames
        /\ written' = written + frames
        /\ slack' = slack + 1
  BY DEF RenderChunk
<1>2. /\ ate \in Nat /\ frames \in Nat /\ ate + frames \in Nat
      /\ ate + frames <= maxRequest
      /\ now \in Nat /\ clock \in Nat /\ timestamp \in Nat /\ now <= clock
      /\ latency \in Nat /\ latency <= MaxLatency /\ MaxLatency \in Nat
      /\ timestamp <= now + FramesToUsec(ate)
      /\ rewindFrames = 0
  BY LatencyAssumption DEF SinkInv, TypeOK, PassInv, RenderChunk
<1>3. /\ FramesToUsec(frames) \in Nat /\ FramesToUsec(ate) \in Nat
      /\ FramesToUsec(ate + frames) \in Nat
  BY <1>2, ConversionTypes
<1>4. timestamp' \in Nat /\ timestamp' <= now + FramesToUsec(ate + frames)
  <2>1. FramesToUsec(ate) + FramesToUsec(frames) <= FramesToUsec(ate + frames)
    BY <1>2, ChunksAdd
  <2>2. QED BY <1>1, <1>2, <1>3, <2>1
<1>5. FramesToUsec(ate + frames) <= latency
  BY <1>2, AteWithinLatency DEF SinkInv
<1>6. UNCHANGED <<clock, sinkState, request, unloading, dropped, pc, now, latency,
                  blockUsec, maxRequest, rewindFrames, rewinds, resumed>>
  BY DEF RenderChunk
<1>7. TypeOK'
  BY <1>1, <1>2, <1>4, <1>6 DEF SinkInv, TypeOK
<1>8. PassInv'
  <2>1. FramesToUsec(ate)' = FramesToUsec(ate + frames)
    BY <1>1 DEF FramesToUsec
  <2>2. Opened' = Opened
    BY <1>6 DEF Opened
  <2>3. Opened
    BY DEF SinkInv, PassInv, RenderChunk
  <2>4. QED BY <1>1, <1>2, <1>4, <1>6, <2>1, <2>2, <2>3 DEF PassInv
<1>9. maxRequest' = UsecToFrames(latency)' /\ (~dropped => blockUsec = latency)'
  BY <1>6 DEF SinkInv, UsecToFrames
<1>10. timestamp' <= clock' + MaxLatency
  BY <1>2, <1>3, <1>4, <1>5, <1>6
<1>11. timestamp' >= timestamp
  BY <1>1, <1>2, <1>3
<1>12. WrittenInv'
  <2>1. /\ written \in Nat /\ slack \in Nat
        /\ FramesToUsec(written) <= timestamp + slack
    BY DEF SinkInv, TypeOK, WrittenInv
  <2>2. /\ FramesToUsec(written) \in Nat /\ FramesToUsec(written + frames) \in Nat
        /\ FramesToUsec(written + frames)
             <= FramesToUsec(written) + FramesToUsec(frames) + 1
    <3>1. written + frames \in Nat
      BY <1>2, <2>1
    <3>2. /\ FramesToUsec(written) \in Nat
          /\ FramesToUsec(written + frames) \in Nat
      BY <2>1, <3>1, ConversionTypes
    <3>3. FramesToUsec(written + frames)
            <= FramesToUsec(written) + FramesToUsec(frames) + 1
      BY <1>2, <2>1, ChunksRoundOnce
    <3>4. QED BY <3>2, <3>3
  <2>3. FramesToUsec(written)' = FramesToUsec(written + frames)
    BY <1>1 DEF FramesToUsec
  <2>4. QED BY <1>1, <1>2, <1>3, <2>1, <2>2, <2>3 DEF WrittenInv
<1>13. QED BY <1>7, <1>8, <1>9, <1>10, <1>11, <1>12 DEF SinkInv

LEMMA UpdateLatencyStep ==
  ASSUME SinkInv, NEW usec \in Latencies \cup {NoLatency},
         UpdateRequestedLatency(usec)
  PROVE  SinkInv' /\ timestamp' = timestamp
<1> USE DEF core, pass
<1>1. latency' \in MinLatency .. MaxLatency /\ blockUsec' \in {blockUsec, latency'}
  BY LatencyAssumption DEF UpdateRequestedLatency
<1>2. UsecToFrames(latency') \in Nat
  BY <1>1, LatencyAssumption, ConversionTypes
<1>3. /\ maxRequest' = UsecToFrames(latency')
      /\ pc' \in {"top", "failed"}
      /\ ~dropped => blockUsec' = latency'
      /\ UNCHANGED <<clock, sinkState, request, unloading, dropped, timestamp,
                     rewindFrames, rewinds, now, ate, written, slack, resumed>>
  BY DEF UpdateRequestedLatency, DispatchOther, Dispatch
<1>4. UsecToFrames(latency)' = UsecToFrames(latency')
  BY DEF UsecToFrames
<1>5. WrittenInv'
  BY <1>3 DEF SinkInv, WrittenInv, FramesToUsec
<1>6. PassInv'
  BY <1>3 DEF SinkInv, PassInv
<1>7. TypeOK'
  BY <1>1, <1>2, <1>3 DEF SinkInv, TypeOK
<1>8. QED BY <1>3, <1>4, <1>5, <1>6, <1>7 DEF SinkInv

(* The steps that render and rewind nothing.                               *)
QuietStep ==
  /\ UNCHANGED <<timestamp, latency, blockUsec, maxRequest, now, written, slack>>
  /\ ate' = ate \/ (pc' # "render" /\ ate' = 0)
  /\ clock' \in {clock, clock + 1}
  /\ rewindFrames' = rewindFrames \/ (pc' # "render" /\ rewindFrames' \in Nat)
  /\ rewinds' \in {rewinds, rewinds + 1}
  /\ pc' \in {pc, "top", "poll", "failed", "finished"}
  /\ \/ sinkState' = sinkState
     \/ pc' # "render" /\ sinkState' \in {"opened", "suspended", "unlinked"}
  /\ request' \in {request, "none", "opened", "suspended", "unlinked", "shutdown"}
  /\ unloading' = unloading \/ unloading' = TRUE
  /\ dropped' = dropped \/ dropped' = TRUE
  /\ resumed' \in {resumed, [at |-> clock, written |-> written]}

LEMMA QuietStepPreserves ==
  ASSUME SinkInv, QuietStep
  PROVE  SinkInv' /\ timestamp' = timestamp
<1>1. TypeOK'
  <2> USE DEF SinkInv, TypeOK, QuietStep
  <2>1. /\ clock' \in Nat /\ now' \in Nat /\ timestamp' \in Nat /\ ate' \in Nat
        /\ maxRequest' \in Nat /\ rewindFrames' \in Nat /\ written' \in Nat
        /\ slack' \in Nat /\ rewinds' \in Nat /\ blockUsec' \in MinLatency .. MaxLatency
        /\ latency' \in MinLatency .. MaxLatency
    OBVIOUS
  <2>2. /\ sinkState' \in {"init", "opened", "suspended", "unlinked"}
        /\ request' \in {"none", "opened", "suspended", "unlinked", "shutdown"}
        /\ pc' \in {"top", "render", "poll", "failed", "finished"}
    OBVIOUS
  <2>3. unloading' \in BOOLEAN /\ dropped' \in BOOLEAN
    BY Zenon
  <2>4. resumed' \in [at : Nat, written : Nat]
    OBVIOUS
  <2>5. QED BY <2>1, <2>2, <2>3, <2>4
<1>2. PassInv'
  <2>1. pc' = "render" => FramesToUsec(ate)' = FramesToUsec(ate)
    BY DEF QuietStep, FramesToUsec
  <2>2. QED BY <2>1 DEF SinkInv, TypeOK, PassInv, QuietStep, Opened
<1>3. maxRequest' = UsecToFrames(latency)' /\ (~dropped => blockUsec = latency)'
  <2>1. ~dropped' => ~dropped
    BY DEF QuietStep
  <2>2. QED BY <2>1 DEF SinkInv, UsecToFrames, QuietStep
<1>4. timestamp' <= clock' + MaxLatency
  <2>1. /\ timestamp \in Nat /\ clock \in Nat /\ MaxLatency \in Nat
        /\ timestamp <= clock + MaxLatency
    BY LatencyAssumption DEF SinkInv, TypeOK
  <2>2. timestamp' = timestamp /\ (clock' = clock \/ clock' = clock + 1)
    BY DEF QuietStep
  <2>3. QED BY <2>1, <2>2
<1>5. timestamp' = timestamp
  BY DEF QuietStep
<1>6. WrittenInv'
  BY DEF QuietStep, SinkInv, WrittenInv, FramesToUsec
<1>7. QED BY <1>1, <1>2, <1>3, <1>4, <1>5, <1>6 DEF SinkInv

LEMMA SinkStep ==
  ASSUME SinkInv, [Next]_vars
  PROVE  SinkInv' /\ (timestamp' < timestamp => timestamp' >= now')
<1> USE DEF core, timing, setting, pass
<1>1. CASE BeginPass
  BY <1>1, BeginPassStep
<1>2. CASE RenderChunk
  <2>1. timestamp \in Nat /\ timestamp' \in Nat
    BY <1>2, RenderChunkStep DEF SinkInv, TypeOK
  <2>2. QED BY <1>2, <2>1, RenderChunkStep
<1>3. ASSUME NEW usec \in Latencies \cup {NoLatency}, UpdateRequestedLatency(usec)
      PROVE  SinkInv' /\ timestamp' = timestamp
  BY <1>3, UpdateLatencyStep
<1>4. ASSUME Tick PROVE QuietStep
  BY <1>4 DEF QuietStep, Tick
<1>5. ASSUME EndRender \/ WakeByTimer \/ PollFails \/ HandleGetLatency
      PROVE  QuietStep
  BY <1>5 DEF QuietStep, EndRender, WakeByTimer, PollFails, HandleGetLatency,
              DispatchOther, Dispatch
<1>6. ASSUME HandleSetState \/ HandleShutdown PROVE QuietStep
  BY <1>6 DEF QuietStep, HandleSetState, HandleShutdown, Dispatch
<1>7. ASSUME NEW frames \in 1 .. UsecToFrames(MaxLatency), RequestRewind(frames)
      PROVE  QuietStep
  <2>1. frames \in Nat
    OBVIOUS
  <2>2. QED BY <1>7, <2>1 DEF QuietStep, RequestRewind, DispatchOther, Dispatch
<1>8. ASSUME Put \/ Suspend \/ Resume \/ Drop \/ Unlink \/ Shutdown PROVE QuietStep
  BY <1>8 DEF QuietStep, Put, Suspend, Resume, Drop, Unlink, Shutdown, Send
<1>9. ASSUME UNCHANGED vars PROVE QuietStep
  BY <1>9 DEF QuietStep, vars
<1>10. ASSUME QuietStep PROVE SinkInv' /\ timestamp' = timestamp
  BY <1>10, QuietStepPreserves
<1>11. ASSUME SinkInv', timestamp' = timestamp
       PROVE  SinkInv' /\ (timestamp' < timestamp => timestamp' >= now')
  BY <1>11 DEF SinkInv, TypeOK
<1>12. QED BY <1>1, <1>2, <1>3, <1>4, <1>5, <1>6, <1>7, <1>8, <1>9, <1>10, <1>11
          DEF Next

(* The inductive invariant of the IO thread's loop: types, and the bounds  *)
(* of m_timestamp at each point of the loop.                               *)
THEOREM SinkInvariant == Spec => []SinkInv
<1>1. SinkInv /\ [Next]_vars => SinkInv'
  BY SinkStep
<1>2. QED BY SinkInit, <1>1, PTL DEF Spec

(* The variables keep their types: in particular m_timestamp and           *)
(* max_request - ate, unsigned in the code, never wrap.                    *)
THEOREM SinkTypeCorrect == Spec => []TypeOK
<1>1. SinkInv => TypeOK
  BY DEF SinkInv
<1>2. QED BY <1>1, SinkInvariant, PTL

(* A pass never fills the buffer beyond the latency the inputs have asked  *)
(* for, also after drop(), when the loop's m_block_usec is not it.         *)
THEOREM RendersWithinLatency == Spec => []RenderWithinLatency
<1>1. SinkInv => RenderWithinLatency
  <2> SUFFICES ASSUME SinkInv, pc = "render"
               PROVE  timestamp <= now + latency
    BY DEF RenderWithinLatency
  <2>1. ate \in Nat /\ ate <= maxRequest /\ timestamp <= now + FramesToUsec(ate)
    BY DEF SinkInv, TypeOK, PassInv
  <2>2. FramesToUsec(ate) \in Nat /\ FramesToUsec(ate) <= latency
    BY <2>1, AteWithinLatency DEF SinkInv
  <2>3. now \in Nat /\ timestamp \in Nat /\ latency \in Nat
    BY LatencyAssumption DEF SinkInv, TypeOK
  <2>4. QED BY <2>1, <2>2, <2>3
<1>2. QED BY <1>1, SinkInvariant, PTL

(* The latency reported to clients is within the sink's latency range,     *)
(* until drop() leaves an uninitialised PASink to answer for it.           *)
THEOREM ReportedLatencyBounded == Spec => []LatencyBounded
<1>1. SinkInv => LatencyBounded
  BY LatencyAssumption
     DEF SinkInv, TypeOK, LatencyBounded, ReportedLatencies, InstanceTimestamps
<1>2. QED BY <1>1, SinkInvariant, PTL

(* Nothing is rendered while a rewind is pending.                          *)
THEOREM RendersWithoutRewind == Spec => []RenderWithoutRewind
<1>1. SinkInv => RenderWithoutRewind
  BY DEF SinkInv, PassInv, RenderWithoutRewind
<1>2. QED BY <1>1, SinkInvariant, PTL

(* The writer is ahead of real time by at most the latency, what was       *)
(* rewound and the rounding of each chunk.                                 *)
THEOREM WritesPaced == Spec => []WriterPaced
<1>1. SinkInv => WriterPaced
  <2> SUFFICES ASSUME SinkInv PROVE WriterPaced
    OBVIOUS
  <2>1. written \in Nat /\ timestamp \in Nat /\ slack \in Nat /\ clock \in Nat
    BY DEF SinkInv, TypeOK
  <2>2. FramesToUsec(written) \in Nat /\ MaxLatency \in Nat
    BY <2>1, ConversionTypes, LatencyAssumption
  <2>3. QED BY <2>1, <2>2 DEF SinkInv, WrittenInv, WriterPaced
<1>2. QED BY <1>1, SinkInvariant, PTL

(* A rewind never goes back behind the time the loop has read.             *)
THEOREM RewindsOnlyUnplayed == Spec => PlayedIsNotRewound
<1>1. SinkInv /\ [Next]_vars => [timestamp' < timestamp => timestamp' >= now']_vars
  BY SinkStep
<1>2. QED BY <1>1, SinkInvariant, PTL DEF Spec, PlayedIsNotRewound

--------------------------------------------------------------------------------
(* A step that leaves the clock, the sink's state and m_timestamp alone.   *)
Idle == UNCHANGED <<clock, sinkState, timestamp>>

LEMMA BeginPassPlays ==
  ASSUME SinkInv, BeginPass
  PROVE  Play!TakeBack \/ Idle
<1>1. /\ timestamp \in Nat /\ rewindFrames \in Nat /\ clock \in Nat /\ now' \in Nat
      /\ timestamp' = timestamp - FramesToUsec(Rewound(now'))
      /\ UNCHANGED <<clock, sinkState>>
  BY DEF SinkInv, TypeOK, BeginPass, core
<1>2. FramesToUsec(Rewound(now')) \in Nat
  BY <1>1, RewindBounded
<1>3. CASE Opened
  <2>1. now' = clock
    BY <1>3 DEF BeginPass
  <2>2. timestamp' = timestamp \/ (timestamp' < timestamp /\ timestamp' >= clock)
    BY <1>1, <1>2, <2>1, RewindBounded
  <2>3. Opened' = Opened
    BY <1>1 DEF Opened
  <2>4. QED BY <1>1, <1>3, <2>2, <2>3 DEF Play!TakeBack, Idle
<1>4. CASE ~Opened
  <2>1. Rewound(now') = 0
    BY <1>4 DEF Rewound
  <2>2. QED BY <1>1, <2>1, NothingLastsNoTime DEF Idle
<1>5. QED BY <1>3, <1>4

LEMMA RenderChunkPlays ==
  ASSUME SinkInv, RenderChunk
  PROVE  Play!RenderAhead \/ Idle
<1>1. /\ timestamp \in Nat /\ timestamp' \in Nat /\ timestamp' >= timestamp
      /\ timestamp' <= clock' + MaxLatency
  BY RenderChunkStep DEF SinkInv, TypeOK
<1>2. UNCHANGED <<clock, sinkState>> /\ Opened
  BY DEF RenderChunk, SinkInv, PassInv, core
<1>3. Opened' = Opened
  BY <1>2 DEF Opened
<1>4. QED BY <1>1, <1>2, <1>3 DEF Play!RenderAhead, Idle

(* Every step of the thread, of the core and of time is a step of the      *)
(* abstract playback, or changes nothing it knows of.                      *)
LEMMA StepPlays ==
  ASSUME SinkInv, [Next]_vars
  PROVE  [Play!Next]_<<clock, Opened, timestamp>>
<1> USE DEF core, timing, setting, pass
<1>1. ASSUME Tick PROVE Play!TimePasses
  BY <1>1 DEF Tick, Play!TimePasses, Opened
<1>2. ASSUME BeginPass PROVE Play!TakeBack \/ Idle
  BY <1>2, BeginPassPlays
<1>3. ASSUME RenderChunk PROVE Play!RenderAhead \/ Idle
  BY <1>3, RenderChunkPlays
<1>4. ASSUME HandleSetState PROVE UNCHANGED <<clock, timestamp>>
  BY <1>4 DEF HandleSetState
<1>5. ASSUME EndRender \/ WakeByTimer \/ PollFails \/ HandleGetLatency
             \/ HandleShutdown
      PROVE  Idle
  BY <1>5 DEF Idle, EndRender, WakeByTimer, PollFails, HandleGetLatency,
              HandleShutdown
<1>6. ASSUME NEW usec \in Latencies \cup {NoLatency}, UpdateRequestedLatency(usec)
      PROVE  Idle
  BY <1>6 DEF Idle, UpdateRequestedLatency
<1>7. ASSUME NEW frames \in 1 .. UsecToFrames(MaxLatency), RequestRewind(frames)
      PROVE  Idle
  BY <1>7 DEF Idle, RequestRewind
<1>8. ASSUME Put \/ Suspend \/ Resume \/ Drop \/ Unlink \/ Shutdown PROVE Idle
  BY <1>8 DEF Idle, Put, Suspend, Resume, Drop, Unlink, Shutdown, Send
<1>9. ASSUME UNCHANGED vars PROVE Idle
  BY <1>9 DEF Idle, vars
<1>10. ASSUME Idle PROVE UNCHANGED <<clock, Opened, timestamp>>
  BY <1>10 DEF Idle, Opened
<1>11. ASSUME UNCHANGED <<clock, timestamp>>
       PROVE  Play!OpenOrClose \/ UNCHANGED <<clock, Opened, timestamp>>
  BY <1>11 DEF Play!OpenOrClose, Opened
<1>12. QED BY <1>1, <1>2, <1>3, <1>4, <1>5, <1>6, <1>7, <1>8, <1>9, <1>10, <1>11
          DEF Next, Play!Next

(* The IO thread implements the abstract playback, for every sample rate   *)
(* and latency range: suspended it renders nothing, it never renders       *)
(* further ahead than the longest latency, and it takes back only what has *)
(* not been played.                                                        *)
THEOREM SinkImplementsPlayback == Spec => ImplementsPlayback
<1>1. Init => Play!Init
  BY DEF Init, Play!Init, Opened
<1>2. SinkInv /\ [Next]_vars => [Play!Next]_<<clock, Opened, timestamp>>
  BY StepPlays
<1>3. QED BY <1>1, <1>2, SinkInvariant, PTL
          DEF Spec, ImplementsPlayback, Play!Spec

--------------------------------------------------------------------------------
(* The loop gets on                                                        *)

(* The shortest latency holds a frame, and no frame is too short for the   *)
(* clock.                                                                  *)
LEMMA SomethingFits ==
  ASSUME SinkInv
  PROVE  blockUsec \in Nat \ {0} /\ maxRequest \in Nat \ {0}
<1>1. /\ latency \in Nat /\ MinLatency \in Nat /\ latency - MinLatency \in Nat
      /\ blockUsec \in Nat /\ blockUsec >= MinLatency
      /\ maxRequest = UsecToFrames(latency) /\ maxRequest \in Nat
      /\ Rate \in Nat \ {0} /\ UsecPerSec \in Nat \ {0}
      /\ UsecPerSec <= MinLatency * Rate
  BY RatesAssumption, LatencyAssumption DEF SinkInv, TypeOK
<1>2. UsecPerSec <= latency * Rate /\ latency * Rate \in Nat
  <2>1. latency * Rate = MinLatency * Rate + (latency - MinLatency) * Rate
    BY <1>1
  <2>2. (latency - MinLatency) * Rate \in Nat /\ MinLatency * Rate \in Nat
    BY <1>1
  <2>3. QED BY <1>1, <2>1, <2>2
<1>3. 1 <= UsecToFrames(latency)
  <2>1. 1 * UsecPerSec <= latency * Rate
    BY <1>1, <1>2
  <2>2. QED BY <1>1, <1>2, <2>1, DivisionLargest DEF UsecToFrames
<1>4. MinLatency # 0
  BY <1>1
<1>5. QED BY <1>1, <1>3, <1>4

LEMMA FramesLast ==
  ASSUME NEW n \in Nat \ {0}
  PROVE  FramesToUsec(n) \in Nat \ {0}
<1>1. 1 * Rate <= 1 * UsecPerSec
  BY RatesAssumption
<1>2. 1 <= FramesToUsec(1)
  BY <1>1, RatesAssumption, DivisionLargest DEF FramesToUsec
<1>3. FramesToUsec(1) <= FramesToUsec(n)
  BY FramesMonotonic
<1>4. FramesToUsec(1) \in Nat /\ FramesToUsec(n) \in Nat
  BY ConversionTypes
<1>5. QED BY <1>2, <1>3, <1>4

(* A call of processRender begins with all that was rendered played.       *)
FirstChunkDue == pc = "render" /\ ate = 0 => timestamp <= now

(* It takes at least one chunk, each chunk moves m_timestamp on, and the   *)
(* call ends only when the buffer holds the latency or the inputs have     *)
(* given all they were asked for.                                          *)
RenderGetsOn ==
  [][/\ pc = "render" /\ pc' = "render" /\ ate' # ate => timestamp' > timestamp
     /\ pc = "render" /\ pc' # "render" =>
          /\ ate > 0
          /\ timestamp >= now + blockUsec \/ ate = maxRequest]_vars

(* The loop never turns without getting on, however short the latency and  *)
(* however coarse the conversions: this is what CatchesUp needs of the     *)
(* steps.                                                                  *)
THEOREM RenderingGetsOn == Spec => RenderGetsOn
<1>1. Init => FirstChunkDue
  BY DEF Init, FirstChunkDue
<1> USE DEF core, timing, setting, pass
<1>2. ASSUME SinkInv, NEW frames \in 1 .. maxRequest - ate,
             timestamp' = timestamp + FramesToUsec(frames)
      PROVE  frames \in Nat \ {0} /\ timestamp' > timestamp
  <2>1. frames \in Nat \ {0} /\ timestamp \in Nat
    BY <1>2 DEF SinkInv, TypeOK
  <2>2. QED BY <1>2, <2>1, FramesLast
<1>3. SinkInv /\ FirstChunkDue /\ [Next]_vars => FirstChunkDue'
  <2> SUFFICES ASSUME SinkInv, FirstChunkDue, [Next]_vars PROVE FirstChunkDue'
    OBVIOUS
  <2>1. CASE BeginPass
    BY <2>1 DEF BeginPass, FirstChunkDue
  <2>2. CASE RenderChunk
    <3>1. PICK frames \in 1 .. maxRequest - ate :
            timestamp' = timestamp + FramesToUsec(frames) /\ ate' = ate + frames
      BY <2>2 DEF RenderChunk
    <3>2. ate' # 0
      BY <3>1 DEF SinkInv, TypeOK
    <3>3. QED BY <3>2 DEF FirstChunkDue
  <2>3. CASE ~BeginPass /\ ~RenderChunk
    <3>1. pc' = "render" => UNCHANGED <<pc, ate, timestamp, now>>
      BY <2>3 DEF Next, Tick, EndRender, WakeByTimer, PollFails, HandleSetState,
                  HandleGetLatency, HandleShutdown, UpdateRequestedLatency,
                  RequestRewind, DispatchOther, Dispatch, Put, Suspend, Resume, Drop, Unlink,
                  Shutdown, Send, vars
    <3>2. QED BY <3>1 DEF FirstChunkDue
  <2>4. QED BY <2>1, <2>2, <2>3
<1>4. SinkInv /\ FirstChunkDue /\ [Next]_vars =>
        /\ pc = "render" /\ pc' = "render" /\ ate' # ate => timestamp' > timestamp
        /\ pc = "render" /\ pc' # "render" =>
             /\ ate > 0
             /\ timestamp >= now + blockUsec \/ ate = maxRequest
  <2> SUFFICES ASSUME SinkInv, FirstChunkDue, [Next]_vars, pc = "render"
               PROVE  /\ pc' = "render" /\ ate' # ate => timestamp' > timestamp
                      /\ pc' # "render" =>
                           /\ ate > 0
                           /\ timestamp >= now + blockUsec \/ ate = maxRequest
    OBVIOUS
  <2>1. CASE RenderChunk
    BY <1>2, <2>1 DEF RenderChunk
  <2>2. CASE EndRender
    <3>1. /\ ate \in Nat /\ ate <= maxRequest /\ now \in Nat /\ timestamp \in Nat
          /\ blockUsec \in Nat \ {0} /\ maxRequest \in Nat \ {0}
      BY SomethingFits DEF SinkInv, TypeOK, PassInv
    <3>2. pc' = "poll" /\ ~(timestamp < now + blockUsec /\ ate < maxRequest)
      BY <2>2 DEF EndRender, RenderMore
    <3>3. ate > 0
      BY <3>1, <3>2 DEF FirstChunkDue
    <3>4. QED BY <3>1, <3>2, <3>3
  <2>3. CASE ~RenderChunk /\ ~EndRender
    BY <2>3 DEF Next, BeginPass, Tick, WakeByTimer, PollFails, HandleSetState,
                HandleGetLatency, HandleShutdown, UpdateRequestedLatency,
                RequestRewind, DispatchOther, Dispatch, Put, Suspend, Resume, Drop, Unlink,
                Shutdown, Send, vars
  <2>4. QED BY <2>1, <2>2, <2>3
<1>5. QED BY <1>1, <1>3, <1>4, SinkInvariant, PTL DEF Spec, RenderGetsOn

--------------------------------------------------------------------------------
(* Each message of the core finds the thread: it has not ended, the sink   *)
(* is unlinked before the thread is told to end, and a thread whose poll   *)
(* has failed has asked for the unload that will end it.                   *)
EachRequestIsHeard ==
  /\ request # "none" => pc # "finished"
  /\ request = "shutdown" \/ pc = "finished" => sinkState = "unlinked"
  /\ request = "unlinked" => sinkState \in {"opened", "suspended"}
  /\ pc = "failed" => unloading

(* The core never waits for a thread that has ended, also after a failed   *)
(* poll: this is what RequestsHandled and StopsAfterFailure need of the    *)
(* states.                                                                 *)
THEOREM RequestsAreHeard == Spec => []EachRequestIsHeard
<1>1. Init => EachRequestIsHeard
  BY DEF Init, EachRequestIsHeard
<1>2. EachRequestIsHeard /\ [Next]_vars => EachRequestIsHeard'
  <2> SUFFICES ASSUME EachRequestIsHeard, [Next]_vars PROVE EachRequestIsHeard'
    OBVIOUS
  <2> USE DEF EachRequestIsHeard, core
  <2>1. CASE Tick \/ BeginPass \/ RenderChunk \/ EndRender \/ WakeByTimer
    BY <2>1 DEF Tick, BeginPass, RenderChunk, EndRender, WakeByTimer
  <2>2. CASE PollFails
    BY <2>2 DEF PollFails
  <2>3. CASE HandleSetState
    BY <2>3 DEF HandleSetState, Dispatch
  <2>4. CASE HandleShutdown
    BY <2>4 DEF HandleShutdown
  <2>5. ASSUME DispatchOther, UNCHANGED core PROVE EachRequestIsHeard'
    BY <2>5 DEF DispatchOther, Dispatch
  <2>6. CASE HandleGetLatency
    BY <2>5, <2>6 DEF HandleGetLatency
  <2>7. ASSUME NEW usec \in Latencies \cup {NoLatency}, UpdateRequestedLatency(usec)
        PROVE  EachRequestIsHeard'
    BY <2>5, <2>7 DEF UpdateRequestedLatency
  <2>8. ASSUME NEW frames \in 1 .. UsecToFrames(MaxLatency), RequestRewind(frames)
        PROVE  EachRequestIsHeard'
    BY <2>5, <2>8 DEF RequestRewind
  <2>9. CASE Put \/ Suspend \/ Resume \/ Drop \/ Unlink \/ Shutdown
    BY <2>9 DEF Put, Suspend, Resume, Drop, Unlink, Shutdown, Send, Opened
  <2>10. CASE UNCHANGED vars
    BY <2>10 DEF vars
  <2>11. QED
    BY <2>1, <2>2, <2>3, <2>4, <2>6, <2>7, <2>8, <2>9, <2>10 DEF Next
<1>3. QED BY <1>1, <1>2, PTL DEF Spec
================================================================================
