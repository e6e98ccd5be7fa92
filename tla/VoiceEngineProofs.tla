---------------------------- MODULE VoiceEngineProofs ----------------------------
(***************************************************************************)
(* An engine that follows the device's answers meets no assertion, uses    *)
(* the device as it demands, and hears all of its recordings: for every    *)
(* sample rate of whole 10 ms blocks, mono or stereo.                      *)
(***************************************************************************)
EXTENDS VoiceEngine, AudioDeviceProofs

(* The channels are settled by the time the engine records, its transport  *)
(* is registered, and the device records just while the engine does.       *)
EngineInv ==
  /\ EngineTypeOK
  /\ engine \notin {"aborted", "failed"}
  /\ engine = "starting" =>
       /\ "SetStereoRecording" \in todo \/ recChannels # 0
       /\ "RegisterAudioCallback" \in todo \/ callback
  /\ engine \in {"armed", "recording", "stopped"} => recChannels # 0 /\ callback
  /\ engine \in {"armed", "recording", "stopped"} => recInitialized
  /\ doRecord <=> engine = "recording"

LEMMA EngineStart == EngineInit => EngineInv
BY DEF EngineInit, Init, EngineInv, EngineTypeOK, Calls

(* The answers of the device agree with its assertions, and with what it   *)
(* accepts.                                                                *)
LEMMA NoAnswerAsserts ==
  /\ ~StereoFails
  /\ \A f \in OtherFeatures : f.answer \cap f.asserts = {}
BY DEF StereoFails, StereoRecording, OtherFeatures, Playout, Recording, SpeakerVolume,
       SpeakerMute, MicrophoneVolume, MicrophoneMute, StereoPlayout, MicrophoneBoost

LEMMA NoOfferIsRefused ==
  /\ \A f \in OtherFeatures : TRUE \notin f.answer \ f.accepts
  /\ -1 \notin OtherResults
<1>1. ASSUME NEW f \in OtherFeatures
      PROVE  TRUE \notin f.answer \ f.accepts
  <2>1. TRUE # FALSE
    BY Zenon
  <2>2. \/ f.answer = {FALSE}
        \/ f.answer = {}
        \/ f.accepts = {TRUE}
    <3>1. /\ Playout.answer = {FALSE}
          /\ Recording.accepts = {TRUE}
          /\ SpeakerVolume.answer = {}
          /\ SpeakerMute.answer = {}
      BY DEF Playout, Recording, SpeakerVolume, SpeakerMute
    <3>2. /\ MicrophoneVolume.answer = {FALSE}
          /\ MicrophoneMute.answer = {FALSE}
          /\ StereoPlayout.answer = {FALSE}
          /\ MicrophoneBoost.answer = {FALSE}
      BY DEF MicrophoneVolume, MicrophoneMute, StereoPlayout, MicrophoneBoost
    <3>3. QED BY <1>1, <3>1, <3>2, Zenon DEF OtherFeatures
  <2>3. QED BY <2>1, <2>2
<1>2. OtherResults \subseteq {0}
  BY DEF OtherResults, RegisterEventObserver, SetPlayoutDevice, InitSpeaker,
         InitMicrophone, StopPlayout, RecordingDevices, SetRecordingDevice
<1>3. -1 \notin {0}
  OBVIOUS
<1>4. QED BY <1>1, <1>2, <1>3

(* The start-up: each call either leaves the device alone or is a step of  *)
(* it, and a recording starts with channels and a transport.               *)
LEMMA StartUpStep ==
  ASSUME EngineInv, StartUp
  PROVE  EngineInv' /\ [Next]_vars /\ UNCHANGED handed
<1> USE DEF control, device, vars
<1>1. CASE InitDevice
  BY <1>1 DEF EngineInv, EngineTypeOK, InitDevice, Prepare
<1>2. CASE RegisterTransport
  <2>1. RegisterAudioCallback(TRUE)
    BY <1>2 DEF RegisterTransport
  <2>2. UNCHANGED <<handed, engine, recChannels, doRecord>> /\ callback'
    BY <1>2, <2>1 DEF RegisterTransport, RegisterAudioCallback
  <2>3. EngineInv'
    BY <1>2, <2>2 DEF EngineInv, EngineTypeOK, RegisterTransport, Prepare
  <2>4. QED BY <2>1, <2>2, <2>3 DEF Next
<1>3. CASE SettleStereo
  <2>1. SetStereoRecording /\ UNCHANGED engine
    BY <1>3, NoAnswerAsserts DEF SettleStereo
  <2>2. /\ UNCHANGED <<handed, initialized, doRecord, callback>>
        /\ recChannels' = NumChannels
    BY <1>3, <2>1 DEF SettleStereo, SetStereoRecording
  <2>3. recChannels' # 0
    BY <2>2, ChannelsAssumption
  <2>4. /\ engine = "starting" /\ engine' = "starting"
        /\ todo' = todo \ {"SetStereoRecording"}
    BY <1>3, <2>1 DEF SettleStereo, Prepare
  <2>5. EngineTypeOK'
    BY <2>2, <2>4 DEF EngineInv, EngineTypeOK
  <2>6. "RegisterAudioCallback" \in todo' \/ callback'
    BY <2>2, <2>4 DEF EngineInv
  <2>7. ~doRecord'
    BY <2>2, <2>4 DEF EngineInv
  <2>8. EngineInv'
    BY <2>3, <2>4, <2>5, <2>6, <2>7 DEF EngineInv
  <2>9. QED BY <2>1, <2>2, <2>8 DEF Next
<1>4. CASE SettleOthers
  <2>1. engine = "starting" /\ engine' = "starting"
    BY <1>4, NoAnswerAsserts, NoOfferIsRefused DEF SettleOthers, Prepare
  <2>2. UNCHANGED <<vars, initialized>> /\ todo' = todo \ {"others"}
    BY <1>4 DEF SettleOthers, Prepare
  <2>3. QED BY <2>1, <2>2 DEF EngineInv, EngineTypeOK
<1>5. CASE EngineInitsRecording
  <2>1. InitRecording
    BY <1>5 DEF EngineInitsRecording
  <2>2. UNCHANGED <<handed, recChannels, doRecord, callback>> /\ recInitialized'
    BY <2>1 DEF InitRecording
  <2>3. EngineInv'
    BY <1>5, <2>2 DEF EngineInv, EngineTypeOK, EngineInitsRecording
  <2>4. QED BY <2>1, <2>2, <2>3 DEF Next
<1>6. CASE EngineStartsRecording
  <2>1. EngineStarts
    BY <1>6 DEF EngineStartsRecording, EngineStarts, EngineInv
  <2>2. UNCHANGED <<handed, recInitialized, recChannels, callback>> /\ doRecord'
    BY <2>1 DEF EngineStarts, StartRecording
  <2>3. EngineInv'
    BY <1>6, <2>2 DEF EngineInv, EngineTypeOK, EngineStartsRecording
  <2>4. QED BY <2>1, <2>2, <2>3 DEF Next
<1>7. QED BY <1>1, <1>2, <1>3, <1>4, <1>5, <1>6 DEF StartUp

(* The end of a recording and of the engine.                               *)
LEMMA EndStep ==
  ASSUME EngineInv, EngineStopsRecording \/ UnregisterTransport \/ TerminateDevice
  PROVE  EngineInv' /\ [Next]_vars /\ UNCHANGED handed
<1> USE DEF control, device, vars
<1>1. CASE EngineStopsRecording
  <2>1. StopRecording
    BY <1>1 DEF EngineStopsRecording
  <2>2. UNCHANGED <<handed, recInitialized, recChannels, callback>> /\ ~doRecord'
    BY <2>1 DEF StopRecording
  <2>3. EngineInv'
    BY <1>1, <2>2 DEF EngineInv, EngineTypeOK, EngineStopsRecording
  <2>4. QED BY <2>1, <2>2, <2>3 DEF Next
<1>2. CASE UnregisterTransport
  <2>1. RegisterAudioCallback(FALSE)
    BY <1>2 DEF UnregisterTransport
  <2>2. UNCHANGED <<handed, recChannels, doRecord>>
    BY <2>1 DEF RegisterAudioCallback
  <2>3. EngineInv'
    BY <1>2, <2>2 DEF EngineInv, EngineTypeOK, UnregisterTransport
  <2>4. QED BY <2>1, <2>2, <2>3 DEF Next
<1>3. CASE TerminateDevice
  BY <1>3 DEF EngineInv, EngineTypeOK, TerminateDevice
<1>4. QED BY <1>1, <1>2, <1>3

(* The IO thread leaves what the engine has settled alone.                 *)
LEMMA WriteAnyStep ==
  ASSUME EngineInv, WriteAny
  PROVE  EngineInv' /\ Next
<1> USE DEF control, device, engineVars
<1>1. UNCHANGED <<engineVars, recInitialized, recChannels, doRecord, callback>>
  BY DEF WriteAny, WriteStep, WriteIgnored, WriteBegin, WriteDividesByZero,
         DrainBlock, WriteEnd
<1>2. EngineInv'
  BY <1>1 DEF EngineInv, EngineTypeOK
<1>3. QED BY <1>2 DEF WriteAny, WriteStep, Next

(* Every step keeps the invariant and is a step of the device.             *)
LEMMA EngineStep ==
  ASSUME EngineInv, [EngineNext]_allVars
  PROVE  EngineInv' /\ [Next]_vars
<1>1. CASE UNCHANGED allVars
  BY <1>1 DEF allVars, engineVars, vars, control, device, EngineInv, EngineTypeOK
<1>2. CASE EngineNext
  BY <1>2, StartUpStep, EndStep, WriteAnyStep DEF EngineNext
<1>3. QED BY <1>1, <1>2

(* The inductive invariant of the engine with the device: what it settles  *)
(* before it records stays settled.                                        *)
THEOREM EngineInvariant == EngineSpec => []EngineInv
<1>1. EngineInv /\ [EngineNext]_allVars => EngineInv'
  BY EngineStep
<1>2. QED BY EngineStart, <1>1, PTL DEF EngineSpec

(* The engine's variables keep their types.                                *)
THEOREM EngineTypeCorrect == EngineSpec => []EngineTypeOK
<1>1. EngineInv => EngineTypeOK
  BY DEF EngineInv
<1>2. QED BY <1>1, EngineInvariant, PTL

(* No assertion of the device fails.                                       *)
THEOREM EngineMeetsNoAssertion == EngineSpec => []AssertionsHold
<1>1. EngineInv => AssertionsHold
  BY DEF EngineInv, AssertionsHold
<1>2. QED BY <1>1, EngineInvariant, PTL

(* The engine uses the device as it demands, so that every theorem about   *)
(* the device holds of the two together.                                   *)
THEOREM EngineUsesTheDevice == EngineSpec => UsesTheDevice
<1>1. EngineInit => Init
  BY DEF EngineInit
<1>2. EngineInv /\ [EngineNext]_allVars => [Next]_vars
  BY EngineStep
<1>3. QED BY <1>1, <1>2, EngineInvariant, PTL DEF EngineSpec, UsesTheDevice, Spec

(* The arithmetic of write() included: with an engine that follows the     *)
(* answers the sizes of the blocks are never zero.                         *)
THEOREM EngineCausesNoFault == EngineSpec => []NoArithmeticFault
<1>1. Spec => []NoArithmeticFault
  BY NoFaultWhenNegotiated, NegotiatesAssumption
<1>2. QED BY <1>1, EngineUsesTheDevice, PTL DEF UsesTheDevice

(* The engine is refused nothing it was offered, and has done all that a   *)
(* recording needs when it starts one: this is what RecordingStarts needs  *)
(* of the states.                                                          *)
StartsWhenArmed ==
  /\ engine # "failed"
  /\ engine = "armed" => recInitialized /\ recChannels # 0 /\ callback

(* An engine that follows the answers of the device gets to its recording, *)
(* the first time and after each stop.                                     *)
THEOREM EngineIsNotRefused == EngineSpec => []StartsWhenArmed
<1>1. EngineInv => StartsWhenArmed
  BY DEF EngineInv, StartsWhenArmed
<1>2. QED BY <1>1, EngineInvariant, PTL

(* What the device promises it keeps with that engine: the stream of       *)
(* blocks, without a byte lost or kept, the order of what the transport    *)
(* gets, and the silence after a stop.                                     *)
THEOREM EngineGetsTheStream ==
  EngineSpec => /\ Stream!Init /\ [][Stream!Next]_(Stream!vars)
                /\ [](StreamIntegrity /\ ResidueBounded /\ NothingKeptBack)
                /\ []ReceivedInOrder
                /\ NoDeliveryAfterStop
<1>1. Spec => Stream!Init /\ [][Stream!Next]_(Stream!vars)
  BY ImplementsBlockStreamSafely
<1>2. Spec => []StreamIntegrity /\ []ResidueBounded /\ []NothingKeptBack
  BY BytesPreserved, DelayBounded, BlocksLeaveAtOnce, PTL
<1>3. Spec => []ReceivedInOrder /\ NoDeliveryAfterStop
  BY DeliveredInOrder, StopIsFinal
<1>4. QED BY <1>1, <1>2, <1>3, EngineUsesTheDevice, PTL DEF UsesTheDevice

--------------------------------------------------------------------------------
(* The next block of what was handed over is one more block heard.         *)
LEMMA OneMoreBlock ==
  ASSUME NEW heard \in Seq(Seq(Nat)), NEW all \in Seq(Nat), NEW size \in Nat \ {0},
         NEW block \in Seq(Nat), Len(block) = size,
         Len(heard) * size = Len(all),
         \A i \in 1 .. Len(heard) :
           heard[i] = SubSeq(all, (i - 1) * size + 1, i * size)
  PROVE  /\ Len(Append(heard, block)) * size = Len(all \o block)
         /\ \A i \in 1 .. Len(Append(heard, block)) :
              Append(heard, block)[i]
                = SubSeq(all \o block, (i - 1) * size + 1, i * size)
<1>1. /\ Len(heard) \in Nat /\ Len(Append(heard, block)) = Len(heard) + 1
      /\ \A i \in 1 .. Len(heard) : Append(heard, block)[i] = heard[i]
      /\ Append(heard, block)[Len(heard) + 1] = block
  BY AppendedBlock
<1>2. Len(all \o block) = Len(all) + size
  BY ConcatNat
<1>3. block # <<>>
  BY EmptySeq
<1>4. /\ (Len(heard) + 1) * size = Len(all) + size
      /\ (Len(heard) + 1 - 1) * size = Len(all)
  <2>1. /\ \A n, k \in Nat : (n + 1) * k = n * k + k
        /\ \A n \in Nat : n + 1 - 1 = n
    OBVIOUS
  <2>2. size \in Nat /\ Len(heard) \in Nat /\ Len(heard) * size = Len(all)
    BY <1>1
  <2>3. (Len(heard) + 1) * size = Len(heard) * size + size
    BY <2>1, <2>2, Zenon
  <2>4. Len(heard) + 1 - 1 = Len(heard)
    BY <2>1, <2>2, Zenon
  <2>5. QED BY <2>2, <2>3, <2>4, Zenon
<1>5. ASSUME NEW i \in 1 .. Len(heard)
      PROVE  heard[i] = SubSeq(all \o block, (i - 1) * size + 1, i * size)
  <2>1. (i - 1) * size + 1 \in 1 .. Len(all) /\ i * size \in 1 .. Len(all)
    <3>1. /\ (i - 1) * size + 1 \in 1 .. Len(heard) * size
          /\ i * size \in 1 .. Len(heard) * size
      BY <1>1, BlockWithin
    <3>2. QED BY <3>1
  <2>2. SubSeq(all \o block, (i - 1) * size + 1, i * size)
          = SubSeq(all, (i - 1) * size + 1, i * size)
    BY <1>3, <2>1, PieceOfConcat
  <2>3. QED BY <2>2
<1>6. block = SubSeq(all \o block, Len(all) + 1, Len(all) + size)
  BY <1>3, PieceOfConcat
<1>7. ASSUME NEW i \in 1 .. Len(heard) + 1
      PROVE  Append(heard, block)[i]
               = SubSeq(all \o block, (i - 1) * size + 1, i * size)
  <2>1. CASE i = Len(heard) + 1
    <3>1. Append(heard, block)[i] = block
      BY <1>1, <2>1
    <3>2. (i - 1) * size = Len(all) /\ i * size = Len(all) + size
      BY <1>4, <2>1
    <3>3. QED BY <1>6, <3>1, <3>2
  <2>2. CASE i # Len(heard) + 1
    <3>1. i \in 1 .. Len(heard)
      BY <1>1, <2>2
    <3>2. QED BY <1>1, <1>5, <3>1
  <2>3. QED BY <2>1, <2>2
<1>8. QED BY <1>1, <1>2, <1>4, <1>7

(* Only a turn of write()'s loop, while the engine records, adds to either.*)
LEMMA HearStep ==
  ASSUME ~BufferMayFail, DeviceInv, EngineInv, EngineHearsAll, [EngineNext]_allVars
  PROVE  EngineHearsAll'
<1>1. CASE DrainBlock
  <2>1. /\ FirstBlock \in Seq(Nat) /\ Len(FirstBlock) = FullBlock
        /\ FullBlock \in Nat \ {0}
    BY <1>1, DrainTakesFullBlock, BlockArithmetic
  <2>2. callback
    BY <1>1 DEF DrainBlock, DeviceInv, ControlInv, EngineInv
  <2>3. FirstBlock # <<>>
    BY <2>1, EmptySeq
  <2>4. handed' = handed \o FirstBlock /\ received' = Append(received, FirstBlock)
    BY <1>1, <2>2, <2>3 DEF DrainBlock
  <2>5. handed \in Seq(Nat) /\ received \in Seq(Seq(Nat))
    BY DEF DeviceInv, TypeOK
  <2>6. FullBlock' = FullBlock
    BY DEF FullBlock
  <2>7. /\ Len(Append(received, FirstBlock)) * FullBlock = Len(handed \o FirstBlock)
        /\ \A i \in 1 .. Len(Append(received, FirstBlock)) :
             Append(received, FirstBlock)[i]
               = SubSeq(handed \o FirstBlock, (i - 1) * FullBlock + 1, i * FullBlock)
    BY <2>1, <2>5, OneMoreBlock, Zenon DEF EngineHearsAll
  <2>8. QED BY <2>4, <2>6, <2>7, Zenon DEF EngineHearsAll
<1>2. CASE ~DrainBlock
  <2>1. UNCHANGED <<handed, received>>
    <3>1. [Next]_vars
      BY EngineStep
    <3>2. QED BY <1>2, <3>1
              DEF Next, WriteIgnored, WriteBegin, WriteDividesByZero, WriteEnd,
                  SetStereoRecording, InitRecording, EngineStarts, StartRecording,
                  StopRecording, RegisterAudioCallback, vars, device
  <2>2. FullBlock' = FullBlock
    BY DEF FullBlock
  <2>3. QED BY <2>1, <2>2 DEF EngineHearsAll
<1>3. QED BY <1>1, <1>2

(* With a buffer that accepts what it is given the engine hears each block *)
(* of all its recordings once, whole and in order.                         *)
THEOREM EngineHearsRecordings ==
  ASSUME ~BufferMayFail
  PROVE  EngineSpec => []EngineHearsAll
<1>1. EngineInit => EngineHearsAll
  <2>1. FullBlock \in Nat
    BY BlockArithmetic
  <2>2. Init => received = <<>> /\ handed = <<>>
    BY DEF Init
  <2>3. QED BY <2>1, <2>2 DEF EngineInit, EngineHearsAll
<1>2. DeviceInv /\ EngineInv /\ EngineHearsAll /\ [EngineNext]_allVars
        => EngineHearsAll'
  BY HearStep
<1>3. Spec => []DeviceInv
  BY DeviceInvariant
<1>4. QED BY <1>1, <1>2, <1>3, EngineUsesTheDevice, EngineInvariant, PTL
          DEF EngineSpec, UsesTheDevice
================================================================================
