------------------------------ MODULE VoiceEngine ------------------------------
(***************************************************************************)
(* The device (AudioDevice) with an engine that starts up on it the way    *)
(* the interface is meant to be used: before it records, the engine        *)
(* prepares the device, asks of each feature whether it is available and   *)
(* sets it accordingly, in any order, and gives up when the device refuses *)
(* what it offered.  The engine is external; what the device answers, and  *)
(* its assertions on how the answers are used, are the code's              *)
(* (pa_audio_device_module.cpp).                                           *)
(***************************************************************************)
EXTENDS AudioDevice

ASSUME NegotiatesAssumption == EngineNegotiatesFirst

VARIABLES
  engine,      \* where the engine is
  todo,        \* the calls it has still to make before it records
  initialized  \* m_initialized

engineVars == <<engine, todo, initialized>>
allVars == <<vars, engineVars>>

--------------------------------------------------------------------------------
(* What the device answers: 0 or -1 where it only answers                  *)

RegisterEventObserver == 0

(* Succeeds although the device declares no playout device.                *)
SetPlayoutDevice == 0

RecordingDevices == 1
SetRecordingDevice(index) == IF index = 0 THEN 0 ELSE -1

InitSpeaker == 0
InitMicrophone == 0

(* Called also when nothing is played.                                     *)
StopPlayout == 0

(* For each feature, what ...IsAvailable answers (nothing, if it fails),   *)
(* the arguments that setting it accepts, and those that fail an assertion.*)
Playout == [answer |-> {FALSE}, accepts |-> {}, asserts |-> {}]
Recording == [answer |-> {TRUE}, accepts |-> {TRUE}, asserts |-> {}]
SpeakerVolume == [answer |-> {}, accepts |-> {}, asserts |-> {}]
SpeakerMute == [answer |-> {}, accepts |-> {}, asserts |-> {}]
MicrophoneVolume == [answer |-> {FALSE}, accepts |-> {}, asserts |-> {}]
MicrophoneMute == [answer |-> {FALSE}, accepts |-> {}, asserts |-> {}]
StereoPlayout == [answer |-> {FALSE}, accepts |-> {TRUE, FALSE}, asserts |-> {}]

(* Mutation: the device claims a microphone boost.                         *)
BoostClaimed == [answer |-> {TRUE}, accepts |-> {FALSE}, asserts |-> {TRUE}]

MicrophoneBoost == [answer |-> {FALSE}, accepts |-> {FALSE}, asserts |-> {TRUE}]

(* The sink decides whether there is stereo, and SetStereoRecording        *)
(* asserts that the engine has the channels of the sink.                   *)
StereoRecording ==
  LET stereo == NumChannels = 2
  IN  [answer |-> {stereo}, accepts |-> {stereo}, asserts |-> {~stereo}]

(* Those that change nothing in the device.                                *)
OtherFeatures == {Playout, Recording, SpeakerVolume, SpeakerMute, MicrophoneVolume,
                  MicrophoneMute, StereoPlayout, MicrophoneBoost}
OtherResults ==
  {RegisterEventObserver, SetPlayoutDevice, InitSpeaker, InitMicrophone, StopPlayout}
  \cup {SetRecordingDevice(i) : i \in 0 .. RecordingDevices - 1}

(* What the engine has to do before it records.  The calls that change     *)
(* nothing in the device are one: it does not matter when they are made.   *)
Calls == {"Init", "RegisterAudioCallback", "SetStereoRecording", "others"}

EngineInit ==
  /\ Init
  /\ engine = "starting"
  /\ todo = Calls
  /\ initialized \in BOOLEAN   \* the constructor leaves it uninitialized

--------------------------------------------------------------------------------
(* The engine starts up                                                    *)

Prepare(call) ==
  /\ engine = "starting"
  /\ call \in todo
  /\ todo' = todo \ {call}

InitDevice ==
  /\ Prepare("Init")
  /\ MutexFree
  /\ initialized' = TRUE
  /\ UNCHANGED <<vars, engine>>

RegisterTransport ==
  /\ Prepare("RegisterAudioCallback")
  /\ RegisterAudioCallback(TRUE)
  /\ UNCHANGED <<engine, initialized>>

(* The other features are set to what is available; the engine goes on     *)
(* without one that is not, but not when it is refused what was offered.   *)
SettleOthers ==
  /\ Prepare("others")
  /\ engine' = IF \E f \in OtherFeatures : f.answer \cap f.asserts # {}
               THEN "aborted"
               ELSE IF \/ \E f \in OtherFeatures : TRUE \in f.answer \ f.accepts
                       \/ -1 \in OtherResults
               THEN "failed" ELSE engine
  /\ UNCHANGED <<vars, initialized>>

StereoFails == StereoRecording.answer \cap StereoRecording.asserts # {}

(* Mutation: the channels do not reach the buffer.                         *)
SettleStereoIgnored ==
  /\ Prepare("SetStereoRecording")
  /\ MutexFree
  /\ engine' = IF StereoFails THEN "aborted" ELSE engine
  /\ UNCHANGED <<vars, initialized>>

(* SetStereoRecording gives the channels to the buffer.                    *)
SettleStereo ==
  /\ Prepare("SetStereoRecording")
  /\ MutexFree
  /\ IF StereoFails
     THEN engine' = "aborted" /\ UNCHANGED vars
     ELSE SetStereoRecording /\ UNCHANGED engine
  /\ UNCHANGED initialized

--------------------------------------------------------------------------------
(* The engine records, any number of times, and ends.                      *)

EngineInitsRecording ==
  /\ (engine = "starting" /\ todo = {}) \/ engine = "stopped"
  /\ InitRecording
  /\ engine' = "armed"
  /\ UNCHANGED <<todo, initialized>>

EngineStartsRecording ==
  /\ engine = "armed"
  /\ StartRecording
  /\ engine' = "recording"
  /\ UNCHANGED <<todo, initialized>>

EngineStopsRecording ==
  /\ engine = "recording"
  /\ StopRecording
  /\ engine' = "stopped"
  /\ UNCHANGED <<todo, initialized>>

UnregisterTransport ==
  /\ engine = "stopped"
  /\ RegisterAudioCallback(FALSE)
  /\ engine' = "ending"
  /\ UNCHANGED <<todo, initialized>>

TerminateDevice ==
  /\ engine = "ending"
  /\ MutexFree
  /\ initialized' = FALSE
  /\ engine' = "ended"
  /\ UNCHANGED <<vars, todo>>

--------------------------------------------------------------------------------
StartUp ==
  \/ InitDevice \/ RegisterTransport \/ SettleStereo \/ SettleOthers
  \/ EngineInitsRecording \/ EngineStartsRecording

(* The sink's IO thread goes on writing, whatever the engine does.         *)
WriteAny ==
  /\ \/ \E n \in WriteSizes : WriteIgnored(n) \/ WriteBegin(n) \/ WriteDividesByZero(n)
     \/ WriteStep
  /\ UNCHANGED engineVars

EngineNext ==
  \/ StartUp
  \/ EngineStopsRecording \/ UnregisterTransport \/ TerminateDevice
  \/ WriteAny

(* write() runs to its end, and the engine goes on with its start-up: it   *)
(* gets m_mutex, which the IO thread frees each time it sleeps.            *)
EngineSpec ==
  EngineInit /\ [][EngineNext]_allVars /\ WF_vars(WriteStep) /\ SF_allVars(StartUp)

--------------------------------------------------------------------------------
(* The types of the engine's variables; from its Init to its Terminate the *)
(* device says that it is initialized.                                     *)
EngineTypeOK ==
  /\ engine \in {"starting", "armed", "recording", "stopped", "ending", "ended",
                 "failed", "aborted"}
  /\ todo \subseteq Calls
  /\ initialized \in BOOLEAN
  /\ "Init" \notin todo => initialized = (engine # "ended")

(* What the device says is available can be set, and what it says is not   *)
(* can be switched off: an engine that follows its answers meets neither a *)
(* refusal nor an assertion, and its recordings start again after a stop.  *)
RecordingStarts ==
  engine \in {"starting", "stopped"} ~> engine \in {"recording", "ending"}

(* None of the device's assertions fails on an engine that follows its     *)
(* answers.                                                                *)
AssertionsHold == engine # "aborted"

(* The engine hears every block of its recordings once, whole and in       *)
(* order: nothing reaches the buffer before its transport is registered,   *)
(* nor after it is gone.                                                   *)
EngineHearsAll ==
  /\ Len(received) * FullBlock = Len(handed)
  /\ \A i \in 1 .. Len(received) :
       received[i] = SubSeq(handed, (i - 1) * FullBlock + 1, i * FullBlock)

(* The engine uses the device as the device demands: the channels are      *)
(* settled before a recording starts, so that whatever is shown of         *)
(* AudioDevice holds.                                                      *)
UsesTheDevice == Spec
================================================================================
