------------------------------ MODULE AudioDevice ------------------------------
(***************************************************************************)
(* PAAudioDeviceModule (webrtc/pa_audio_device_module.cpp): the device the *)
(* voice engine records from.  The sink's IO thread pushes sound in with   *)
(* write(); the engine's threads start and stop the recording.  m_mutex    *)
(* makes write() exclude the methods that change the recording state, but  *)
(* not RegisterAudioCallback, which goes straight to the buffer.           *)
(*                                                                         *)
(* A byte is named by its position in the stream the sink offers, so that  *)
(* a lost, repeated or reordered byte shows.  AudioDeviceBuffer, the       *)
(* engine's class, is external and known only by the calls made to it.     *)
(***************************************************************************)
EXTENDS Integers, Sequences

CONSTANTS
  SampleRateHz,           \* PASink::sampleRateHz()
  NumChannels,            \* PASink::numChannels()
  WriteSizes,             \* the lengths, in bytes, of the chunks the sink renders
  EngineNegotiatesFirst,  \* the engine settles the channels before it records
  BufferMayFail,          \* SetRecordedBuffer may return -1
  MaxOffered              \* bound: the bytes the sink offers

(* 44100 Hz and 2 channels in the code; what matters is that 10 ms of      *)
(* sound are a whole number of samples.                                    *)
ASSUME RateAssumption == SampleRateHz \in Nat \ {0} /\ SampleRateHz % 100 = 0
ASSUME ChannelsAssumption == NumChannels \in {1, 2}
ASSUME WriteSizesAssumption == WriteSizes \subseteq Nat \ {0}
ASSUME SwitchesAssumption ==
  EngineNegotiatesFirst \in BOOLEAN /\ BufferMayFail \in BOOLEAN
ASSUME MaxOfferedAssumption == MaxOffered \in Nat

VARIABLES
  recInitialized,  \* m_recording_initialized
  doRecord,        \* m_do_record
  recSampleRate,   \* m_audio_device_buffer.RecordingSampleRate()
  recChannels,     \* m_audio_device_buffer.RecordingChannels()
  remaining,       \* m_remaining_data
  io,              \* where the IO thread is; it holds m_mutex unless "idle"
  callback,        \* has an AudioTransport been registered?
  recBuffer,       \* the block held by m_audio_device_buffer
  offered,         \* history: the number of bytes passed to write()
  accepted,        \* history: the bytes appended to m_remaining_data
  handed,          \* history: the bytes passed to SetRecordedBuffer
  received         \* history: the blocks the AudioTransport got

control == <<recInitialized, doRecord, recSampleRate, recChannels>>
device == <<callback, recBuffer, received>>
vars == <<control, remaining, io, device, offered, accepted, handed>>

--------------------------------------------------------------------------------
(* The sizes write() computes from the buffer's rate and channels.         *)
BlockSize == (recSampleRate * 2 * recChannels) \div 100
BytesPerSample == 2 * recChannels
SamplesPerBlock == BlockSize \div BytesPerSample

(* The block size once the engine has configured the device.               *)
FullBlock == (SampleRateHz * 2 * NumChannels) \div 100

Init ==
  /\ recInitialized = FALSE
  /\ doRecord = FALSE
  /\ recSampleRate = 0
  /\ recChannels = 0
  /\ remaining = <<>>
  /\ io = "idle"
  /\ callback = FALSE
  /\ recBuffer = <<>>
  /\ offered = 0
  /\ accepted = <<>>
  /\ handed = <<>>
  /\ received = <<>>

--------------------------------------------------------------------------------
(* PAAudioDeviceModule::write, on the sink's IO thread                     *)

Chunk(n) == [i \in 1 .. n |-> offered + i]

Offer(n) ==
  /\ io = "idle"
  /\ offered + n <= MaxOffered
  /\ offered' = offered + n

(* Not recording: the sound is dropped.                                    *)
WriteIgnored(n) ==
  /\ Offer(n)
  /\ ~doRecord
  /\ UNCHANGED <<control, remaining, io, device, accepted, handed>>

(* Recording: the chunk joins what an earlier write left over.             *)
WriteBegin(n) ==
  /\ Offer(n)
  /\ doRecord
  /\ BytesPerSample # 0
  /\ remaining' = remaining \o Chunk(n)
  /\ accepted' = accepted \o Chunk(n)
  /\ io' = "draining"
  /\ UNCHANGED <<control, device, handed>>

(* Recording before any channel count was set: block_size is divided by 0. *)
WriteDividesByZero(n) ==
  /\ Offer(n)
  /\ doRecord
  /\ BytesPerSample = 0
  /\ io' = "fault"
  /\ UNCHANGED <<control, remaining, device, accepted, handed>>

(* The first block of m_remaining_data.                                    *)
FirstBlock == SubSeq(remaining, 1, SamplesPerBlock * BytesPerSample)

(* Mutation: the data is cut by the samples of a block, not its bytes.     *)
RestCountedInSamples == SubSeq(remaining, SamplesPerBlock + 1, Len(remaining))

(* What remove(0, block_size) leaves.                                      *)
Rest == SubSeq(remaining, BlockSize + 1, Len(remaining))

(* Mutation: the buffer delivers what it held before it gets the block.    *)
DrainDeliveringFirst ==
  /\ io = "draining"
  /\ Len(remaining) >= BlockSize
  /\ handed' = handed \o FirstBlock
  /\ recBuffer' = FirstBlock
  /\ received' = IF callback /\ recBuffer # <<>>
                 THEN Append(received, recBuffer) ELSE received
  /\ remaining' = Rest
  /\ UNCHANGED <<control, io, callback, offered, accepted>>

(* One turn of the loop: a block goes to the buffer, the buffer delivers   *)
(* what it holds, and the block is removed, whatever the two calls return. *)
DrainBlock ==
  /\ io = "draining"
  /\ Len(remaining) >= BlockSize
  /\ handed' = handed \o FirstBlock
  /\ recBuffer' = FirstBlock \/ (BufferMayFail /\ recBuffer' = recBuffer)
  /\ received' = IF callback /\ recBuffer' # <<>>
                 THEN Append(received, recBuffer') ELSE received
  /\ remaining' = Rest
  /\ UNCHANGED <<control, io, callback, offered, accepted>>

(* Mutation: the loop may end with a whole block still buffered.           *)
WriteEndAfterOneBlock ==
  /\ io = "draining"
  /\ io' = "idle"
  /\ UNCHANGED <<control, remaining, device, offered, accepted, handed>>

(* Less than a block is left: write() returns and m_mutex is free again.   *)
WriteEnd ==
  /\ io = "draining"
  /\ Len(remaining) < BlockSize
  /\ io' = "idle"
  /\ UNCHANGED <<control, remaining, device, offered, accepted, handed>>

--------------------------------------------------------------------------------
(* The methods the voice engine calls.  Those that take m_mutex wait until *)
(* no write() is under way.                                                *)

(* Mutation: the engine's methods do not take m_mutex.                     *)
MutexNotTaken == io # "fault"

(* m_mutex can be taken: no write() is under way.                          *)
MutexFree == io = "idle"

SetStereoRecording ==
  /\ MutexFree
  /\ recChannels' = NumChannels   \* any other argument fails the Q_ASSERT
  /\ UNCHANGED <<recInitialized, doRecord, recSampleRate, remaining, io, device,
                 offered, accepted, handed>>

(* The sink's rate is set whatever it was before, also while recording.    *)
InitRecording ==
  /\ MutexFree
  /\ recInitialized' = TRUE
  /\ recSampleRate' = SampleRateHz
  /\ UNCHANGED <<doRecord, recChannels, remaining, io, device,
                 offered, accepted, handed>>

(* Returns -1, without effect, when InitRecording was never called.        *)
StartRecording ==
  /\ MutexFree
  /\ recInitialized
  /\ doRecord' = TRUE
  /\ UNCHANGED <<recInitialized, recSampleRate, recChannels, remaining, io,
                 device, offered, accepted, handed>>

StopRecording ==
  /\ MutexFree
  /\ doRecord' = FALSE
  /\ UNCHANGED <<recInitialized, recSampleRate, recChannels, remaining, io,
                 device, offered, accepted, handed>>

(* Takes no m_mutex: it can fall between two turns of the loop of write(). *)
RegisterAudioCallback(registered) ==
  /\ io # "fault"
  /\ callback' = registered
  /\ UNCHANGED <<control, remaining, io, recBuffer, received,
                 offered, accepted, handed>>

(* The engine is external: all that is assumed, and only when              *)
(* EngineNegotiatesFirst, is that it settles the channels before it starts.*)
EngineStarts ==
  /\ EngineNegotiatesFirst => recChannels # 0
  /\ StartRecording

--------------------------------------------------------------------------------
WriteStep == DrainBlock \/ WriteEnd

Next ==
  \/ \E n \in WriteSizes : WriteIgnored(n) \/ WriteBegin(n) \/ WriteDividesByZero(n)
  \/ DrainBlock
  \/ WriteEnd
  \/ SetStereoRecording
  \/ InitRecording
  \/ EngineStarts
  \/ StopRecording
  \/ \E registered \in BOOLEAN : RegisterAudioCallback(registered)

(* write() runs to its end once it is called; nobody has to call it.       *)
Spec == Init /\ [][Next]_vars /\ WF_vars(WriteStep)

--------------------------------------------------------------------------------
(* The types of the variables.                                             *)
TypeOK ==
  /\ recInitialized \in BOOLEAN
  /\ doRecord \in BOOLEAN
  /\ recSampleRate \in {0, SampleRateHz}
  /\ recChannels \in {0, NumChannels}
  /\ remaining \in Seq(Nat)
  /\ io \in {"idle", "draining", "fault"}
  /\ callback \in BOOLEAN
  /\ recBuffer \in Seq(Nat)
  /\ offered \in Nat
  /\ accepted \in Seq(Nat)
  /\ handed \in Seq(Nat)
  /\ received \in Seq(Seq(Nat))

(* No byte is lost, repeated or reordered between the chunks of arbitrary  *)
(* length the sink writes and the 10 ms blocks the buffer is given, over   *)
(* any number of recordings: what was handed over, followed by what is     *)
(* still buffered, is what was accepted.                                   *)
StreamIntegrity == handed \o remaining = accepted

(* Between two calls of write() less than one block is buffered: the       *)
(* device adds less than 10 ms of delay and never grows, and a stopped     *)
(* recording leaves less than one block of old sound to the next one.      *)
ResidueBounded == io = "idle" => Len(remaining) < FullBlock

(* write() neither divides by zero nor loops on blocks of no bytes: it is  *)
(* reached only with a sample rate and a channel count.                    *)
NoArithmeticFault ==
  /\ io # "fault"
  /\ io = "draining" => BlockSize > 0

(* What the engine's transport gets are whole blocks of those handed to    *)
(* the buffer, and never goes back in the stream: a block follows the one  *)
(* before it, or, if the buffer refused a block, is the one before it      *)
(* again.                                                                  *)
WasHandedOver(block) ==
  \E k \in 1 .. Len(handed) :
    /\ k * FullBlock <= Len(handed)
    /\ block = SubSeq(handed, (k - 1) * FullBlock + 1, k * FullBlock)
Precedes(before, after) == before[Len(before)] < after[1]
ReceivedInOrder ==
  /\ \A i \in 1 .. Len(received) : WasHandedOver(received[i])
  /\ \A i \in 1 .. Len(received) - 1 :
       \/ Precedes(received[i], received[i + 1])
       \/ BufferMayFail /\ received[i] = received[i + 1]

(* Once StopRecording has returned no block reaches the engine, whatever   *)
(* the IO thread was doing when it was called.                             *)
NoDeliveryAfterStop == [][received' # received => doRecord]_vars

(* The device implements the block stream it promises.                     *)
Stream == INSTANCE BlockStream WITH
            Size <- FullBlock, input <- accepted, output <- handed
ImplementsBlockStream == Stream!Spec
================================================================================
