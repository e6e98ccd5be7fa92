--------------------------- MODULE AudioDeviceProofs ---------------------------
(***************************************************************************)
(* What AudioDevice guarantees for every sample rate of whole 10 ms        *)
(* blocks, mono or stereo, every chunk size and any number of writes.      *)
(***************************************************************************)
EXTENDS AudioDevice, SequenceTheorems, TLAPS

(* Concatenation of bytes is associative, and appending a block to a list  *)
(* of blocks makes a list of blocks (the library's facts, for Nat).        *)
LEMMA AssociativeNat ==
  \A r, s, t \in Seq(Nat) : (r \o s) \o t = r \o (s \o t)
BY ConcatAssociative, SMTT(60)

LEMMA AppendNat ==
  \A s \in Seq(Seq(Nat)), b \in Seq(Nat) : Append(s, b) \in Seq(Seq(Nat))
BY AppendProperties

LEMMA ConcatNat ==
  \A s, t \in Seq(Nat) : s \o t \in Seq(Nat) /\ Len(s \o t) = Len(s) + Len(t)
BY ConcatProperties

--------------------------------------------------------------------------------
USE RateAssumption, ChannelsAssumption, WriteSizesAssumption,
    SwitchesAssumption, MaxOfferedAssumption

--------------------------------------------------------------------------------
(* A block is a whole number of samples: truncating the sample count of a  *)
(* block (num_samples_per_block) leaves no byte of it out.                 *)
LEMMA BlockArithmetic ==
  /\ FullBlock \in Nat \ {0}
  /\ (FullBlock \div (2 * NumChannels)) * (2 * NumChannels) = FullBlock
<1>1. PICK k \in Nat \ {0} : SampleRateHz = 100 * k
  <2>1. SampleRateHz = 100 * (SampleRateHz \div 100)
    OBVIOUS
  <2>2. SampleRateHz \div 100 \in Nat \ {0}
    OBVIOUS
  <2>3. QED BY <2>1, <2>2
<1>2. CASE NumChannels = 1
  <2>1. FullBlock = 2 * k
    BY <1>1, <1>2 DEF FullBlock
  <2>2. QED BY <1>1, <1>2, <2>1
<1>3. CASE NumChannels = 2
  <2>1. FullBlock = 4 * k
    BY <1>1, <1>3 DEF FullBlock
  <2>2. QED BY <1>1, <1>3, <2>1
<1>4. QED BY <1>2, <1>3

(* The bytes of a chunk are positions of the stream.                       *)
LEMMA ChunkType ==
  ASSUME NEW n \in WriteSizes, offered \in Nat
  PROVE  Chunk(n) \in Seq(Nat)
<1>1. n \in Nat /\ \A i \in 1 .. n : offered + i \in Nat
  OBVIOUS
<1>2. QED BY <1>1, IsASeq DEF Chunk

(* Cutting a sequence after its first k elements loses nothing.            *)
LEMMA SplitSeq ==
  ASSUME NEW S, NEW s \in Seq(S), NEW k \in 0 .. Len(s)
  PROVE  /\ SubSeq(s, 1, k) \in Seq(S)
         /\ Len(SubSeq(s, 1, k)) = k
         /\ SubSeq(s, k + 1, Len(s)) \in Seq(S)
         /\ Len(SubSeq(s, k + 1, Len(s))) = Len(s) - k
         /\ SubSeq(s, 1, k) \o SubSeq(s, k + 1, Len(s)) = s
<1>1. Len(s) \in Nat /\ \A i \in 1 .. Len(s) : s[i] \in S
  BY LenProperties, ElementOfSeq
<1>2. SubSeq(s, 1, k) \in Seq(S) /\ Len(SubSeq(s, 1, k)) = k
  BY <1>1, SubSeqProperties
<1>3. /\ SubSeq(s, k + 1, Len(s)) \in Seq(S)
      /\ Len(SubSeq(s, k + 1, Len(s))) = Len(s) - k
  BY <1>1, SubSeqProperties
<1>4. SubSeq(s, 1, k) \o SubSeq(s, k + 1, Len(s)) = SubSeq(s, 1, Len(s))
  <2>1. 1 \in 1 .. Len(s) + 1 /\ k \in 1 - 1 .. Len(s) /\ Len(s) \in k .. Len(s)
    BY <1>1
  <2>2. QED BY <2>1, ConcatAdjacentSubSeq
<1>5. SubSeq(s, 1, Len(s)) = s
  BY SubSeqFull
<1>6. QED BY <1>2, <1>3, <1>4, <1>5

(* The front of a concatenation is its first part.                         *)
LEMMA PrefixOfConcat ==
  ASSUME NEW S, NEW s \in Seq(S), NEW t \in Seq(S)
  PROVE  SubSeq(s \o t, 1, Len(s)) = s
<1>1. CASE s = <<>>
  BY <1>1, EmptySeq, SubSeqEmpty
<1>2. CASE s # <<>>
  <2>1. Len(s) \in Nat \ {0}
    BY <1>2, EmptySeq
  <2>2. 1 \in 1 .. Len(s) /\ Len(s) \in 1 .. Len(s)
    BY <2>1
  <2>3. QED BY <2>2, SubSeqOfConcat1, SubSeqFull
<1>3. QED BY <1>1, <1>2

--------------------------------------------------------------------------------
(* The recording state: recording implies a rate, and a write under way    *)
(* implies that recording is on, with a rate and a channel count.          *)
ControlInv ==
  /\ recInitialized => recSampleRate = SampleRateHz
  /\ doRecord => recInitialized
  /\ io = "draining" => doRecord /\ recChannels = NumChannels

(* Outside a write under way less than a block is buffered.                *)
ResidueInv == io # "draining" => Len(remaining) < FullBlock

(* The inductive invariant.                                                *)
DeviceInv == TypeOK /\ ControlInv /\ ResidueInv /\ StreamIntegrity

(* During a write the computed sizes are those of the configured device.   *)
LEMMA SizesDuringWrite ==
  ASSUME ControlInv, io = "draining"
  PROVE  /\ BlockSize = FullBlock
         /\ SamplesPerBlock * BytesPerSample = FullBlock
<1>1. BlockSize = FullBlock /\ BytesPerSample = 2 * NumChannels
  BY DEF ControlInv, BlockSize, FullBlock, BytesPerSample
<1>2. QED BY <1>1, BlockArithmetic DEF SamplesPerBlock

(* A turn of the loop takes one full block off the front.                  *)
LEMMA DrainTakesFullBlock ==
  ASSUME DeviceInv, DrainBlock
  PROVE  /\ FirstBlock \in Seq(Nat)
         /\ Len(FirstBlock) = FullBlock
         /\ Rest \in Seq(Nat)
         /\ FirstBlock \o Rest = remaining
<1>1. io = "draining" /\ Len(remaining) >= BlockSize /\ remaining \in Seq(Nat)
  BY DEF DrainBlock, DeviceInv, TypeOK
<1>2. BlockSize = FullBlock /\ SamplesPerBlock * BytesPerSample = FullBlock
  BY <1>1, SizesDuringWrite DEF DeviceInv
<1>3. FullBlock \in 0 .. Len(remaining)
  BY <1>1, <1>2, BlockArithmetic, LenProperties
<1>4. /\ FirstBlock = SubSeq(remaining, 1, FullBlock)
      /\ Rest = SubSeq(remaining, FullBlock + 1, Len(remaining))
  BY <1>2 DEF FirstBlock, Rest
<1>5. QED BY <1>1, <1>3, <1>4, SplitSeq

--------------------------------------------------------------------------------
LEMMA DeviceInit == Init => DeviceInv
<1> SUFFICES ASSUME Init PROVE DeviceInv
  OBVIOUS
<1> USE DEF Init
<1>1. TypeOK
  BY EmptySeq DEF TypeOK
<1>2. ControlInv
  BY DEF ControlInv
<1>3. ResidueInv
  BY BlockArithmetic, EmptySeq DEF ResidueInv
<1>4. StreamIntegrity
  BY EmptySeq, ConcatEmptySeq DEF StreamIntegrity
<1>5. QED BY <1>1, <1>2, <1>3, <1>4 DEF DeviceInv

(* A chunk joins the buffered bytes: what was accepted grows by the same.  *)
LEMMA WriteBeginStep ==
  ASSUME DeviceInv, NEW n \in WriteSizes, WriteBegin(n)
  PROVE  DeviceInv'
<1>1. Chunk(n) \in Seq(Nat)
  BY ChunkType DEF DeviceInv, TypeOK
<1>2. /\ remaining \in Seq(Nat) /\ handed \in Seq(Nat) /\ accepted \in Seq(Nat)
      /\ handed \o remaining = accepted
  BY DEF DeviceInv, TypeOK, StreamIntegrity
<1>3. /\ remaining' = remaining \o Chunk(n) /\ accepted' = accepted \o Chunk(n)
      /\ UNCHANGED <<control, device, handed>> /\ io' = "draining"
      /\ offered' = offered + n /\ doRecord /\ BytesPerSample # 0
  BY DEF WriteBegin, Offer
<1>4. remaining' \in Seq(Nat) /\ accepted' \in Seq(Nat)
  BY <1>1, <1>2, <1>3, ConcatProperties
<1>5. TypeOK'
  BY <1>3, <1>4 DEF DeviceInv, TypeOK, control, device
<1>6. ControlInv'
  <2>1. recChannels = NumChannels
    BY <1>3 DEF BytesPerSample, DeviceInv, TypeOK
  <2>2. QED BY <1>3, <2>1 DEF DeviceInv, ControlInv, control
<1>7. ResidueInv'
  BY <1>3 DEF ResidueInv
<1>8. StreamIntegrity'
  <2>1. handed \in Seq(Nat) /\ remaining \in Seq(Nat)
    BY <1>2
  <2>2. (handed \o remaining) \o Chunk(n) = handed \o (remaining \o Chunk(n))
    BY <1>1, <2>1, AssociativeNat, ZenonT(60)
  <2>3. QED BY <1>2, <1>3, <2>2 DEF StreamIntegrity, device
<1>9. QED BY <1>5, <1>6, <1>7, <1>8 DEF DeviceInv

(* A block moves from the front of the buffered bytes to what was handed   *)
(* over: their concatenation stays the same.                               *)
LEMMA DrainBlockStep ==
  ASSUME DeviceInv, DrainBlock
  PROVE  DeviceInv'
<1>1. /\ FirstBlock \in Seq(Nat)
      /\ Rest \in Seq(Nat)
      /\ FirstBlock \o Rest = remaining
  BY DrainTakesFullBlock
<1>2. /\ handed \in Seq(Nat) /\ remaining \in Seq(Nat)
      /\ handed \o remaining = accepted
      /\ recBuffer \in Seq(Nat) /\ received \in Seq(Seq(Nat))
  BY DEF DeviceInv, TypeOK, StreamIntegrity
<1>3. /\ handed' = handed \o FirstBlock /\ remaining' = Rest
      /\ recBuffer' = FirstBlock \/ recBuffer' = recBuffer
      /\ received' = Append(received, recBuffer') \/ received' = received
      /\ UNCHANGED <<control, io, callback, offered, accepted>>
      /\ io = "draining"
  BY DEF DrainBlock
<1>4. recBuffer' \in Seq(Nat) /\ handed' \in Seq(Nat)
  BY <1>1, <1>2, <1>3, ConcatProperties
<1>5. received' \in Seq(Seq(Nat))
  BY <1>2, <1>3, <1>4, AppendNat
<1>6. TypeOK'
  BY <1>1, <1>3, <1>4, <1>5 DEF DeviceInv, TypeOK, control
<1>7. ControlInv'
  BY <1>3 DEF DeviceInv, ControlInv, control
<1>8. ResidueInv'
  BY <1>3 DEF ResidueInv
<1>9. StreamIntegrity'
  <2>1. handed \in Seq(Nat) /\ FirstBlock \in Seq(Nat) /\ Rest \in Seq(Nat)
    BY <1>1, <1>2
  <2>2. (handed \o FirstBlock) \o Rest = handed \o (FirstBlock \o Rest)
    BY <2>1, AssociativeNat
  <2>3. QED BY <1>1, <1>2, <1>3, <2>2 DEF StreamIntegrity
<1>10. QED BY <1>6, <1>7, <1>8, <1>9 DEF DeviceInv

LEMMA WriteEndStep ==
  ASSUME DeviceInv, WriteEnd
  PROVE  DeviceInv'
<1>1. BlockSize = FullBlock
  BY SizesDuringWrite DEF DeviceInv, WriteEnd
<1> USE DEF DeviceInv, WriteEnd, control, device
<1>2. TypeOK'
  BY DEF TypeOK
<1>3. ControlInv'
  BY DEF ControlInv
<1>4. ResidueInv'
  BY <1>1 DEF ResidueInv
<1>5. StreamIntegrity'
  BY DEF StreamIntegrity
<1>6. QED BY <1>2, <1>3, <1>4, <1>5

(* The steps that only change the recording state, or drop the sound.      *)
LEMMA ControlStep ==
  ASSUME DeviceInv,
         \/ \E n \in WriteSizes : WriteIgnored(n) \/ WriteDividesByZero(n)
         \/ SetStereoRecording \/ InitRecording \/ EngineStarts \/ StopRecording
         \/ \E registered \in BOOLEAN : RegisterAudioCallback(registered)
  PROVE  DeviceInv'
<1> USE DEF DeviceInv, control, device
<1>1. ASSUME NEW n \in WriteSizes, WriteIgnored(n) PROVE DeviceInv'
  BY <1>1 DEF WriteIgnored, Offer, TypeOK, ControlInv, ResidueInv, StreamIntegrity
<1>2. ASSUME NEW n \in WriteSizes, WriteDividesByZero(n) PROVE DeviceInv'
  BY <1>2 DEF WriteDividesByZero, Offer, TypeOK, ControlInv, ResidueInv,
              StreamIntegrity
<1>3. CASE SetStereoRecording
  BY <1>3 DEF SetStereoRecording, MutexFree, TypeOK, ControlInv, ResidueInv,
              StreamIntegrity
<1>4. CASE InitRecording
  BY <1>4 DEF InitRecording, MutexFree, TypeOK, ControlInv, ResidueInv,
              StreamIntegrity
<1>5. CASE EngineStarts
  BY <1>5 DEF EngineStarts, StartRecording, MutexFree, TypeOK, ControlInv,
              ResidueInv, StreamIntegrity
<1>6. CASE StopRecording
  BY <1>6 DEF StopRecording, MutexFree, TypeOK, ControlInv, ResidueInv,
              StreamIntegrity
<1>7. ASSUME NEW registered \in BOOLEAN, RegisterAudioCallback(registered)
      PROVE  DeviceInv'
  BY <1>7 DEF RegisterAudioCallback, TypeOK, ControlInv, ResidueInv,
              StreamIntegrity
<1>8. QED BY <1>1, <1>2, <1>3, <1>4, <1>5, <1>6, <1>7

LEMMA DeviceStep == DeviceInv /\ [Next]_vars => DeviceInv'
<1> SUFFICES ASSUME DeviceInv, [Next]_vars PROVE DeviceInv'
  OBVIOUS
<1>1. ASSUME NEW n \in WriteSizes, WriteBegin(n) PROVE DeviceInv'
  BY <1>1, WriteBeginStep
<1>2. CASE DrainBlock
  BY <1>2, DrainBlockStep
<1>3. CASE WriteEnd
  BY <1>3, WriteEndStep
<1>4. CASE UNCHANGED vars
  BY <1>4 DEF vars, control, device, DeviceInv, TypeOK, ControlInv, ResidueInv,
              StreamIntegrity
<1>5. QED BY <1>1, <1>2, <1>3, <1>4, ControlStep DEF Next

(* The types, the recording state, the bound on what is buffered and the   *)
(* integrity of the stream hold together in every state of the device.     *)
THEOREM DeviceInvariant == Spec => []DeviceInv
BY DeviceInit, DeviceStep, PTL DEF Spec

(* The variables keep their types: the buffer's rate and channel count are *)
(* unset or those of the sink, whatever the order of calls.                *)
THEOREM TypeCorrect == Spec => []TypeOK
<1>1. DeviceInv => TypeOK
  BY DEF DeviceInv
<1>2. QED BY <1>1, DeviceInvariant, PTL

(* No byte is lost, repeated or reordered between the sink's chunks and    *)
(* the blocks handed to the engine's buffer.                               *)
THEOREM BytesPreserved == Spec => []StreamIntegrity
<1>1. DeviceInv => StreamIntegrity
  BY DEF DeviceInv
<1>2. QED BY <1>1, DeviceInvariant, PTL

(* Less than 10 ms of sound is buffered between two writes.                *)
THEOREM DelayBounded == Spec => []ResidueBounded
<1>1. DeviceInv => ResidueBounded
  BY DEF DeviceInv, ResidueInv, ResidueBounded
<1>2. QED BY <1>1, DeviceInvariant, PTL

--------------------------------------------------------------------------------
(* When the engine settles the channels before it records, recording       *)
(* implies a channel count: it is never reset to 0.                        *)
NegotiatedInv == (doRecord => recChannels # 0) /\ io # "fault"

(* Such an engine never makes write() divide by zero or loop on blocks of  *)
(* no bytes.                                                               *)
THEOREM NoFaultWhenNegotiated ==
  ASSUME EngineNegotiatesFirst
  PROVE  Spec => []NoArithmeticFault
<1>1. Init => NegotiatedInv
  BY DEF Init, NegotiatedInv
<1>2. DeviceInv /\ NegotiatedInv /\ [Next]_vars => NegotiatedInv'
  <2> SUFFICES ASSUME DeviceInv, NegotiatedInv, [Next]_vars PROVE NegotiatedInv'
    OBVIOUS
  <2> USE DEF NegotiatedInv, control, device
  <2>1. ASSUME NEW n \in WriteSizes, WriteIgnored(n) PROVE NegotiatedInv'
    BY <2>1 DEF WriteIgnored
  <2>2. ASSUME NEW n \in WriteSizes, WriteBegin(n) PROVE NegotiatedInv'
    BY <2>2 DEF WriteBegin
  <2>3. ASSUME NEW n \in WriteSizes, WriteDividesByZero(n) PROVE NegotiatedInv'
    BY <2>3 DEF WriteDividesByZero, BytesPerSample, DeviceInv, TypeOK
  <2>4. CASE DrainBlock
    BY <2>4 DEF DrainBlock
  <2>5. CASE WriteEnd
    BY <2>5 DEF WriteEnd
  <2>6. CASE SetStereoRecording
    BY <2>6 DEF SetStereoRecording
  <2>7. CASE InitRecording
    BY <2>7 DEF InitRecording
  <2>8. CASE EngineStarts
    BY <2>8, EngineNegotiatesFirst DEF EngineStarts, StartRecording
  <2>9. CASE StopRecording
    BY <2>9 DEF StopRecording
  <2>10. ASSUME NEW registered \in BOOLEAN, RegisterAudioCallback(registered)
         PROVE  NegotiatedInv'
    BY <2>10 DEF RegisterAudioCallback
  <2>11. CASE UNCHANGED vars
    BY <2>11 DEF vars
  <2>12. QED BY <2>1, <2>2, <2>3, <2>4, <2>5, <2>6, <2>7, <2>8, <2>9, <2>10, <2>11
             DEF Next
<1>3. DeviceInv /\ NegotiatedInv => NoArithmeticFault
  BY SizesDuringWrite, BlockArithmetic
     DEF DeviceInv, NegotiatedInv, NoArithmeticFault
<1>4. QED BY <1>1, <1>2, <1>3, DeviceInvariant, PTL DEF Spec

(* Nothing is delivered once StopRecording has returned.                   *)
THEOREM StopIsFinal == Spec => NoDeliveryAfterStop
<1>1. DeviceInv /\ [Next]_vars => [received' # received => doRecord]_vars
  <2> SUFFICES ASSUME DeviceInv, Next, received' # received PROVE doRecord
    BY DEF vars
  <2>1. DrainBlock
    BY DEF Next, WriteIgnored, WriteBegin, WriteDividesByZero, WriteEnd,
           SetStereoRecording, InitRecording, EngineStarts, StartRecording,
           StopRecording, RegisterAudioCallback, device
  <2>2. QED BY <2>1 DEF DrainBlock, DeviceInv, ControlInv
<1>2. QED BY <1>1, DeviceInvariant, PTL DEF Spec, NoDeliveryAfterStop

--------------------------------------------------------------------------------
(* Appending a block to a list of blocks (the library's facts).            *)
LEMMA AppendedBlock ==
  \A s \in Seq(Seq(Nat)), b \in Seq(Nat) :
    /\ Len(s) \in Nat /\ Len(Append(s, b)) = Len(s) + 1
    /\ \A i \in 1 .. Len(s) : Append(s, b)[i] = s[i]
    /\ Append(s, b)[Len(s) + 1] = b
BY AppendProperties, LenProperties

(* A piece of the first, and the whole of the second, of two sequences.    *)
LEMMA PieceOfConcat ==
  ASSUME NEW s \in Seq(Nat), NEW t \in Seq(Nat), t # <<>>
  PROVE  /\ \A m, n \in 1 .. Len(s) : SubSeq(s \o t, m, n) = SubSeq(s, m, n)
         /\ SubSeq(s \o t, Len(s) + 1, Len(s) + Len(t)) = t
<1>1. \A m, n \in 1 .. Len(s) : SubSeq(s \o t, m, n) = SubSeq(s, m, n)
  BY SubSeqOfConcat1
<1>2. Len(s) \in Nat /\ Len(t) \in Nat \ {0}
  BY LenProperties, EmptySeq
<1>3. /\ Len(s) + 1 \in Len(s) + 1 .. Len(s) + Len(t)
      /\ Len(s) + Len(t) \in Len(s) + 1 .. Len(s) + Len(t)
      /\ Len(s) + 1 - Len(s) = 1 /\ Len(s) + Len(t) - Len(s) = Len(t)
  BY <1>2
<1>4. SubSeq(s \o t, Len(s) + 1, Len(s) + Len(t))
        = SubSeq(t, Len(s) + 1 - Len(s), Len(s) + Len(t) - Len(s))
  BY <1>3, SubSeqOfConcat2
<1>5. SubSeq(t, 1, Len(t)) = t
  BY SubSeqFull
<1>6. QED BY <1>1, <1>3, <1>4, <1>5

(* The i-th of n blocks lies within the n blocks.                          *)
LEMMA BlockWithin ==
  ASSUME NEW n \in Nat, NEW size \in Nat \ {0}, NEW i \in 1 .. n
  PROVE  (i - 1) * size + 1 \in 1 .. n * size /\ i * size \in 1 .. n * size
<1>1. PICK before \in Nat : i = before + 1
  <2>1. i - 1 \in Nat /\ i = (i - 1) + 1
    OBVIOUS
  <2>2. QED BY <2>1
<1>2. PICK after \in Nat : n = i + after
  <2>1. n - i \in Nat /\ n = i + (n - i)
    OBVIOUS
  <2>2. QED BY <2>1
<1>3. before * size \in Nat /\ after * size \in Nat
  BY <1>1, <1>2
<1>4. /\ (i - 1) * size = before * size
      /\ i * size = before * size + size
      /\ n * size = before * size + size + after * size
  BY <1>1, <1>2
<1>5. QED BY <1>3, <1>4

(* A block is counted no sooner than its bytes.                            *)
LEMMA BlocksWithinBytes ==
  ASSUME NEW n \in Nat, NEW size \in Nat \ {0}
  PROVE  n <= n * size /\ (n + 1) * size = n * size + size
<1>1. PICK more \in Nat : size = more + 1
  <2>1. size - 1 \in Nat /\ size = (size - 1) + 1
    OBVIOUS
  <2>2. QED BY <2>1
<1>2. n * more \in Nat /\ n * size = n * more + n
  BY <1>1
<1>3. (n + 1) * size = n * size + size
  BY <1>1
<1>4. QED BY <1>2, <1>3

(* The bytes of a sequence come in the order of the stream.                *)
Rising(s) == \A i, j \in 1 .. Len(s) : i < j => s[i] < s[j]

(* A concatenation rises when both its parts do and the second follows.    *)
LEMMA RisingConcat ==
  ASSUME NEW s \in Seq(Nat), NEW t \in Seq(Nat), Rising(s), Rising(t),
         \A i \in 1 .. Len(s), j \in 1 .. Len(t) : s[i] < t[j]
  PROVE  Rising(s \o t)
<1>1. /\ Len(s) \in Nat /\ Len(t) \in Nat /\ Len(s \o t) = Len(s) + Len(t)
      /\ \A i \in 1 .. Len(s) + Len(t) :
           (s \o t)[i] = IF i <= Len(s) THEN s[i] ELSE t[i - Len(s)]
  BY ConcatProperties, LenProperties
<1>2. SUFFICES ASSUME NEW i \in 1 .. Len(s) + Len(t), NEW j \in 1 .. Len(s) + Len(t),
                      i < j
               PROVE  (s \o t)[i] < (s \o t)[j]
  BY <1>1 DEF Rising
<1>3. CASE j <= Len(s)
  <2>1. i \in 1 .. Len(s) /\ j \in 1 .. Len(s)
    BY <1>1, <1>2, <1>3
  <2>2. (s \o t)[i] = s[i] /\ (s \o t)[j] = s[j]
    BY <1>1, <1>3, <2>1
  <2>3. QED BY <1>2, <2>1, <2>2 DEF Rising
<1>4. CASE i <= Len(s) /\ ~(j <= Len(s))
  <2>1. i \in 1 .. Len(s) /\ j - Len(s) \in 1 .. Len(t)
    BY <1>1, <1>4
  <2>2. (s \o t)[i] = s[i] /\ (s \o t)[j] = t[j - Len(s)]
    BY <1>1, <1>4
  <2>3. QED BY <2>1, <2>2
<1>5. CASE ~(i <= Len(s))
  <2>1. /\ i - Len(s) \in 1 .. Len(t) /\ j - Len(s) \in 1 .. Len(t)
        /\ i - Len(s) < j - Len(s)
    BY <1>1, <1>2, <1>5
  <2>2. (s \o t)[i] = t[i - Len(s)] /\ (s \o t)[j] = t[j - Len(s)]
    BY <1>1, <1>2, <1>5
  <2>3. QED BY <2>1, <2>2 DEF Rising
<1>6. QED BY <1>1, <1>3, <1>4, <1>5

(* The parts of a rising concatenation rise, and the second follows.       *)
LEMMA RisingParts ==
  ASSUME NEW s \in Seq(Nat), NEW t \in Seq(Nat), Rising(s \o t)
  PROVE  /\ Rising(s)
         /\ Rising(t)
         /\ \A i \in 1 .. Len(s), j \in 1 .. Len(t) : s[i] < t[j]
<1>1. /\ Len(s) \in Nat /\ Len(t) \in Nat /\ Len(s \o t) = Len(s) + Len(t)
      /\ \A i \in 1 .. Len(s) + Len(t) :
           (s \o t)[i] = IF i <= Len(s) THEN s[i] ELSE t[i - Len(s)]
  BY ConcatProperties, LenProperties
<1>2. \A i \in 1 .. Len(s) : i \in 1 .. Len(s) + Len(t) /\ (s \o t)[i] = s[i]
  BY <1>1
<1>3. \A j \in 1 .. Len(t) :
        Len(s) + j \in 1 .. Len(s) + Len(t) /\ (s \o t)[Len(s) + j] = t[j]
  <2> TAKE j \in 1 .. Len(t)
  <2>1. /\ Len(s) + j \in 1 .. Len(s) + Len(t) /\ ~(Len(s) + j <= Len(s))
        /\ Len(s) + j - Len(s) = j
    BY <1>1
  <2>2. QED BY <1>1, <2>1
<1>4. Rising(s)
  BY <1>1, <1>2 DEF Rising
<1>5. Rising(t)
  <2> SUFFICES ASSUME NEW i \in 1 .. Len(t), NEW j \in 1 .. Len(t), i < j
               PROVE  t[i] < t[j]
    BY DEF Rising
  <2>1. /\ Len(s) + i < Len(s) + j
        /\ Len(s) + i \in 1 .. Len(s \o t) /\ Len(s) + j \in 1 .. Len(s \o t)
    BY <1>1
  <2>2. (s \o t)[Len(s) + i] < (s \o t)[Len(s) + j]
    BY <2>1 DEF Rising
  <2>3. (s \o t)[Len(s) + i] = t[i] /\ (s \o t)[Len(s) + j] = t[j]
    BY <1>3
  <2>4. QED BY <2>2, <2>3
<1>6. ASSUME NEW i \in 1 .. Len(s), NEW j \in 1 .. Len(t) PROVE s[i] < t[j]
  <2>1. i < Len(s) + j
    BY <1>1
  <2>2. QED BY <1>1, <1>2, <1>3, <2>1 DEF Rising
<1>7. QED BY <1>4, <1>5, <1>6

(* A chunk continues the stream where it was.                              *)
LEMMA ChunkRises ==
  ASSUME NEW n \in WriteSizes, offered \in Nat
  PROVE  /\ Rising(Chunk(n))
         /\ \A i \in 1 .. Len(Chunk(n)) :
              offered < Chunk(n)[i] /\ Chunk(n)[i] <= offered + n
<1>1. n \in Nat
  OBVIOUS
<1>2. Len(Chunk(n)) = n /\ \A i \in 1 .. n : Chunk(n)[i] = offered + i
  BY <1>1 DEF Chunk
<1>3. QED BY <1>1, <1>2 DEF Rising

--------------------------------------------------------------------------------
(* What is handed over is whole blocks; the buffer's block is one of them  *)
(* and comes before all that is still to be handed over; the block that    *)
(* the transport got last is the buffer's, or comes before it.             *)
BufferInv ==
  recBuffer # <<>> =>
    /\ WasHandedOver(recBuffer)
    /\ recBuffer[1] <= recBuffer[Len(recBuffer)]
    /\ recBuffer[Len(recBuffer)] <= offered
    /\ \A i \in 1 .. Len(remaining) : recBuffer[Len(recBuffer)] < remaining[i]
LastReceivedInv ==
  received # <<>> =>
    /\ recBuffer # <<>>
    /\ \/ received[Len(received)] = recBuffer
       \/ Precedes(received[Len(received)], recBuffer)
OrderInv ==
  /\ Rising(remaining)
  /\ \A i \in 1 .. Len(remaining) : remaining[i] <= offered
  /\ \E m \in Nat : Len(handed) = m * FullBlock
  /\ BufferInv
  /\ LastReceivedInv
  /\ ReceivedInOrder

(* A block that was handed over stays one of those handed over.            *)
LEMMA HandedOverForGood ==
  ASSUME DeviceInv, NEW more \in Seq(Nat), more # <<>>, handed' = handed \o more,
         NEW block, WasHandedOver(block)
  PROVE  WasHandedOver(block)'
<1>1. PICK k \in 1 .. Len(handed) :
        /\ k * FullBlock <= Len(handed)
        /\ block = SubSeq(handed, (k - 1) * FullBlock + 1, k * FullBlock)
  BY DEF WasHandedOver
<1>2. /\ handed \in Seq(Nat) /\ Len(handed) \in Nat
      /\ Len(handed') = Len(handed) + Len(more) /\ Len(more) \in Nat
  BY ConcatNat, LenProperties DEF DeviceInv, TypeOK
<1>3. k \in 1 .. Len(handed') /\ k \in Nat /\ k \in 1 .. k
  BY <1>1, <1>2
<1>4. /\ (k - 1) * FullBlock + 1 \in 1 .. k * FullBlock
      /\ k * FullBlock \in 1 .. k * FullBlock
      /\ k * FullBlock \in Nat
  <2>1. FullBlock \in Nat \ {0}
    BY BlockArithmetic
  <2>2. \A size \in Nat \ {0} : k * size \in Nat
    BY <1>3
  <2>3. QED BY <1>3, <2>1, <2>2, BlockWithin, Zenon
<1>5. (k - 1) * FullBlock + 1 \in 1 .. Len(handed) /\ k * FullBlock \in 1 .. Len(handed)
  BY <1>1, <1>2, <1>4
<1>6. SubSeq(handed', (k - 1) * FullBlock + 1, k * FullBlock) = block
  <2>1. \A m, n \in 1 .. Len(handed) : SubSeq(handed', m, n) = SubSeq(handed, m, n)
    BY <1>2, PieceOfConcat
  <2>2. QED BY <1>1, <1>5, <2>1, Zenon
<1>7. k * FullBlock <= Len(handed')
  BY <1>1, <1>2, <1>4
<1>8. FullBlock' = FullBlock /\ block' = block
  BY DEF FullBlock
<1>9. QED BY <1>3, <1>6, <1>7, <1>8 DEF WasHandedOver

(* A full block appended to whole blocks is the last of one block more.    *)
LEMMA OneMoreHandedOver ==
  ASSUME DeviceInv, NEW block \in Seq(Nat), Len(block) = FullBlock,
         handed' = handed \o block,
         \E m \in Nat : Len(handed) = m * FullBlock
  PROVE  /\ WasHandedOver(block)'
         /\ (\E m \in Nat : Len(handed) = m * FullBlock)'
<1>1. PICK m \in Nat : Len(handed) = m * FullBlock
  OBVIOUS
<1>2. FullBlock \in Nat \ {0} /\ block # <<>> /\ FullBlock' = FullBlock
  BY BlockArithmetic, EmptySeq DEF FullBlock
<1>3. PICK n \in Nat :
        /\ n * FullBlock = Len(handed) + FullBlock
        /\ n <= n * FullBlock
        /\ (n - 1) * FullBlock = Len(handed)
        /\ n >= 1
  <2>1. m + 1 \in Nat /\ m + 1 - 1 = m /\ m + 1 >= 1
    OBVIOUS
  <2>2. m <= m * FullBlock /\ (m + 1) * FullBlock = m * FullBlock + FullBlock
    BY <1>1, <1>2, BlocksWithinBytes
  <2>3. m + 1 <= (m + 1) * FullBlock
    BY <1>2, <2>1, BlocksWithinBytes
  <2>4. (m + 1 - 1) * FullBlock = Len(handed)
    BY <1>1, <2>1
  <2> WITNESS m + 1 \in Nat
  <2>5. QED BY <1>1, <2>1, <2>2, <2>3, <2>4
<1>4. /\ handed \in Seq(Nat)
      /\ Len(handed') = n * FullBlock
      /\ Len(handed') = Len(handed) + FullBlock
      /\ Len(handed') \in Nat
  BY <1>2, <1>3, ConcatNat, LenProperties DEF DeviceInv, TypeOK
<1>5. n \in 1 .. Len(handed') /\ n * FullBlock <= Len(handed')
  BY <1>3, <1>4
<1>6. block = SubSeq(handed', Len(handed) + 1, Len(handed) + FullBlock)
  BY <1>2, <1>4, PieceOfConcat
<1>7. block = SubSeq(handed', (n - 1) * FullBlock + 1, n * FullBlock)
  BY <1>3, <1>6, Zenon
<1>8. block' = block
  OBVIOUS
<1>9. QED BY <1>2, <1>4, <1>5, <1>7, <1>8 DEF WasHandedOver

LEMMA OrderInit == Init => OrderInv
<1> SUFFICES ASSUME Init PROVE OrderInv
  OBVIOUS
<1>1. remaining = <<>> /\ handed = <<>> /\ recBuffer = <<>> /\ received = <<>>
  BY DEF Init
<1>2. Rising(remaining) /\ \A i \in 1 .. Len(remaining) : remaining[i] <= offered
  BY <1>1 DEF Rising
<1>3. \E m \in Nat : Len(handed) = m * FullBlock
  <2>1. Len(handed) = 0 * FullBlock
    BY <1>1, BlockArithmetic
  <2>2. QED BY <2>1
<1>4. BufferInv /\ LastReceivedInv /\ ReceivedInOrder
  BY <1>1 DEF BufferInv, LastReceivedInv, ReceivedInOrder
<1>5. QED BY <1>2, <1>3, <1>4 DEF OrderInv

(* Nothing is handed over or delivered.                                    *)
LEMMA SameBlocksInOrder ==
  ASSUME ReceivedInOrder, UNCHANGED <<handed, received>>
  PROVE  ReceivedInOrder'
<1>1. handed' = handed /\ received' = received /\ FullBlock' = FullBlock
  BY DEF FullBlock
<1>2. QED BY <1>1, Zenon DEF ReceivedInOrder, WasHandedOver, Precedes

(* A chunk continues the stream: it comes after all that is buffered.      *)
LEMMA OrderWriteBegin ==
  ASSUME DeviceInv, OrderInv, NEW n \in WriteSizes, WriteBegin(n)
  PROVE  OrderInv'
<1>1. /\ remaining' = remaining \o Chunk(n) /\ offered' = offered + n
      /\ UNCHANGED <<handed, recBuffer, received>> /\ n \in Nat
      /\ offered \in Nat /\ remaining \in Seq(Nat) /\ Chunk(n) \in Seq(Nat)
  BY ChunkType DEF WriteBegin, Offer, device, DeviceInv, TypeOK
<1>2. /\ Rising(Chunk(n))
      /\ \A i \in 1 .. Len(Chunk(n)) :
           offered < Chunk(n)[i] /\ Chunk(n)[i] <= offered + n
      /\ Rising(remaining)
      /\ \A i \in 1 .. Len(remaining) : remaining[i] <= offered
  BY <1>1, ChunkRises DEF OrderInv
<1>3. /\ Len(remaining) \in Nat /\ Len(Chunk(n)) \in Nat
      /\ \A i \in 1 .. Len(remaining) : remaining[i] \in Nat
      /\ \A i \in 1 .. Len(Chunk(n)) : Chunk(n)[i] \in Nat
      /\ Len(remaining') = Len(remaining) + Len(Chunk(n))
      /\ \A i \in 1 .. Len(remaining) + Len(Chunk(n)) :
           remaining'[i] = IF i <= Len(remaining) THEN remaining[i]
                           ELSE Chunk(n)[i - Len(remaining)]
  <2>1. Len(remaining) \in Nat /\ Len(Chunk(n)) \in Nat
    BY <1>1, LenProperties
  <2>2. /\ \A i \in 1 .. Len(remaining) : remaining[i] \in Nat
        /\ \A i \in 1 .. Len(Chunk(n)) : Chunk(n)[i] \in Nat
    BY <1>1, ElementOfSeq, Zenon
  <2>3. /\ Len(remaining \o Chunk(n)) = Len(remaining) + Len(Chunk(n))
        /\ \A i \in 1 .. Len(remaining) + Len(Chunk(n)) :
             (remaining \o Chunk(n))[i]
               = IF i <= Len(remaining) THEN remaining[i]
                 ELSE Chunk(n)[i - Len(remaining)]
    BY <1>1, ConcatProperties, Zenon
  <2>4. QED BY <1>1, <2>1, <2>2, <2>3, Zenon
<1>4. \A i \in 1 .. Len(remaining') :
        \/ i \in 1 .. Len(remaining) /\ remaining'[i] = remaining[i]
        \/ \E j \in 1 .. Len(Chunk(n)) : remaining'[i] = Chunk(n)[j]
  <2> TAKE i \in 1 .. Len(remaining')
  <2>1. CASE i <= Len(remaining)
    BY <1>3, <2>1
  <2>2. CASE ~(i <= Len(remaining))
    <3>1. /\ i - Len(remaining) \in 1 .. Len(Chunk(n))
          /\ remaining'[i] = Chunk(n)[i - Len(remaining)]
      BY <1>3, <2>2
    <3>2. QED BY <3>1
  <2>3. QED BY <2>1, <2>2
<1>5. Rising(remaining')
  <2>1. \A i \in 1 .. Len(remaining), j \in 1 .. Len(Chunk(n)) :
          remaining[i] < Chunk(n)[j]
    <3> TAKE i \in 1 .. Len(remaining), j \in 1 .. Len(Chunk(n))
    <3>1. remaining[i] <= offered /\ remaining[i] \in Nat
      BY <1>2, <1>3
    <3>2. offered < Chunk(n)[j] /\ Chunk(n)[j] \in Nat
      BY <1>2, <1>3
    <3>3. \A a, b, c \in Nat : a <= b /\ b < c => a < c
      OBVIOUS
    <3>4. QED BY <1>1, <3>1, <3>2, <3>3, Zenon
  <2>2. QED BY <1>1, <1>2, <2>1, RisingConcat
<1>6. \A i \in 1 .. Len(remaining') : remaining'[i] <= offered'
  BY <1>1, <1>2, <1>3, <1>4
<1>7. BufferInv'
  <2> SUFFICES ASSUME recBuffer # <<>> PROVE BufferInv'
    BY <1>1 DEF BufferInv
  <2> DEFINE last == recBuffer[Len(recBuffer)]
  <2>1. /\ WasHandedOver(recBuffer) /\ recBuffer[1] <= last /\ last <= offered
        /\ \A i \in 1 .. Len(remaining) : last < remaining[i]
    BY DEF OrderInv, BufferInv
  <2>2. last \in Nat
    BY LenProperties, ElementOfSeq, EmptySeq DEF DeviceInv, TypeOK
  <2> HIDE DEF last
  <2>3. last <= offered'
    BY <1>1, <2>1, <2>2
  <2>4. ASSUME NEW i \in 1 .. Len(remaining') PROVE last < remaining'[i]
    <3>1. CASE i \in 1 .. Len(remaining) /\ remaining'[i] = remaining[i]
      BY <2>1, <3>1
    <3>2. ASSUME NEW j \in 1 .. Len(Chunk(n)), remaining'[i] = Chunk(n)[j]
          PROVE  last < remaining'[i]
      <4>1. offered < Chunk(n)[j] /\ Chunk(n)[j] \in Nat
        BY <1>2, <1>3
      <4>2. QED BY <1>1, <2>1, <2>2, <3>2, <4>1
    <3>3. QED BY <1>4, <3>1, <3>2
  <2>5. FullBlock' = FullBlock
    BY DEF FullBlock
  <2>6. WasHandedOver(recBuffer)'
    BY <1>1, <2>1, <2>5 DEF WasHandedOver
  <2>7. QED BY <1>1, <2>1, <2>3, <2>4, <2>6 DEF BufferInv, last
<1>8. (\E m \in Nat : Len(handed) = m * FullBlock)'
  BY <1>1 DEF OrderInv, FullBlock
<1>9. ReceivedInOrder'
  BY <1>1, SameBlocksInOrder DEF OrderInv
<1>10. LastReceivedInv'
  BY <1>1 DEF OrderInv, LastReceivedInv, Precedes
<1>11. QED BY <1>5, <1>6, <1>7, <1>8, <1>9, <1>10 DEF OrderInv, Rising

(* What the transport has got, and gets next, once the buffer holds a      *)
(* block that was handed over and does not come before the last one.       *)
LEMMA DeliverInOrder ==
  ASSUME DeviceInv, ReceivedInOrder, NEW block \in Seq(Nat), WasHandedOver(block)',
         \A b : WasHandedOver(b) => WasHandedOver(b)',
         received' = Append(received, block),
         received # <<>> =>
           \/ Precedes(received[Len(received)], block)
           \/ BufferMayFail /\ received[Len(received)] = block
  PROVE  ReceivedInOrder'
<1>1. /\ received \in Seq(Seq(Nat)) /\ Len(received) \in Nat
      /\ Len(received') = Len(received) + 1
      /\ \A i \in 1 .. Len(received) : received'[i] = received[i]
      /\ received'[Len(received) + 1] = block
  BY AppendedBlock DEF DeviceInv, TypeOK
<1>2. ASSUME NEW i \in 1 .. Len(received) + 1 PROVE WasHandedOver(received[i])'
  <2>1. CASE i = Len(received) + 1
    BY <1>1, <2>1 DEF WasHandedOver
  <2>2. CASE i # Len(received) + 1
    <3>1. i \in 1 .. Len(received) /\ WasHandedOver(received[i])
      BY <1>1, <2>2 DEF ReceivedInOrder
    <3>2. PICK b : b = received[i]
      OBVIOUS
    <3>3. received'[i] = b
      BY <1>1, <3>1, <3>2
    <3>4. WasHandedOver(b)'
      BY <3>1, <3>2
    <3>5. QED BY <3>3, <3>4, Zenon DEF WasHandedOver
  <2>3. QED BY <2>1, <2>2
<1>3. ASSUME NEW i \in 1 .. Len(received)
      PROVE  \/ Precedes(received'[i], received'[i + 1])
             \/ BufferMayFail /\ received'[i] = received'[i + 1]
  <2>1. CASE i = Len(received)
    <3>1. received # <<>>
      BY <1>1, <2>1
    <3>2. QED BY <1>1, <2>1, <3>1
  <2>2. CASE i # Len(received)
    <3>1. i \in 1 .. Len(received) - 1 /\ i + 1 \in 1 .. Len(received)
      BY <1>1, <2>2
    <3>2. QED BY <1>1, <3>1 DEF ReceivedInOrder
  <2>3. QED BY <2>1, <2>2
<1>4. (\A i \in 1 .. Len(received) : WasHandedOver(received[i]))'
  BY <1>1, <1>2 DEF WasHandedOver
<1>5. (\A i \in 1 .. Len(received) - 1 :
         \/ Precedes(received[i], received[i + 1])
         \/ BufferMayFail /\ received[i] = received[i + 1])'
  <2>1. Len(received') - 1 = Len(received)
    BY <1>1
  <2>2. QED BY <1>3, <2>1 DEF Precedes
<1>6. QED BY <1>4, <1>5 DEF ReceivedInOrder

(* A block that was handed over is a whole one.                            *)
LEMMA HandedOverIsWhole ==
  ASSUME DeviceInv, NEW block, WasHandedOver(block)
  PROVE  block \in Seq(Nat) /\ Len(block) = FullBlock
<1>1. PICK k \in 1 .. Len(handed) :
        /\ k * FullBlock <= Len(handed)
        /\ block = SubSeq(handed, (k - 1) * FullBlock + 1, k * FullBlock)
  BY DEF WasHandedOver
<1>2. handed \in Seq(Nat) /\ Len(handed) \in Nat /\ FullBlock \in Nat \ {0}
  BY LenProperties, BlockArithmetic DEF DeviceInv, TypeOK
<1>3. PICK from \in Nat : from = (k - 1) * FullBlock
  <2>1. k - 1 \in Nat
    BY <1>1, <1>2
  <2>2. (k - 1) * FullBlock \in Nat
    BY <1>2, <2>1
  <2>3. QED BY <2>2
<1>4. k * FullBlock = from + FullBlock
  <2>1. k - 1 \in Nat /\ (k - 1) + 1 = k
    BY <1>1, <1>2
  <2>2. ((k - 1) + 1) * FullBlock = from + FullBlock
    BY <1>2, <1>3, <2>1, BlocksWithinBytes
  <2>3. QED BY <2>1, <2>2
<1>5. from + FullBlock <= Len(handed) /\ block = SubSeq(handed, from + 1, from + FullBlock)
  BY <1>1, <1>3, <1>4
<1>6. PICK first \in Int, final \in Int :
        first = from + 1 /\ final = from + FullBlock
  BY <1>2
<1>7. \A i \in first .. final : handed[i] \in Nat
  <2>1. \A i \in first .. final : i \in 1 .. Len(handed)
    BY <1>2, <1>5, <1>6
  <2>2. QED BY <1>2, <2>1, ElementOfSeq
<1>8. first <= final /\ final - first + 1 = FullBlock
  BY <1>2, <1>6
<1>9. /\ SubSeq(handed, first, final) \in Seq(Nat)
      /\ Len(SubSeq(handed, first, final)) = FullBlock
  BY <1>7, <1>8, SubSeqProperties
<1>10. QED BY <1>5, <1>6, <1>9

(* A block leaves the front of the buffered bytes: it comes before all     *)
(* that stays.                                                             *)
LEMMA FrontComesFirst ==
  ASSUME NEW block \in Seq(Nat), NEW rest \in Seq(Nat), block # <<>>,
         NEW bound \in Nat, Rising(block \o rest),
         \A i \in 1 .. Len(block \o rest) : (block \o rest)[i] <= bound
  PROVE  /\ Rising(rest) /\ \A i \in 1 .. Len(rest) : rest[i] <= bound
         /\ block[1] <= block[Len(block)] /\ block[Len(block)] <= bound
         /\ \A i \in 1 .. Len(rest) : block[Len(block)] < rest[i]
         /\ 1 \in 1 .. Len(block \o rest) /\ (block \o rest)[1] = block[1]
         /\ \A i \in 1 .. Len(rest) :
              \E j \in 1 .. Len(block \o rest) : (block \o rest)[j] = rest[i]
<1>1. /\ Len(block) \in Nat \ {0} /\ Len(rest) \in Nat
      /\ 1 \in 1 .. Len(block) /\ Len(block) \in 1 .. Len(block)
      /\ block[1] \in Nat /\ block[Len(block)] \in Nat
  BY LenProperties, EmptySeq, ElementOfSeq
<1>2. /\ Rising(block) /\ Rising(rest)
      /\ \A i \in 1 .. Len(block), j \in 1 .. Len(rest) : block[i] < rest[j]
  BY RisingParts
<1>3. /\ Len(block \o rest) = Len(block) + Len(rest)
      /\ \A i \in 1 .. Len(block) + Len(rest) :
           (block \o rest)[i] = IF i <= Len(block) THEN block[i] ELSE rest[i - Len(block)]
  BY ConcatProperties
<1>4. \A i \in 1 .. Len(block) : (block \o rest)[i] = block[i] /\ block[i] <= bound
  BY <1>1, <1>3
<1>5. ASSUME NEW i \in 1 .. Len(rest)
      PROVE  \E j \in 1 .. Len(block \o rest) : (block \o rest)[j] = rest[i]
  <2>1. /\ Len(block) + i \in 1 .. Len(block \o rest)
        /\ ~(Len(block) + i <= Len(block)) /\ Len(block) + i - Len(block) = i
    BY <1>1, <1>3
  <2>2. (block \o rest)[Len(block) + i] = rest[i]
    BY <1>3, <2>1
  <2>3. QED BY <2>1, <2>2
<1>6. block[1] <= block[Len(block)]
  <2>1. CASE Len(block) = 1
    BY <1>1, <2>1
  <2>2. CASE Len(block) # 1
    <3>1. 1 < Len(block)
      <4>1. \A n \in Nat \ {0} : n # 1 => 1 < n
        OBVIOUS
      <4>2. QED BY <1>1, <2>2, <4>1, Zenon
    <3>2. block[1] < block[Len(block)]
      BY <1>1, <1>2, <3>1, Zenon DEF Rising
    <3>3. QED BY <1>1, <3>2
  <2>3. QED BY <2>1, <2>2
<1>7. \A i \in 1 .. Len(rest) : rest[i] <= bound
  BY <1>5
<1>8. 1 \in 1 .. Len(block \o rest) /\ (block \o rest)[1] = block[1]
  BY <1>1, <1>3, <1>4
<1>9. QED BY <1>1, <1>2, <1>4, <1>5, <1>6, <1>7, <1>8

(* The block that leaves comes after what the buffer held, which the       *)
(* transport may have got, so that it is next in order.                    *)
LEMMA OrderDrainBlock ==
  ASSUME DeviceInv, OrderInv, DrainBlock
  PROVE  OrderInv'
<1>1. PICK block \in Seq(Nat), rest \in Seq(Nat) : block = FirstBlock /\ rest = Rest
  BY DrainTakesFullBlock
<1>2. PICK held \in Seq(Nat) : held = recBuffer
  BY DEF DeviceInv, TypeOK
<1>3. PICK now \in Seq(Nat) : now = recBuffer'
  BY <1>1, <1>2 DEF DrainBlock
<1>4. /\ handed' = handed \o block /\ remaining' = rest /\ offered' = offered
      /\ now = block \/ (BufferMayFail /\ now = held)
      /\ received' = IF callback /\ now # <<>> THEN Append(received, now) ELSE received
  BY <1>1, <1>2, <1>3 DEF DrainBlock
<1>5. /\ Len(block) = FullBlock /\ block # <<>> /\ Len(block) \in 1 .. Len(block)
      /\ block \o rest = remaining
  BY <1>1, DrainTakesFullBlock, BlockArithmetic, EmptySeq
<1>6. /\ offered \in Nat /\ remaining \in Seq(Nat) /\ received \in Seq(Seq(Nat))
      /\ FullBlock' = FullBlock /\ FullBlock \in Nat \ {0}
  BY BlockArithmetic DEF DeviceInv, TypeOK, FullBlock
<1>7. /\ Rising(rest) /\ \A i \in 1 .. Len(rest) : rest[i] <= offered
      /\ block[1] <= block[Len(block)] /\ block[Len(block)] <= offered
      /\ \A i \in 1 .. Len(rest) : block[Len(block)] < rest[i]
      /\ 1 \in 1 .. Len(remaining) /\ remaining[1] = block[1]
      /\ \A i \in 1 .. Len(rest) : \E j \in 1 .. Len(remaining) : remaining[j] = rest[i]
  <2>1. /\ Rising(block \o rest)
        /\ \A i \in 1 .. Len(block \o rest) : (block \o rest)[i] <= offered
    BY <1>5 DEF OrderInv
  <2>2. /\ Rising(rest) /\ \A i \in 1 .. Len(rest) : rest[i] <= offered
        /\ block[1] <= block[Len(block)] /\ block[Len(block)] <= offered
        /\ \A i \in 1 .. Len(rest) : block[Len(block)] < rest[i]
        /\ 1 \in 1 .. Len(block \o rest) /\ (block \o rest)[1] = block[1]
        /\ \A i \in 1 .. Len(rest) :
             \E j \in 1 .. Len(block \o rest) : (block \o rest)[j] = rest[i]
    BY <1>5, <1>6, <2>1, FrontComesFirst, Zenon
  <2>3. QED BY <1>5, <2>2, Zenon
<1>8. WasHandedOver(block)' /\ (\E m \in Nat : Len(handed) = m * FullBlock)'
  BY <1>4, <1>5, OneMoreHandedOver DEF OrderInv
<1>9. \A b : WasHandedOver(b) => WasHandedOver(b)'
  BY <1>4, <1>5, HandedOverForGood
<1>10. held # <<>> =>
         /\ WasHandedOver(held)
         /\ held[1] <= held[Len(held)] /\ held[Len(held)] <= offered
         /\ \A i \in 1 .. Len(remaining) : held[Len(held)] < remaining[i]
         /\ held[1] \in Nat /\ held[Len(held)] \in Nat
  <2>1. held # <<>> => held[1] \in Nat /\ held[Len(held)] \in Nat
    BY LenProperties, ElementOfSeq, EmptySeq
  <2>2. QED BY <1>2, <2>1 DEF OrderInv, BufferInv
<1>11. BufferInv'
  <2>1. now # <<>> => WasHandedOver(now)'
    BY <1>4, <1>8, <1>9, <1>10
  <2>2. now # <<>> =>
          /\ now[1] <= now[Len(now)] /\ now[Len(now)] <= offered
          /\ \A i \in 1 .. Len(rest) : now[Len(now)] < rest[i]
    <3>1. CASE now = block
      BY <1>7, <3>1
    <3>2. CASE now = held
      BY <1>7, <1>10, <3>2
    <3>3. QED BY <1>4, <3>1, <3>2
  <2>3. recBuffer' # <<>> => WasHandedOver(recBuffer)'
    BY <1>3, <2>1 DEF WasHandedOver
  <2>4. QED BY <1>3, <1>4, <2>2, <2>3 DEF BufferInv
<1>12. received # <<>> /\ now # <<>> =>
         \/ Precedes(received[Len(received)], now)
         \/ BufferMayFail /\ received[Len(received)] = now
  <2> SUFFICES ASSUME received # <<>>, now # <<>>
               PROVE  \/ Precedes(received[Len(received)], now)
                      \/ BufferMayFail /\ received[Len(received)] = now
    OBVIOUS
  <2>1. PICK last : last = received[Len(received)]
    OBVIOUS
  <2>2. held # <<>> /\ (last = held \/ Precedes(last, held))
    BY <1>2, <2>1 DEF OrderInv, LastReceivedInv
  <2>3. CASE BufferMayFail /\ now = held
    BY <2>1, <2>2, <2>3
  <2>4. CASE now = block
    <3>1. held[Len(held)] < block[1] /\ block[1] \in Nat
      <4>1. remaining[1] \in Nat
        BY <1>6, <1>7, ElementOfSeq
      <4>2. held[Len(held)] < remaining[1]
        BY <1>7, <1>10, <2>2, Zenon
      <4>3. QED BY <1>7, <4>1, <4>2, Zenon
    <3>2. last[Len(last)] \in Nat
      <4>1. Len(received) \in 1 .. Len(received)
        BY <1>6, EmptySeq
      <4>2. WasHandedOver(last)
        BY <2>1, <4>1 DEF OrderInv, ReceivedInOrder
      <4>3. last \in Seq(Nat) /\ Len(last) \in 1 .. Len(last)
        BY <1>6, <4>2, HandedOverIsWhole
      <4>4. QED BY <4>3, ElementOfSeq
    <3>3. held[1] <= held[Len(held)] /\ held[1] \in Nat /\ held[Len(held)] \in Nat
      BY <1>10, <2>2
    <3>4. last = held => last[Len(last)] < block[1]
      BY <3>1
    <3>5. last[Len(last)] < held[1] => last[Len(last)] < block[1]
      <4>1. \A a, b, c, d \in Nat : a < b /\ b <= c /\ c < d => a < d
        OBVIOUS
      <4>2. QED BY <3>1, <3>2, <3>3, <4>1, Zenon
    <3>6. last[Len(last)] < block[1]
      BY <2>2, <3>4, <3>5 DEF Precedes
    <3>7. QED BY <2>1, <2>4, <3>6 DEF Precedes
  <2>5. QED BY <1>4, <2>3, <2>4
<1>13. CASE callback /\ now # <<>>
  <2>1. received' = Append(received, now)
    BY <1>4, <1>13
  <2>2. WasHandedOver(now)'
    BY <1>4, <1>8, <1>9, <1>10, <1>13
  <2>3. ReceivedInOrder'
    BY <1>9, <1>12, <1>13, <2>1, <2>2, DeliverInOrder DEF OrderInv
  <2>4. received'[Len(received')] = now
    BY <1>6, <2>1, AppendedBlock
  <2>5. LastReceivedInv'
    BY <1>3, <1>13, <2>4 DEF LastReceivedInv
  <2>6. QED BY <1>4, <1>7, <1>8, <1>11, <2>3, <2>5 DEF OrderInv, Rising
<1>14. CASE ~(callback /\ now # <<>>)
  <2>1. received' = received
    BY <1>4, <1>14
  <2>2. ReceivedInOrder'
    <3>1. (\A i \in 1 .. Len(received) : WasHandedOver(received[i]))'
      BY <1>9, <2>1 DEF OrderInv, ReceivedInOrder, WasHandedOver
    <3>2. QED BY <2>1, <3>1 DEF OrderInv, ReceivedInOrder, Precedes
  <2>3. LastReceivedInv'
    <3>1. received # <<>> => now # <<>>
      BY <1>2, <1>4, <1>5 DEF OrderInv, LastReceivedInv
    <3>2. QED BY <1>3, <1>12, <2>1, <3>1 DEF LastReceivedInv, Precedes
  <2>4. QED BY <1>4, <1>7, <1>8, <1>11, <2>2, <2>3 DEF OrderInv, Rising
<1>15. QED BY <1>13, <1>14

(* The steps that buffer, hand over and deliver nothing.                   *)
LEMMA OrderOtherStep ==
  ASSUME DeviceInv, OrderInv, offered' >= offered, offered' \in Nat,
         UNCHANGED <<remaining, handed, recBuffer, received>>
  PROVE  OrderInv'
<1>1. offered \in Nat /\ remaining \in Seq(Nat) /\ recBuffer \in Seq(Nat)
  BY DEF DeviceInv, TypeOK
<1>2. (\A i \in 1 .. Len(remaining) : remaining[i] <= offered)'
  <2>1. \A i \in 1 .. Len(remaining) : remaining[i] \in Nat
    BY <1>1, ElementOfSeq
  <2>2. QED BY <1>1, <2>1 DEF OrderInv
<1>3. BufferInv'
  <2>1. recBuffer # <<>> => WasHandedOver(recBuffer)'
    BY DEF OrderInv, BufferInv, WasHandedOver, FullBlock
  <2>2. recBuffer # <<>> => recBuffer[Len(recBuffer)] \in Nat
    BY <1>1, LenProperties, ElementOfSeq, EmptySeq
  <2>3. QED BY <1>1, <2>1, <2>2 DEF OrderInv, BufferInv
<1>4. (\E m \in Nat : Len(handed) = m * FullBlock)'
  BY DEF OrderInv, FullBlock
<1>5. ReceivedInOrder'
  BY SameBlocksInOrder DEF OrderInv
<1>6. QED BY <1>2, <1>3, <1>4, <1>5
          DEF OrderInv, Rising, LastReceivedInv, Precedes

LEMMA OrderStep == DeviceInv /\ OrderInv /\ [Next]_vars => OrderInv'
<1> SUFFICES ASSUME DeviceInv, OrderInv, [Next]_vars PROVE OrderInv'
  OBVIOUS
<1>1. ASSUME NEW n \in WriteSizes, WriteBegin(n) PROVE OrderInv'
  BY <1>1, OrderWriteBegin
<1>2. CASE DrainBlock
  BY <1>2, OrderDrainBlock
<1>3. CASE ~DrainBlock /\ ~ \E n \in WriteSizes : WriteBegin(n)
  <2>1. UNCHANGED <<remaining, handed, recBuffer, received>>
    BY <1>3 DEF Next, vars, device, WriteIgnored, WriteDividesByZero, WriteEnd,
                SetStereoRecording, InitRecording, EngineStarts, StartRecording,
                StopRecording, RegisterAudioCallback
  <2>2. offered' = offered \/ \E n \in WriteSizes : offered' = offered + n
    BY <1>3 DEF Next, vars, WriteIgnored, WriteDividesByZero, Offer, WriteEnd,
                SetStereoRecording, InitRecording, EngineStarts, StartRecording,
                StopRecording, RegisterAudioCallback
  <2>3. offered' >= offered /\ offered' \in Nat
    BY <2>2 DEF DeviceInv, TypeOK
  <2>4. QED BY <2>1, <2>3, OrderOtherStep
<1>4. QED BY <1>1, <1>2, <1>3

(* Whatever the order of calls, and whichever blocks the buffer refuses,   *)
(* the transport gets whole blocks of those handed to the buffer, and      *)
(* never an older one after a newer one.                                   *)
THEOREM DeliveredInOrder == Spec => []ReceivedInOrder
<1>1. OrderInv => ReceivedInOrder
  BY DEF OrderInv
<1>2. QED BY <1>1, OrderInit, OrderStep, DeviceInvariant, PTL DEF Spec

--------------------------------------------------------------------------------
(* The safety part of the block stream: each step of the device accepts a  *)
(* chunk, emits the next whole block of what it accepted, or stutters.     *)
LEMMA StepImplements ==
  DeviceInv /\ [Next]_vars => [Stream!Next]_(Stream!vars)
<1> SUFFICES ASSUME DeviceInv, [Next]_vars
             PROVE  Stream!Next \/ UNCHANGED <<accepted, handed>>
  BY DEF Stream!vars
<1>0. /\ accepted \in Seq(Nat) /\ handed \in Seq(Nat) /\ remaining \in Seq(Nat)
      /\ accepted = handed \o remaining
  BY DEF DeviceInv, TypeOK, StreamIntegrity
<1>1. ASSUME NEW n \in WriteSizes, WriteBegin(n) PROVE Stream!Accept
  <2>1. Chunk(n) \in Seq(Nat)
    BY ChunkType DEF DeviceInv, TypeOK
  <2>2. accepted' = accepted \o Chunk(n) /\ UNCHANGED handed
    BY <1>1 DEF WriteBegin, device
  <2>3. accepted' \in Seq(Nat) /\ Len(accepted) <= Len(accepted')
    BY <1>0, <2>1, <2>2, ConcatProperties, LenProperties
  <2>4. SubSeq(accepted', 1, Len(accepted)) = accepted
    BY <1>0, <2>1, <2>2, PrefixOfConcat
  <2>5. QED BY <2>2, <2>3, <2>4 DEF Stream!Accept
<1>2. CASE DrainBlock
  <2>1. /\ FirstBlock \in Seq(Nat) /\ Len(FirstBlock) = FullBlock
        /\ Rest \in Seq(Nat) /\ FirstBlock \o Rest = remaining
    BY <1>2, DrainTakesFullBlock
  <2>2. handed' = handed \o FirstBlock /\ UNCHANGED accepted
    BY <1>2 DEF DrainBlock
  <2>0. handed \in Seq(Nat) /\ FirstBlock \in Seq(Nat) /\ Rest \in Seq(Nat)
    BY <1>0, <2>1
  <2>3. accepted = (handed \o FirstBlock) \o Rest
    <3>1. (handed \o FirstBlock) \o Rest = handed \o (FirstBlock \o Rest)
      BY <2>0, AssociativeNat
    <3>2. QED BY <1>0, <2>1, <3>1
  <2>4. /\ handed \o FirstBlock \in Seq(Nat)
        /\ Len(handed \o FirstBlock) = Len(handed) + FullBlock
        /\ Len((handed \o FirstBlock) \o Rest) = Len(handed) + FullBlock + Len(Rest)
    <3>1. /\ handed \o FirstBlock \in Seq(Nat)
          /\ Len(handed \o FirstBlock) = Len(handed) + FullBlock
      BY <2>0, <2>1, ConcatNat
    <3>2. QED BY <2>0, <3>1, ConcatNat
  <2>5. SubSeq(accepted, 1, Len(handed) + FullBlock) = handed \o FirstBlock
    BY <2>1, <2>3, <2>4, PrefixOfConcat
  <2>6. Len(handed) + FullBlock <= Len(accepted)
    BY <2>0, <2>3, <2>4, LenProperties, BlockArithmetic
  <2>7. QED BY <2>2, <2>5, <2>6 DEF Stream!Next, Stream!Emit
<1>3. ASSUME ~DrainBlock, ~ \E n \in WriteSizes : WriteBegin(n)
      PROVE  UNCHANGED <<accepted, handed>>
  BY <1>3 DEF Next, vars, WriteIgnored, WriteDividesByZero, WriteEnd,
              SetStereoRecording, InitRecording, EngineStarts, StartRecording,
              StopRecording, RegisterAudioCallback
<1>4. QED BY <1>1, <1>2, <1>3 DEF Stream!Next

(* The device implements the block stream it promises, up to liveness.     *)
THEOREM ImplementsBlockStreamSafely ==
  Spec => Stream!Init /\ [][Stream!Next]_(Stream!vars)
<1>1. Init => Stream!Init
  BY DEF Init, Stream!Init
<1>2. QED BY <1>1, StepImplements, DeviceInvariant, PTL DEF Spec

(* While a whole block of what was accepted has not been handed over,      *)
(* write() is under way and about to hand it over.                         *)
NothingKeptBack ==
  Len(handed) + FullBlock <= Len(accepted) =>
    io = "draining" /\ Len(remaining) >= BlockSize

(* A block is never kept until the next call of write(), which may not     *)
(* come: this is what the fairness of the block stream needs of the states.*)
THEOREM BlocksLeaveAtOnce == Spec => []NothingKeptBack
<1>1. DeviceInv => NothingKeptBack
  <2> SUFFICES ASSUME DeviceInv, Len(handed) + FullBlock <= Len(accepted)
               PROVE  io = "draining" /\ Len(remaining) >= BlockSize
    BY DEF NothingKeptBack
  <2>1. /\ handed \in Seq(Nat) /\ remaining \in Seq(Nat) /\ FullBlock \in Nat
        /\ accepted = handed \o remaining
    BY BlockArithmetic DEF DeviceInv, TypeOK, StreamIntegrity
  <2>2. Len(accepted) = Len(handed) + Len(remaining)
    BY <2>1, ConcatNat
  <2>3. Len(remaining) >= FullBlock
    BY <2>1, <2>2, LenProperties
  <2>4. io = "draining"
    <3>1. Len(remaining) \in Nat
      BY <2>1, LenProperties
    <3>2. QED BY <2>1, <2>3, <3>1 DEF DeviceInv, ResidueInv
  <2>5. BlockSize = FullBlock
    BY <2>4, SizesDuringWrite DEF DeviceInv
  <2>6. QED BY <2>3, <2>4, <2>5
<1>2. QED BY <1>1, DeviceInvariant, PTL
================================================================================
