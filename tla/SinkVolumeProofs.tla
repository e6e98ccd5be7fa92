---------------------------- MODULE SinkVolumeProofs ----------------------------
(***************************************************************************)
(* What the sink's copy of its mute switch and volume guarantees, for any  *)
(* volumes and any number of changes and of events.                        *)
(***************************************************************************)
EXTENDS SinkVolume, TLAPS

(* An event appended to the queue is in it, and so is what was before.     *)
LEMMA QueueFacts ==
  ASSUME NEW q \in Seq(Events), NEW e \in Events
  PROVE  /\ Append(q, e) \in Seq(Events)
         /\ q # <<>> => Tail(q) \in Seq(Events) /\ Head(q) \in Events
OBVIOUS

LEMMA AppendedIsQueued ==
  ASSUME NEW q \in Seq(Events), NEW e \in Events, NEW f
  PROVE  (\E i \in 1 .. Len(Append(q, e)) : Append(q, e)[i] = f)
           <=> (f = e \/ \E i \in 1 .. Len(q) : q[i] = f)
<1>1. /\ Len(q) \in Nat
      /\ Len(Append(q, e)) = Len(q) + 1
      /\ Append(q, e)[Len(q) + 1] = e
      /\ \A i \in 1 .. Len(q) : Append(q, e)[i] = q[i]
  OBVIOUS
<1>2. QED BY <1>1

(* The head of the queue apart, what is queued stays queued.               *)
LEMMA TailIsQueued ==
  ASSUME NEW q \in Seq(Events), q # <<>>, NEW f, f # Head(q),
         \E i \in 1 .. Len(q) : q[i] = f
  PROVE  \E i \in 1 .. Len(Tail(q)) : Tail(q)[i] = f
<1>1. PICK i \in 1 .. Len(q) : q[i] = f
  OBVIOUS
<1>2. i # 1 /\ i - 1 \in 1 .. Len(Tail(q)) /\ Tail(q)[i - 1] = q[i]
  BY <1>1
<1>3. QED BY <1>1, <1>2

(* A mean of volumes is a volume.                                          *)
LEMMA MeanIsVolume ==
  ASSUME NEW volumes \in [1 .. 2 -> Nat]
  PROVE  Mean(volumes) \in Nat
BY DEF Mean

--------------------------------------------------------------------------------
(* The mute switch is copied first, and a copy is never newer than the     *)
(* setting.                                                                *)
CopiesInOrder ==
  /\ volume.from <= muted.from
  /\ told.volume.from <= muted.from
  /\ muted.from <= setting.number

(* The inductive invariant.                                                *)
VolumeInv ==
  /\ TypeOK
  /\ CopiesInOrder
  /\ CopiedWhenQuiet
  /\ handling => muted = [value |-> setting.muted, from |-> setting.number]
  /\ phase = "made" => missed

LEMMA VolumeInit == Init => VolumeInv
<1> SUFFICES ASSUME Init PROVE VolumeInv
  OBVIOUS
<1>1. setting \in [muted : BOOLEAN, volumes : [1 .. 2 -> Volumes], number : Nat]
  BY DEF Init, Settings
<1>2. TypeOK
  <2>1. queue \in Seq(Events) /\ phase = "made"
    BY DEF Init
  <2>2. listened \in BOOLEAN /\ handling \in BOOLEAN /\ missed \in BOOLEAN
    BY Zenon DEF Init
  <2>3. muted \in Copies /\ volume \in VolumeCopies
    BY DEF Init, Copies, VolumeCopies
  <2>4. told \in [volume : VolumeCopies, muted : Copies]
    BY <2>3 DEF Init
  <2>5. QED BY <1>1, <2>1, <2>2, <2>3, <2>4 DEF TypeOK
<1>3. CopiesInOrder
  BY <1>1 DEF Init, CopiesInOrder
<1>4. QED BY <1>2, <1>3 DEF Init, VolumeInv, CopiedWhenQuiet

LEMMA SettingFacts ==
  ASSUME TypeOK
  PROVE  /\ Mean(setting.volumes) \in Nat
         /\ setting.number \in Nat /\ setting.muted \in BOOLEAN
<1>1. setting.volumes \in [1 .. 2 -> Nat]
  BY VolumesAssumption DEF TypeOK
<1>2. QED BY <1>1, MeanIsVolume DEF TypeOK

(* The sink is announced: nothing has been copied yet.                     *)
LEMMA PutStep == ASSUME VolumeInv, Put PROVE VolumeInv'
<1> USE DEF sink, copy
<1>1. queue' \in Seq(Events)
  BY QueueFacts DEF VolumeInv, TypeOK, Put, Own, Events
<1>2. UNCHANGED <<setting, listened, handling, muted, volume, told, missed>>
      /\ missed /\ phase' = "put"
  BY DEF VolumeInv, Put
<1>3. TypeOK'
  BY <1>1, <1>2 DEF VolumeInv, TypeOK
<1>4. QED BY <1>2, <1>3 DEF VolumeInv, CopiesInOrder, CopiedWhenQuiet

LEMMA PhaseStep == ASSUME VolumeInv, Subscribe \/ Free PROVE VolumeInv'
<1> USE DEF sink, copy
<1>1. /\ UNCHANGED <<setting, queue, listened, handling, muted, volume, told, missed>>
      /\ phase' \in {"subscribed", "freed"}
  BY DEF Subscribe, Free
<1>2. QED BY <1>1 DEF VolumeInv, TypeOK, CopiesInOrder, CopiedWhenQuiet, Queued,
                     Copied, Mean

(* A change: either an event for it is queued, or it is marked as missed.  *)
LEMMA ChangeStep == ASSUME VolumeInv, Change PROVE VolumeInv'
<1> USE DEF sink, copy
<1>1. /\ UNCHANGED <<phase, listened, handling, muted, volume, told>>
      /\ ~handling /\ phase # "made"
      /\ missed' = ~Queued(Own("change"))'
  BY DEF Change, Queued
<1>2. queue' \in Seq(Events)
  BY QueueFacts DEF VolumeInv, TypeOK, Change, Own, Events
<1>3. /\ setting' \in [muted : BOOLEAN, volumes : [1 .. 2 -> Volumes], number : Nat]
      /\ setting'.number = setting.number + 1
  BY DEF VolumeInv, TypeOK, Change, Settings
<1>4. TypeOK'
  BY <1>1, <1>2, <1>3 DEF VolumeInv, TypeOK
<1>5. CopiesInOrder'
  BY <1>1, <1>3 DEF VolumeInv, TypeOK, CopiesInOrder, Copies
<1>6. CopiedWhenQuiet'
  BY <1>1 DEF CopiedWhenQuiet
<1>7. QED BY <1>1, <1>4, <1>5, <1>6 DEF VolumeInv

(* An event that is not a change of this sink comes or goes: the sink's    *)
(* own changes stay queued.                                                *)
LEMMA OtherEventStep ==
  ASSUME VolumeInv, ChangeOther \/ IgnoreEvent
  PROVE  VolumeInv'
<1> USE DEF sink, copy
<1>1. UNCHANGED <<phase, setting, listened, handling, muted, volume, told, missed>>
  BY DEF ChangeOther, IgnoreEvent
<1>2. queue \in Seq(Events)
  BY DEF VolumeInv, TypeOK
<1>3. queue' \in Seq(Events) /\ (Queued(Own("change")) => Queued(Own("change"))')
  <2>1. CASE ChangeOther
    <3>1. PICK type \in {"new", "change"} :
            queue' = Append(queue, [own |-> FALSE, type |-> type])
      BY <2>1 DEF ChangeOther
    <3>2. [own |-> FALSE, type |-> type] \in Events
      BY DEF Events
    <3>3. QED BY <1>2, <3>1, <3>2, QueueFacts, AppendedIsQueued DEF Queued
  <2>2. CASE IgnoreEvent
    <3>1. queue # <<>> /\ queue' = Tail(queue) /\ Head(queue) # Own("change")
      BY <2>2 DEF IgnoreEvent, NextEvent
    <3>2. queue' \in Seq(Events)
      BY <1>2, <3>1, QueueFacts
    <3>3. ASSUME Queued(Own("change")) PROVE Queued(Own("change"))'
      <4>1. \E i \in 1 .. Len(queue) : queue[i] = Own("change")
        BY <3>3 DEF Queued
      <4>2. \E i \in 1 .. Len(Tail(queue)) : Tail(queue)[i] = Own("change")
        BY <1>2, <3>1, <4>1, TailIsQueued
      <4>3. QED BY <3>1, <4>2 DEF Queued, Own
    <3>4. QED BY <3>2, <3>3
  <2>3. QED BY <2>1, <2>2
<1>4. TypeOK'
  BY <1>1, <1>3 DEF VolumeInv, TypeOK
<1>5. CopiedWhenQuiet'
  BY <1>1, <1>3 DEF VolumeInv, CopiedWhenQuiet, Copied, Mean
<1>6. QED BY <1>1, <1>4, <1>5 DEF VolumeInv, CopiesInOrder

(* An event goes by before the subscription: a change with it is missed,   *)
(* and the others stay queued.                                             *)
LEMMA GoesByStep == ASSUME VolumeInv, EventGoesBy PROVE VolumeInv'
<1> USE DEF sink, copy
<1>1. /\ UNCHANGED <<phase, setting, listened, handling, muted, volume, told>>
      /\ phase = "put" /\ queue # <<>> /\ queue' = Tail(queue)
      /\ missed' = (missed \/ Head(queue) = Own("change"))
  BY DEF EventGoesBy, NextEvent
<1>2. queue \in Seq(Events) /\ queue' \in Seq(Events)
  BY <1>1, QueueFacts DEF VolumeInv, TypeOK
<1>3. missed' \in BOOLEAN
  BY <1>1, Zenon
<1>4. TypeOK'
  BY <1>1, <1>2, <1>3 DEF VolumeInv, TypeOK
<1>5. ASSUME ~missed' PROVE ~missed /\ Head(queue) # Own("change")
  BY <1>1, <1>5, Zenon
<1>6. ASSUME Head(queue) # Own("change"), Queued(Own("change"))
      PROVE  Queued(Own("change"))'
  <2>1. \E i \in 1 .. Len(queue) : queue[i] = Own("change")
    BY <1>6 DEF Queued
  <2>2. \E i \in 1 .. Len(Tail(queue)) : Tail(queue)[i] = Own("change")
    BY <1>1, <1>2, <1>6, <2>1, TailIsQueued
  <2>3. QED BY <1>1, <2>2 DEF Queued, Own
<1>7. Copied' = Copied
  BY <1>1 DEF Copied, Mean
<1>8. CopiedWhenQuiet'
  BY <1>1, <1>5, <1>6, <1>7 DEF VolumeInv, CopiedWhenQuiet
<1>9. QED BY <1>1, <1>4, <1>8 DEF VolumeInv, CopiesInOrder

(* The handler of the event has copied the mute switch only.               *)
LEMMA HandlerStep == ASSUME VolumeInv, OnSinkEvent PROVE VolumeInv'
<1> USE DEF sink, copy
<1>1. /\ UNCHANGED <<phase, setting, listened, volume, told, missed>>
      /\ handling' = TRUE /\ phase = "subscribed"
      /\ muted' = [value |-> setting.muted, from |-> setting.number]
  BY DEF OnSinkEvent, NextEvent
<1>2. queue' \in Seq(Events)
  BY QueueFacts DEF VolumeInv, TypeOK, OnSinkEvent, NextEvent
<1>3. muted' \in Copies /\ setting.number \in Nat /\ muted'.from = setting.number
  BY <1>1, SettingFacts DEF VolumeInv, Copies
<1>4. TypeOK'
  BY <1>1, <1>2, <1>3 DEF VolumeInv, TypeOK
<1>5. CopiesInOrder'
  BY <1>1, <1>3 DEF VolumeInv, TypeOK, CopiesInOrder, Copies, VolumeCopies
<1>6. QED BY <1>1, <1>4, <1>5 DEF VolumeInv, CopiedWhenQuiet

(* ... and then the volume: both copies are of the current setting.        *)
LEMMA CopyVolumeStep == ASSUME VolumeInv, CopyVolume PROVE VolumeInv'
<1> USE DEF sink, copy
<1>1. /\ UNCHANGED <<phase, setting, listened, queue, muted, told, missed>>
      /\ handling /\ handling' = FALSE
      /\ volume' = [value |-> Mean(setting.volumes), from |-> setting.number]
  BY DEF CopyVolume
<1>2. Mean(setting.volumes) \in Nat /\ setting.number \in Nat
  BY SettingFacts DEF VolumeInv
<1>3. TypeOK'
  BY <1>1, <1>2 DEF VolumeInv, TypeOK, VolumeCopies
<1>4. CopiesInOrder'
  BY <1>1, <1>2 DEF VolumeInv, CopiesInOrder
<1>5. CopiedWhenQuiet'
  BY <1>1 DEF VolumeInv, CopiedWhenQuiet, Copied, Mean
<1>6. QED BY <1>1, <1>2, <1>3, <1>4, <1>5 DEF VolumeInv

LEMMA TellStep == ASSUME VolumeInv, TellVolume \/ TellMuted PROVE VolumeInv'
<1> USE DEF sink, copy
<1>1. UNCHANGED <<phase, setting, listened, queue, handling, muted, volume, missed>>
  BY DEF TellVolume, TellMuted
<1>2. /\ told \in [volume : VolumeCopies, muted : Copies]
      /\ volume \in VolumeCopies /\ muted \in Copies
  BY DEF VolumeInv, TypeOK
<1>3. /\ told' \in [volume : VolumeCopies, muted : Copies]
      /\ told'.volume = told.volume \/ told'.volume = volume
  BY <1>2 DEF TellVolume, TellMuted
<1>4. TypeOK'
  BY <1>1, <1>3 DEF VolumeInv, TypeOK
<1>5. CopiesInOrder'
  BY <1>1, <1>3 DEF VolumeInv, CopiesInOrder
<1>6. CopiedWhenQuiet'
  BY <1>1 DEF VolumeInv, CopiedWhenQuiet, Copied, Queued, Mean
<1>7. QED BY <1>1, <1>3, <1>4, <1>5, <1>6 DEF VolumeInv

LEMMA VolumeStep == ASSUME VolumeInv, [Next]_vars PROVE VolumeInv'
<1>1. CASE UNCHANGED vars
  BY <1>1 DEF VolumeInv, TypeOK, CopiesInOrder, CopiedWhenQuiet, Queued, Copied,
              Mean, vars, sink, copy
<1>2. CASE Next
  BY <1>2, PutStep, PhaseStep, ChangeStep, OtherEventStep, HandlerStep,
     CopyVolumeStep, GoesByStep, TellStep DEF Next
<1>3. QED BY <1>1, <1>2

(* The inductive invariant of the volume: each copy is of the present      *)
(* setting or of one whose change is still queued.                         *)
THEOREM VolumeInvariant == Spec => []VolumeInv
<1>1. VolumeInv /\ [Next]_vars => VolumeInv'
  BY VolumeStep
<1>2. QED BY VolumeInit, <1>1, PTL DEF Spec

(* The variables keep their types.                                         *)
THEOREM VolumeTypeCorrect == Spec => []TypeOK
<1>1. VolumeInv => TypeOK
  BY DEF VolumeInv
<1>2. QED BY <1>1, VolumeInvariant, PTL

(* Once no change waits, the device reports the sink's mute switch and     *)
(* volume, unless no event announced the last setting to the sink: there   *)
(* was none, or it went by before the subscription.                        *)
THEOREM ReportsTheSetting == Spec => []CopiedWhenQuiet
<1>1. VolumeInv => CopiedWhenQuiet
  BY DEF VolumeInv
<1>2. QED BY <1>1, VolumeInvariant, PTL

(* After a volume no older mute switch is told.                            *)
THEOREM ReportsInOrder == Spec => MutedNotOlderThanVolume
<1>1. VolumeInv /\ [Next]_vars =>
        [told'.muted # told.muted => told'.muted.from >= told.volume.from]_vars
  <2> SUFFICES ASSUME VolumeInv, Next, told'.muted # told.muted
               PROVE  told'.muted.from >= told.volume.from
    OBVIOUS
  <2>1. CASE TellMuted
    <3>1. told'.muted = muted
      BY <2>1 DEF TellMuted, VolumeInv, TypeOK
    <3>2. QED BY <3>1 DEF VolumeInv, CopiesInOrder, TypeOK, Copies, VolumeCopies
  <2>2. CASE TellVolume
    <3>1. told'.muted = told.muted
      BY <2>2 DEF TellVolume, VolumeInv, TypeOK
    <3>2. QED BY <3>1
  <2>3. CASE ~TellMuted /\ ~TellVolume
    <3>1. told' = told
      BY <2>3 DEF Next, Put, Subscribe, Free, Change, ChangeOther, EventGoesBy,
                  IgnoreEvent, OnSinkEvent, CopyVolume
    <3>2. QED BY <3>1
  <2>4. QED BY <2>1, <2>2, <2>3
<1>2. QED BY <1>1, VolumeInvariant, PTL DEF Spec, MutedNotOlderThanVolume
================================================================================
