------------------------------- MODULE SinkVolume -------------------------------
(***************************************************************************)
(* The sink's copy of its mute switch and volume (pa_sink.cpp).            *)
(* PulseAudio's main thread changes them and announces it by events; the   *)
(* handler of the event copies them to m_muted and m_avg_volume, which the *)
(* voice engine's threads read through the device, without a lock.         *)
(*                                                                         *)
(* The settings the sink has had are numbered, from 1: a copy says which   *)
(* one it was made from, 0 for the constructor's.  PulseAudio's core,      *)
(* which queues the events, and the voice engine are external.             *)
(***************************************************************************)
EXTENDS Integers, Sequences

CONSTANTS
  Volumes,      \* the volumes a channel can have
  MaxSettings,  \* bound: the settings the sink has
  MaxOthers     \* bound: the events queued for other sinks

ASSUME VolumesAssumption == Volumes \subseteq Nat
ASSUME VolumeBoundsAssumption == MaxSettings \in Nat \ {0} /\ MaxOthers \in Nat

VARIABLES
  phase,     \* of the sink: "made", "put", "subscribed" or "freed"
  setting,   \* its mute switch, the volumes of its channels, and the number
  queue,     \* the core's queue of events
  listened,  \* does anyone else listen to the core's events?
  handling,  \* is onSinkEvent between its two assignments?
  muted,     \* m_muted
  volume,    \* m_avg_volume
  told,      \* the volume and then the mute switch the engine has been told
  missed     \* history: no event that is to come to us announces the setting

sink == <<phase, setting, listened>>
copy == <<handling, muted, volume>>
vars == <<sink, queue, copy, told, missed>>

--------------------------------------------------------------------------------
(* pa_cvolume_avg, of the sink's two channels: it rounds down.             *)
Mean(volumes) == (volumes[1] + volumes[2]) \div 2

Settings(n) == [muted : BOOLEAN, volumes : [1 .. 2 -> Volumes], number : {n}]

Own(type) == [own |-> TRUE, type |-> type]
Events == [own : BOOLEAN, type : {"new", "change"}]

Queued(event) == \E i \in 1 .. Len(queue) : queue[i] = event

Init ==
  /\ phase = "made"
  /\ setting \in Settings(1)
  /\ queue = <<>>
  /\ listened \in BOOLEAN
  /\ handling = FALSE
  /\ muted = [value |-> FALSE, from |-> 0]
  /\ volume = [value |-> 0, from |-> 0]
  /\ told = [volume |-> volume, muted |-> muted]
  /\ missed = TRUE

--------------------------------------------------------------------------------
(* The core's main thread                                                  *)

(* pa_sink_put announces the sink, when anyone listens.                    *)
Put ==
  /\ phase = "made"
  /\ phase' = "put"
  /\ queue' = IF listened THEN Append(queue, Own("new")) ELSE queue
  /\ UNCHANGED <<setting, listened, copy, told, missed>>

Subscribe ==
  /\ phase = "put"
  /\ phase' = "subscribed"
  /\ UNCHANGED <<setting, queue, listened, copy, told, missed>>

(* A client, or another module, changes the mute switch or the volume.     *)
(* The core announces a change when anyone listens, unless an event that   *)
(* announces the sink or an earlier change of it still waits.              *)
Change ==
  /\ phase \in {"put", "subscribed"}
  /\ ~handling
  /\ setting.number < MaxSettings
  /\ \E new \in Settings(setting.number + 1) :
       /\ new.muted # setting.muted \/ new.volumes # setting.volumes
       /\ setting' = new
  /\ queue' = IF \/ phase = "put" /\ ~listened
                 \/ Queued(Own("new")) \/ Queued(Own("change"))
              THEN queue ELSE Append(queue, Own("change"))
  /\ missed' = ~ \E i \in 1 .. Len(queue') : queue'[i] = Own("change")
  /\ UNCHANGED <<phase, listened, copy, told>>

(* Another sink comes, or changes.                                         *)
ChangeOther ==
  /\ phase = "subscribed"
  /\ ~handling
  /\ Len(SelectSeq(queue, LAMBDA event : ~event.own)) < MaxOthers
  /\ \E type \in {"new", "change"} :
       queue' = Append(queue, [own |-> FALSE, type |-> type])
  /\ UNCHANGED <<sink, copy, told, missed>>

(* The main loop takes the next event while it runs no handler of ours.    *)
NextEvent == ~handling /\ queue # <<>> /\ queue' = Tail(queue)

(* The sink is put and subscribed to on the module's own thread: between   *)
(* the two the main loop may deliver what it has queued, but not to us.    *)
EventGoesBy ==
  /\ phase = "put"
  /\ NextEvent
  /\ missed' = (missed \/ Head(queue) = Own("change"))
  /\ UNCHANGED <<sink, copy, told>>

(* onSinkEvent returns at once for another sink, or another kind of event. *)
IgnoreEvent ==
  /\ phase = "subscribed"
  /\ NextEvent
  /\ Head(queue) # Own("change")
  /\ UNCHANGED <<sink, copy, told, missed>>

(* Mutation: the handler leaves out the volume of a muted sink.            *)
OnSinkEventUnlessMuted ==
  /\ phase = "subscribed"
  /\ NextEvent
  /\ Head(queue) = Own("change")
  /\ muted' = [value |-> setting.muted, from |-> setting.number]
  /\ handling' = ~setting.muted
  /\ UNCHANGED <<sink, volume, told, missed>>

(* A change of this sink: onSinkEvent copies first the mute switch ...     *)
OnSinkEvent ==
  /\ phase = "subscribed"
  /\ NextEvent
  /\ Head(queue) = Own("change")
  /\ muted' = [value |-> setting.muted, from |-> setting.number]
  /\ handling' = TRUE
  /\ UNCHANGED <<sink, volume, told, missed>>

(* Mutation: the volume is read from the sink itself when it is asked for. *)
CopyVolumeWhenAsked ==
  /\ phase = "subscribed"
  /\ volume' = [value |-> Mean(setting.volumes), from |-> setting.number]
  /\ handling' = FALSE
  /\ UNCHANGED <<sink, queue, muted, told, missed>>

(* ... and then the volume.                                                *)
CopyVolume ==
  /\ handling
  /\ volume' = [value |-> Mean(setting.volumes), from |-> setting.number]
  /\ handling' = FALSE
  /\ UNCHANGED <<sink, queue, muted, told, missed>>

(* The destructor ends the subscription; events are not delivered any more.*)
Free ==
  /\ phase = "subscribed"
  /\ ~handling
  /\ phase' = "freed"
  /\ UNCHANGED <<setting, listened, queue, copy, told, missed>>

--------------------------------------------------------------------------------
(* The voice engine's threads, through MicrophoneVolume and MicrophoneMute *)

(* The engine asks for the volume ...                                      *)
TellVolume ==
  /\ told' = [told EXCEPT !.volume = volume]
  /\ UNCHANGED <<sink, queue, copy, missed>>

(* ... and for the mute switch.                                            *)
TellMuted ==
  /\ told' = [told EXCEPT !.muted = muted]
  /\ UNCHANGED <<sink, queue, copy, missed>>

--------------------------------------------------------------------------------
Deliver == IgnoreEvent \/ OnSinkEvent \/ CopyVolume

Next ==
  \/ Put \/ Subscribe \/ Free
  \/ Change \/ ChangeOther
  \/ EventGoesBy \/ IgnoreEvent \/ OnSinkEvent \/ CopyVolume
  \/ TellVolume \/ TellMuted

(* The core's main loop delivers the events it has queued.                 *)
Spec == Init /\ [][Next]_vars /\ WF_vars(Deliver)

--------------------------------------------------------------------------------
Copies == [value : BOOLEAN, from : Nat]
VolumeCopies == [value : Nat, from : Nat]

(* The types of the variables.                                             *)
TypeOK ==
  /\ phase \in {"made", "put", "subscribed", "freed"}
  /\ setting \in [muted : BOOLEAN, volumes : [1 .. 2 -> Volumes], number : Nat]
  /\ queue \in Seq(Events)
  /\ listened \in BOOLEAN
  /\ handling \in BOOLEAN
  /\ muted \in Copies
  /\ volume \in VolumeCopies
  /\ told \in [volume : VolumeCopies, muted : Copies]
  /\ missed \in BOOLEAN

Copied ==
  /\ muted = [value |-> setting.muted, from |-> setting.number]
  /\ volume = [value |-> Mean(setting.volumes), from |-> setting.number]

(* Once no change waits to be handled, the device reports the sink's mute  *)
(* switch and volume, however many changes one event stood for and however *)
(* the other sinks' events fell, unless the last change was missed: the    *)
(* first setting always is, and a change may be while the sink is put but  *)
(* not subscribed to, when nobody listens, when its event goes by before   *)
(* the subscription, or when it is merged into the one for the new sink.   *)
CopiedWhenQuiet == ~Queued(Own("change")) /\ ~handling /\ ~missed => Copied

(* An engine that has been told a volume is not told an older mute switch  *)
(* after it, although it reads both without a lock, at any point of        *)
(* onSinkEvent: the handler copies the mute switch first.                  *)
MutedNotOlderThanVolume ==
  [][told'.muted # told.muted => told'.muted.from >= told.volume.from]_vars

(* A change that was announced reaches the copies, however many more       *)
(* changes, and events of other sinks, keep coming.                        *)
ChangeIsCopied ==
  Queued(Own("change")) /\ phase = "subscribed" ~> Copied \/ phase = "freed"
================================================================================
