-------------------------------- MODULE Playback --------------------------------
(***************************************************************************)
(* What the sink promises about the pace of its sound, whatever its inputs,*)
(* its clients and the scheduler do: sound is rendered only while the sink *)
(* is opened, never further ahead of the clock than the longest latency,   *)
(* and only sound that has not been played yet is taken back.              *)
(***************************************************************************)
EXTENDS Integers

CONSTANT Most     \* the longest latency

VARIABLES
  clock,          \* the time
  opened,         \* does the sink play?
  end             \* up to when sound has been rendered

Init == clock = 0 /\ opened = FALSE /\ end = 0

TimePasses == clock' = clock + 1 /\ UNCHANGED <<opened, end>>

OpenOrClose == opened' = ~opened /\ UNCHANGED <<clock, end>>

(* Sound that was due, or is due soon, is rendered.                        *)
RenderAhead ==
  /\ opened
  /\ end' > end
  /\ end' <= clock + Most
  /\ UNCHANGED <<clock, opened>>

(* A rewind stops at what has been played.                                 *)
TakeBack ==
  /\ opened
  /\ clock <= end' /\ end' < end
  /\ UNCHANGED <<clock, opened>>

Next == TimePasses \/ OpenOrClose \/ RenderAhead \/ TakeBack

Spec == Init /\ [][Next]_<<clock, opened, end>>
================================================================================
