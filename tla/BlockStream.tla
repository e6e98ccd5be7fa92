------------------------------ MODULE BlockStream ------------------------------
(***************************************************************************)
(* What the capture device promises to the voice engine: the bytes it      *)
(* accepts from the sink come out unchanged, in order, exactly once, in    *)
(* blocks of one fixed size, and never is a whole block kept back.         *)
(***************************************************************************)
EXTENDS Integers, Sequences

CONSTANT Size   \* the number of bytes of one block, at least 1

VARIABLES
  input,    \* every byte accepted so far, in order
  output    \* every byte emitted so far, in order

vars == <<input, output>>

Init ==
  /\ input = <<>>
  /\ output = <<>>

(* Bytes arrive: the input only ever grows at its end.                     *)
Accept ==
  /\ input' \in Seq(Nat)
  /\ Len(input) <= Len(input')
  /\ SubSeq(input', 1, Len(input)) = input
  /\ UNCHANGED output

(* The next whole block leaves.                                            *)
Emit ==
  /\ Len(output) + Size <= Len(input)
  /\ output' = SubSeq(input, 1, Len(output) + Size)
  /\ UNCHANGED input

Next == Accept \/ Emit

Spec == Init /\ [][Next]_vars /\ WF_vars(Emit)
================================================================================
