------------------------------- MODULE BootService -------------------------------
(***************************************************************************)
(* What the bootloader promises to the device: there is an image that the   *)
(* next start will run; starting runs it; a transfer may choose another      *)
(* one, and a reset, however it comes about, changes nothing.               *)
(***************************************************************************)
CONSTANTS Signed,   \* the images that may run
          NoImage

VARIABLES boots,    \* the image the next start runs, NoImage if there is none
          up        \* the image that runs now, NoImage if the device is not up

vars == <<boots, up>>

Init == boots \in Signed \cup {NoImage} /\ up \in {NoImage, boots}

Start ==
  /\ up = NoImage /\ boots # NoImage
  /\ up' = boots
  /\ UNCHANGED boots

\* Only the application that runs transfers images, into the place of the next one.
Transfer ==
  /\ up # NoImage
  /\ boots' \in Signed
  /\ UNCHANGED up

Reset ==
  /\ up # NoImage
  /\ up' = NoImage
  /\ UNCHANGED boots

Next == Start \/ Transfer \/ Reset

SafetySpec == Init /\ [][Next]_vars
\* A device that has an image starts it.
Liveness == WF_vars(Start)
Spec == SafetySpec /\ Liveness
==================================================================================
