-------------------------- MODULE AbstractProfile --------------------------
(***************************************************************************)
(* What a capture promises: the stored artifacts of a profile change as    *)
(* one set.  A capture replaces the artifacts it selected, meta.json among *)
(* them, by its own, and leaves the others as they are.                    *)
(***************************************************************************)
EXTENDS Integers

CONSTANTS NoFile, Last, MaxCaptures

VARIABLE image   \* artifact -> the capture that wrote it, or NoFile

File == 1..Last

Empty == [f \in File |-> NoFile]
Created == [Empty EXCEPT ![Last] = 0]

Init == image \in [File -> {0, NoFile}]

\* createProfile, and its removal when the first capture fails
Create == image = Empty /\ image' = Created
Remove == image = Created /\ image' = Empty

Capture(n, selected) ==
  /\ image[Last] # NoFile
  /\ image' = [f \in File |-> IF f \in selected \union {Last} THEN n ELSE image[f]]

Next ==
  \/ Create \/ Remove
  \/ \E n \in 1..MaxCaptures, selected \in SUBSET File : Capture(n, selected)

Spec == Init /\ [][Next]_image
=============================================================================
