------------------------------ MODULE Transfer ------------------------------
(***************************************************************************)
(* What loading a file promises: its blocks are received once and in order *)
(* and loading succeeds only with the whole of it.  No bytes, answers,     *)
(* repetitions or line.                                                    *)
(***************************************************************************)
EXTENDS Naturals, Sequences

CONSTANTS Files   \* sequences of blocks

VARIABLES
  file,       \* the file being loaded
  received,   \* its blocks that have been received, while it is being loaded
  outcome     \* of the last attempt to load one, or "open"

vars == <<file, received, outcome>>

Init == file \in Files /\ received = <<>> /\ outcome = "failed"

Load ==
  /\ outcome # "open"
  /\ file' \in Files
  /\ received' = <<>> /\ outcome' = "open"

Accept ==
  /\ outcome = "open" /\ Len(received) < Len(file)
  /\ received' = Append(received, file[Len(received) + 1])
  /\ UNCHANGED <<file, outcome>>

Complete ==
  /\ outcome = "open" /\ received = file
  /\ outcome' = "complete" /\ received' = <<>>
  /\ UNCHANGED file

Fail == outcome = "open" /\ outcome' = "failed" /\ received' = <<>> /\ UNCHANGED file

Next == Load \/ Accept \/ Complete \/ Fail

Spec == Init /\ [][Next]_vars
=============================================================================
