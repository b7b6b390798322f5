------------------------------ MODULE LineLog ------------------------------
(***************************************************************************)
(* What the users of an asynchronous file rely on (the logger of           *)
(* base/log.cpp and the teehistorian): lines of several writers are        *)
(* accepted one after the other, each of them whole, and the file holds a  *)
(* prefix of what was accepted.                                            *)
(***************************************************************************)
EXTENDS Integers, Sequences

CONSTANT Lines        \* the lines that may be written, as sequences of bytes

VARIABLES
  accepted,    \* what was written to the log so far
  file         \* what is in the file

Init == accepted = <<>> /\ file = <<>>

(* A writer's line is accepted. *)
Accept == /\ \E line \in Lines : accepted' = accepted \o line
          /\ UNCHANGED file

(* More of it gets into the file. *)
Output == /\ \E n \in Len(file)..Len(accepted) : file' = SubSeq(accepted, 1, n)
          /\ UNCHANGED accepted

Next == Accept \/ Output
Spec == Init /\ [][Next]_<<accepted, file>>
=============================================================================
