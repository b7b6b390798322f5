---------------------------- MODULE MCAsyncFile ----------------------------
(* AsyncFile with short lines (aio_write) and lines in pieces (the text,   *)
(* colours and newline of the logger), around the size of the first buffer. *)
EXTENDS AsyncFile

CONSTANTS a, b

MCLengths == {1, 3}
TwoAndOne == [w \in Writer |-> IF w = a THEN 2 ELSE 1]
=============================================================================
