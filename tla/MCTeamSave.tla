----------------------------- MODULE MCTeamSave -----------------------------
EXTENDS TeamSave

CONSTANTS s1, s2, a, b

(* A team of two fits on the first server only, whose first slot either of *)
(* the players may get; the second takes up one request.                   *)
Slots == [s \in Server |-> IF s = s1 THEN {1, 2} ELSE {1}]
Names == [s \in Server |-> IF s = s1 THEN <<{a, b}, {b}>> ELSE <<{a}>>]
Requests == [s \in Server |-> IF s = s1 THEN 2 ELSE 1]
=============================================================================
