---------------------------- MODULE MCTakeover ----------------------------
EXTENDS Takeover

\* The client queues its code, the server the rest.
Code1Server2 == [e \in Endpoint |-> IF e = "client" THEN 1 ELSE 2]

AnyAck == 0 .. MaxSequence - 1
NothingLeft == {<<>>}

\* A chunk queued for the session that timed out, and never flushed.
OneLeft == {<<[vital |-> TRUE, seq |-> s, msg |-> Foreign, data |-> "own"]>> : s \in 1 .. 2}
=============================================================================
