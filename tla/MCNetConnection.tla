-------------------------- MODULE MCNetConnection --------------------------
EXTENDS NetConnection

\* Only the client's stream is used; the server's side only acks.
OneWay7 == [e \in Endpoint |-> IF e = "client" THEN 7 ELSE 0]
OneWay3 == [e \in Endpoint |-> IF e = "client" THEN 3 ELSE 0]
=============================================================================
