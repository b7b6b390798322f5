---------------------------- MODULE VitalStream ----------------------------
(***************************************************************************)
(* What a connection promises about vital chunks.  Each endpoint owns one  *)
(* stream: the sequence of vital chunks it has queued, numbered 1, 2, ...  *)
(* The other endpoint is handed a prefix of that stream: nothing is lost,  *)
(* duplicated or reordered, whatever the datagrams below do.               *)
(***************************************************************************)
EXTENDS Naturals, Sequences

Endpoint == {"client", "server"}

\* The other end of the connection.
Other(e) == IF e = "client" THEN "server" ELSE "client"

VARIABLES
    queued,     \* queued[e]: number of vital chunks e has queued
    delivered   \* delivered[e]: the chunks of Other(e) handed out at e, in order

streamVars == <<queued, delivered>>

StreamInit == /\ queued = [e \in Endpoint |-> 0]
              /\ delivered = [e \in Endpoint |-> <<>>]

\* The application at e appends one chunk to its stream.
Put(e) == /\ queued' = [queued EXCEPT ![e] = @ + 1]
          /\ UNCHANGED delivered

\* The application at e is handed the next chunk of the peer's stream.
Get(e) == /\ Len(delivered[e]) < queued[Other(e)]
          /\ delivered' = [delivered EXCEPT ![e] = Append(@, Len(@) + 1)]
          /\ UNCHANGED queued

StreamNext == \E e \in Endpoint : Put(e) \/ Get(e)

StreamSpec == StreamInit /\ [][StreamNext]_streamVars
=============================================================================
