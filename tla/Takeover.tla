----------------------------- MODULE Takeover -----------------------------
(***************************************************************************)
(* A session that changes its slot at the server.  The client of           *)
(* NetConnection proves with a timeout code that a slot which timed out is *)
(* its own, and CNetServer::SetTimedOut moves the session there: the "kept" *)
(* slot takes m_Sequence, m_Ack and the resend buffer over from the slot   *)
(* the client is in now, and the latter is reset.  "server" stands for the *)
(* slot the session is in, before and after the move.                      *)
(*                                                                         *)
(* The move copies neither m_PeerAck nor m_Construct: the kept slot goes   *)
(* on with those of the session that timed out.  A saved chunk is copied   *)
(* with its m_pData, which points into the buffer of the slot it came      *)
(* from; the Reset that follows zeroes that memory, and the next client of *)
(* the slot fills it: the "data" of such a chunk is "lost".                *)
(***************************************************************************)
EXTENDS NetConnection

CONSTANTS
    StaleAcks,  \* what m_PeerAck of the kept slot may be
    Leftovers   \* what m_Construct of the kept slot may hold

VARIABLE taken  \* whether the session has moved

takeoverVars == <<vars, taken>>

\* A chunk of the session that timed out, whatever it was.
Foreign == MaxSequence * 2

(***************************************************************************)
(* The client's first chunk, with the code, is queued and on its way.      *)
(***************************************************************************)
Code == [vital |-> TRUE, seq |-> 1, msg |-> 1, data |-> "own"]

TakeoverInit ==
    /\ state = [e \in Endpoint |-> "ONLINE"]
    /\ sequence = [e \in Endpoint |-> IF e = "client" THEN 1 ELSE 0]
    /\ ack = [e \in Endpoint |-> 0]
    /\ peerAck = [e \in Endpoint |-> 0]
    /\ buffer = [e \in Endpoint |-> IF e = "client" THEN <<Code>> ELSE <<>>]
    /\ construct = [e \in Endpoint |-> <<>>]
    /\ resend = [e \in Endpoint |-> FALSE]
    /\ unpacker = [e \in Endpoint |-> <<>>]
    /\ net = [e \in Endpoint |-> IF e = "server"
                THEN {[ack |-> 0, resend |-> FALSE, chunks |-> <<Code>>, seen |-> 0]}
                ELSE {}]
    /\ queued = [e \in Endpoint |-> IF e = "client" THEN 1 ELSE 0]
    /\ delivered = [e \in Endpoint |-> <<>>]
    /\ taken = FALSE

\* Faulty... operators, as in NetConnection, are variants with a bug.

\* What CRingBufferBase::Init leaves of a chunk that a resend entry points to.
Unowned(c) == [c EXCEPT !.data = "lost"]

FaultyNoneCopied(saved) == <<>>

\* The loop at the end of SetTimedOut, and the Reset of the slot it empties.
Copied(saved) == [i \in DOMAIN saved |-> Unowned(saved[i])]

\* The last number is given out a second time.
FaultyMovedSequence == (sequence["server"] + MaxSequence - 1) % MaxSequence

\* m_Sequence is copied from the slot the client is in.
MovedSequence == sequence["server"]

(***************************************************************************)
(* FetchChunk hands out a chunk of the client, which is the chat command   *)
(* that holds the code, and the kept slot takes the session over.  The     *)
(* rest of the packet still names the slot that was reset and is lost.     *)
(***************************************************************************)
SetTimedOut ==
    /\ ~taken
    /\ \E i \in DOMAIN unpacker["server"] :
          LET cs == unpacker["server"] IN
          /\ \A j \in 1 .. i - 1 : IsSkipped("server", cs[j])
          /\ cs[i].vital /\ IsNext("server", cs[i])
          /\ ack' = [ack EXCEPT !["server"] = cs[i].seq]
          /\ delivered' = [delivered EXCEPT !["server"] = Append(@, cs[i].msg)]
    /\ taken' = TRUE
    /\ sequence' = [sequence EXCEPT !["server"] = MovedSequence]
    /\ buffer' = [buffer EXCEPT !["server"] = Copied(@)]
    /\ \E a \in StaleAcks : peerAck' = [peerAck EXCEPT !["server"] = a]
    /\ \E left \in Leftovers : construct' = [construct EXCEPT !["server"] = left]
    /\ resend' = [resend EXCEPT !["server"] = FALSE]
    /\ unpacker' = [unpacker EXCEPT !["server"] = <<>>]
    /\ UNCHANGED <<state, net, queued>>

\* The model ends when an end gives up.
TakeoverNext == /\ \A e \in Endpoint : state[e] = "ONLINE"
                /\ \/ Next /\ UNCHANGED taken
                   \/ SetTimedOut

TakeoverSpec == TakeoverInit /\ [][TakeoverNext]_takeoverVars

(***************************************************************************)
(* The part of NetConnection's Fairness that the server's stream needs:    *)
(* both ends keep updating and fetching, and the path is fair to the chunk *)
(* the client waits for and to the acks the server waits for.              *)
(***************************************************************************)
TakeoverFairness ==
    /\ SF_takeoverVars(UpdateOld("server") /\ UNCHANGED taken)
    /\ \A e \in Endpoint : /\ SF_takeoverVars(UpdateIdle(e) /\ UNCHANGED taken)
                           /\ WF_takeoverVars(FetchChunk(e) /\ UNCHANGED taken)
    /\ []<>(\E p \in net["client"] : BringsNext("client", p))
          => []<><<FeedNext("client")>>_takeoverVars
    /\ []<>(\E p \in net["server"] : BringsAck("server", p))
          => []<><<FeedAck("server")>>_takeoverVars

FairTakeoverSpec == TakeoverSpec /\ TakeoverFairness

-----------------------------------------------------------------------------
(* Properties. *)

(***************************************************************************)
(* The move keeps the place of every chunk: each end is handed the chunks  *)
(* of the session one after the other, none twice, none left out and none  *)
(* of the session that timed out.                                          *)
(***************************************************************************)
InPlace == InOrder

\* What the client was not handed yet is saved for a resend, also after the
\* move, although what was in m_Construct of the left slot is gone.
StillSaved == UndeliveredIsSaved

\* Moving the resend buffer moves the chunks: what is the next for the client
\* is what the server queued for it.
Intact == \A i \in DOMAIN unpacker["client"] :
             LET c == unpacker["client"][i] IN
             c.vital /\ IsNext("client", c) => c.data = "own"

\* The session survives the move: every chunk the server has queued is handed
\* to the client in the end, unless an end gives up.
Recovers ==
    \A k \in 1 .. MaxQueued["server"] :
       queued["server"] >= k ~> \/ Len(delivered["client"]) >= k
                                \/ \E f \in Endpoint : state[f] = "ERROR"
=============================================================================
