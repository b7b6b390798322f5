--------------------------- MODULE SnapshotSync ---------------------------
(***************************************************************************)
(* How a server shows the game to one client that has entered it.  Every   *)
(* second tick, or every tick with sv_high_bandwidth, DoSnapshot sends the *)
(* state of the game as the difference to a snapshot that the client has   *)
(* acked, in parts.  The client puts the parts together, stores the        *)
(* snapshot and acks it with every input.  Snapshots and inputs are not    *)
(* vital: they may be lost, repeated and reordered, and either end drops   *)
(* snapshots it takes for no longer needed.                                *)
(*                                                                         *)
(* A snapshot is the tick it was made for: what it shows is determined by  *)
(* the tick and, at the client, by having the right base.  Time is the     *)
(* server's tick; when the client shows a stored snapshot is its choice.   *)
(***************************************************************************)
EXTENDS Integers, Sequences, FiniteSets, SequencesExt

CONSTANTS
    HighBandwidth,  \* sv_high_bandwidth
    InitRate,       \* ticks between snapshots before the first ack, 10
    RecoverRate,    \* ticks between snapshots to a client that lost track, 50
    KeptTicks,      \* ticks that the server keeps a snapshot, 150
    MaxParts,       \* bound: parts of a snapshot
    MaxTick,        \* bound: ticks
    SnapCap,        \* bound: parts in flight
    InputCap        \* bound: inputs in flight

ASSUME RateAssumption == /\ HighBandwidth \in BOOLEAN
                         /\ {InitRate, RecoverRate, KeptTicks, MaxParts, MaxTick,
                             SnapCap, InputCap} \subseteq Nat \ {0}
                         /\ MaxParts <= SnapCap

VARIABLES
    tick,       \* server: m_CurrentGameTick, when it is next to take snapshots
    snapRate,   \* server: m_SnapRate
    lastAcked,  \* server: m_LastAckedSnapshot
    kept,       \* server: the ticks of m_Snapshots
    stored,     \* client: the ticks of m_aSnapshotStorage, in the order added
    ackTick,    \* client: m_aAckGameTick
    recvTick,   \* client: m_aCurrentRecvTick
    parts,      \* client: m_aSnapshotParts
    received,   \* client: m_aReceivedSnapshots, up to 3
    shown,      \* client: the ticks of SNAP_PREV and SNAP_CURRENT
    snaps,      \* parts of snapshots in flight
    inputs,     \* acks of the inputs in flight, oldest first
    ordered     \* whether the path keeps the order of the inputs; never changes

vars == <<tick, snapRate, lastAcked, kept, stored, ackTick, recvTick, parts,
          received, shown, snaps, inputs, ordered>>

serverVars == <<tick, snapRate, lastAcked, kept>>
clientVars == <<stored, ackTick, recvTick, parts, received, shown>>

Tick == 1 .. MaxTick
None == -1

\* Run takes snapshots in every second tick, or in every tick.
Period == IF HighBandwidth THEN 1 ELSE 2

Init == /\ tick = Period
        /\ snapRate = "INIT"
        /\ lastAcked = None
        /\ kept = {}
        /\ stored = <<>>
        /\ ackTick = None
        /\ recvTick = 0
        /\ parts = {}
        /\ received = 0
        /\ shown = [prev |-> None, current |-> None]
        /\ snaps = {}
        /\ inputs = <<>>
        /\ ordered \in BOOLEAN

-----------------------------------------------------------------------------
(* The server.  Faulty... operators are variants with a bug. *)

\* Whether DoSnapshot has this client's turn in this tick.
IsTurn == /\ snapRate = "RECOVER" => tick % RecoverRate = 0
          /\ snapRate = "INIT" => tick % InitRate = 0

\* PurgeUntil, and the snapshot of this tick.
KeptNow == {k \in kept : k >= tick - KeptTicks} \union {tick}

\* The snapshot to send the difference to, None if the acked one is gone.
Base == IF lastAcked \in KeptNow THEN lastAcked ELSE None

\* The parts in flight after ps are sent: when there are too many, some are lost.
AfterSend(ps) ==
    IF Cardinality(snaps \union ps) <= SnapCap
    THEN {snaps \union ps}
    ELSE {left \union ps : left \in
             {l \in SUBSET snaps : Cardinality(l \union ps) = SnapCap}}

SendSnapshot ==
    /\ kept' = KeptNow
    /\ snapRate' = IF Base = None /\ snapRate = "FULL" THEN "RECOVER" ELSE snapRate
    /\ \E of \in 1 .. MaxParts :
          snaps' \in AfterSend({[tick |-> tick, base |-> Base, number |-> n, of |-> of]
                                   : n \in 1 .. of})

\* The main loop at a tick for snapshots.  Left out: a server that lags, which makes
\* up for several ticks with one snapshot; to the client the others are as if lost.
DoSnapshot ==
    /\ tick + Period <= MaxTick
    /\ tick' = tick + Period
    /\ IF IsTurn THEN SendSnapshot ELSE UNCHANGED <<kept, snapRate, snaps>>
    /\ UNCHANGED <<lastAcked, clientVars, inputs, ordered>>

\* NETMSG_INPUT.  A path that keeps the order loses the inputs it skips; another
\* one may bring this input again, or an older one next.
RecvInput(i) ==
    /\ lastAcked' = inputs[i]
    /\ snapRate' = IF inputs[i] > 0 THEN "FULL" ELSE snapRate
    /\ inputs' = IF ordered THEN SubSeq(inputs, i + 1, Len(inputs)) ELSE inputs
    /\ UNCHANGED <<tick, kept, clientVars, snaps, ordered>>

-----------------------------------------------------------------------------
(* The client. *)

\* The inputs in flight after ack was sent; what is the same is sent once, and
\* when there are too many the oldest is lost.
Sent(ack) ==
    IF inputs # <<>> /\ Last(inputs) = ack THEN inputs
    ELSE IF Len(inputs) < InputCap THEN Append(inputs, ack)
    ELSE Append(Tail(inputs), ack)

\* The prediction that SendInput needs starts with the third snapshot.
SendInput == /\ received >= 3
             /\ inputs' = Sent(ackTick)
             /\ UNCHANGED <<serverVars, clientVars, snaps, ordered>>

\* Also a tick before the one being put together, or before the one acked.
FaultyIsWanted(p) == p.tick # ackTick

\* Not a snapshot the client already has, nor older than the one it is putting
\* together.
IsWanted(p) == p.tick >= recvTick /\ p.tick > ackTick

\* The parts of p's snapshot once p is there.
PartsWith(p) == (IF p.tick = recvTick THEN parts ELSE {}) \union {p.number}

IsBroken(p) == p.base # None /\ p.base \notin ToSet(stored)

\* The snapshots that are shown do not hold the purging back.
FaultyPurgeTick(p) == p.base

\* The oldest snapshot that is still needed.
PurgeTick(p) == Min({p.base} \union ({shown.prev, shown.current} \ {None}))

\* PurgeUntil that drops the snapshot it is to keep, too.
FaultyIsPurged(n, t) ==
    /\ \A i \in 1 .. n : stored[i] <= t
    /\ n < Len(stored) => stored[n + 1] > t

\* PurgeUntil drops the first n snapshots, up to the first that is not before t.
IsPurged(n, t) ==
    /\ \A i \in 1 .. n : stored[i] < t
    /\ n < Len(stored) => stored[n + 1] >= t

\* The tick acked for a snapshot, which this client makes even.
AckOf(t) == t + (t % 2)

\* A part that does not complete a snapshot.
RecvPart(p) ==
    /\ IsWanted(p)
    /\ PartsWith(p) # 1 .. p.of
    /\ parts' = PartsWith(p)
    /\ recvTick' = p.tick
    /\ UNCHANGED <<serverVars, stored, ackTick, received, shown, snaps, inputs, ordered>>

\* The difference is to a snapshot the client has not: the server has to resync.
FaultyRecvBroken(p) ==
    /\ IsWanted(p)
    /\ PartsWith(p) = 1 .. p.of
    /\ IsBroken(p)
    /\ parts' = {}
    /\ recvTick' = p.tick
    /\ ackTick' = AckOf(p.tick)
    /\ inputs' = IF received >= 3 THEN Sent(AckOf(p.tick)) ELSE inputs
    /\ UNCHANGED <<serverVars, stored, received, shown, snaps, ordered>>

RecvBroken(p) ==
    /\ IsWanted(p)
    /\ PartsWith(p) = 1 .. p.of
    /\ IsBroken(p)
    /\ parts' = {}
    /\ recvTick' = p.tick
    /\ ackTick' = None
    /\ inputs' = IF received >= 3 THEN Sent(None) ELSE inputs
    /\ UNCHANGED <<serverVars, stored, received, shown, snaps, ordered>>

\* The snapshot is complete: it is stored and acked; the second one is the first
\* to be shown.
RecvSnapshot(p) ==
    /\ IsWanted(p)
    /\ PartsWith(p) = 1 .. p.of
    /\ ~IsBroken(p)
    /\ parts' = {}
    /\ recvTick' = p.tick
    /\ \E n \in 0 .. Len(stored) :
          /\ IsPurged(n, PurgeTick(p))
          /\ stored' = Append(SubSeq(stored, n + 1, Len(stored)), p.tick)
    /\ ackTick' = AckOf(p.tick)
    /\ received' = IF received < 3 THEN received + 1 ELSE received
    /\ shown' = IF received = 1
                THEN [prev |-> Head(stored'), current |-> Last(stored')]
                ELSE shown
    /\ UNCHANGED <<serverVars, snaps, inputs, ordered>>

\* Update: the game time has passed the current snapshot, and there is a newer one.
ShowNext ==
    /\ received >= 3
    /\ \E i \in 1 .. Len(stored) - 1 :
          /\ stored[i] = shown.current
          /\ shown' = [prev |-> shown.current, current |-> stored[i + 1]]
    /\ UNCHANGED <<serverVars, stored, ackTick, recvTick, parts, received, snaps,
                   inputs, ordered>>

-----------------------------------------------------------------------------
Next == \/ DoSnapshot
        \/ \E i \in DOMAIN inputs : RecvInput(i)
        \/ SendInput
        \/ \E p \in snaps : RecvPart(p) \/ RecvBroken(p) \/ RecvSnapshot(p)
        \/ ShowNext

Spec == Init /\ [][Next]_vars

-----------------------------------------------------------------------------
(* Properties. *)

(***************************************************************************)
(* As long as the inputs keep their order, the client can rebuild every    *)
(* snapshot it wants, however many parts and inputs are lost, repeated or  *)
(* late: neither end drops a base that the other one still builds on.      *)
(***************************************************************************)
BaseIsStored ==
    ordered => \A p \in snaps : IsWanted(p) => ~IsBroken(p)

\* What the client acks it has: the server may build on it from then on.
AckedIsStored == ackTick # None => ackTick \in ToSet(stored)

\* m_aapSnapshots point into the storage: PurgeUntil frees no snapshot that is
\* shown or that the next one to show follows.
ShownIsStored == shown.current # None => {shown.prev, shown.current} \subseteq ToSet(stored)

\* The storage is sorted, which PurgeUntil relies on, and the game is shown forward.
Forward == /\ \A i, j \in DOMAIN stored : i < j => stored[i] < stored[j]
           /\ shown.current # None => shown.prev < shown.current
=============================================================================
