---------------------------- MODULE PlayerProofs ----------------------------
(***************************************************************************)
(* What is proved about the players of a server: of ClientJoin, that the   *)
(* game has a player for exactly those slots that are to have one, for any *)
(* number of maps and of clients; of TeamSave, that the race of a team is  *)
(* at one place at most, played by those who started it, and kept once it  *)
(* is saved, for any number of servers, players, races and requests.       *)
(***************************************************************************)
EXTENDS ClientJoin, TeamSave, FiniteSetTheorems, SequenceTheorems, TLAPS

-----------------------------------------------------------------------------
(* ClientJoin *)

\* The invariant is inductive as it stands: every step that makes or removes a
\* player moves the slot with it.
JoinInv == TypeOK /\ PlayerIffReady

\* Taking a message off a queue and putting one on leaves a queue of messages.
LEMMA QueueType ==
    ASSUME NEW S, NEW q \in Seq(S)
    PROVE  /\ \A m \in S : Append(q, m) \in Seq(S)
           /\ q # <<>> => Head(q) \in S /\ Tail(q) \in Seq(S)
OBVIOUS

\* The messages that the actions send.
LEMMA MsgType ==
    /\ \A type \in {"CLIENTVER", "INFO", "REQUEST_MAP_DATA", "READY", "START_INFO", "ENTERGAME"} :
          Msg(type) \in ToServerMsg
    /\ \A type \in {"CON_READY", "READY_TO_ENTER"} : Msg(type) \in ToClientMsg
    /\ \A type \in {"MAP_CHANGE", "MAP_DATA"}, m \in Map : MapMsg(type, m) \in ToClientMsg
  BY DEF Msg, MapMsg, ToServerMsg, ToClientMsg

\* The first map is a map, and a new client is one.
LEMMA FreshType ==
    /\ 1 \in Map
    /\ Fresh \in Client
    /\ ~Fresh.web
    /\ None \notin Map
  BY JoinAssumption DEF Fresh, Client, Map, None

\* A history field of a client changes nothing else.
LEMMA HistoryType ==
    ASSUME NEW c \in Client, NEW b \in BOOLEAN
    PROVE  /\ [c EXCEPT !.anew = b] \in Client
           /\ [c EXCEPT !.anew = b].web = c.web
           /\ \A m \in Map : /\ [c EXCEPT !.map = m, !.outlasted = b] \in Client
                             /\ [c EXCEPT !.map = m, !.outlasted = b].web = c.web
                             /\ [c EXCEPT !.map = m, !.outlasted = b].wanted = c.wanted
  BY DEF Client

\* A client that comes, starts anew or leaves.
LEMMA ComeAndGo ==
    ASSUME JoinInv, Connect \/ Rejoin \/ Drop
    PROVE  JoinInv'
<1>1. /\ <<Msg("CLIENTVER"), Msg("INFO")>> \in Seq(ToServerMsg)
      /\ <<MapMsg("MAP_CHANGE", serverMap)>> \in Seq(ToClientMsg)
      /\ <<>> \in Seq(ToServerMsg) /\ <<>> \in Seq(ToClientMsg)
  BY MsgType DEF JoinInv, TypeOK
<1>2. joins < MaxJoins => joins + 1 \in 0 .. MaxJoins
  BY JoinAssumption DEF JoinInv, TypeOK
<1>3. CASE Connect
  BY <1>1, <1>2, <1>3, FreshType
     DEF Connect, JoinInv, TypeOK, PlayerIffReady, State
<1>4. CASE Rejoin
  <2>1. /\ client' \in Client
        /\ ~client'.web
    <3> DEFINE b == slot = "READY" /\ player = "ready"
    <3>1. b \in BOOLEAN
      OBVIOUS
    <3>2. client' = [Fresh EXCEPT !.anew = b]
      BY <1>4, Zenon DEF Rejoin
    <3> HIDE DEF b
    <3> QED
      BY <3>1, <3>2, FreshType, HistoryType
  <2> QED
    BY <1>1, <1>2, <1>4, <2>1
       DEF Rejoin, JoinInv, TypeOK, PlayerIffReady
<1>5. CASE Drop
  BY <1>1, <1>5, FreshType
     DEF Drop, JoinInv, TypeOK, PlayerIffReady, State
<1> QED
  BY <1>3, <1>4, <1>5

\* A map change puts every player away and every slot back before READY.
LEMMA MapReloadStep ==
    ASSUME JoinInv, MapReload
    PROVE  JoinInv'
<1>1. serverMap' \in Map
  BY JoinAssumption DEF JoinInv, TypeOK, MapReload, Map
<1>2. toClient' \in Seq(ToClientMsg)
  <2>1. Append(toClient, MapMsg("MAP_CHANGE", serverMap')) \in Seq(ToClientMsg)
    BY <1>1, MsgType, QueueType DEF JoinInv, TypeOK
  <2> QED
    BY <2>1 DEF MapReload, JoinInv, TypeOK
<1>3. slot' \in State \ {"READY", "INGAME"} /\ player' = "none"
  BY DEF MapReload, State, JoinInv, TypeOK
<1> QED
  BY <1>1, <1>2, <1>3 DEF MapReload, JoinInv, TypeOK, PlayerIffReady

\* The server handles a message.
LEMMA ProcessClientPacketStep ==
    ASSUME JoinInv, ProcessClientPacket
    PROVE  JoinInv'
<1>1. toServer' \in Seq(ToServerMsg)
  BY QueueType DEF ProcessClientPacket, JoinInv, TypeOK
<1>2. /\ \A type \in {"MAP_CHANGE", "MAP_DATA"}, m \in Map :
            Append(toClient, MapMsg(type, m)) \in Seq(ToClientMsg)
      /\ \A type \in {"CON_READY", "READY_TO_ENTER"} :
            Append(toClient, Msg(type)) \in Seq(ToClientMsg)
  BY MsgType, QueueType DEF JoinInv, TypeOK
<1>3. /\ toClient' \in Seq(ToClientMsg)
      /\ slot' \in State
      /\ player' \in {"none", "connected", "ready"}
      /\ PlayerIffReady'
  <2>1. CASE RecvClientVer
    BY <2>1 DEF RecvClientVer, JoinInv, TypeOK, PlayerIffReady, State
  <2>2. CASE RecvInfo
    BY <1>2, <2>2 DEF RecvInfo, JoinInv, TypeOK, PlayerIffReady, State
  <2>3. CASE RecvMapRequest
    BY <1>2, <2>3 DEF RecvMapRequest, JoinInv, TypeOK, PlayerIffReady, State
  <2>4. CASE RecvReady
    BY <1>2, <2>4, FreshType
       DEF RecvReady, JoinInv, TypeOK, PlayerIffReady, State
  <2>5. CASE RecvStartInfo
    BY <1>2, <2>5, FreshType
       DEF RecvStartInfo, JoinInv, TypeOK, PlayerIffReady, State
  <2>6. CASE RecvEnterGame
    BY <2>6 DEF RecvEnterGame, JoinInv, TypeOK, PlayerIffReady, State
  <2> QED
    BY <2>1, <2>2, <2>3, <2>4, <2>5, <2>6 DEF ProcessClientPacket
<1> QED
  BY <1>1, <1>3 DEF ProcessClientPacket, JoinInv, TypeOK

\* What a step of the client leaves, but for the queue from the server.
ClientStep == /\ client' \in Client
              /\ client'.web => client'.wanted # None
              /\ toServer' \in Seq(ToServerMsg)

\* The client handles a message, or its download from the web ends.
LEMMA ClientStepType ==
    ASSUME JoinInv, ProcessServerPacket \/ WebDownload
    PROVE  ClientStep
<1>1. \A type \in {"REQUEST_MAP_DATA", "READY", "START_INFO", "ENTERGAME"} :
         Append(toServer, Msg(type)) \in Seq(ToServerMsg)
  BY MsgType, QueueType DEF JoinInv, TypeOK
<1>2. toServer \in Seq(ToServerMsg)
  BY DEF JoinInv, TypeOK
<1>3. CASE WebDownload
  BY <1>1, <1>3 DEF WebDownload, FinishWebDownload, FailWebDownload, Send, ClientStep, Client,
                    JoinInv, TypeOK
<1>4. CASE ProcessServerPacket
  <2> DEFINE msg == Head(toClient)
  <2>1. msg \in ToClientMsg
    BY <1>4, QueueType DEF ProcessServerPacket, JoinInv, TypeOK
  <2>0. /\ msg.map \in Map \union {None}
        /\ msg.type \in {"MAP_CHANGE", "MAP_DATA"} => msg.map \in Map \ {None}
    BY <2>1, FreshType DEF ToClientMsg
  <2>2. CASE FindMap(msg.map) /\ msg.map # None
    <3> DEFINE b == client.outlasted \/ client.web
    <3>1. b \in BOOLEAN
      OBVIOUS
    <3>2. client' = [client EXCEPT !.map = msg.map, !.outlasted = b]
      <4>1. client' = [client EXCEPT !.map = msg.map, !.outlasted = @ \/ client.web]
        BY <2>2 DEF FindMap
      <4> QED
        BY <4>1, Zenon
    <3>3. client \in Client /\ (client.web => client.wanted # None)
      BY DEF JoinInv, TypeOK
    <3>4. toServer' \in Seq(ToServerMsg)
      BY <1>1, <2>2, Zenon DEF FindMap, Send
    <3>5. msg.map \in Map
      BY <2>0, <2>2
    <3> HIDE DEF b
    <3>6. /\ client' \in Client /\ client'.web = client.web
          /\ client'.wanted = client.wanted
      BY <3>1, <3>2, <3>3, <3>5, HistoryType, ZenonT(60)
    <3> QED
      BY <3>3, <3>4, <3>6 DEF ClientStep
  <2>3. CASE WantMap(msg.map) /\ msg.map # None
    BY <1>1, <1>2, <2>0, <2>3
       DEF WantMap, Send, ClientStep, Client, JoinInv, TypeOK
  <2>4. CASE RecvMapData(msg.map)
    BY <1>1, <1>2, <2>0, <2>4
       DEF RecvMapData, Send, ClientStep, Client, JoinInv, TypeOK
  <2>5. CASE RecvConReady
    BY <1>1, <2>5 DEF RecvConReady, Send, ClientStep, Client, JoinInv, TypeOK
  <2>6. CASE RecvReadyToEnter
    BY <1>1, <2>6 DEF RecvReadyToEnter, Send, ClientStep, Client, JoinInv, TypeOK
  <2> QED
    BY <1>4, <2>0, <2>2, <2>3, <2>4, <2>5, <2>6 DEF ProcessServerPacket
<1> QED
  BY <1>3, <1>4

LEMMA ClientStepKeeps ==
    ASSUME JoinInv, ProcessServerPacket \/ WebDownload
    PROVE  JoinInv'
<1>1. ClientStep
  BY ClientStepType
<1>2. toClient' \in Seq(ToClientMsg) /\ UNCHANGED <<serverMap, slot, player, joins>>
  BY QueueType DEF ProcessServerPacket, WebDownload, FinishWebDownload, FailWebDownload,
                   JoinInv, TypeOK
<1> QED
  BY <1>1, <1>2 DEF ClientStep, JoinInv, TypeOK, PlayerIffReady

\* The types and the agreement on players hold at the start and are kept by every
\* step, however many maps there are and however often clients come.
THEOREM JoinInductive == JoinSpec => []JoinInv
<1>1. JoinInit => JoinInv
  <2>1. <<>> \in Seq(ToServerMsg) /\ <<>> \in Seq(ToClientMsg)
    OBVIOUS
  <2> QED
    BY <2>1, FreshType, JoinAssumption DEF JoinInit, JoinInv, TypeOK, PlayerIffReady, State
<1>2. JoinInv /\ [JoinNext]_joinVars => JoinInv'
  <2> SUFFICES ASSUME JoinInv, [JoinNext]_joinVars PROVE JoinInv'
    OBVIOUS
  <2>1. CASE JoinNext
    BY <2>1, ComeAndGo, MapReloadStep, ProcessClientPacketStep, ClientStepKeeps DEF JoinNext
  <2>2. CASE UNCHANGED joinVars
    BY <2>2 DEF joinVars, JoinInv, TypeOK, PlayerIffReady
  <2> QED
    BY <2>1, <2>2
<1> QED
  BY <1>1, <1>2, PTL DEF JoinSpec

\* The variables keep their types; a client that downloads from the web knows what.
THEOREM JoinTypesCorrect == JoinSpec => []TypeOK
<1>1. JoinInv => TypeOK
  BY DEF JoinInv
<1> QED
  BY <1>1, JoinInductive, PTL

\* The game has a player for a slot exactly while the slot is READY or INGAME.
THEOREM PlayersMatchSlots == JoinSpec => []PlayerIffReady
<1>1. JoinInv => PlayerIffReady
  BY DEF JoinInv
<1> QED
  BY <1>1, JoinInductive, PTL

-----------------------------------------------------------------------------
(* TeamSave *)

GameFields == {"client", "tee", "teeStarted", "teeFinished", "state", "locked", "saving",
               "run", "ranked"}
Members(g) == {g.client[i] : i \in Team(g)}
IsTeam(g) == DOMAIN g = GameFields /\ (IsRacing(g) => Team(g) # {})

\* What a step of the game that neither starts a race nor saves nor loads
\* makes of a team.
Follows(g, h) ==
  /\ IsTeam(h)
  /\ h.saving = g.saving /\ h.run = g.run
  /\ IsRacing(h) => IsRacing(g)
  /\ IsRacing(h) \/ IsSaving(g) => Members(h) \subseteq Members(g)
  /\ \/ h.ranked = g.ranked
     \/ h.ranked = g.ranked \union {g.run} /\ IsRacing(g) /\ ~IsRacing(h)

\* Two steps that only follow on make one.
LEMMA FollowsTransitive ==
  ASSUME NEW f, NEW g, NEW h, Follows(f, g), Follows(g, h)
  PROVE  Follows(f, h)
BY DEF Follows, IsSaving

\* A change that leaves the players, and does not start a race, but may
\* end one.
LEMMA SameFollows ==
  ASSUME NEW g, NEW h, IsTeam(g), DOMAIN h = GameFields,
         h.client = g.client, h.saving = g.saving, h.run = g.run,
         IsRacing(h) => IsRacing(g),
         \/ h.ranked = g.ranked
         \/ h.ranked = g.ranked \union {g.run} /\ IsRacing(g) /\ ~IsRacing(h)
  PROVE  Follows(g, h)
<1>1. Team(h) = Team(g) /\ Members(h) = Members(g)
  BY DEF Team, Members
<1>2. QED
  BY <1>1 DEF Follows, IsTeam

\* Players that leave.
LEMMA LeaveAllFollows ==
  ASSUME NEW g, NEW slots, IsTeam(g)
  PROVE  Follows(g, LeaveAll(g, slots))
<1> DEFINE left == [g EXCEPT
        !.client = [i \in DOMAIN @ |-> IF i \in slots THEN Nobody ELSE @[i]],
        !.tee = [i \in DOMAIN @ |-> IF i \in slots THEN "dead" ELSE @[i]],
        !.teeStarted = @ \ slots, !.teeFinished = @ \ slots]
           h == LeaveAll(g, slots)
<1>1. /\ DOMAIN left = GameFields /\ left.state = g.state
      /\ left.saving = g.saving /\ left.run = g.run /\ left.ranked = g.ranked
      /\ left.client = [i \in DOMAIN g.client |-> IF i \in slots THEN Nobody ELSE g.client[i]]
  BY DEF IsTeam, GameFields
<1>2. Team(left) \subseteq Team(g) /\ Members(left) \subseteq Members(g)
  BY <1>1, ZenonT(60) DEF Team, Members
<1>3. h = IF Team(left) = {} THEN [left EXCEPT !.state = "EMPTY", !.locked = FALSE] ELSE left
  BY DEF LeaveAll
<1> HIDE DEF left
<1>4. CASE Team(left) # {}
  BY <1>1, <1>2, <1>3, <1>4 DEF Follows, IsTeam, IsRacing
<1>5. CASE Team(left) = {}
  <2>1. /\ DOMAIN h = GameFields /\ h.state = "EMPTY" /\ h.client = left.client
        /\ h.saving = g.saving /\ h.run = g.run /\ h.ranked = g.ranked
    BY <1>1, <1>3, <1>5 DEF GameFields
  <2>2. Members(h) = Members(left)
    BY <2>1 DEF Members, Team
  <2>3. QED
    BY <1>2, <2>1, <2>2 DEF Follows, IsTeam, IsRacing
<1>6. QED
  BY <1>4, <1>5

\* The rank ends the race.
LEMMA CheckTeamFinishedFollows ==
  ASSUME NEW g, IsTeam(g)
  PROVE  Follows(g, CheckTeamFinished(g))
<1> DEFINE finished == [g EXCEPT
        !.tee = [i \in DOMAIN @ |-> IF i \in Playing(g) THEN "finished" ELSE @[i]],
        !.teeStarted = @ \ Playing(g), !.teeFinished = @ \ Playing(g),
        !.state = "FINISHED", !.ranked = @ \union {g.run}]
<1>1. Follows(g, g)
  BY SameFollows DEF IsTeam
<1>2. ASSUME g.state = "STARTED"
      PROVE  Follows(g, finished)
  <2>1. /\ DOMAIN finished = GameFields /\ finished.client = g.client
        /\ finished.saving = g.saving /\ finished.run = g.run
        /\ finished.state = "FINISHED" /\ finished.ranked = g.ranked \union {g.run}
    BY SMTT(60) DEF IsTeam, GameFields
  <2> HIDE DEF finished
  <2>2. QED
    BY <1>2, <2>1, SameFollows DEF IsRacing
<1>3. Follows(finished, LeaveAll(finished, Playing(g))) \/ ~Follows(g, finished)
  BY LeaveAllFollows DEF Follows
<1>4. CheckTeamFinished(g) =
        IF g.state = "STARTED" /\ Team(g) \subseteq g.teeFinished /\ Playing(g) # {}
        THEN IF g.locked THEN finished ELSE LeaveAll(finished, Playing(g))
        ELSE g
  BY DEF CheckTeamFinished
<1> HIDE DEF finished
<1>5. QED
  BY <1>1, <1>2, <1>3, <1>4, FollowsTransitive

\* A team that starts anew races no more.
LEMMA StartAnewFollows ==
  ASSUME NEW g, IsTeam(g)
  PROVE  Follows(g, StartAnew(g))
<1> DEFINE h == StartAnew(g)
<1>1. /\ DOMAIN h = GameFields /\ h.client = g.client /\ h.saving = g.saving
      /\ h.run = g.run /\ h.state = "OPEN" /\ h.ranked = g.ranked
  BY DEF IsTeam, GameFields, StartAnew
<1> HIDE DEF h
<1>2. QED
  BY <1>1, SameFollows DEF IsRacing, h

\* Characters that die, or that get another state.
LEMMA TeeFollows ==
  ASSUME NEW g, NEW tee, IsTeam(g)
  PROVE  Follows(g, [g EXCEPT !.tee = tee])
<1> DEFINE h == [g EXCEPT !.tee = tee]
<1>1. /\ DOMAIN h = GameFields /\ h.client = g.client /\ h.saving = g.saving
      /\ h.run = g.run /\ h.state = g.state /\ h.ranked = g.ranked
  BY DEF IsTeam, GameFields
<1> HIDE DEF h
<1>2. QED
  BY <1>1, SameFollows DEF IsRacing, h

\* A death, with what it does to the team.
LEMMA DieFollows ==
  ASSUME NEW g, NEW i, IsTeam(g)
  PROVE  Follows(g, Die(g, i))
<1> DEFINE dead == [g EXCEPT !.tee[i] = "dead"]
           again == Enter(dead, i, g.client[i])
           stuck == [dead EXCEPT !.state = IF @ = "STARTED" /\ i \notin g.teeStarted
                                           THEN "STARTED_UNFINISHABLE" ELSE @]
<1>1. Follows(g, dead)
  BY TeeFollows
<1>2. /\ DOMAIN dead = GameFields /\ dead.client = g.client /\ dead.saving = g.saving
      /\ dead.run = g.run /\ dead.state = g.state /\ dead.ranked = g.ranked
  BY DEF IsTeam, GameFields
<1>3. Die(g, i) = IF IsSaving(g) THEN dead
                  ELSE IF g.locked /\ g.state = "OPEN" THEN again
                  ELSE IF g.locked THEN StartAnew(g)
                  ELSE CheckTeamFinished(Leave(stuck, i))
  BY DEF Die
<1> HIDE DEF dead
<1>4. ASSUME g.state = "OPEN"
      PROVE  Follows(g, again)
  <2>1. /\ DOMAIN again = GameFields
        /\ again.client = [g.client EXCEPT ![i] = g.client[i]]
        /\ again.saving = g.saving /\ again.run = g.run
        /\ again.state = "OPEN" /\ again.ranked = g.ranked
    BY <1>2, <1>4 DEF Enter, GameFields
  <2>2. Team(again) = Team(g) /\ Members(again) = Members(g)
    BY <2>1 DEF Team, Members
  <2> HIDE DEF again
  <2>3. QED
    BY <2>1, <2>2 DEF Follows, IsTeam, IsRacing
<1>5. Follows(dead, stuck)
  <2>1. /\ DOMAIN stuck = GameFields /\ stuck.client = dead.client
        /\ stuck.saving = dead.saving /\ stuck.run = dead.run /\ stuck.ranked = dead.ranked
        /\ stuck.state \in {dead.state} \/ (dead.state = "STARTED" /\ stuck.state = "STARTED_UNFINISHABLE")
    BY <1>2 DEF GameFields
  <2> HIDE DEF stuck
  <2>2. IsRacing(stuck) => IsRacing(dead)
    BY <2>1 DEF IsRacing
  <2>3. QED
    BY <1>1, <2>1, <2>2, SameFollows DEF Follows
<1> HIDE DEF stuck
<1>6. Follows(stuck, Leave(stuck, i))
  BY <1>5, LeaveAllFollows DEF Follows, Leave
<1>7. Follows(Leave(stuck, i), CheckTeamFinished(Leave(stuck, i)))
  BY <1>6, CheckTeamFinishedFollows DEF Follows
<1>8. Follows(g, CheckTeamFinished(Leave(stuck, i)))
  BY <1>1, <1>5, <1>6, <1>7, FollowsTransitive
<1> HIDE DEF again
<1>9. QED
  BY <1>1, <1>3, <1>4, <1>8, StartAnewFollows

\* All who play die.
LEMMA KillTeamFollows ==
  ASSUME NEW g, IsTeam(g)
  PROVE  Follows(g, KillTeam(g))
<1>1. Follows(g, g)
  BY SameFollows DEF IsTeam
<1>2. QED
  BY <1>1, TeeFollows, StartAnewFollows, LeaveAllFollows DEF KillTeam

\* A player that comes back.
LEMMA SpawnFollows ==
  ASSUME NEW g, NEW i, IsTeam(g)
  PROVE  Follows(g, Spawn(g, i))
<1>1. Follows(g, Leave(g, i))
  BY LeaveAllFollows DEF Leave
<1>2. Follows(g, CheckTeamFinished(Leave(g, i)))
  BY <1>1, CheckTeamFinishedFollows, FollowsTransitive DEF Follows
<1>3. QED
  BY <1>2, TeeFollows DEF Spawn

JobFields == {"on", "kind", "code", "saved", "who", "at", "status", "row"}
IsSequence(q) == \E S : q \in Seq(S)

\* What is saved names a race that was started, by those who saved it or
\* some of them.
IsSaved(saved, nm) ==
  /\ DOMAIN saved = {"run", "locked", "tees"}
  /\ saved.run \in 1..Len(nm) /\ DOMAIN saved.tees \subseteq nm[saved.run]
IsRow(row, nm) == DOMAIN row = {"code", "id", "saved"} /\ IsSaved(row.saved, nm)
IsGiven(j, nm) == IsSaved(j.saved, nm) /\ DOMAIN j.saved.tees = DOMAIN j.who

IsSaveJob(j, nm) ==
  /\ DOMAIN j = JobFields /\ j.kind = "save"
  /\ j.at \in {"backup", "insert", "succeeded", "failed", "completed"}
  /\ j.status \in {"SAVE_SUCCESS", "SAVE_FAILED"}
  /\ j.at = "succeeded" => j.status = "SAVE_SUCCESS"
  /\ IsSaved(j.saved, nm)
IsLoadJob(j, nm) ==
  /\ DOMAIN j = JobFields /\ j.kind = "load"
  /\ j.at \in {"select", "delete", "failed", "completed"}
  /\ j.status \in {"LOAD_SUCCESS", "LOAD_FAILED"}
  /\ j.status = "LOAD_SUCCESS" => j.at = "completed" /\ IsGiven(j, nm)
  /\ j.at = "delete" => IsGiven(j, nm) /\ j.saved.run = RunOf(j.row)
IsJob(j, nm) ==
  /\ j.on \in Server
  /\ j = Freed(j.on) \/ IsSaveJob(j, nm) \/ IsLoadJob(j, nm)
Jobs(jb, nm) == IsSequence(jb) /\ \A k \in 1..Len(jb) : IsJob(jb[k], nm)

\* The requests that a pool has to work off are different ones, and under
\* way.
IsQueue(s, q, jb) ==
  /\ q \in Seq(Nat)
  /\ \A i \in 1..Len(q) :
       /\ q[i] \in 1..Len(jb)
       /\ jb[q[i]].on = s /\ jb[q[i]].at \notin {"completed", "freed"}
       /\ \A j \in 1..Len(q) : q[i] = q[j] => i = j
Queues(qu, jb) ==
  DOMAIN qu = Server /\ \A s \in Server : IsQueue(s, qu[s], jb)

\* A team that waits for a request has only players that the request is
\* about, and does not race while it loads.
Asks(s, g, jb) ==
  /\ g.saving \in 1..Len(jb)
  /\ jb[g.saving].on = s /\ jb[g.saving].at # "freed"
  /\ jb[g.saving].kind = "save" => Members(g) \subseteq DOMAIN jb[g.saving].saved.tees
  /\ jb[g.saving].kind = "load" => Members(g) \subseteq DOMAIN jb[g.saving].who /\ ~IsRacing(g)
Races(g, nm) ==
  /\ IsRacing(g) => g.run \in 1..Len(nm) /\ Members(g) \subseteq nm[g.run]
  /\ ~IsRacing(g) => g.run = NoRun
IsGame(s, g, jb, nm) ==
  /\ IsTeam(g)
  /\ g.ranked \subseteq 1..Len(nm)
  /\ Races(g, nm)
  /\ IsSaving(g) => Asks(s, g, jb)
Games(gm, jb, nm) ==
  DOMAIN gm = Server /\ \A s \in Server : IsGame(s, gm[s], jb, nm)

\* A copy is that of a save whose status says so.
IsCopy(s, row, jb, nm) ==
  /\ IsRow(row, nm) /\ row.id \in 1..Len(jb)
  /\ \/ jb[row.id].at = "freed"
     \/ /\ jb[row.id].kind = "save" /\ jb[row.id].on = s
        /\ jb[row.id].at # "backup" /\ jb[row.id].status = "SAVE_SUCCESS"
        /\ row = [code |-> Generated(row.id), id |-> row.id, saved |-> jb[row.id].saved]
Tables(rm, lc, jb, nm) ==
  /\ \A row \in rm : IsRow(row, nm)
  /\ DOMAIN lc = Server
  /\ \A s \in Server : /\ DOMAIN lc[s] = {"saves", "backup"}
                       /\ \A row \in lc[s].saves : IsRow(row, nm)
                       /\ \A row \in lc[s].backup : IsCopy(s, row, jb, nm)

\* The places where a race is held: the game it is played in, the request
\* that carries it, the row that is left of it, its end.
Carries(j, r) ==
  /\ \/ j.at \in {"backup", "insert", "failed"} /\ j.kind = "save"
     \/ j.at = "completed" /\ j.status \in {"SAVE_FAILED", "LOAD_SUCCESS"}
  /\ j.saved.run = r
InGames(r, gm) == {<<"game", s>> : s \in {s \in Server : gm[s].run = r /\ ~IsSaving(gm[s])}}
InJobs(r, jb) == {<<"job", k>> : k \in {k \in 1..Len(jb) : Carries(jb[k], r)}}
InRemote(r, rm) == {<<"remote", row>> : row \in {row \in rm : RunOf(row) = r}}
InLocal(r, lc) ==
  {<<"local", p>> : p \in {p \in Server \X UNION {lc[s].saves : s \in Server} :
                             p[2] \in lc[p[1]].saves /\ RunOf(p[2]) = r}}
AtEnd(r, gm) == {<<"ranked", s>> : s \in {s \in Server : r \in gm[s].ranked}}
Holders(r, gm, jb, rm, lc) ==
  InGames(r, gm) \union InJobs(r, jb) \union InRemote(r, rm) \union InLocal(r, lc) \union AtEnd(r, gm)
One(H) == \A p, q \in H : p = q
Once(gm, jb, rm, lc, nm, bl) ==
  \A r \in 1..Len(nm) \ bl : One(Holders(r, gm, jb, rm, lc))

Held ==
  /\ IsSequence(names)
  /\ Jobs(job, names) /\ Queues(queue, job)
  /\ Games(game, job, names) /\ Tables(remote, local, job, names)
SaveInv == Held /\ Once(game, job, remote, local, names, blurred)

-----------------------------------------------------------------------------
\* f with another value at x.
Put(f, x, v) == [f EXCEPT ![x] = v]

\* What a step of the game leaves, see Becomes.
Left(h) == [h EXCEPT !.run = IF IsRacing(h) THEN @ ELSE NoRun]

\* What is forgotten is the race of a team that races no more.
LEMMA LeftOf ==
  ASSUME NEW h, IsTeam(h)
  PROVE  /\ IsTeam(Left(h)) /\ Members(Left(h)) = Members(h) /\ Team(Left(h)) = Team(h)
         /\ Left(h).saving = h.saving /\ Left(h).ranked = h.ranked
         /\ IsRacing(Left(h)) <=> IsRacing(h)
         /\ Left(h).run = IF IsRacing(h) THEN h.run ELSE NoRun
         /\ IsSaving(Left(h)) <=> IsSaving(h)
<1>1. /\ DOMAIN Left(h) = GameFields /\ Left(h).client = h.client
      /\ Left(h).saving = h.saving /\ Left(h).ranked = h.ranked
      /\ Left(h).run = IF IsRacing(h) THEN h.run ELSE NoRun
      /\ Left(h).state = h.state
  BY DEF Left, IsTeam, GameFields
<1>2. /\ Team(Left(h)) = Team(h) /\ Members(Left(h)) = Members(h)
      /\ IsRacing(Left(h)) <=> IsRacing(h)
      /\ IsSaving(Left(h)) <=> IsSaving(h)
  BY <1>1 DEF Team, Members, IsRacing, IsSaving
<1>3. IsTeam(Left(h))
  BY <1>1, <1>2 DEF IsTeam
<1>4. QED
  BY <1>1, <1>2, <1>3

\* The holders of a race by the kind of place.
LEMMA Kinds ==
  ASSUME NEW r, NEW gm, NEW jb, NEW rm, NEW lc
  PROVE  /\ \A p \in InGames(r, gm) : p[1] = "game"
         /\ \A p \in InJobs(r, jb) : p[1] = "job"
         /\ \A p \in InRemote(r, rm) : p[1] = "remote"
         /\ \A p \in InLocal(r, lc) : p[1] = "local"
         /\ \A p \in AtEnd(r, gm) : p[1] = "ranked"
BY DEF InGames, InJobs, InRemote, InLocal, AtEnd

\* Nothing is doubled when what held a race is replaced, or when something
\* is taken away.
LEMMA OneReplaced ==
  ASSUME NEW H, NEW K, One(H), NEW p \in H, NEW q, K \subseteq (H \ {p}) \union {q}
  PROVE  One(K)
BY DEF One

\* What is taken away doubles nothing.
LEMMA OneLess ==
  ASSUME NEW H, NEW K, One(H), K \subseteq H
  PROVE  One(K)
BY DEF One

\* Y is X, except that it has p exactly if so.
Except(Y, X, p, so) == \A q : q \in Y <=> (q \in X /\ q # p) \/ (q = p /\ so)

\* What a game holds, with another at one server.
LEMMA GameReplaced ==
  ASSUME NEW r, NEW gm, NEW s \in Server, NEW h, DOMAIN gm = Server,
         NEW gn, gn = Put(gm, s, h)
  PROVE  /\ Except(InGames(r, gn), InGames(r, gm), <<"game", s>>, h.run = r /\ ~IsSaving(h))
         /\ Except(AtEnd(r, gn), AtEnd(r, gm), <<"ranked", s>>, r \in h.ranked)
<1>1. \A p : p \in InGames(r, gn) <=> \/ p \in InGames(r, gm) /\ p # <<"game", s>>
                                      \/ p = <<"game", s>> /\ h.run = r /\ ~IsSaving(h)
  BY DEF InGames, Put
<1>2. \A p : p \in AtEnd(r, gn) <=> \/ p \in AtEnd(r, gm) /\ p # <<"ranked", s>>
                                    \/ p = <<"ranked", s>> /\ r \in h.ranked
  BY DEF AtEnd, Put
<1>3. QED
  BY <1>1, <1>2 DEF Except

\* What the requests carry, with another in the place of one.
LEMMA JobReplaced ==
  ASSUME NEW r, NEW jb, IsSequence(jb), NEW k \in 1..Len(jb), NEW j,
         NEW jn, jn = Put(jb, k, j)
  PROVE  Except(InJobs(r, jn), InJobs(r, jb), <<"job", k>>, Carries(j, r))
<1>1. /\ Len(jn) = Len(jb)
      /\ \A i \in 1..Len(jb) : jn[i] = IF i = k THEN j ELSE jb[i]
  BY DEF IsSequence, Put
<1>2. \A p : p \in InJobs(r, jn) <=> \/ p \in InJobs(r, jb) /\ p # <<"job", k>>
                                     \/ p = <<"job", k>> /\ Carries(j, r)
  BY <1>1 DEF InJobs
<1>3. QED
  BY <1>2 DEF Except

\* A step of the game of one server that keeps its runs and its requests.
LEMMA GameFollowed ==
  ASSUME NEW s, NEW g, NEW h, NEW jb, NEW nm, IsGame(s, g, jb, nm), Follows(g, h)
  PROVE  IsGame(s, Left(h), jb, nm)
<1> DEFINE l == Left(h)
<1>1. /\ IsTeam(l) /\ Members(l) = Members(h)
      /\ l.saving = g.saving /\ l.ranked = h.ranked
      /\ IsRacing(l) <=> IsRacing(h)
      /\ l.run = IF IsRacing(h) THEN g.run ELSE NoRun
      /\ IsSaving(l) <=> IsSaving(g)
  BY LeftOf DEF Follows, IsSaving
<1> HIDE DEF l
<1>2. Races(l, nm)
  BY <1>1 DEF Races, IsGame, Follows
<1>3. l.ranked \subseteq 1..Len(nm)
  BY <1>1 DEF Races, IsGame, Follows
<1>4. IsSaving(l) => Asks(s, l, jb)
  <2> SUFFICES ASSUME IsSaving(l) PROVE Asks(s, l, jb)
    OBVIOUS
  <2>1. Asks(s, g, jb) /\ Members(l) \subseteq Members(g) /\ (IsRacing(l) => IsRacing(g))
    BY <1>1 DEF IsGame, Follows
  <2>2. QED
    BY <1>1, <2>1 DEF Asks
<1>5. QED
  BY <1>1, <1>2, <1>3, <1>4 DEF IsGame, l

\* Where the race of the game is then: still in the game, or at its end.
LEMMA GameHolds ==
  ASSUME NEW s \in Server, NEW gm, NEW h, NEW jb, NEW nm, NEW r \in 1..Len(nm),
         Games(gm, jb, nm), Follows(gm[s], h),
         IsSaving(gm[s]) => r \notin h.ranked \ gm[s].ranked,
         NEW rm, NEW lc, One(Holders(r, gm, jb, rm, lc)),
         NEW gn, gn = Put(gm, s, Left(h))
  PROVE  One(Holders(r, gn, jb, rm, lc))
<1> DEFINE g == gm[s]
           l == Left(h)
           H == Holders(r, gm, jb, rm, lc)
           K == Holders(r, gn, jb, rm, lc)
<1>1. /\ l.saving = g.saving /\ l.ranked = h.ranked
      /\ l.run = IF IsRacing(h) THEN g.run ELSE NoRun
      /\ IsSaving(l) <=> IsSaving(g)
      /\ DOMAIN gm = Server /\ Races(g, nm)
      /\ r # NoRun
  BY LeftOf DEF Follows, IsSaving, Games, IsGame, NoRun
<1>2. /\ Except(InGames(r, gn), InGames(r, gm), <<"game", s>>, l.run = r /\ ~IsSaving(l))
      /\ Except(AtEnd(r, gn), AtEnd(r, gm), <<"ranked", s>>, r \in l.ranked)
  <2> HIDE DEF l
  <2>1. gn = Put(gm, s, l) /\ DOMAIN gm = Server
    BY <1>1 DEF l
  <2>2. QED
    BY <2>1, GameReplaced
<1>3. /\ <<"game", s>> \in InGames(r, gm) <=> g.run = r /\ ~IsSaving(g)
      /\ <<"ranked", s>> \in AtEnd(r, gm) <=> r \in g.ranked
  BY DEF InGames, AtEnd
<1>4. /\ \A p \in H \union K : p \in InGames(r, gm) \union InGames(r, gn) => p[1] = "game"
      /\ \A p \in H \union K : p \notin InGames(r, gm) \union InGames(r, gn) => p[1] # "game"
  BY Kinds DEF Holders
<1> HIDE DEF l, g
<1>5. l.run = r => g.run = r
  BY <1>1
<1>6. InGames(r, gn) \subseteq InGames(r, gm)
  BY <1>1, <1>2, <1>3, <1>5 DEF Except
<1>7. CASE r \in h.ranked => r \in g.ranked
  <2>1. AtEnd(r, gn) \subseteq AtEnd(r, gm)
    BY <1>1, <1>2, <1>3, <1>7 DEF Except
  <2>2. K \subseteq H
    BY <1>6, <2>1 DEF Holders
  <2>3. QED
    BY <2>2, OneLess
<1>8. CASE r \in h.ranked /\ r \notin g.ranked
  <2>1. /\ ~IsSaving(g) /\ r = g.run /\ ~IsRacing(h)
    BY <1>8 DEF Follows, g
  <2>2. l.run # r
    BY <1>1, <2>1
  <2>3. /\ <<"game", s>> \in H
        /\ <<"game", s>> \notin InGames(r, gn)
    BY <1>2, <1>3, <2>1, <2>2 DEF Holders, Except
  <2>4. K \subseteq H \union {<<"ranked", s>>}
    BY <1>2, <1>6 DEF Holders, Except
  <2>5. <<"game", s>> \notin K
    <3>1. <<"game", s>>[1] = "game"
      OBVIOUS
    <3>2. /\ <<"game", s>> \notin InJobs(r, jb) /\ <<"game", s>> \notin InRemote(r, rm)
          /\ <<"game", s>> \notin InLocal(r, lc) /\ <<"game", s>> \notin AtEnd(r, gn)
      BY <3>1, Kinds
    <3>3. QED
      BY <2>3, <3>2 DEF Holders
  <2>6. K \subseteq (H \ {<<"game", s>>}) \union {<<"ranked", s>>}
    BY <2>4, <2>5
  <2> HIDE DEF H, K
  <2>7. One(H)
    BY DEF H
  <2>8. One(K)
    BY <2>3, <2>6, <2>7, OneReplaced
  <2>9. QED
    BY <2>8 DEF K
<1>9. QED
  BY <1>7, <1>8

UnchangedRest == UNCHANGED <<queue, job, tables, names>>

\* A step of the game that is nothing else, and leaves h of the team.
Plays(s, h) == Follows(game[s], h) /\ Becomes(s, h) /\ UnchangedRest

\* The invariant is kept by such a step.
LEMMA PlayingKeeps ==
  ASSUME SaveInv, NEW s \in Server, NEW h, Plays(s, h)
  PROVE  SaveInv'
<1>0. Follows(game[s], h) /\ Becomes(s, h) /\ UnchangedRest
  BY DEF Plays
<1>1. game' = Put(game, s, Left(h))
  BY <1>0 DEF Becomes, Left, Put
<1>2. queue' = queue /\ job' = job /\ remote' = remote /\ local' = local /\ names' = names
  BY <1>0 DEF UnchangedRest, tables
<1>3. /\ IsSequence(names) /\ Jobs(job, names) /\ Queues(queue, job)
      /\ Games(game, job, names) /\ Tables(remote, local, job, names)
      /\ Once(game, job, remote, local, names, blurred)
  BY DEF SaveInv, Held
<1>4. IsGame(s, Left(h), job, names)
  BY <1>0, <1>3, GameFollowed DEF Games
<1>5. Games(game', job, names)
  BY <1>1, <1>3, <1>4 DEF Games, Put
<1>6. blurred' = IF IsSaving(game[s]) THEN blurred \union (h.ranked \ game[s].ranked) ELSE blurred
  BY <1>0 DEF Becomes
<1>7. Once(game', job, remote, local, names, blurred')
  <2> SUFFICES ASSUME NEW r \in 1..Len(names) \ blurred'
               PROVE  One(Holders(r, game', job, remote, local))
    BY DEF Once
  <2>1. r \in 1..Len(names) \ blurred /\ (IsSaving(game[s]) => r \notin h.ranked \ game[s].ranked)
    BY <1>6
  <2>2. One(Holders(r, game, job, remote, local))
    BY <1>3, <2>1 DEF Once
  <2>3. QED
    BY <1>0, <1>1, <1>3, <2>1, <2>2, GameHolds
<1>8. QED
  BY <1>2, <1>3, <1>5, <1>7 DEF SaveInv, Held

\* Every game is that of a team.
LEMMA GamesAreTeams ==
  ASSUME SaveInv, NEW s \in Server
  PROVE  IsTeam(game[s]) /\ DOMAIN game[s] = GameFields
BY DEF SaveInv, Held, Games, IsGame, IsTeam

\* Who joins can do so only where nothing is raced or saved.
LEMMA JoinFollows ==
  ASSUME NEW g, NEW i, NEW n, IsTeam(g), MayJoin(g, i)
  PROVE  Follows(g, [Enter(g, i, n) EXCEPT !.tee[i] = "none"])
<1> DEFINE h == [Enter(g, i, n) EXCEPT !.tee[i] = "none"]
<1>1. /\ DOMAIN h = GameFields /\ h.saving = g.saving /\ h.run = g.run /\ h.ranked = g.ranked
      /\ h.state \in {"EMPTY", "OPEN"}
  BY DEF IsTeam, GameFields, Enter, MayJoin
<1> HIDE DEF h
<1>2. Follows(g, h)
  BY <1>1 DEF Follows, IsTeam, IsRacing, MayJoin
<1>3. QED
  BY <1>2 DEF h

\* Fields that are neither the players nor the race.
LEMMA DetailFollows ==
  ASSUME NEW g, NEW v, IsTeam(g)
  PROVE  /\ Follows(g, [g EXCEPT !.locked = v])
         /\ Follows(g, [g EXCEPT !.teeStarted = v])
         /\ Follows(g, [g EXCEPT !.teeFinished = v])
<1> DEFINE h(f) == [g EXCEPT ![f] = v]
<1>1. ASSUME NEW f \in {"locked", "teeStarted", "teeFinished"}
      PROVE  Follows(g, h(f))
  <2>1. /\ DOMAIN h(f) = GameFields /\ h(f).client = g.client /\ h(f).saving = g.saving
        /\ h(f).run = g.run /\ h(f).state = g.state /\ h(f).ranked = g.ranked
    BY DEF IsTeam, GameFields
  <2> HIDE DEF h
  <2>2. QED
    BY <2>1, SameFollows DEF IsRacing
<1>2. QED
  BY <1>1

\* Joining is a step of the game.
LEMMA JoinTeamPlays ==
  ASSUME SaveInv, NEW s \in Server, NEW i, NEW n, JoinTeam(s, i, n)
  PROVE  \E h : Plays(s, h)
<1>1. Follows(game[s], [Enter(game[s], i, n) EXCEPT !.tee[i] = "none"])
  BY GamesAreTeams, JoinFollows DEF JoinTeam
<1>2. Becomes(s, [Enter(game[s], i, n) EXCEPT !.tee[i] = "none"]) /\ UnchangedRest
  BY DEF JoinTeam, NoRequest, UnchangedRest
<1>3. QED
  BY <1>1, <1>2 DEF Plays

\* So is what players do in a team, but for starting a race and asking for a save.
LEMMA PlayerSteps ==
  ASSUME SaveInv, NEW s \in Server, NEW i,
         \/ LeaveTeam(s, i) \/ Disconnect(s, i) \/ Respawn(s, i) \/ Death(s, i)
         \/ Spectate(s, i) \/ LockTeam(s, i) \/ FinishTile(s, i) \/ KillUnfinishable(s)
  PROVE  \E h : Plays(s, h)
<1> DEFINE g == game[s]
<1>0. IsTeam(g)
  BY GamesAreTeams
<1>1. UnchangedRest
  BY DEF LeaveTeam, Disconnect, Respawn, Death, Spectate, LockTeam, FinishTile,
         KillUnfinishable, NoRequest, UnchangedRest
<1>2. ASSUME LeaveTeam(s, i)
      PROVE  \E h : Plays(s, h)
  <2>1. Becomes(s, Leave(g, i)) /\ Follows(g, Leave(g, i))
    BY <1>0, <1>2, LeaveAllFollows DEF LeaveTeam, Leave
  <2>2. QED
    BY <1>1, <2>1 DEF Plays
<1>3. ASSUME Disconnect(s, i)
      PROVE  \E h : Plays(s, h)
  <2> DEFINE d == IF g.tee[i] = "dead" THEN g ELSE Die(g, i)
  <2>1. Follows(g, g)
    BY <1>0, SameFollows DEF IsTeam
  <2>2. Follows(g, d)
    BY <1>0, <2>1, DieFollows
  <2>3. Becomes(s, Leave(d, i))
    BY <1>3 DEF Disconnect
  <2> HIDE DEF d
  <2>4. Follows(d, Leave(d, i))
    BY <2>2, LeaveAllFollows DEF Leave, Follows
  <2>5. Follows(g, Leave(d, i))
    BY <2>2, <2>4, FollowsTransitive
  <2>6. QED
    BY <1>1, <2>3, <2>5 DEF Plays
<1>4. ASSUME Respawn(s, i)
      PROVE  \E h : Plays(s, h)
  <2>1. Becomes(s, Spawn(g, i)) /\ Follows(g, Spawn(g, i))
    BY <1>0, <1>4, SpawnFollows DEF Respawn
  <2>2. QED
    BY <1>1, <2>1 DEF Plays
<1>5. ASSUME Death(s, i)
      PROVE  \E h : Plays(s, h)
  <2>1. Becomes(s, Die(g, i)) /\ Follows(g, Die(g, i))
    BY <1>0, <1>5, DieFollows DEF Death
  <2>2. QED
    BY <1>1, <2>1 DEF Plays
<1>6. ASSUME Spectate(s, i)
      PROVE  \E h : Plays(s, h)
  <2>1. Follows(g, Leave(g, i))
    BY <1>0, LeaveAllFollows DEF Leave
  <2>2. Follows(g, CheckTeamFinished(Leave(g, i)))
    BY <2>1, CheckTeamFinishedFollows, FollowsTransitive DEF Follows
  <2>3. Becomes(s, CheckTeamFinished(Leave(g, i)))
    BY <1>6 DEF Spectate
  <2>4. QED
    BY <1>1, <2>2, <2>3 DEF Plays
<1>7. ASSUME LockTeam(s, i)
      PROVE  \E h : Plays(s, h)
  <2>1. Becomes(s, [g EXCEPT !.locked = ~g.locked])
    BY <1>7 DEF LockTeam
  <2>2. Follows(g, [g EXCEPT !.locked = ~g.locked])
    BY <1>0, DetailFollows
  <2>3. QED
    BY <1>1, <2>1, <2>2 DEF Plays
<1>8. ASSUME FinishTile(s, i)
      PROVE  \E h : Plays(s, h)
  <2> DEFINE f == IF i \in g.teeStarted
                  THEN [g EXCEPT !.teeFinished = g.teeFinished \union {i}] ELSE g
  <2>1. Follows(g, g)
    BY <1>0, SameFollows DEF IsTeam
  <2>2. Follows(g, f)
    BY <1>0, <2>1, DetailFollows
  <2>3. Becomes(s, CheckTeamFinished(f))
    BY <1>8 DEF FinishTile
  <2> HIDE DEF f
  <2>4. Follows(g, CheckTeamFinished(f))
    BY <2>2, CheckTeamFinishedFollows, FollowsTransitive DEF Follows
  <2>5. QED
    BY <1>1, <2>3, <2>4 DEF Plays
<1>9. ASSUME KillUnfinishable(s)
      PROVE  \E h : Plays(s, h)
  <2>1. Becomes(s, KillTeam(g)) /\ Follows(g, KillTeam(g))
    BY <1>0, <1>9, KillTeamFollows DEF KillUnfinishable
  <2>2. QED
    BY <1>1, <2>1 DEF Plays
<1>10. QED
  BY <1>2, <1>3, <1>4, <1>5, <1>6, <1>7, <1>8, <1>9

\* A start line that the team has crossed before, or may not cross yet.
LEMMA StartTileFollows ==
  ASSUME NEW g, NEW i, IsTeam(g)
  PROVE  /\ Follows(g, Die(g, i))
         /\ Follows(g, [g EXCEPT !.tee[i] = "none"])
         /\ Follows(g, [g EXCEPT !.teeStarted = @ \union {i}])
BY DieFollows, TeeFollows, DetailFollows

-----------------------------------------------------------------------------
\* A new race

Extends(nn, nm) ==
  /\ Len(nm) \in Nat /\ Len(nn) \in Nat /\ Len(nm) <= Len(nn)
  /\ \A r \in 1..Len(nm) : nn[r] = nm[r]

\* One more race that was started leaves what was true of the others.
LEMMA MoreNames ==
  ASSUME NEW nm, NEW nn, Extends(nn, nm), NEW jb
  PROVE  /\ 1..Len(nm) \subseteq 1..Len(nn)
         /\ \A x : IsSaved(x, nm) => IsSaved(x, nn)
         /\ \A x : IsJob(x, nm) => IsJob(x, nn)
         /\ Jobs(jb, nm) => Jobs(jb, nn)
         /\ \A s, g : IsGame(s, g, jb, nm) => IsGame(s, g, jb, nn)
         /\ \A rm, lc : Tables(rm, lc, jb, nm) => Tables(rm, lc, jb, nn)
<1>1. /\ 1..Len(nm) \subseteq 1..Len(nn)
      /\ \A r \in 1..Len(nm) : r \in 1..Len(nn) /\ nn[r] = nm[r]
  BY DEF Extends
<1>2. \A x : IsSaved(x, nm) => IsSaved(x, nn)
  BY <1>1 DEF IsSaved
<1>3. /\ \A x : IsSaveJob(x, nm) => IsSaveJob(x, nn)
      /\ \A x : IsGiven(x, nm) => IsGiven(x, nn)
      /\ \A x : IsRow(x, nm) => IsRow(x, nn)
  BY <1>2 DEF IsSaveJob, IsGiven, IsRow
<1>4. \A x : IsLoadJob(x, nm) => IsLoadJob(x, nn)
  BY <1>3 DEF IsLoadJob
<1>5. \A x : IsJob(x, nm) => IsJob(x, nn)
  BY <1>3, <1>4 DEF IsJob
<1>6. \A g : Races(g, nm) => Races(g, nn)
  BY <1>1 DEF Races
<1>7. \A s, g : IsGame(s, g, jb, nm) => IsGame(s, g, jb, nn)
  BY <1>1, <1>6 DEF IsGame
<1>8. \A s, row : IsCopy(s, row, jb, nm) => IsCopy(s, row, jb, nn)
  BY <1>3 DEF IsCopy
<1>9. \A rm, lc : Tables(rm, lc, jb, nm) => Tables(rm, lc, jb, nn)
  BY <1>3, <1>8 DEF Tables
<1>10. Jobs(jb, nm) => Jobs(jb, nn)
  BY <1>5 DEF Jobs
<1>11. QED
  BY <1>1, <1>2, <1>5, <1>7, <1>9, <1>10

\* The request that carries a race has it from a race that was started.
LEMMA CarriedIsSaved ==
  ASSUME NEW j, NEW nm, IsJob(j, nm), NEW r, Carries(j, r)
  PROVE  IsSaved(j.saved, nm) /\ j.at # "freed" /\ (IsSaveJob(j, nm) \/ IsLoadJob(j, nm))
<1>1. j.at # "freed"
  BY DEF Carries
<1>2. j # Freed(j.on)
  BY <1>1 DEF Freed
<1>3. IsSaveJob(j, nm) \/ IsLoadJob(j, nm)
  BY <1>2 DEF IsJob
<1>4. QED
  BY <1>1, <1>3 DEF Carries, IsSaveJob, IsLoadJob, IsGiven

\* No place holds a race that has not started.
LEMMA NotStarted ==
  ASSUME NEW gm, NEW jb, NEW rm, NEW lc, NEW nm, IsSequence(nm),
         Jobs(jb, nm), Games(gm, jb, nm), Tables(rm, lc, jb, nm),
         NEW r, r # NoRun, r \notin 1..Len(nm)
  PROVE  Holders(r, gm, jb, rm, lc) = {}
<1>1. InGames(r, gm) = {} /\ AtEnd(r, gm) = {}
  BY DEF InGames, AtEnd, Games, IsGame, Races
<1>2. InJobs(r, jb) = {}
  <2>1. \A k \in 1..Len(jb) : ~Carries(jb[k], r)
    <3> SUFFICES ASSUME NEW k \in 1..Len(jb), Carries(jb[k], r) PROVE FALSE
      OBVIOUS
    <3>1. IsSaved(jb[k].saved, nm)
      BY CarriedIsSaved DEF Jobs
    <3>2. QED
      BY <3>1 DEF Carries, IsSaved
  <2>2. QED
    BY <2>1 DEF InJobs
<1>3. InRemote(r, rm) = {}
  BY DEF InRemote, RunOf, Tables, IsRow, IsSaved
<1>4. InLocal(r, lc) = {}
  <2>1. \A s \in Server : \A row \in lc[s].saves : RunOf(row) # r
    BY DEF RunOf, Tables, IsRow, IsSaved
  <2>2. QED
    BY <2>1 DEF InLocal
<1>5. QED
  BY <1>1, <1>2, <1>3, <1>4 DEF Holders

\* A sequence with one more element at its end.
LEMMA AppendSequence ==
  ASSUME NEW q, IsSequence(q), NEW x
  PROVE  /\ Len(q) \in Nat /\ Len(Append(q, x)) = Len(q) + 1
         /\ IsSequence(Append(q, x))
         /\ \A i \in 1..Len(q) : i \in 1..Len(Append(q, x)) /\ Append(q, x)[i] = q[i]
         /\ Len(q) + 1 \in 1..Len(Append(q, x))
         /\ Append(q, x)[Len(q) + 1] = x
         /\ \A i \in 1..Len(Append(q, x)) : i \in 1..Len(q) \/ i = Len(q) + 1
<1>1. PICK S : q \in Seq(S)
  BY DEF IsSequence
<1>2. q \in Seq(S \union {x}) /\ x \in S \union {x}
  BY <1>1
<1>3. Append(q, x) \in Seq(S \union {x})
  BY <1>2
<1>4. QED
  BY <1>1, <1>2, <1>3 DEF IsSequence

\* The team of who is the first over the start line, in the race r.
Started(g, i, r) ==
  [g EXCEPT !.state = "STARTED", !.teeStarted = @ \union {i},
            !.tee = [j \in DOMAIN @ |-> IF j \in Playing(g) THEN "started" ELSE @[j]],
            !.run = r]

\* A race that starts is held by the game, and by nothing else yet.
LEMMA FirstStart ==
  ASSUME SaveInv, NEW s \in Server, NEW i \in Playing(game[s]),
         ~IsRacing(game[s]), ~IsSaving(game[s]), NEW h,
         h = Started(game[s], i, Len(names) + 1),
         Becomes(s, h), names' = Append(names, Members(game[s])),
         UNCHANGED <<queue, job, tables>>
  PROVE  SaveInv'
<1> DEFINE g == game[s]
           l == Left(h)
           nn == Append(names, Members(g))
           new == Len(names) + 1
<1>1. game' = Put(game, s, l) /\ names' = nn /\ blurred' = blurred
  BY DEF Becomes, Left, Put
<1>2. queue' = queue /\ job' = job /\ remote' = remote /\ local' = local
  BY DEF tables
<1>3. /\ IsSequence(names) /\ Jobs(job, names) /\ Queues(queue, job)
      /\ Games(game, job, names) /\ Tables(remote, local, job, names)
      /\ Once(game, job, remote, local, names, blurred)
  BY DEF SaveInv, Held
<1>4. /\ IsSequence(nn) /\ Extends(nn, names) /\ Len(nn) = new /\ Len(names) \in Nat
      /\ nn[new] = Members(g) /\ new \in 1..Len(nn) /\ new \notin 1..Len(names) /\ new # NoRun
  <2> DEFINE m == Members(g)
  <2> HIDE DEF m
  <2>1. /\ Len(names) \in Nat /\ Len(Append(names, m)) = Len(names) + 1
        /\ IsSequence(Append(names, m))
        /\ \A r \in 1..Len(names) : Append(names, m)[r] = names[r]
        /\ Append(names, m)[Len(names) + 1] = m
    BY <1>3, AppendSequence
  <2>2. nn = Append(names, m)
    BY DEF m
  <2> HIDE DEF nn
  <2>3. Len(nn) = new /\ nn[new] = m /\ Len(names) \in Nat
    BY <2>1, <2>2
  <2>4. new \in Nat /\ Len(names) <= new /\ new \in 1..Len(nn) /\ new \notin 1..Len(names) /\ new # NoRun
    BY <2>3 DEF NoRun
  <2>5. Extends(nn, names) /\ IsSequence(nn)
    BY <2>1, <2>2, <2>3, <2>4 DEF Extends
  <2>6. QED
    BY <2>3, <2>4, <2>5 DEF m
<1>5. /\ DOMAIN h = GameFields /\ h.state = "STARTED" /\ h.client = g.client /\ h.run = new
      /\ h.saving = g.saving /\ h.ranked = g.ranked
  BY GamesAreTeams DEF GameFields, Started
<1>6. IsTeam(h) /\ Members(h) = Members(g) /\ IsRacing(h)
  BY <1>5 DEF IsTeam, Members, Team, IsRacing, Playing
<1>7. /\ IsTeam(l) /\ Members(l) = Members(g) /\ IsRacing(l) /\ ~IsSaving(l)
      /\ l.run = new /\ l.ranked = g.ranked
  BY <1>5, <1>6, LeftOf DEF IsSaving
<1>8. Games(game, job, nn) /\ Jobs(job, nn) /\ Tables(remote, local, job, nn)
  <2> HIDE DEF nn
  <2>1. QED
    BY <1>3, <1>4, MoreNames DEF Games
<1> HIDE DEF l, nn, new
<1>9. IsGame(s, l, job, nn)
  BY <1>4, <1>7, <1>8 DEF IsGame, Games, Races
<1>10. Games(game', job, nn)
  BY <1>1, <1>8, <1>9 DEF Games, Put
<1>11. Once(game', job, remote, local, nn, blurred)
  <2> SUFFICES ASSUME NEW r \in 1..Len(nn) \ blurred
               PROVE  One(Holders(r, game', job, remote, local))
    BY DEF Once
  <2>1. /\ DOMAIN game = Server /\ game[s].run = NoRun
    BY <1>3 DEF Games, IsGame, Races
  <2>2. /\ Except(InGames(r, game'), InGames(r, game), <<"game", s>>, l.run = r /\ ~IsSaving(l))
        /\ Except(AtEnd(r, game'), AtEnd(r, game), <<"ranked", s>>, r \in l.ranked)
    BY <1>1, <2>1, GameReplaced
  <2>3. AtEnd(r, game') \subseteq AtEnd(r, game)
    BY <1>7, <2>2 DEF Except, AtEnd
  <2>4. CASE r = new
    <3>1. Holders(r, game, job, remote, local) = {}
      BY <1>3, <1>4, <2>4, NotStarted
    <3>2. Holders(r, game', job, remote, local) \subseteq {<<"game", s>>}
      BY <2>2, <2>3, <3>1 DEF Holders, Except
    <3>3. QED
      BY <3>2 DEF One
  <2>5. CASE r # new
    <3>1. r \in 1..Len(names) \ blurred
      BY <1>4, <2>5 DEF new
    <3>2. One(Holders(r, game, job, remote, local))
      BY <1>3, <3>1 DEF Once
    <3>3. Holders(r, game', job, remote, local) \subseteq Holders(r, game, job, remote, local)
      BY <1>7, <2>2, <2>3, <2>5 DEF Holders, Except
    <3>4. QED
      BY <3>2, <3>3, OneLess
  <2>6. QED
    BY <2>4, <2>5
<1>12. QED
  BY <1>1, <1>2, <1>3, <1>4, <1>8, <1>10, <1>11 DEF SaveInv, Held

\* The first over the start line starts the race for the team.
Starts(s, i) ==
  /\ i \in Playing(game[s]) /\ ~IsRacing(game[s]) /\ ~IsSaving(game[s])
  /\ Becomes(s, Started(game[s], i, Len(names) + 1))
  /\ names' = Append(names, Members(game[s])) /\ UNCHANGED <<queue, job, tables>>

\* Crossing the start line starts a race, or is a step of the game.
LEMMA StartTileSteps ==
  ASSUME SaveInv, NEW s \in Server, NEW i, StartTile(s, i)
  PROVE  Starts(s, i) \/ \E h : Plays(s, h)
<1> DEFINE g == game[s]
           waiting == \E j \in Team(g) : g.tee[j] = "finished"
           first == ~waiting /\ ~IsRacing(g) /\ g.state # "FINISHED"
<1>1. IsTeam(g)
  BY GamesAreTeams
<1>2. /\ i \in Playing(g)
      /\ UNCHANGED <<queue, job, tables>>
      /\ \/ Becomes(s, Die(g, i)) /\ names' = names
         \/ Becomes(s, [g EXCEPT !.tee[i] = "none"]) /\ names' = names
         \/ Becomes(s, [g EXCEPT !.teeStarted = @ \union {i}]) /\ names' = names
         \/ /\ ~IsSaving(g) /\ first
            /\ Becomes(s, Started(g, i, Len(names) + 1))
            /\ names' = Append(names, Members(g))
  BY DEF StartTile, Members, Started
<1>3. /\ Follows(g, Die(g, i))
      /\ Follows(g, [g EXCEPT !.tee[i] = "none"])
      /\ Follows(g, [g EXCEPT !.teeStarted = @ \union {i}])
  BY <1>1, StartTileFollows
<1>4. ASSUME NEW h, Follows(g, h), Becomes(s, h), names' = names
      PROVE  Plays(s, h)
  BY <1>2, <1>4 DEF Plays, UnchangedRest
<1>5. ASSUME Becomes(s, Started(g, i, Len(names) + 1)), names' = Append(names, Members(g)),
             ~IsSaving(g), first
      PROVE  Starts(s, i)
  BY <1>2, <1>5 DEF Starts
<1>6. QED
  BY <1>2, <1>3, <1>4, <1>5

-----------------------------------------------------------------------------
\* A new request

\* All that was true of the requests is true with one more.
Grown(jb, j, jn, nm) ==
  /\ IsSequence(jn) /\ Len(jb) \in Nat /\ Len(jn) = Len(jb) + 1
  /\ \A i \in 1..Len(jb) : i \in 1..Len(jn) /\ jn[i] = jb[i]
  /\ Len(jn) \in 1..Len(jn) /\ jn[Len(jn)] = j
  /\ Jobs(jb, nm) /\ IsJob(j, nm) => Jobs(jn, nm)
  /\ \A s, q : IsQueue(s, q, jb) => IsQueue(s, q, jn)
  /\ \A s, g : IsGame(s, g, jb, nm) => IsGame(s, g, jn, nm)
  /\ \A rm, lc : Tables(rm, lc, jb, nm) => Tables(rm, lc, jn, nm)
  /\ \A r : InJobs(r, jn) \subseteq InJobs(r, jb) \union {<<"job", Len(jn)>>}
  /\ \A r : ~Carries(j, r) => InJobs(r, jn) = InJobs(r, jb)

\* One more request leaves what was true of the others.
LEMMA MoreJobs ==
  ASSUME NEW jb, IsSequence(jb), NEW j, NEW jn, jn = Append(jb, j), NEW nm
  PROVE  Grown(jb, j, jn, nm)
<1>1. /\ IsSequence(jn) /\ Len(jb) \in Nat /\ Len(jn) = Len(jb) + 1
      /\ \A i \in 1..Len(jb) : i \in 1..Len(jn) /\ jn[i] = jb[i]
      /\ Len(jn) \in 1..Len(jn) /\ jn[Len(jn)] = j
      /\ \A i \in 1..Len(jn) : i \in 1..Len(jb) \/ i = Len(jn)
  BY AppendSequence
<1>2. Jobs(jb, nm) /\ IsJob(j, nm) => Jobs(jn, nm)
  BY <1>1 DEF Jobs
<1>3. \A s, q : IsQueue(s, q, jb) => IsQueue(s, q, jn)
  BY <1>1 DEF IsQueue
<1>4. \A s, g : Asks(s, g, jb) => Asks(s, g, jn)
  BY <1>1 DEF Asks
<1>5. \A s, g : IsGame(s, g, jb, nm) => IsGame(s, g, jn, nm)
  BY <1>4 DEF IsGame
<1>6. \A s, row : IsCopy(s, row, jb, nm) => IsCopy(s, row, jn, nm)
  BY <1>1 DEF IsCopy
<1>7. \A rm, lc : Tables(rm, lc, jb, nm) => Tables(rm, lc, jn, nm)
  BY <1>6 DEF Tables
<1>8. \A r : InJobs(r, jn) \subseteq InJobs(r, jb) \union {<<"job", Len(jn)>>}
  BY <1>1 DEF InJobs
<1>9. ASSUME NEW r, ~Carries(j, r)
      PROVE  InJobs(r, jn) = InJobs(r, jb)
  BY <1>1, <1>9 DEF InJobs
<1>10. QED
  BY <1>1, <1>2, <1>3, <1>5, <1>7, <1>8, <1>9 DEF Grown

\* A request that its server's pool has not seen yet is the last in its
\* queue.
LEMMA QueueGrows ==
  ASSUME NEW qu, NEW jb, IsSequence(jb), Queues(qu, jb), NEW s \in Server, NEW j, NEW jn,
         jn = Append(jb, j), j.on = s, j.at \notin {"completed", "freed"},
         NEW qn, qn = Put(qu, s, Append(qu[s], Len(jn)))
  PROVE  Queues(qn, jn)
<1>1. /\ Len(jn) = Len(jb) + 1 /\ Len(jb) \in Nat
      /\ Len(jn) \in 1..Len(jn) /\ jn[Len(jn)] = j
      /\ \A t, q : IsQueue(t, q, jb) => IsQueue(t, q, jn)
  <2>1. Grown(jb, j, jn, <<>>)
    BY MoreJobs
  <2>2. QED
    BY <2>1 DEF Grown
<1>2. /\ DOMAIN qu = Server
      /\ \A t \in Server : IsQueue(t, qu[t], jb) /\ IsQueue(t, qu[t], jn)
  BY <1>1 DEF Queues
<1> DEFINE k == Len(jn)
           old == qu[s]
           q == Append(old, k)
<1>3. k \in Nat /\ k \in 1..Len(jn) /\ jn[k] = j /\ \A i \in 1..Len(jb) : i # k
  BY <1>1
<1>4. /\ old \in Seq(Nat)
      /\ \A i \in 1..Len(old) : /\ old[i] \in 1..Len(jb) /\ old[i] \in 1..Len(jn)
                                /\ jn[old[i]].on = s /\ jn[old[i]].at \notin {"completed", "freed"}
                                /\ \A m \in 1..Len(old) : old[i] = old[m] => i = m
  BY <1>2 DEF IsQueue
<1>5. qn = Put(qu, s, q)
  OBVIOUS
<1> HIDE DEF k, old
<1>6. /\ q \in Seq(Nat) /\ Len(q) = Len(old) + 1 /\ Len(old) \in Nat
      /\ \A i \in 1..Len(old) : q[i] = old[i]
      /\ q[Len(old) + 1] = k
  BY <1>3, <1>4
<1> HIDE DEF q
<1>7. \A i \in 1..Len(q) : i \in 1..Len(old) \/ i = Len(old) + 1
  BY <1>6
<1>8. ASSUME NEW i \in 1..Len(q)
      PROVE  /\ q[i] \in 1..Len(jn)
             /\ jn[q[i]].on = s /\ jn[q[i]].at \notin {"completed", "freed"}
             /\ \A m \in 1..Len(q) : q[i] = q[m] => i = m
  <2>1. CASE i \in 1..Len(old)
    BY <1>3, <1>4, <1>6, <1>7, <2>1, ZenonT(60)
  <2>2. CASE i = Len(old) + 1
    BY <1>3, <1>4, <1>6, <1>7, <2>2
  <2>3. QED
    BY <1>7, <2>1, <2>2
<1>9. IsQueue(s, q, jn)
  BY <1>6, <1>8 DEF IsQueue
<1>10. QED
  BY <1>2, <1>5, <1>9 DEF Queues, Put

\* What SaveTeam puts into the request.
SavedOf(g) ==
  [run |-> g.run, locked |-> g.locked,
   tees |-> [n \in {g.client[j] : j \in Team(g)} |->
     LET j == CHOOSE j \in Team(g) : g.client[j] = n IN
     [slot |-> j, tee |-> g.tee[j], started |-> j \in g.teeStarted,
      finished |-> j \in g.teeFinished]]]
SaveRequest(s, g, code) ==
  [on |-> s, kind |-> "save", code |-> code, saved |-> SavedOf(g), who |-> <<>>,
   at |-> "backup", status |-> "SAVE_FAILED", row |-> NoCode]
LoadRequest(s, g, code) ==
  [on |-> s, kind |-> "load", code |-> code, saved |-> <<>>,
   who |-> [n \in {g.client[j] : j \in Team(g)} |-> CHOOSE j \in Team(g) : g.client[j] = n],
   at |-> "select", status |-> "LOAD_FAILED", row |-> NoCode]

\* The requests that /save and /load make.
LEMMA RequestTypes ==
  ASSUME NEW s \in Server, NEW g, NEW code, NEW nm, IsTeam(g), Races(g, nm)
  PROVE  /\ DOMAIN SavedOf(g) = {"run", "locked", "tees"}
         /\ SavedOf(g).run = g.run /\ DOMAIN SavedOf(g).tees = Members(g)
         /\ SaveRequest(s, g, code).on = s /\ SaveRequest(s, g, code).at = "backup"
         /\ SaveRequest(s, g, code).kind = "save" /\ SaveRequest(s, g, code).saved = SavedOf(g)
         /\ IsRacing(g) => IsJob(SaveRequest(s, g, code), nm)
         /\ LoadRequest(s, g, code).on = s /\ LoadRequest(s, g, code).at = "select"
         /\ LoadRequest(s, g, code).kind = "load"
         /\ DOMAIN LoadRequest(s, g, code).who = Members(g)
         /\ IsJob(LoadRequest(s, g, code), nm)
<1>1. /\ DOMAIN SavedOf(g) = {"run", "locked", "tees"}
      /\ SavedOf(g).run = g.run /\ DOMAIN SavedOf(g).tees = Members(g)
  BY DEF SavedOf, Members
<1>2. IsRacing(g) => IsSaved(SavedOf(g), nm)
  BY <1>1 DEF Races, IsSaved
<1> DEFINE j == SaveRequest(s, g, code)
           l == LoadRequest(s, g, code)
<1>3. /\ DOMAIN j = JobFields /\ j.on = s /\ j.kind = "save" /\ j.at = "backup"
      /\ j.status = "SAVE_FAILED" /\ j.saved = SavedOf(g)
  BY DEF SaveRequest, JobFields
<1>4. /\ DOMAIN l = JobFields /\ l.on = s /\ l.kind = "load" /\ l.at = "select"
      /\ l.status = "LOAD_FAILED" /\ DOMAIN l.who = Members(g)
  BY DEF LoadRequest, JobFields, Members
<1> HIDE DEF j, l
<1>5. IsRacing(g) => IsJob(j, nm)
  BY <1>2, <1>3 DEF IsJob, IsSaveJob
<1>6. IsJob(l, nm)
  BY <1>4 DEF IsJob, IsLoadJob
<1>7. QED
  BY <1>1, <1>3, <1>4, <1>5, <1>6 DEF j, l

\* The game of a server goes on as l and waits for the new request j.
AsksFor(s, j, l) ==
  /\ game' = Put(game, s, l) /\ blurred' = blurred
  /\ job' = Append(job, j) /\ queue' = Put(queue, s, Append(queue[s], Len(job) + 1))
  /\ UNCHANGED <<tables, names>>
  /\ IsJob(j, names) /\ j.on = s /\ j.at \in {"backup", "select"}
  /\ IsTeam(l) /\ Races(l, names) /\ l.ranked = game[s].ranked
  /\ l.saving = Len(job) + 1
  /\ j.kind = "save" => Members(l) \subseteq DOMAIN j.saved.tees
  /\ j.kind = "load" => Members(l) \subseteq DOMAIN j.who /\ ~IsRacing(l)
  /\ ~IsSaving(game[s])
  /\ \A r \in 1..Len(names) : Carries(j, r) => game[s].run = r

\* A request takes the race over from the game that asks.
LEMMA Asking ==
  ASSUME SaveInv, NEW s \in Server, NEW j, NEW l, AsksFor(s, j, l)
  PROVE  SaveInv'
<1> DEFINE k == Len(job) + 1
<1>1. remote' = remote /\ local' = local /\ names' = names
  BY DEF AsksFor, tables
<1>2. /\ IsSequence(names) /\ Jobs(job, names) /\ Queues(queue, job)
      /\ Games(game, job, names) /\ Tables(remote, local, job, names)
      /\ Once(game, job, remote, local, names, blurred)
  BY DEF SaveInv, Held
<1>3. IsSequence(job)
  BY <1>2 DEF Jobs
<1>4. /\ Len(job) \in Nat /\ Len(job') = k
      /\ Len(job') \in 1..Len(job') /\ job'[Len(job')] = j
      /\ Jobs(job', names)
      /\ \A t, g : IsGame(t, g, job, names) => IsGame(t, g, job', names)
      /\ Tables(remote, local, job', names)
      /\ \A r : InJobs(r, job') \subseteq InJobs(r, job) \union {<<"job", Len(job')>>}
      /\ \A r : ~Carries(j, r) => InJobs(r, job') = InJobs(r, job)
  <2>1. job' = Append(job, j) /\ IsJob(j, names)
    BY DEF AsksFor
  <2> DEFINE jn == job'
  <2> HIDE DEF jn
  <2>2. /\ Len(job) \in Nat /\ Len(jn) = k
        /\ Len(jn) \in 1..Len(jn) /\ jn[Len(jn)] = j
        /\ Jobs(jn, names)
        /\ \A t, g : IsGame(t, g, job, names) => IsGame(t, g, jn, names)
        /\ Tables(remote, local, jn, names)
        /\ \A r : InJobs(r, jn) \subseteq InJobs(r, job) \union {<<"job", Len(jn)>>}
        /\ \A r : ~Carries(j, r) => InJobs(r, jn) = InJobs(r, job)
    <3>1. jn = Append(job, j)
      BY <2>1 DEF jn
    <3>2. Grown(job, j, jn, names)
      BY <1>3, <3>1, MoreJobs
    <3>3. QED
      BY <1>2, <2>1, <3>2 DEF Grown, Games
  <2>3. QED
    BY <2>2 DEF jn
<1>5. Queues(queue', job')
  <2>1. queue' = Put(queue, s, Append(queue[s], Len(job'))) /\ job' = Append(job, j)
    BY <1>4 DEF AsksFor
  <2>2. j.at \notin {"completed", "freed"} /\ j.on = s
    BY DEF AsksFor
  <2>3. QED
    BY <1>2, <1>3, <2>1, <2>2, QueueGrows
<1>6. IsSaving(l)
  BY <1>4 DEF IsSaving, AsksFor
<1>7. Asks(s, l, job')
  BY <1>4 DEF Asks, AsksFor
<1>8. IsGame(s, l, job', names)
  <2>1. game[s].ranked \subseteq 1..Len(names)
    BY <1>2 DEF Games, IsGame
  <2>2. IsTeam(l) /\ Races(l, names) /\ l.ranked = game[s].ranked
    BY DEF AsksFor
  <2>3. QED
    BY <1>7, <2>1, <2>2 DEF IsGame
<1>9. Games(game', job', names)
  BY <1>2, <1>4, <1>8 DEF Games, Put, AsksFor
<1>10. Once(game', job', remote, local, names, blurred)
  <2> SUFFICES ASSUME NEW r \in 1..Len(names) \ blurred
               PROVE  One(Holders(r, game', job', remote, local))
    BY DEF Once
  <2> DEFINE H == Holders(r, game, job, remote, local)
             K == Holders(r, game', job', remote, local)
  <2>1. One(H)
    BY <1>2 DEF Once
  <2>2. /\ Except(InGames(r, game'), InGames(r, game), <<"game", s>>, l.run = r /\ ~IsSaving(l))
        /\ Except(AtEnd(r, game'), AtEnd(r, game), <<"ranked", s>>, r \in l.ranked)
    BY <1>2, GameReplaced DEF Games, AsksFor
  <2>3. AtEnd(r, game') \subseteq AtEnd(r, game)
    BY <2>2 DEF Except, AtEnd, AsksFor
  <2>4. InGames(r, game') = InGames(r, game) \ {<<"game", s>>}
    BY <1>6, <2>2 DEF Except
  <2>5. CASE Carries(j, r)
    <3>1. <<"game", s>> \in InGames(r, game)
      BY <2>5 DEF InGames, AsksFor
    <3>2. <<"game", s>> \in H
      BY <3>1 DEF Holders
    <3>3. K \subseteq H \union {<<"job", Len(job')>>}
      BY <1>4, <2>3, <2>4 DEF Holders
    <3>4. <<"game", s>> \notin K
      <4>1. <<"game", s>>[1] = "game"
        OBVIOUS
      <4>2. /\ <<"game", s>> \notin InJobs(r, job') /\ <<"game", s>> \notin InRemote(r, remote)
            /\ <<"game", s>> \notin InLocal(r, local) /\ <<"game", s>> \notin AtEnd(r, game')
        BY <4>1, Kinds
      <4>3. QED
        BY <2>4, <4>2 DEF Holders
    <3>5. K \subseteq (H \ {<<"game", s>>}) \union {<<"job", Len(job')>>}
      BY <3>3, <3>4
    <3> HIDE DEF H, K
    <3>6. One(K)
      BY <2>1, <3>2, <3>5, OneReplaced
    <3>7. QED
      BY <3>6 DEF K
  <2>6. CASE ~Carries(j, r)
    <3>1. K \subseteq H
      BY <1>4, <2>3, <2>4, <2>6 DEF Holders
    <3>2. QED
      BY <2>1, <3>1, OneLess
  <2>7. QED
    BY <2>5, <2>6
<1>11. blurred' = blurred
  BY DEF AsksFor
<1>12. QED
  BY <1>1, <1>2, <1>4, <1>5, <1>9, <1>10, <1>11 DEF SaveInv, Held

\* /save hands the race to its request.
LEMMA SaveTeamKeeps ==
  ASSUME SaveInv, NEW s \in Server, NEW i, NEW code, SaveTeam(s, i, code)
  PROVE  SaveInv'
<1> DEFINE g == game[s]
           k == Len(job) + 1
           asking == [g EXCEPT !.saving = k]
           h == KillTeam(asking)
           l == Left(h)
           j == SaveRequest(s, g, code)
<1>1. /\ ~IsSaving(g) /\ g.state = "STARTED" /\ Becomes(s, h)
      /\ job' = Append(job, j) /\ queue' = Put(queue, s, Append(queue[s], k))
      /\ UNCHANGED <<tables, names>>
  BY DEF SaveTeam, SaveRequest, SavedOf, Put
<1>2. game' = Put(game, s, l) /\ blurred' = blurred
  BY <1>1 DEF Becomes, Left, Put
<1>3. /\ IsTeam(g) /\ DOMAIN g = GameFields /\ IsRacing(g) /\ Races(g, names) /\ k # 0
      /\ IsSequence(job)
  <2>1. IsSequence(job) /\ Races(g, names)
    BY DEF SaveInv, Held, Jobs, Games, IsGame
  <2>2. k # 0
    BY <2>1 DEF IsSequence
  <2>3. QED
    BY <1>1, <2>1, <2>2, GamesAreTeams DEF IsRacing
<1>4. /\ IsTeam(asking) /\ asking.client = g.client /\ asking.saving = k /\ asking.run = g.run
      /\ asking.state = g.state /\ asking.ranked = g.ranked
  BY <1>3 DEF IsTeam, IsRacing, Team, GameFields
<1> HIDE DEF k, asking
<1>5. h = [asking EXCEPT !.tee = [m \in DOMAIN @ |-> "dead"]]
  BY <1>3, <1>4 DEF KillTeam, IsSaving
<1>6. /\ IsTeam(h) /\ h.client = g.client /\ h.saving = k /\ h.run = g.run
      /\ h.state = g.state /\ h.ranked = g.ranked
  BY <1>4, <1>5 DEF IsTeam, IsRacing, Team, GameFields
<1> HIDE DEF h
<1>7. IsRacing(h) /\ Members(h) = Members(g)
  BY <1>3, <1>6 DEF IsRacing, Members, Team
<1>8. /\ IsTeam(l) /\ l.saving = k /\ l.run = g.run /\ l.ranked = g.ranked
      /\ Members(l) = Members(g) /\ IsRacing(l)
  BY <1>6, <1>7, LeftOf
<1>9. Races(l, names)
  BY <1>3, <1>8 DEF Races
<1>10. /\ IsJob(j, names) /\ j.on = s /\ j.at = "backup" /\ j.kind = "save"
       /\ DOMAIN j.saved.tees = Members(g) /\ j.saved.run = g.run
  BY <1>3, RequestTypes
<1> HIDE DEF l, j
<1>11. \A r \in 1..Len(names) : Carries(j, r) => g.run = r
  BY <1>10 DEF Carries
<1>12. QED
  BY <1>1, <1>2, <1>8, <1>9, <1>10, <1>11, Asking DEF k, AsksFor

\* /load hands nothing over.
LEMMA LoadTeamKeeps ==
  ASSUME SaveInv, NEW s \in Server, NEW i, NEW code, LoadTeam(s, i, code)
  PROVE  SaveInv'
<1> DEFINE g == game[s]
           k == Len(job) + 1
           h == [g EXCEPT !.saving = k]
           l == Left(h)
           j == LoadRequest(s, g, code)
<1>1. /\ ~IsSaving(g) /\ g.state = "OPEN" /\ Becomes(s, h)
      /\ job' = Append(job, j) /\ queue' = Put(queue, s, Append(queue[s], k))
      /\ UNCHANGED <<tables, names>>
  BY DEF LoadTeam, LoadRequest, Put
<1>2. game' = Put(game, s, l) /\ blurred' = blurred
  BY <1>1 DEF Becomes, Left, Put
<1>3. /\ IsTeam(g) /\ DOMAIN g = GameFields /\ ~IsRacing(g) /\ Races(g, names)
  <2>1. Races(g, names)
    BY DEF SaveInv, Held, Jobs, Games, IsGame
  <2>2. QED
    BY <1>1, <2>1, GamesAreTeams DEF IsRacing
<1>4. /\ IsTeam(h) /\ h.client = g.client /\ h.saving = k /\ h.run = g.run
      /\ h.state = g.state /\ h.ranked = g.ranked
  BY <1>3 DEF IsTeam, IsRacing, Team, GameFields
<1> HIDE DEF k, h
<1>5. ~IsRacing(h) /\ Members(h) = Members(g)
  BY <1>3, <1>4 DEF IsRacing, Members, Team
<1>6. /\ IsTeam(l) /\ l.saving = k /\ l.run = NoRun /\ l.ranked = g.ranked
      /\ Members(l) = Members(g) /\ ~IsRacing(l)
  BY <1>4, <1>5, LeftOf
<1>7. Races(l, names)
  BY <1>6 DEF Races
<1>8. /\ IsJob(j, names) /\ j.on = s /\ j.at = "select" /\ j.kind = "load"
      /\ DOMAIN j.who = Members(g)
  BY <1>3, RequestTypes
<1> HIDE DEF l, j
<1>9. \A r \in 1..Len(names) : Carries(j, r) => g.run = r
  BY <1>8 DEF Carries
<1>10. QED
  BY <1>1, <1>2, <1>6, <1>7, <1>8, <1>9, Asking DEF k, AsksFor

-----------------------------------------------------------------------------
\* The ends of requests and of games

\* Some requests of the server s are freed.
FreesSome(jb, jn, s) ==
  /\ IsSequence(jn) /\ Len(jn) = Len(jb)
  /\ \A k \in 1..Len(jb) : jn[k] = jb[k] \/ (jb[k].on = s /\ jn[k] = Freed(s))

\* Freeing requests of a server leaves what was true of the others.
LEMMA FreesKeeps ==
  ASSUME NEW s \in Server, NEW jb, NEW jn, FreesSome(jb, jn, s), NEW nm, Jobs(jb, nm)
  PROVE  /\ Jobs(jn, nm)
         /\ \A t, q : t # s /\ IsQueue(t, q, jb) => IsQueue(t, q, jn)
         /\ \A t, g : t # s /\ IsGame(t, g, jb, nm) => IsGame(t, g, jn, nm)
         /\ \A rm, lc : Tables(rm, lc, jb, nm) => Tables(rm, lc, jn, nm)
         /\ \A r : InJobs(r, jn) \subseteq InJobs(r, jb)
<1>1. /\ IsSequence(jn) /\ Len(jn) = Len(jb)
      /\ \A k \in 1..Len(jb) : jn[k] = jb[k] \/ (jb[k].on = s /\ jn[k] = Freed(s))
  BY DEF FreesSome
<1>2. Freed(s).on = s /\ Freed(s).at = "freed" /\ IsJob(Freed(s), nm)
  BY DEF Freed, IsJob
<1>3. Jobs(jn, nm)
  BY <1>1, <1>2 DEF Jobs
<1>4. \A t, q : t # s /\ IsQueue(t, q, jb) => IsQueue(t, q, jn)
  BY <1>1 DEF IsQueue
<1>5. \A t, g : t # s /\ Asks(t, g, jb) => Asks(t, g, jn)
  BY <1>1 DEF Asks
<1>6. \A t, g : t # s /\ IsGame(t, g, jb, nm) => IsGame(t, g, jn, nm)
  BY <1>5 DEF IsGame
<1>7. \A t, row : IsCopy(t, row, jb, nm) => IsCopy(t, row, jn, nm)
  BY <1>1, <1>2 DEF IsCopy
<1>8. \A rm, lc : Tables(rm, lc, jb, nm) => Tables(rm, lc, jn, nm)
  BY <1>7 DEF Tables
<1>9. ASSUME NEW r
      PROVE  InJobs(r, jn) \subseteq InJobs(r, jb)
  BY <1>1, <1>2 DEF InJobs, Carries
<1>10. QED
  BY <1>3, <1>4, <1>6, <1>8, <1>9

\* The game of a server starts anew as l, which holds nothing, and its
\* requests may be freed.
Ends(s, l) ==
  /\ game' = Put(game, s, l)
  /\ IsTeam(l) /\ ~IsRacing(l) /\ ~IsSaving(l) /\ l.run = NoRun /\ l.ranked = game[s].ranked
  /\ FreesSome(job, job', s)
  /\ \A t \in Server \ {s} : queue'[t] = queue[t]
  /\ DOMAIN queue' = Server /\ IsQueue(s, queue'[s], job')
  /\ UNCHANGED <<tables, names, blurred>>

\* A game that ends takes its races with it and doubles none.
LEMMA EndsKeeps ==
  ASSUME SaveInv, NEW s \in Server, NEW l, Ends(s, l)
  PROVE  SaveInv'
<1>1. remote' = remote /\ local' = local /\ names' = names /\ blurred' = blurred
  BY DEF Ends, tables
<1>2. /\ IsSequence(names) /\ Jobs(job, names) /\ Queues(queue, job)
      /\ Games(game, job, names) /\ Tables(remote, local, job, names)
      /\ Once(game, job, remote, local, names, blurred)
  BY DEF SaveInv, Held
<1>3. FreesSome(job, job', s)
  BY DEF Ends
<1>4. /\ Jobs(job', names)
      /\ \A t, q : t # s /\ IsQueue(t, q, job) => IsQueue(t, q, job')
      /\ \A t, g : t # s /\ IsGame(t, g, job, names) => IsGame(t, g, job', names)
      /\ Tables(remote, local, job', names)
      /\ \A r : InJobs(r, job') \subseteq InJobs(r, job)
  BY <1>2, <1>3, FreesKeeps
<1>5. Queues(queue', job')
  BY <1>2, <1>4 DEF Queues, Ends
<1>6. IsGame(s, l, job', names)
  <2>1. game[s].ranked \subseteq 1..Len(names)
    BY <1>2 DEF Games, IsGame
  <2>2. QED
    BY <2>1 DEF IsGame, Ends, Races
<1>7. Games(game', job', names)
  BY <1>2, <1>4, <1>6 DEF Games, Put, Ends
<1>8. Once(game', job', remote, local, names, blurred)
  <2> SUFFICES ASSUME NEW r \in 1..Len(names) \ blurred
               PROVE  One(Holders(r, game', job', remote, local))
    BY DEF Once
  <2>1. One(Holders(r, game, job, remote, local))
    BY <1>2 DEF Once
  <2>2. /\ Except(InGames(r, game'), InGames(r, game), <<"game", s>>, l.run = r /\ ~IsSaving(l))
        /\ Except(AtEnd(r, game'), AtEnd(r, game), <<"ranked", s>>, r \in l.ranked)
    BY <1>2, GameReplaced DEF Games, Ends
  <2>3. l.run # r
    BY DEF Ends, NoRun
  <2>4. AtEnd(r, game') \subseteq AtEnd(r, game)
    BY <2>2 DEF Except, AtEnd, Ends
  <2>5. InGames(r, game') \subseteq InGames(r, game)
    BY <2>2, <2>3 DEF Except
  <2>6. Holders(r, game', job', remote, local) \subseteq Holders(r, game, job, remote, local)
    BY <1>4, <2>4, <2>5 DEF Holders
  <2>7. QED
    BY <2>1, <2>6, OneLess
<1>9. QED
  BY <1>1, <1>2, <1>4, <1>5, <1>7, <1>8 DEF SaveInv, Held

\* A function on the first numbers is a sequence.
LEMMA FunctionIsSequence ==
  ASSUME NEW n \in Nat, NEW f, f = [k \in 1..n |-> f[k]]
  PROVE  IsSequence(f) /\ Len(f) = n
<1> DEFINE S == {f[k] : k \in 1..n}
<1>1. f \in [1..n -> S]
  OBVIOUS
<1>2. f \in Seq(S) /\ Len(f) = n
  BY <1>1
<1>3. QED
  BY <1>2 DEF IsSequence

\* The game of a server that starts holds nothing.
LEMMA NewGame ==
  ASSUME NEW s \in Server, NEW v
  PROVE  /\ IsTeam([Blank(s) EXCEPT !.ranked = v]) /\ [Blank(s) EXCEPT !.ranked = v].ranked = v
         /\ ~IsRacing([Blank(s) EXCEPT !.ranked = v]) /\ ~IsSaving([Blank(s) EXCEPT !.ranked = v])
         /\ [Blank(s) EXCEPT !.ranked = v].run = NoRun
BY DEF Blank, IsTeam, IsRacing, IsSaving, GameFields

\* Map changes and crashes are such ends.
LEMMA ReloadOrCrashKeeps ==
  ASSUME SaveInv, NEW s \in Server, Reload(s) \/ Crash(s)
  PROVE  SaveInv'
<1> DEFINE l == [Blank(s) EXCEPT !.ranked = game[s].ranked]
<1>1. game' = Put(game, s, l) /\ UNCHANGED <<tables, names, blurred>>
  BY DEF Reload, Crash, Put
<1>2. /\ IsTeam(l) /\ ~IsRacing(l) /\ ~IsSaving(l) /\ l.run = NoRun /\ l.ranked = game[s].ranked
  BY NewGame
<1> HIDE DEF l
<1>3. /\ IsSequence(job) /\ Queues(queue, job) /\ Len(job) \in Nat
      /\ IsSaving(game[s]) => Asks(s, game[s], job)
  BY DEF SaveInv, Held, Jobs, Games, IsGame, IsSequence
<1>4. game[s].saving \in 1..Len(job) => job[game[s].saving].on = s
  BY <1>3 DEF IsSaving, Asks
<1>5. \A k \in 1..Len(job) : Contains(queue[s], k) => job[k].on = s
  BY <1>3 DEF Queues, IsQueue, Contains
<1>6. CASE Reload(s)
  <2>1. /\ queue' = queue
        /\ job' = [k \in 1..Len(job) |->
                     IF k = game[s].saving /\ job[k].at = "completed" THEN Freed(s) ELSE job[k]]
    BY <1>6 DEF Reload, Request
  <2>2. IsSequence(job') /\ Len(job') = Len(job)
    BY <1>3, <2>1, FunctionIsSequence
  <2>3. FreesSome(job, job', s)
    BY <1>4, <2>1, <2>2 DEF FreesSome
  <2>4. \A k \in 1..Len(job) : job[k].at # "completed" => job'[k] = job[k]
    BY <2>1
  <2>5. IsQueue(s, queue[s], job)
    BY <1>3 DEF Queues
  <2>6. IsQueue(s, queue[s], job')
    BY <2>2, <2>4, <2>5 DEF IsQueue
  <2>7. Ends(s, l)
    BY <1>1, <1>2, <1>3, <2>1, <2>3, <2>6 DEF Ends, Queues
  <2>8. QED
    BY <2>7, EndsKeeps
<1>7. CASE Crash(s)
  <2>1. /\ queue' = Put(queue, s, <<>>)
        /\ job' = [k \in 1..Len(job) |->
                     IF k = game[s].saving \/ Contains(queue[s], k) THEN Freed(s) ELSE job[k]]
    BY <1>7 DEF Crash, Request, Put
  <2>2. IsSequence(job') /\ Len(job') = Len(job)
    BY <1>3, <2>1, FunctionIsSequence
  <2>3. FreesSome(job, job', s)
    BY <1>4, <1>5, <2>1, <2>2 DEF FreesSome
  <2>4. DOMAIN queue' = Server /\ queue'[s] = <<>> /\ \A t \in Server \ {s} : queue'[t] = queue[t]
    BY <1>3, <2>1 DEF Queues, Put
  <2>5. IsQueue(s, <<>>, job')
    BY DEF IsQueue
  <2>6. Ends(s, l)
    BY <1>1, <1>2, <2>3, <2>4, <2>5 DEF Ends
  <2>7. QED
    BY <2>6, EndsKeeps
<1>8. QED
  BY <1>6, <1>7

\* What the answer j makes of a team.
Answers(g, j, h) ==
  /\ IsTeam(h) /\ h.saving = 0 /\ h.ranked = g.ranked
  /\ IsRacing(h) => /\ h.run = j.saved.run /\ Members(h) \subseteq Members(g)
                    /\ j.status \in {"SAVE_FAILED", "LOAD_SUCCESS"}

\* A team that gets its save back races with the players it has.
LEMMA LoadGame ==
  ASSUME NEW g, NEW saved, IsTeam(g), Team(g) # {}
  PROVE  LET h == Load(g, saved) IN
         /\ IsTeam(h) /\ h.saving = g.saving /\ h.ranked = g.ranked
         /\ h.run = saved.run /\ Members(h) = Members(g)
<1> DEFINE h == Load(g, saved)
<1>1. /\ DOMAIN h = GameFields /\ h.saving = g.saving /\ h.ranked = g.ranked
      /\ h.run = saved.run /\ h.client = g.client
  BY DEF IsTeam, GameFields, Load
<1> HIDE DEF h
<1>2. Members(h) = Members(g) /\ Team(h) = Team(g)
  BY <1>1 DEF Members, Team
<1>3. QED
  BY <1>1, <1>2 DEF IsTeam, h

\* A team whose save went well is left by all.
LEMMA EmptiedTeam ==
  ASSUME NEW g, IsTeam(g)
  PROVE  LET h == LeaveAll(g, Team(g)) IN
         IsTeam(h) /\ h.ranked = g.ranked /\ h.saving = g.saving /\ ~IsRacing(h)
<1> DEFINE slots == Team(g)
           left == [g EXCEPT
        !.client = [i \in DOMAIN @ |-> IF i \in slots THEN Nobody ELSE @[i]],
        !.tee = [i \in DOMAIN @ |-> IF i \in slots THEN "dead" ELSE @[i]],
        !.teeStarted = @ \ slots, !.teeFinished = @ \ slots]
           h == LeaveAll(g, Team(g))
<1>1. /\ DOMAIN left = GameFields /\ left.saving = g.saving /\ left.ranked = g.ranked
      /\ left.client = [i \in DOMAIN g.client |-> IF i \in slots THEN Nobody ELSE g.client[i]]
  BY DEF IsTeam, GameFields
<1>2. Team(left) = {}
  BY <1>1 DEF Team
<1>3. h = IF Team(left) = {} THEN [left EXCEPT !.state = "EMPTY", !.locked = FALSE] ELSE left
  BY DEF LeaveAll
<1> HIDE DEF left
<1>4. /\ DOMAIN h = GameFields /\ h.state = "EMPTY" /\ h.saving = g.saving /\ h.ranked = g.ranked
  BY <1>1, <1>2, <1>3 DEF GameFields
<1> HIDE DEF h
<1>5. IsTeam(h) /\ ~IsRacing(h)
  BY <1>4 DEF IsTeam, IsRacing
<1>6. QED
  BY <1>4, <1>5 DEF h

\* What the game makes of an answer races only if the request carried the race.
LEMMA AnswersApplied ==
  ASSUME NEW s, NEW g, NEW jb, NEW nm, IsGame(s, g, jb, nm), IsSaving(g),
         NEW j, j = jb[g.saving], j.at = "completed", Jobs(jb, nm)
  PROVE  Answers(g, j, [Applied(g, j) EXCEPT !.saving = 0])
<1> DEFINE a == Applied(g, j)
           h == [a EXCEPT !.saving = 0]
<1>1. /\ IsTeam(g) /\ Asks(s, g, jb)
  BY DEF IsGame
<1>2. /\ IsSaveJob(j, nm) \/ IsLoadJob(j, nm)
      /\ j.status = "LOAD_FAILED" => ~IsRacing(g)
  <2>1. IsJob(j, nm) /\ j # Freed(j.on)
    BY <1>1 DEF Asks, Jobs, Freed
  <2>2. IsSaveJob(j, nm) \/ IsLoadJob(j, nm)
    BY <2>1 DEF IsJob
  <2>3. QED
    BY <1>1, <2>2 DEF Asks, IsSaveJob, IsLoadJob
<1>3. j.status \in {"SAVE_FAILED", "SAVE_SUCCESS", "LOAD_FAILED", "LOAD_SUCCESS"}
  BY <1>2 DEF IsSaveJob, IsLoadJob
<1>4. /\ IsTeam(a) /\ a.ranked = g.ranked
      /\ IsRacing(a) => /\ a.run = j.saved.run /\ Members(a) \subseteq Members(g)
                        /\ j.status \in {"SAVE_FAILED", "LOAD_SUCCESS"}
  <2>1. CASE j.status = "SAVE_SUCCESS"
    BY <1>1, <2>1, EmptiedTeam DEF Applied
  <2>2. CASE j.status \in {"SAVE_FAILED", "LOAD_SUCCESS"} /\ Team(g) # {}
    BY <1>1, <2>2, LoadGame DEF Applied
  <2>3. CASE j.status \in {"SAVE_FAILED", "LOAD_SUCCESS"} /\ Team(g) = {}
    BY <1>1, <2>3 DEF Applied, IsTeam
  <2>4. CASE j.status = "LOAD_FAILED"
    BY <1>1, <1>2, <2>4 DEF Applied
  <2>5. QED
    BY <1>3, <2>1, <2>2, <2>3, <2>4
<1> HIDE DEF a
<1>5. /\ DOMAIN h = GameFields /\ h.saving = 0 /\ h.ranked = a.ranked /\ h.run = a.run
      /\ h.state = a.state /\ h.client = a.client
  BY <1>4 DEF IsTeam, GameFields
<1> HIDE DEF h
<1>6. Team(h) = Team(a) /\ Members(h) = Members(a) /\ (IsRacing(h) <=> IsRacing(a))
  BY <1>5 DEF Team, Members, IsRacing
<1>7. IsTeam(h)
  BY <1>4, <1>5, <1>6 DEF IsTeam
<1>8. Answers(g, j, h)
  BY <1>4, <1>5, <1>6, <1>7 DEF Answers
<1>9. QED
  BY <1>8 DEF h, a

\* The answer hands the race from the request to the game.
LEMMA ProcessSaveTeamKeeps ==
  ASSUME SaveInv, NEW s \in Server, ProcessSaveTeam(s)
  PROVE  SaveInv'
<1> DEFINE g == game[s]
           k == g.saving
           j == job[k]
           h == [Applied(g, j) EXCEPT !.saving = 0]
           l == Left(h)
<1>1. /\ IsSaving(g) /\ j.at = "completed" /\ Becomes(s, h)
      /\ job' = [job EXCEPT ![k] = Freed(s)]
      /\ queue' = queue /\ remote' = remote /\ local' = local /\ names' = names
  BY DEF ProcessSaveTeam, tables
<1>2. /\ IsSequence(names) /\ Jobs(job, names) /\ Queues(queue, job)
      /\ Games(game, job, names) /\ Tables(remote, local, job, names)
      /\ Once(game, job, remote, local, names, blurred)
  BY DEF SaveInv, Held
<1>3. IsGame(s, g, job, names)
  BY <1>2 DEF Games
<1>4. Answers(g, j, h)
  BY <1>1, <1>2, <1>3, AnswersApplied
<1>5. game' = Put(game, s, l) /\ blurred' = blurred
  BY <1>1, <1>4 DEF Becomes, Left, Put, Answers
<1> HIDE DEF h
<1>6. /\ IsTeam(l) /\ ~IsSaving(l) /\ l.ranked = g.ranked
      /\ l.run = IF IsRacing(l) THEN j.saved.run ELSE NoRun
      /\ IsRacing(l) => /\ Members(l) \subseteq Members(g)
                        /\ j.status \in {"SAVE_FAILED", "LOAD_SUCCESS"}
  BY <1>4, LeftOf DEF Answers, IsSaving
<1>7. /\ k \in 1..Len(job) /\ j.on = s
      /\ j.kind = "save" => Members(g) \subseteq DOMAIN j.saved.tees
      /\ j.kind = "load" => Members(g) \subseteq DOMAIN j.who
  BY <1>1, <1>3 DEF IsGame, Asks
<1>8. IsSaveJob(j, names) \/ IsLoadJob(j, names)
  <2>1. IsJob(j, names) /\ j # Freed(j.on)
    BY <1>1, <1>2, <1>7 DEF Jobs, Freed
  <2>2. QED
    BY <2>1 DEF IsJob
<1>9. IsRacing(l) => /\ l.run \in 1..Len(names) /\ Members(l) \subseteq names[l.run]
                     /\ \A r : l.run = r => Carries(j, r)
  <2> SUFFICES ASSUME IsRacing(l)
               PROVE  /\ l.run \in 1..Len(names) /\ Members(l) \subseteq names[l.run]
                      /\ \A r : l.run = r => Carries(j, r)
    BY SMTT(60)
  <2>1. IsSaved(j.saved, names) /\ Members(g) \subseteq DOMAIN j.saved.tees
    BY <1>6, <1>7, <1>8 DEF IsSaveJob, IsLoadJob, IsGiven
  <2>2. QED
    BY <1>1, <1>6, <2>1 DEF IsSaved, Carries
<1>10. FreesSome(job, job', s)
  <2>1. IsSequence(job)
    BY <1>2 DEF Jobs
  <2> HIDE DEF g, j, k
  <2>2. IsSequence(job') /\ Len(job') = Len(job)
    <3>1. PICK S : job \in Seq(S)
      BY <2>1 DEF IsSequence
    <3>2. job \in Seq(S \union {Freed(s)})
      BY <3>1
    <3>3. job' \in Seq(S \union {Freed(s)}) /\ Len(job') = Len(job)
      BY <1>1, <1>7, <3>2
    <3>4. QED
      BY <3>3 DEF IsSequence
  <2>3. QED
    BY <1>1, <1>7, <2>1, <2>2 DEF FreesSome, j, IsSequence
<1>11. /\ Jobs(job', names)
       /\ \A t, q : t # s /\ IsQueue(t, q, job) => IsQueue(t, q, job')
       /\ \A t, x : t # s /\ IsGame(t, x, job, names) => IsGame(t, x, job', names)
       /\ Tables(remote, local, job', names)
  BY <1>2, <1>10, FreesKeeps
<1>12. Queues(queue, job')
  <2>1. IsQueue(s, queue[s], job)
    BY <1>2 DEF Queues
  <2>2. Len(job') = Len(job) /\ \A i \in 1..Len(job) : i # k => job'[i] = job[i]
    BY <1>1, <1>2, <1>10 DEF FreesSome, Jobs, IsSequence
  <2>3. IsQueue(s, queue[s], job')
    BY <1>1, <2>1, <2>2 DEF IsQueue
  <2>4. QED
    BY <1>2, <1>11, <2>3 DEF Queues
<1> HIDE DEF l
<1>13. IsGame(s, l, job', names)
  BY <1>3, <1>6, <1>9 DEF IsGame, Races
<1>14. Games(game', job', names)
  BY <1>2, <1>5, <1>11, <1>13 DEF Games, Put
<1>15. Once(game', job', remote, local, names, blurred)
  <2> SUFFICES ASSUME NEW r \in 1..Len(names) \ blurred
               PROVE  One(Holders(r, game', job', remote, local))
    BY DEF Once
  <2> DEFINE H == Holders(r, game, job, remote, local)
             K == Holders(r, game', job', remote, local)
  <2>1. One(H)
    BY <1>2 DEF Once
  <2>2. /\ Except(InGames(r, game'), InGames(r, game), <<"game", s>>, l.run = r /\ ~IsSaving(l))
        /\ Except(AtEnd(r, game'), AtEnd(r, game), <<"ranked", s>>, r \in l.ranked)
    BY <1>2, <1>5, GameReplaced DEF Games
  <2>3. AtEnd(r, game') \subseteq AtEnd(r, game)
    BY <1>6, <2>2 DEF Except, AtEnd
  <2>4. Except(InJobs(r, job'), InJobs(r, job), <<"job", k>>, Carries(Freed(s), r))
    BY <1>1, <1>2, <1>7, JobReplaced DEF Jobs, Put
  <2>5. ~Carries(Freed(s), r)
    BY DEF Carries, Freed
  <2>6. InJobs(r, job') = InJobs(r, job) \ {<<"job", k>>}
    BY <2>4, <2>5 DEF Except
  <2>7. CASE l.run = r
    <3>1. IsRacing(l)
      BY <1>6, <2>7 DEF NoRun
    <3>2. <<"job", k>> \in InJobs(r, job)
      <4>1. Carries(job[k], r) /\ k \in 1..Len(job)
        BY <1>7, <1>9, <2>7, <3>1
      <4> HIDE DEF k
      <4>2. QED
        BY <4>1 DEF InJobs
    <3>3. <<"job", k>> \in H
      BY <3>2 DEF Holders
    <3>4. K \subseteq H \union {<<"game", s>>}
      BY <2>2, <2>3, <2>6 DEF Holders, Except
    <3>5. <<"job", k>> \notin K
      <4>1. <<"job", k>>[1] = "job"
        OBVIOUS
      <4>2. /\ <<"job", k>> \notin InGames(r, game') /\ <<"job", k>> \notin InRemote(r, remote)
            /\ <<"job", k>> \notin InLocal(r, local) /\ <<"job", k>> \notin AtEnd(r, game')
        BY <4>1, Kinds
      <4>3. QED
        BY <2>6, <4>2 DEF Holders
    <3>6. K \subseteq (H \ {<<"job", k>>}) \union {<<"game", s>>}
      BY <3>4, <3>5
    <3> HIDE DEF H, K
    <3>7. One(K)
      BY <2>1, <3>3, <3>6, OneReplaced, ZenonT(60)
    <3>8. QED
      BY <3>7 DEF K
  <2>8. CASE l.run # r
    <3>1. InGames(r, game') \subseteq InGames(r, game)
      BY <2>2, <2>8 DEF Except
    <3>2. K \subseteq H
      BY <2>3, <2>6, <3>1 DEF Holders
    <3>3. QED
      BY <2>1, <3>2, OneLess
  <2>9. QED
    BY <2>7, <2>8
<1>16. QED
  BY <1>1, <1>2, <1>5, <1>11, <1>12, <1>14, <1>15 DEF SaveInv, Held

-----------------------------------------------------------------------------
\* A step of a worker

\* What the worker of s may make of its request k.
Goes(s, k, j, jn, gm, nm) ==
  /\ IsJob(jn, nm) /\ jn.on = s
  /\ jn.at = "freed" => gm[s].saving # k
  /\ jn.at # "freed" =>
       /\ jn.kind = j.kind /\ jn.who = j.who
       /\ j.kind = "save" =>
            /\ jn.saved = j.saved /\ jn.at # "backup"
            /\ j.at # "backup" /\ j.status = "SAVE_SUCCESS" => jn.status = "SAVE_SUCCESS"

\* All that was true of the requests is true with j for k.
GoneOn(s, k, j, jb, jn, nm, gm) ==
  /\ Jobs(jn, nm) /\ Len(jn) = Len(jb) /\ jn[k] = j
  /\ Games(gm, jb, nm) => Games(gm, jn, nm)
  /\ \A rm, lc : Tables(rm, lc, jb, nm) => Tables(rm, lc, jn, nm)
  /\ \A t, q : IsQueue(t, q, jb) /\ (t = s => \A i \in 1..Len(q) : q[i] # k) => IsQueue(t, q, jn)
  /\ \A t, q : IsQueue(t, q, jb) /\ j.at \notin {"completed", "freed"} => IsQueue(t, q, jn)

\* A request that its worker goes on with leaves what was true of the others.
LEMMA WorkerGoesOn ==
  ASSUME NEW s \in Server, NEW jb, NEW nm, NEW gm, Jobs(jb, nm),
         NEW k \in 1..Len(jb), jb[k].on = s, jb[k].at # "freed",
         NEW j, Goes(s, k, jb[k], j, gm, nm), NEW jn, jn = Put(jb, k, j)
  PROVE  GoneOn(s, k, j, jb, jn, nm, gm)
<1>1. /\ IsSequence(jn) /\ Len(jn) = Len(jb)
      /\ \A i \in 1..Len(jb) : jn[i] = IF i = k THEN j ELSE jb[i]
  <2>1. PICK S : jb \in Seq(S)
    BY DEF Jobs, IsSequence
  <2>2. jb \in Seq(S \union {j})
    BY <2>1
  <2>3. jn \in Seq(S \union {j}) /\ Len(jn) = Len(jb)
    BY <2>2 DEF Put
  <2>4. QED
    BY <2>2, <2>3 DEF IsSequence, Put
<1>2. Jobs(jn, nm)
  BY <1>1 DEF Jobs, Goes
<1>3. \A t, g : t # s /\ Asks(t, g, jb) => Asks(t, g, jn)
  BY <1>1 DEF Asks
<1>4. ASSUME NEW g, g = gm[s], Asks(s, g, jb)
      PROVE  Asks(s, g, jn)
  <2>1. CASE g.saving # k
    BY <1>1, <1>4, <2>1 DEF Asks
  <2>2. CASE g.saving = k
    <3>1. j.on = s /\ j.at # "freed" /\ j.kind = jb[k].kind /\ j.who = jb[k].who
      BY <1>4, <2>2 DEF Goes
    <3>2. jb[k].kind = "save" => j.saved = jb[k].saved
      BY <3>1 DEF Goes
    <3>3. QED
      BY <1>1, <1>4, <2>2, <3>1, <3>2 DEF Asks
  <2>3. QED
    BY <2>1, <2>2
<1>5. Games(gm, jb, nm) => Games(gm, jn, nm)
  BY <1>3, <1>4 DEF Games, IsGame
<1>6. ASSUME NEW t, NEW row, IsCopy(t, row, jb, nm)
      PROVE  IsCopy(t, row, jn, nm)
  <2>1. CASE row.id # k
    BY <1>1, <1>6, <2>1 DEF IsCopy
  <2>2. CASE row.id = k
    <3>1. /\ jb[k].kind = "save" /\ t = s /\ jb[k].at # "backup" /\ jb[k].status = "SAVE_SUCCESS"
          /\ row = [code |-> Generated(row.id), id |-> row.id, saved |-> jb[k].saved]
          /\ IsRow(row, nm)
      BY <1>6, <2>2 DEF IsCopy
    <3>2. jn[k] = j /\ k \in 1..Len(jn)
      BY <1>1
    <3>3. j.at # "freed" => j.kind = "save" /\ j.saved = jb[k].saved /\ j.on = s
                            /\ j.at # "backup" /\ j.status = "SAVE_SUCCESS"
      BY <3>1 DEF Goes
    <3>4. QED
      BY <2>2, <3>1, <3>2, <3>3 DEF IsCopy
  <2>3. QED
    BY <2>1, <2>2
<1>7. \A rm, lc : Tables(rm, lc, jb, nm) => Tables(rm, lc, jn, nm)
  BY <1>6 DEF Tables
<1>8. \A t, q : IsQueue(t, q, jb) /\ (t = s => \A i \in 1..Len(q) : q[i] # k) => IsQueue(t, q, jn)
  BY <1>1 DEF IsQueue
<1>9. \A t, q : IsQueue(t, q, jb) /\ j.at \notin {"completed", "freed"} => IsQueue(t, q, jn)
  <2>1. j.on = s
    BY DEF Goes
  <2>2. QED
    BY <1>1, <2>1 DEF IsQueue
<1>10. QED
  BY <1>1, <1>2, <1>5, <1>7, <1>8, <1>9 DEF GoneOn

\* The rest of a queue without its first request.
LEMMA QueueTail ==
  ASSUME NEW s, NEW q, NEW jb, IsQueue(s, q, jb), q # <<>>
  PROVE  /\ Head(q) \in 1..Len(jb) /\ jb[Head(q)].on = s
         /\ jb[Head(q)].at \notin {"completed", "freed"}
         /\ IsQueue(s, Tail(q), jb)
         /\ \A i \in 1..Len(Tail(q)) : Tail(q)[i] # Head(q)
<1> DEFINE n == Len(q)
<1>1. /\ q \in Seq(Nat) /\ n \in Nat /\ n >= 1 /\ Head(q) = q[1] /\ 1 \in 1..n
      /\ Tail(q) \in Seq(Nat) /\ Len(Tail(q)) = n - 1
      /\ \A i \in 1..n - 1 : Tail(q)[i] = q[i + 1] /\ i + 1 \in 1..n /\ i + 1 # 1
  BY DEF IsQueue
<1>2. \A i \in 1..n : /\ q[i] \in 1..Len(jb)
                      /\ jb[q[i]].on = s /\ jb[q[i]].at \notin {"completed", "freed"}
                      /\ \A m \in 1..n : q[i] = q[m] => i = m
  BY DEF IsQueue
<1> DEFINE u == Tail(q)
<1> HIDE DEF n, u
<1>3. \A i \in 1..Len(u) : /\ u[i] = q[i + 1] /\ i + 1 \in 1..n /\ i + 1 # 1 /\ i \in Int
  BY <1>1 DEF u
<1>4. \A i \in 1..Len(u) : u[i] # q[1]
  BY <1>1, <1>2, <1>3
<1>5. ASSUME NEW i \in 1..Len(u), NEW m \in 1..Len(u), u[i] = u[m]
      PROVE  i = m
  <2>1. i + 1 = m + 1
    BY <1>2, <1>3, <1>5
  <2>2. QED
    BY <1>3, <2>1
<1>6. IsQueue(s, u, jb)
  <2>1. u \in Seq(Nat)
    BY <1>1 DEF u
  <2>2. \A i \in 1..Len(u) : /\ u[i] \in 1..Len(jb)
                             /\ jb[u[i]].on = s /\ jb[u[i]].at \notin {"completed", "freed"}
    BY <1>2, <1>3
  <2>3. QED
    BY <1>5, <2>1, <2>2 DEF IsQueue
<1>7. QED
  BY <1>1, <1>2, <1>4, <1>6 DEF u

\* The request at the head goes on as j, or ends as it.
Works(s, j) ==
  LET k == Head(queue[s]) IN
  /\ queue[s] # <<>>
  /\ job' = Put(job, k, j)
  /\ \/ queue' = queue /\ j.at \notin {"completed", "freed"}
     \/ queue' = Put(queue, s, Tail(queue[s]))
  /\ game' = game /\ names' = names
  /\ Goes(s, k, job[k], j, game, names)

\* So does the worker's step, with its queue.
LEMMA WorksKeeps ==
  ASSUME Held, NEW s \in Server, NEW j, Works(s, j)
  PROVE  /\ Jobs(job', names) /\ Queues(queue', job') /\ Games(game', job', names)
         /\ Tables(remote, local, job', names)
         /\ Head(queue[s]) \in 1..Len(job) /\ job[Head(queue[s])].on = s
         /\ Len(job') = Len(job) /\ job'[Head(queue[s])] = j
         /\ job[Head(queue[s])].at # "freed"
<1> DEFINE k == Head(queue[s])
<1>1. /\ Jobs(job, names) /\ Queues(queue, job)
      /\ Games(game, job, names) /\ Tables(remote, local, job, names)
  BY DEF Held
<1>2. IsQueue(s, queue[s], job) /\ queue[s] # <<>>
  BY <1>1 DEF Queues, Works
<1>3. /\ k \in 1..Len(job) /\ job[k].on = s /\ job[k].at \notin {"completed", "freed"}
      /\ IsQueue(s, Tail(queue[s]), job)
      /\ \A i \in 1..Len(Tail(queue[s])) : Tail(queue[s])[i] # k
  BY <1>2, QueueTail
<1>4. /\ job' = Put(job, k, j) /\ Goes(s, k, job[k], j, game, names) /\ game' = game
  BY DEF Works
<1> HIDE DEF k
<1>5. GoneOn(s, k, j, job, job', names, game)
  BY <1>1, <1>3, <1>4, WorkerGoesOn
<1>6. Queues(queue', job')
  <2>1. CASE queue' = queue /\ j.at \notin {"completed", "freed"}
    BY <1>1, <1>5, <2>1 DEF Queues, GoneOn
  <2>2. CASE queue' = Put(queue, s, Tail(queue[s]))
    <3>1. DOMAIN queue = Server /\ \A t \in Server : IsQueue(t, queue[t], job)
      BY <1>1 DEF Queues
    <3>2. IsQueue(s, Tail(queue[s]), job')
      BY <1>3, <1>5 DEF GoneOn
    <3>3. \A t \in Server \ {s} : IsQueue(t, queue[t], job')
      BY <1>5, <3>1 DEF GoneOn
    <3>4. QED
      BY <2>2, <3>1, <3>2, <3>3 DEF Queues, Put
  <2>3. QED
    BY <2>1, <2>2 DEF Works
<1>7. /\ Jobs(job', names) /\ Games(game', job', names)
      /\ Tables(remote, local, job', names) /\ Len(job') = Len(job) /\ job'[k] = j
  BY <1>1, <1>4, <1>5 DEF GoneOn
<1>8. QED
  BY <1>3, <1>6, <1>7 DEF k

\* Where a race is after a worker's step: nowhere else, in a new row, or
\* in the request that took a row away.
Moves(r, old, j, rm, lc, rn, ln) ==
  \/ /\ InRemote(r, rn) \subseteq InRemote(r, rm) /\ InLocal(r, ln) \subseteq InLocal(r, lc)
     /\ Carries(j, r) => Carries(old, r)
  \/ /\ Carries(old, r) /\ ~Carries(j, r)
     /\ \E q : InRemote(r, rn) \union InLocal(r, ln)
                 \subseteq InRemote(r, rm) \union InLocal(r, lc) \union {q}
  \/ /\ InRemote(r, rn) \subseteq InRemote(r, rm) /\ InLocal(r, ln) \subseteq InLocal(r, lc)
     /\ \E p \in InRemote(r, rm) \union InLocal(r, lc) : p \notin InRemote(r, rn) \union InLocal(r, ln)

\* A race is doubled by no such move.
LEMMA WorksOnce ==
  ASSUME NEW r, NEW gm, NEW jb, IsSequence(jb), NEW k \in 1..Len(jb), NEW j,
         NEW jn, jn = Put(jb, k, j), NEW rm, NEW lc, NEW rn, NEW ln,
         One(Holders(r, gm, jb, rm, lc)),
         Moves(r, jb[k], j, rm, lc, rn, ln)
  PROVE  One(Holders(r, gm, jn, rn, ln))
<1> DEFINE H == Holders(r, gm, jb, rm, lc)
           K == Holders(r, gm, jn, rn, ln)
           job_k == <<"job", k>>
<1>1. Except(InJobs(r, jn), InJobs(r, jb), job_k, Carries(j, r))
  BY JobReplaced
<1>2. Carries(jb[k], r) => job_k \in InJobs(r, jb)
  BY DEF InJobs
<1>3. job_k[1] = "job"
  OBVIOUS
<1> HIDE DEF job_k
<1>4. CASE /\ InRemote(r, rn) \subseteq InRemote(r, rm) /\ InLocal(r, ln) \subseteq InLocal(r, lc)
           /\ Carries(j, r) => Carries(jb[k], r)
  <2>1. InJobs(r, jn) \subseteq InJobs(r, jb)
    BY <1>1, <1>2, <1>4 DEF Except
  <2>2. K \subseteq H
    BY <1>4, <2>1 DEF Holders
  <2>3. QED
    BY <2>2, OneLess
<1>5. ASSUME Carries(jb[k], r), ~Carries(j, r),
             NEW q, InRemote(r, rn) \union InLocal(r, ln)
                        \subseteq InRemote(r, rm) \union InLocal(r, lc) \union {q}
      PROVE  One(K)
  <2>1. job_k \in H
    BY <1>2, <1>5 DEF Holders
  <2>2. InJobs(r, jn) = InJobs(r, jb) \ {job_k}
    BY <1>1, <1>5 DEF Except
  <2>3. K \subseteq H \union {q}
    BY <1>5, <2>2 DEF Holders
  <2>4. job_k \notin K
    <3>1. /\ job_k \notin InGames(r, gm) /\ job_k \notin InRemote(r, rn)
          /\ job_k \notin InLocal(r, ln) /\ job_k \notin AtEnd(r, gm)
      BY <1>3, Kinds
    <3>2. QED
      BY <2>2, <3>1 DEF Holders
  <2>5. K \subseteq (H \ {job_k}) \union {q}
    BY <2>3, <2>4
  <2> HIDE DEF H, K
  <2>6. One(H)
    BY DEF H
  <2>7. QED
    BY <2>1, <2>5, <2>6, OneReplaced
<1>6. ASSUME InRemote(r, rn) \subseteq InRemote(r, rm), InLocal(r, ln) \subseteq InLocal(r, lc),
             NEW p \in InRemote(r, rm) \union InLocal(r, lc),
             p \notin InRemote(r, rn) \union InLocal(r, ln)
      PROVE  One(K)
  <2>1. p \in H
    BY <1>6 DEF Holders
  <2>2. InJobs(r, jn) \subseteq InJobs(r, jb) \union {job_k}
    BY <1>1 DEF Except
  <2>3. K \subseteq H \union {job_k}
    BY <1>6, <2>2 DEF Holders
  <2>4. p \notin K
    <3>1. p[1] = "remote" \/ p[1] = "local"
      BY <1>6, Kinds
    <3>2. p \notin InGames(r, gm) /\ p \notin InJobs(r, jn) /\ p \notin AtEnd(r, gm)
      BY <3>1, Kinds
    <3>3. QED
      BY <1>6, <3>2 DEF Holders
  <2>5. K \subseteq (H \ {p}) \union {job_k}
    BY <2>3, <2>4
  <2> HIDE DEF H, K
  <2>6. One(H)
    BY DEF H
  <2>7. QED
    BY <2>1, <2>5, <2>6, OneReplaced
<1>7. QED
  BY <1>4, <1>5, <1>6 DEF Moves

\* A worker's step keeps the invariant if the tables stay correct and races only move.
LEMMA WorkerKeeps ==
  ASSUME SaveInv, NEW s \in Server, NEW j, Works(s, j),
         Tables(remote, local, job', names) => Tables(remote', local', job', names),
         blurred \subseteq blurred',
         \A r \in 1..Len(names) \ blurred' :
           Moves(r, job[Head(queue[s])], j, remote, local, remote', local')
  PROVE  SaveInv'
<1> DEFINE k == Head(queue[s])
<1>1. /\ Held /\ IsSequence(names) /\ Jobs(job, names) /\ Once(game, job, remote, local, names, blurred)
  BY DEF SaveInv, Held
<1>2. /\ Jobs(job', names) /\ Queues(queue', job') /\ Games(game', job', names)
      /\ Tables(remote, local, job', names) /\ k \in 1..Len(job)
  BY <1>1, WorksKeeps
<1>3. game' = game /\ names' = names /\ job' = Put(job, k, j)
  BY DEF Works
<1>4. Once(game', job', remote', local', names, blurred')
  <2> SUFFICES ASSUME NEW r \in 1..Len(names) \ blurred'
               PROVE  One(Holders(r, game, job', remote', local'))
    BY <1>3 DEF Once
  <2>1. One(Holders(r, game, job, remote, local))
    BY <1>1 DEF Once
  <2>2. Moves(r, job[k], j, remote, local, remote', local')
    OBVIOUS
  <2>3. IsSequence(job)
    BY <1>1 DEF Jobs
  <2> HIDE DEF k
  <2>4. QED
    BY <1>2, <1>3, <2>1, <2>2, <2>3, WorksOnce
<1>5. QED
  BY <1>1, <1>2, <1>3, <1>4 DEF SaveInv, Held

\* The request that a worker is at.
LEMMA AtWork ==
  ASSUME SaveInv, NEW s \in Server, NEW kind, NEW at, Working(s, kind, at)
  PROVE  LET k == Head(queue[s]) IN
         /\ queue[s] # <<>> /\ k \in 1..Len(job)
         /\ job[k].on = s /\ job[k].at = at /\ job[k].kind = kind
         /\ kind = "save" => IsSaveJob(job[k], names)
         /\ kind = "load" => IsLoadJob(job[k], names)
         /\ job[k].status = "LOAD_SUCCESS" => kind # "load"
<1> DEFINE k == Head(queue[s])
<1>1. Jobs(job, names) /\ IsQueue(s, queue[s], job)
  BY DEF SaveInv, Held, Queues
<1>2. /\ queue[s] # <<>> /\ job[k].at = at /\ job[k].kind = kind
  BY DEF Working
<1>3. k \in 1..Len(job) /\ job[k].on = s /\ job[k].at \notin {"completed", "freed"}
  BY <1>1, <1>2, QueueTail
<1>4. IsJob(job[k], names)
  BY <1>1, <1>3 DEF Jobs
<1>5. IsSaveJob(job[k], names) \/ IsLoadJob(job[k], names)
  BY <1>3, <1>4 DEF IsJob, Freed
<1>6. QED
  BY <1>2, <1>3, <1>5 DEF IsSaveJob, IsLoadJob

\* The request j with another place and status.
IsWith(j, jn, at, status) ==
  /\ DOMAIN jn = JobFields /\ jn.on = j.on /\ jn.kind = j.kind /\ jn.who = j.who
  /\ jn.saved = j.saved /\ jn.row = j.row /\ jn.at = at /\ jn.status = status

\* The fields of a request with another place or status.
LEMMA WithPlace ==
  ASSUME NEW j, DOMAIN j = JobFields, NEW at, NEW status
  PROVE  /\ IsWith(j, [j EXCEPT !.at = at], at, j.status)
         /\ IsWith(j, [j EXCEPT !.status = status], j.at, status)
         /\ IsWith(j, [j EXCEPT !.at = at, !.status = status], at, status)
<1>1. IsWith(j, [j EXCEPT !.at = at], at, j.status)
  BY DEF IsWith, JobFields
<1>2. IsWith(j, [j EXCEPT !.status = status], j.at, status)
  BY DEF IsWith, JobFields
<1>3. IsWith(j, [j EXCEPT !.at = at, !.status = status], at, status)
  BY DEF IsWith, JobFields
<1>4. QED
  BY <1>1, <1>2, <1>3

\* What a statement of a save makes of its request.
LEMMA SaveGoesOn ==
  ASSUME NEW s \in Server, NEW k, NEW gm, NEW nm, NEW j, IsSaveJob(j, nm), j.on = s,
         NEW jn, NEW at \in {"insert", "succeeded", "failed", "completed"},
         NEW status \in {j.status, "SAVE_SUCCESS"}, at = "succeeded" => status = "SAVE_SUCCESS",
         IsWith(j, jn, at, status)
  PROVE  Goes(s, k, j, jn, gm, nm)
<1>1. IsSaveJob(jn, nm)
  BY DEF IsSaveJob, IsWith
<1>2. QED
  BY <1>1 DEF Goes, IsJob, IsWith

\* What a statement of a load makes of its request.
LEMMA LoadGoesOn ==
  ASSUME NEW s \in Server, NEW k, NEW gm, NEW nm, NEW j, IsLoadJob(j, nm), j.on = s,
         j.kind = "load",
         NEW jn, DOMAIN jn = JobFields, jn.on = s, jn.kind = "load", jn.who = j.who,
         \/ jn.at \in {"failed", "completed"} /\ jn.status = "LOAD_FAILED"
         \/ jn.at = "completed" /\ jn.status = "LOAD_SUCCESS" /\ IsGiven(jn, nm)
         \/ /\ jn.at = "delete" /\ jn.status = "LOAD_FAILED"
            /\ IsGiven(jn, nm) /\ jn.saved.run = RunOf(jn.row)
  PROVE  Goes(s, k, j, jn, gm, nm)
<1>1. IsLoadJob(jn, nm)
  BY DEF IsLoadJob
<1>2. QED
  BY <1>1 DEF Goes, IsJob

\* A request that nobody waits for is freed.
LEMMA FreedGoes ==
  ASSUME NEW s \in Server, NEW k, NEW gm, NEW nm, NEW j, gm[s].saving # k
  PROVE  Goes(s, k, j, Freed(s), gm, nm)
BY DEF Goes, Freed, IsJob

\* Fewer rows hold fewer races.
LEMMA LocalSaves ==
  ASSUME NEW r, NEW lc, NEW ln, \A s \in Server : ln[s].saves \subseteq lc[s].saves
  PROVE  InLocal(r, ln) \subseteq InLocal(r, lc)
BY DEF InLocal

\* The last statement of a request.
LEMMA Completes ==
  ASSUME SaveInv, NEW s \in Server, NEW last, queue[s] # <<>>, Complete(s, last),
         NEW done, done = [last EXCEPT !.at = "completed"], done.at = "completed",
         UNCHANGED <<game, names>>,
         Goes(s, Head(queue[s]), job[Head(queue[s])], done, game, names)
  PROVE  \/ Works(s, done)
         \/ Works(s, Freed(s))
<1> DEFINE k == Head(queue[s])
<1>1. /\ job' = Put(job, k, IF game[s].saving = k THEN done ELSE Freed(s))
      /\ queue' = Put(queue, s, Tail(queue[s]))
      /\ game' = game /\ names' = names
  BY DEF Complete, Put
<1>2. CASE game[s].saving = k
  BY <1>1, <1>2 DEF Works
<1>3. CASE game[s].saving # k
  BY <1>1, <1>3, FreedGoes DEF Works
<1>4. QED
  BY <1>2, <1>3

\* A statement that is not the last.
LEMMA Continues ==
  ASSUME NEW s \in Server, NEW next, queue[s] # <<>>, Continue(s, next),
         next.at \notin {"completed", "freed"}, UNCHANGED <<game, names>>,
         Goes(s, Head(queue[s]), job[Head(queue[s])], next, game, names)
  PROVE  Works(s, next)
BY DEF Continue, Works, Put

\* The requests that carry nothing.
LEMMA NotCarried ==
  ASSUME NEW j, NEW r, \/ j.at \in {"freed", "succeeded", "select", "delete"}
                       \/ j.at = "failed" /\ j.kind = "load"
                       \/ j.at = "completed" /\ j.status \in {"SAVE_SUCCESS", "LOAD_FAILED"}
  PROVE  ~Carries(j, r)
BY DEF Carries

\* Where no row comes, and no race comes into the request, nothing has moved.
LEMMA MovesNothing ==
  ASSUME NEW r, NEW old, NEW j, NEW rm, NEW lc, NEW rn, NEW ln,
         InRemote(r, rn) \subseteq InRemote(r, rm), InLocal(r, ln) \subseteq InLocal(r, lc),
         Carries(j, r) => Carries(old, r)
  PROVE  Moves(r, old, j, rm, lc, rn, ln)
BY DEF Moves

\* The copy that the worker made of a save.
LEMMA SaveBackupKeeps ==
  ASSUME SaveInv, NEW s \in Server, SaveBackup(s)
  PROVE  SaveInv'
<1> DEFINE k == Head(queue[s])
           j == job[k]
           written == [j EXCEPT !.at = "insert", !.status = "SAVE_SUCCESS"]
           failed == [j EXCEPT !.at = "insert"]
<1>1. /\ queue[s] # <<>> /\ k \in 1..Len(job) /\ j.on = s /\ j.at = "backup" /\ j.kind = "save"
      /\ IsSaveJob(j, names) /\ DOMAIN j = JobFields
  BY AtWork DEF SaveBackup, IsSaveJob
<1>2. /\ game' = game /\ names' = names /\ remote' = remote /\ blurred' = blurred
      /\ \/ /\ local' = [local EXCEPT ![s].backup = @ \union {Copy(k)}]
            /\ Continue(s, written)
         \/ local' = local /\ Continue(s, failed)
  BY DEF SaveBackup
<1>3. IsWith(j, written, "insert", "SAVE_SUCCESS") /\ IsWith(j, failed, "insert", j.status)
  BY <1>1, WithPlace
<1>4. \A r : (Carries(written, r) => Carries(j, r)) /\ (Carries(failed, r) => Carries(j, r))
  BY <1>1, <1>3 DEF Carries, IsWith
<1>5. /\ Goes(s, k, j, written, game, names) /\ written.at = "insert" /\ written.saved = j.saved
      /\ written.kind = "save" /\ written.on = s /\ written.status = "SAVE_SUCCESS"
      /\ Goes(s, k, j, failed, game, names) /\ failed.at = "insert"
  BY <1>1, <1>3, SaveGoesOn DEF IsWith
<1> HIDE DEF written, failed
<1>6. CASE local' = local /\ Continue(s, failed)
  <2>1. Works(s, failed)
    BY <1>1, <1>2, <1>5, <1>6, Continues
  <2>2. \A r : Moves(r, j, failed, remote, local, remote', local')
    BY <1>2, <1>4, <1>6, MovesNothing
  <2>3. QED
    BY <1>2, <1>6, <2>1, <2>2, WorkerKeeps
<1>7. ASSUME local' = [local EXCEPT ![s].backup = @ \union {Copy(k)}], Continue(s, written)
      PROVE  SaveInv'
  <2>1. Works(s, written)
    BY <1>1, <1>2, <1>5, <1>7, Continues
  <2>2. Tables(remote, local, job, names)
    BY DEF SaveInv, Held
  <2>3. /\ DOMAIN local' = Server
        /\ \A t \in Server : local'[t].saves = local[t].saves
        /\ \A t \in Server : DOMAIN local'[t] = {"saves", "backup"}
        /\ \A t \in Server \ {s} : local'[t] = local[t]
        /\ local'[s].backup = local[s].backup \union {Copy(k)}
    BY <1>7, <2>2 DEF Tables
  <2>4. \A r : Moves(r, j, written, remote, local, remote', local')
    BY <1>2, <1>4, <2>3, LocalSaves, MovesNothing
  <2>5. IsCopy(s, Copy(k), job', names)
    <3>1. Len(job') = Len(job) /\ job'[k] = written
      BY <2>1, WorksKeeps DEF SaveInv
    <3>2. Copy(k) = [code |-> Generated(k), id |-> k, saved |-> j.saved]
      BY DEF Copy, Row
    <3>3. IsRow(Copy(k), names) /\ Copy(k).id = k
      BY <1>1, <3>2 DEF IsRow, IsSaveJob
    <3>4. QED
      BY <1>1, <1>5, <3>1, <3>2, <3>3 DEF IsCopy
  <2>6. Tables(remote, local, job', names) => Tables(remote', local', job', names)
    <3> SUFFICES ASSUME Tables(remote, local, job', names)
                 PROVE  Tables(remote', local', job', names)
      OBVIOUS
    <3>1. \A row \in local'[s].backup : IsCopy(s, row, job', names)
      BY <2>3, <2>5 DEF Tables
    <3>2. \A t \in Server : \A row \in local'[t].backup : IsCopy(t, row, job', names)
      BY <2>3, <3>1 DEF Tables
    <3>3. QED
      BY <1>2, <2>3, <3>2 DEF Tables
  <2>7. QED
    BY <1>2, <2>1, <2>4, <2>6, WorkerKeeps
<1>8. QED
  BY <1>2, <1>6, <1>7

\* A row with the race of a request.
LEMMA RowOf ==
  ASSUME NEW code, NEW k, IsSaved(job[k].saved, names)
  PROVE  IsRow(Row(code, k), names) /\ RunOf(Row(code, k)) = job[k].saved.run
BY DEF Row, RunOf, IsRow

\* The inserted row takes the race over from the request, or the answer is lost.
LEMMA SaveInsertKeeps ==
  ASSUME SaveInv, NEW s \in Server, SaveInsert(s)
  PROVE  SaveInv'
<1> DEFINE k == Head(queue[s])
           j == job[k]
           taken == j.code = NoCode \/ \E row \in remote : row.code = j.code
           row == Row(IF taken THEN Generated(k) ELSE j.code, k)
           inserted == [j EXCEPT !.at = "succeeded", !.status = "SAVE_SUCCESS"]
           failed == [j EXCEPT !.at = "failed"]
<1>1. /\ queue[s] # <<>> /\ k \in 1..Len(job) /\ j.on = s /\ j.at = "insert" /\ j.kind = "save"
      /\ IsSaveJob(j, names) /\ DOMAIN j = JobFields /\ IsSaved(j.saved, names)
  BY AtWork, SMTT(60) DEF SaveInsert, IsSaveJob
<1>2. /\ game' = game /\ names' = names /\ local' = local
      /\ \/ remote' = remote \union {row} /\ Continue(s, inserted) /\ blurred' = blurred
         \/ /\ remote' = remote \union {row} /\ Continue(s, failed)
            /\ blurred' = blurred \union {RunOf(row)}
         \/ remote' = remote /\ Continue(s, failed) /\ blurred' = blurred
  BY DEF SaveInsert
<1>3. IsWith(j, inserted, "succeeded", "SAVE_SUCCESS") /\ IsWith(j, failed, "failed", j.status)
  BY <1>1, WithPlace
<1>4. /\ Goes(s, k, j, inserted, game, names) /\ inserted.at = "succeeded"
      /\ Goes(s, k, j, failed, game, names) /\ failed.at = "failed"
  BY <1>1, <1>3, SaveGoesOn DEF IsWith
<1>5. \A r : ~Carries(inserted, r) /\ (Carries(failed, r) => Carries(j, r))
  BY <1>1, <1>3 DEF Carries, IsWith
<1>6. Carries(j, RunOf(row)) /\ IsRow(row, names)
  BY <1>1, RowOf DEF Carries
<1> HIDE DEF inserted, failed, row, taken
<1>7. remote' \subseteq remote \union {row}
  BY <1>2
<1>8. Tables(remote, local, job', names) => Tables(remote', local', job', names)
  BY <1>2, <1>6, <1>7 DEF Tables
<1>9. \A r : RunOf(row) # r => InRemote(r, remote') \subseteq InRemote(r, remote)
  BY <1>7 DEF InRemote
<1>10. CASE remote' = remote /\ Continue(s, failed) /\ blurred' = blurred
  <2>1. Works(s, failed)
    BY <1>1, <1>2, <1>4, <1>10, Continues
  <2>2. \A r : Moves(r, j, failed, remote, local, remote', local')
    BY <1>2, <1>5, <1>10, MovesNothing
  <2>3. QED
    BY <1>8, <1>10, <2>1, <2>2, WorkerKeeps
<1>11. CASE Continue(s, failed) /\ blurred' = blurred \union {RunOf(row)}
  <2>1. Works(s, failed)
    BY <1>1, <1>2, <1>4, <1>11, Continues
  <2>2. \A r \in 1..Len(names) \ blurred' : Moves(r, j, failed, remote, local, remote', local')
    BY <1>2, <1>5, <1>9, <1>11, MovesNothing
  <2>3. QED
    BY <1>8, <1>11, <2>1, <2>2, WorkerKeeps
<1>12. CASE remote' = remote \union {row} /\ Continue(s, inserted) /\ blurred' = blurred
  <2>1. Works(s, inserted)
    BY <1>1, <1>2, <1>4, <1>12, Continues
  <2>2. ASSUME NEW r
        PROVE  Moves(r, j, inserted, remote, local, remote', local')
    <3>1. CASE RunOf(row) # r
      BY <1>2, <1>5, <1>9, <3>1, MovesNothing
    <3>2. CASE RunOf(row) = r
      <4>1. InRemote(r, remote') \subseteq InRemote(r, remote) \union {<<"remote", row>>}
        BY <1>7 DEF InRemote
      <4>2. InRemote(r, remote') \union InLocal(r, local')
              \subseteq InRemote(r, remote) \union InLocal(r, local) \union {<<"remote", row>>}
        BY <1>2, <4>1
      <4>3. QED
        BY <1>5, <1>6, <3>2, <4>2 DEF Moves
    <3>3. QED
      BY <3>1, <3>2
  <2>3. QED
    BY <1>8, <1>12, <2>1, <2>2, WorkerKeeps
<1>13. QED
  BY <1>2, <1>10, <1>11, <1>12, SMTT(60)

\* The tables of the server s are these now, the others what they were.
LocalNow(s, lc, ln, saves, backup) ==
  /\ DOMAIN ln = Server /\ \A t \in Server : DOMAIN ln[t] = {"saves", "backup"}
  /\ ln[s].saves = saves /\ ln[s].backup = backup
  /\ \A t \in Server \ {s} : ln[t] = lc[t]

\* Copies that are gone, or have become saves, leave the tables correct.
LEMMA LocalChanges ==
  ASSUME NEW jb, NEW nm, NEW rm, NEW lc, Tables(rm, lc, jb, nm), NEW s \in Server,
         NEW saves, NEW backup, backup \subseteq lc[s].backup,
         saves \subseteq lc[s].saves \union lc[s].backup,
         NEW ln, LocalNow(s, lc, ln, saves, backup)
  PROVE  Tables(rm, ln, jb, nm)
<1>1. /\ \A row \in ln[s].saves : IsRow(row, nm)
      /\ \A row \in ln[s].backup : IsCopy(s, row, jb, nm)
  BY DEF Tables, IsCopy, LocalNow
<1>2. \A t \in Server : /\ DOMAIN ln[t] = {"saves", "backup"}
                        /\ \A row \in ln[t].saves : IsRow(row, nm)
                        /\ \A row \in ln[t].backup : IsCopy(t, row, jb, nm)
  BY <1>1 DEF Tables, LocalNow
<1>3. QED
  BY <1>2 DEF Tables, LocalNow

\* A copy that is deleted never held the race.
LEMMA SaveDeleteCopyKeeps ==
  ASSUME SaveInv, NEW s \in Server, SaveDeleteCopy(s)
  PROVE  SaveInv'
<1> DEFINE k == Head(queue[s])
           j == job[k]
           done == [j EXCEPT !.at = "completed"]
           kept == local[s].backup \ {Copy(k)}
<1>1. /\ queue[s] # <<>> /\ k \in 1..Len(job) /\ j.on = s /\ j.at = "succeeded" /\ j.kind = "save"
      /\ IsSaveJob(j, names) /\ DOMAIN j = JobFields /\ j.status = "SAVE_SUCCESS"
  BY AtWork DEF SaveDeleteCopy, IsSaveJob
<1>2. /\ game' = game /\ names' = names /\ remote' = remote /\ blurred' = blurred
      /\ local' = [local EXCEPT ![s].backup = kept] \/ local' = local
      /\ Complete(s, j)
  BY DEF SaveDeleteCopy
<1>3. IsWith(j, done, "completed", j.status)
  BY <1>1, WithPlace
<1>4. Goes(s, k, j, done, game, names) /\ done.at = "completed" /\ done.status = "SAVE_SUCCESS"
  BY <1>1, <1>3, SaveGoesOn DEF IsWith
<1>5. \A r : ~Carries(done, r) /\ ~Carries(Freed(s), r)
  BY <1>4 DEF Carries, Freed
<1>6. \/ Works(s, done)
      \/ Works(s, Freed(s))
  <2> HIDE DEF done
  <2>1. done = [j EXCEPT !.at = "completed"]
    BY DEF done
  <2>2. QED
    BY <1>1, <1>2, <1>4, <2>1, Completes
<1> HIDE DEF done, kept
<1>7. Tables(remote, local, job', names) => Tables(remote', local', job', names)
  <2> SUFFICES ASSUME Tables(remote, local, job', names), local' = [local EXCEPT ![s].backup = kept]
               PROVE  Tables(remote', local', job', names)
    BY <1>2
  <2>1. LocalNow(s, local, local', local[s].saves, kept)
    BY DEF Tables, LocalNow
  <2>2. kept \subseteq local[s].backup
    BY DEF kept
  <2>3. QED
    BY <1>2, <2>1, <2>2, LocalChanges
<1>8. \A t \in Server : local'[t].saves = local[t].saves
  BY <1>2 DEF SaveInv, Held, Tables
<1>9. InLocal(0, local') \subseteq InLocal(0, local) /\ \A r : InLocal(r, local') \subseteq InLocal(r, local)
  BY <1>8, LocalSaves
<1>10. \A r : /\ Moves(r, j, done, remote, local, remote', local')
              /\ Moves(r, j, Freed(s), remote, local, remote', local')
  BY <1>2, <1>5, <1>9, MovesNothing
<1>11. QED
  BY <1>2, <1>6, <1>7, <1>10, WorkerKeeps

\* The copy takes the race over as a row, and only where the copy was written.
LEMMA SaveMoveCopyKeeps ==
  ASSUME SaveInv, NEW s \in Server, SaveMoveCopy(s)
  PROVE  SaveInv'
<1> DEFINE k == Head(queue[s])
           j == job[k]
           done == [j EXCEPT !.at = "completed"]
           copied == local[s].backup \intersect {Copy(k)}
<1>1. /\ queue[s] # <<>> /\ k \in 1..Len(job) /\ j.on = s /\ j.at = "failed" /\ j.kind = "save"
      /\ IsSaveJob(j, names) /\ DOMAIN j = JobFields
  BY AtWork DEF SaveMoveCopy, IsSaveJob
<1>2. /\ game' = game /\ names' = names /\ remote' = remote /\ blurred' = blurred
      /\ Complete(s, j)
  BY DEF SaveMoveCopy
<1>3. PICK inserted \in BOOLEAN, deleted \in BOOLEAN :
        local' = [local EXCEPT ![s].saves = IF inserted THEN @ \union copied ELSE @,
                               ![s].backup = IF deleted THEN @ \ copied ELSE @]
  BY DEF SaveMoveCopy
<1> DEFINE saves == IF inserted THEN local[s].saves \union copied ELSE local[s].saves
           backup == IF deleted THEN local[s].backup \ copied ELSE local[s].backup
<1>4. Tables(remote, local, job, names)
  BY DEF SaveInv, Held
<1>5. LocalNow(s, local, local', saves, backup)
  <2>1. DOMAIN local = Server /\ \A t \in Server : DOMAIN local[t] = {"saves", "backup"}
    BY <1>4 DEF Tables
  <2> HIDE DEF copied
  <2>2. QED
    BY <1>3, <2>1 DEF LocalNow
<1>6. IsWith(j, done, "completed", j.status)
  BY <1>1, WithPlace
<1>7. Goes(s, k, j, done, game, names) /\ done.at = "completed"
  BY <1>1, <1>6, SaveGoesOn DEF IsWith
<1>8. \/ Works(s, done)
      \/ Works(s, Freed(s))
  <2> HIDE DEF done
  <2>1. done = [j EXCEPT !.at = "completed"]
    BY DEF done
  <2>2. QED
    BY <1>1, <1>2, <1>7, <2>1, Completes
<1>9. \A r : /\ Carries(done, r) => Carries(j, r) /\ j.status = "SAVE_FAILED"
             /\ ~Carries(Freed(s), r)
  BY <1>1, <1>6 DEF Carries, Freed, IsWith, IsSaveJob
<1>10. /\ saves \subseteq local[s].saves \union copied
       /\ saves \subseteq local[s].saves \union local[s].backup
       /\ backup \subseteq local[s].backup
  OBVIOUS
<1>11. copied # {} => copied = {Copy(k)} /\ j.status = "SAVE_SUCCESS"
  <2> SUFFICES ASSUME Copy(k) \in local[s].backup PROVE j.status = "SAVE_SUCCESS"
    OBVIOUS
  <2>1. IsCopy(s, Copy(k), job, names) /\ Copy(k).id = k
    BY <1>4 DEF Tables, Copy, Row
  <2>2. QED
    BY <1>1, <2>1 DEF IsCopy
<1>12. RunOf(Copy(k)) = j.saved.run
  BY DEF Copy, Row, RunOf
<1> HIDE DEF done, copied, saves, backup
<1>13. Tables(remote, local, job', names) => Tables(remote', local', job', names)
  BY <1>2, <1>5, <1>10, LocalChanges
<1>14. local'[s].saves = saves /\ \A t \in Server \ {s} : local'[t] = local[t]
  BY <1>5 DEF LocalNow
<1>15. ASSUME NEW r, NEW d \in {done, Freed(s)}
       PROVE  Moves(r, j, d, remote, local, remote', local')
  <2>1. CASE copied = {} \/ RunOf(Copy(k)) # r
    <3>1. \A t \in Server : \A row \in local'[t].saves : RunOf(row) = r => row \in local[t].saves
      BY <1>10, <1>11, <1>14, <2>1
    <3>2. InLocal(r, local') \subseteq InLocal(r, local)
      BY <3>1 DEF InLocal
    <3>3. QED
      BY <1>2, <1>9, <3>2, MovesNothing
  <2>2. CASE copied = {Copy(k)} /\ j.status = "SAVE_SUCCESS" /\ RunOf(Copy(k)) = r
    <3>1. Carries(j, r) /\ ~Carries(d, r)
      BY <1>1, <1>9, <1>12, <2>2 DEF Carries
    <3>2. \A t \in Server : \A row \in local'[t].saves :
             row \in local[t].saves \/ (t = s /\ row = Copy(k))
      BY <1>10, <1>14, <2>2
    <3>3. InLocal(r, local') \subseteq InLocal(r, local) \union {<<"local", <<s, Copy(k)>>>>}
      BY <3>2 DEF InLocal
    <3>4. InRemote(r, remote') \union InLocal(r, local')
            \subseteq InRemote(r, remote) \union InLocal(r, local) \union {<<"local", <<s, Copy(k)>>>>}
      BY <1>2, <3>3
    <3>5. QED
      BY <3>1, <3>4 DEF Moves
  <2>3. QED
    BY <1>11, <2>1, <2>2
<1>16. QED
  BY <1>2, <1>8, <1>13, <1>15, WorkerKeeps

\* What the team is given of a row is what was saved, for its own slots.
LEMMA GivenIs ==
  ASSUME NEW k, NEW row, IsRow(row, names), Matches(k, row)
  PROVE  /\ IsSaved(Given(k, row), names) /\ Given(k, row).run = RunOf(row)
         /\ DOMAIN Given(k, row).tees = DOMAIN job[k].who
<1> DEFINE tees == [n \in DOMAIN row.saved.tees |-> [row.saved.tees[n] EXCEPT !.slot = job[k].who[n]]]
<1>1. Given(k, row) = [row.saved EXCEPT !.tees = tees]
  BY DEF Given
<1>2. DOMAIN tees = DOMAIN row.saved.tees
  OBVIOUS
<1>3. DOMAIN row.saved = {"run", "locked", "tees"}
  BY DEF IsRow, IsSaved
<1> HIDE DEF tees
<1>4. /\ DOMAIN Given(k, row) = {"run", "locked", "tees"}
      /\ Given(k, row).run = row.saved.run /\ Given(k, row).tees = tees
  BY <1>1, <1>3
<1>5. QED
  BY <1>2, <1>4 DEF IsRow, IsSaved, RunOf, Matches

\* The request k took the row away, and has the race of it.
Found(j, jn, row, at, status) ==
  /\ DOMAIN jn = JobFields /\ jn.on = j.on /\ jn.kind = j.kind /\ jn.who = j.who
  /\ jn.at = at /\ jn.status = status
  /\ IsGiven(jn, names) /\ jn.saved.run = RunOf(row)

\* The fields of a request that has found its save.
LEMMA WithRow ==
  ASSUME NEW k, NEW j, j = job[k], DOMAIN j = JobFields, NEW row, IsRow(row, names),
         Matches(k, row),
         NEW saved, saved = Given(k, row), NEW jn, NEW at, NEW status,
         DOMAIN jn = JobFields, jn.on = j.on, jn.kind = j.kind, jn.who = j.who,
         jn.saved = saved, jn.at = at, jn.status = status
  PROVE  Found(j, jn, row, at, status)
<1>1. IsSaved(saved, names) /\ saved.run = RunOf(row) /\ DOMAIN saved.tees = DOMAIN j.who
  BY GivenIs
<1>2. QED
  BY <1>1 DEF IsGiven, Found

\* A load that has not found its save, or could not take it away.
LEMMA LoadFails ==
  ASSUME NEW s \in Server, NEW k, NEW j, IsLoadJob(j, names), j.kind = "load", j.on = s,
         j.status = "LOAD_FAILED",
         NEW at \in {"failed", "completed"}, NEW jn, jn = [j EXCEPT !.at = at]
  PROVE  Goes(s, k, j, jn, game, names) /\ jn.at = at /\ \A r : ~Carries(jn, r)
<1>1. IsWith(j, jn, at, "LOAD_FAILED")
  BY WithPlace DEF IsLoadJob
<1>2. Goes(s, k, j, jn, game, names)
  BY <1>1, LoadGoesOn DEF IsWith, IsLoadJob
<1>3. ASSUME NEW r PROVE ~Carries(jn, r)
  BY <1>1, NotCarried DEF IsWith
<1>4. QED
  BY <1>1, <1>2, <1>3 DEF IsWith

\* A load that ends without a save.
LEMMA LoadEnds ==
  ASSUME SaveInv, NEW s \in Server, NEW at, Working(s, "load", at),
         Complete(s, job[Head(queue[s])]),
         UNCHANGED <<game, tables, names, blurred>>
  PROVE  SaveInv'
<1> DEFINE k == Head(queue[s])
           j == job[k]
           done == [j EXCEPT !.at = "completed"]
<1>1. /\ queue[s] # <<>> /\ j.on = s /\ j.kind = "load" /\ IsLoadJob(j, names) /\ j.status = "LOAD_FAILED"
  BY AtWork DEF IsLoadJob
<1>2. /\ Goes(s, k, j, done, game, names) /\ done.at = "completed" /\ \A r : ~Carries(done, r)
  <2> DEFINE n == "completed"
  <2>1. n \in {"failed", "completed"} /\ done = [j EXCEPT !.at = n]
    OBVIOUS
  <2> HIDE DEF n, done, j
  <2>2. Goes(s, k, j, done, game, names) /\ done.at = n /\ \A r : ~Carries(done, r)
    BY <1>1, <2>1, LoadFails, ZenonT(60)
  <2>3. QED
    BY <2>2 DEF n
<1>3. Works(s, done) \/ Works(s, Freed(s))
  <2> HIDE DEF done
  <2>1. done = [j EXCEPT !.at = "completed"]
    BY DEF done
  <2>2. QED
    BY <1>1, <1>2, <2>1, Completes
<1>4. \A r : ~Carries(Freed(s), r)
  BY DEF Carries, Freed
<1>5. remote' = remote /\ local' = local /\ blurred' = blurred
  BY DEF tables
<1> HIDE DEF done
<1>6. \A r : /\ Moves(r, j, done, remote, local, remote', local')
             /\ Moves(r, j, Freed(s), remote, local, remote', local')
  BY <1>2, <1>4, <1>5, MovesNothing
<1>7. QED
  BY <1>3, <1>5, <1>6, WorkerKeeps

\* A load goes on with the local database, when the remote one failed.
LEMMA LoadGoesLocal ==
  ASSUME SaveInv, NEW s \in Server, NEW at, Working(s, "load", at),
         Continue(s, [job[Head(queue[s])] EXCEPT !.at = "failed"]),
         UNCHANGED <<game, local, names>>, remote' \subseteq remote, blurred \subseteq blurred'
  PROVE  SaveInv'
<1> DEFINE k == Head(queue[s])
           j == job[k]
           failed == [j EXCEPT !.at = "failed"]
<1>1. /\ queue[s] # <<>> /\ j.on = s /\ j.kind = "load" /\ IsLoadJob(j, names) /\ j.status = "LOAD_FAILED"
  BY AtWork DEF IsLoadJob
<1>2. /\ Goes(s, k, j, failed, game, names) /\ failed.at = "failed" /\ \A r : ~Carries(failed, r)
  <2> DEFINE n == "failed"
  <2>1. n \in {"failed", "completed"} /\ failed = [j EXCEPT !.at = n]
    OBVIOUS
  <2> HIDE DEF n, failed, j
  <2>2. Goes(s, k, j, failed, game, names) /\ failed.at = n /\ \A r : ~Carries(failed, r)
    BY <1>1, <2>1, LoadFails
  <2>3. QED
    BY <2>2 DEF n
<1>3. Continue(s, failed)
  OBVIOUS
<1> HIDE DEF failed
<1>4. Works(s, failed)
  BY <1>1, <1>2, <1>3, Continues
<1>5. \A r : InRemote(r, remote') \subseteq InRemote(r, remote)
  BY DEF InRemote
<1>6. \A r : Moves(r, j, failed, remote, local, remote', local')
  BY <1>2, <1>5, MovesNothing
<1>7. Tables(remote, local, job', names) => Tables(remote', local', job', names)
  BY SMTT(60) DEF Tables
<1>8. QED
  BY <1>4, <1>6, <1>7, WorkerKeeps

\* Finding a save moves nothing.
LEMMA LoadSelectKeeps ==
  ASSUME SaveInv, NEW s \in Server, LoadSelect(s)
  PROVE  SaveInv'
<1> DEFINE k == Head(queue[s])
           j == job[k]
           found == {row \in remote : row.code = job[k].code /\ Matches(k, row)}
<1>1. /\ Working(s, "load", "select") /\ UNCHANGED <<game, tables, names, blurred>>
      /\ \/ \E row \in found : Continue(s, [j EXCEPT !.at = "delete", !.row = row, !.saved = Given(k, row)])
         \/ Complete(s, j)
         \/ Continue(s, [j EXCEPT !.at = "failed"])
  BY DEF LoadSelect
<1>2. CASE Complete(s, j)
  BY <1>1, <1>2, LoadEnds, SMTT(60)
<1>3. CASE Continue(s, [j EXCEPT !.at = "failed"])
  BY <1>1, <1>3, LoadGoesLocal DEF tables
<1>4. ASSUME NEW row \in found, Continue(s, [j EXCEPT !.at = "delete", !.row = row, !.saved = Given(k, row)])
      PROVE  SaveInv'
  <2> DEFINE next == [j EXCEPT !.at = "delete", !.row = row, !.saved = Given(k, row)]
  <2>1. /\ queue[s] # <<>> /\ j.on = s /\ j.kind = "load" /\ IsLoadJob(j, names)
        /\ j.status = "LOAD_FAILED" /\ DOMAIN j = JobFields
    BY <1>1, AtWork DEF IsLoadJob
  <2>2. IsRow(row, names) /\ Matches(k, row)
    BY <1>4 DEF SaveInv, Held, Tables
  <2>3. Found(j, next, row, "delete", "LOAD_FAILED") /\ next.row = row
    <3> DEFINE saved == Given(k, row)
    <3> HIDE DEF saved, j, k
    <3>1. /\ DOMAIN next = JobFields /\ next.on = j.on /\ next.kind = j.kind /\ next.who = j.who
          /\ next.saved = saved /\ next.at = "delete" /\ next.row = row
          /\ next.status = j.status
      BY <2>1 DEF JobFields, saved
    <3>2. j = job[k] /\ saved = Given(k, row)
      BY DEF j, saved
    <3> HIDE DEF next
    <3>3. QED
      BY <2>1, <2>2, <3>1, <3>2, WithRow
  <2>4. Continue(s, next)
    BY <1>4
  <2> HIDE DEF next
  <2>5. Goes(s, k, j, next, game, names) /\ next.at = "delete"
    BY <2>1, <2>3, LoadGoesOn, SMTT(60) DEF Found
  <2>6. Works(s, next)
    BY <1>1, <2>1, <2>4, <2>5, Continues
  <2>7. \A r : ~Carries(next, r)
    BY <2>5, NotCarried
  <2>8. remote' = remote /\ local' = local /\ blurred' = blurred
    BY <1>1 DEF tables
  <2>9. \A r : Moves(r, j, next, remote, local, remote', local')
    BY <2>7, <2>8, MovesNothing
  <2>10. QED
    BY <2>6, <2>8, <2>9, WorkerKeeps, SMTT(60)
<1>5. QED
  BY <1>1, <1>2, <1>3, <1>4, ZenonT(60)

\* What a worker took out of a table it has in its request.
LEMMA TakesAway ==
  ASSUME SaveInv, NEW s \in Server, NEW at, Working(s, "load", at), NEW row, NEW done,
         Found(job[Head(queue[s])], done, row, "completed", "LOAD_SUCCESS"),
         Works(s, done) \/ Works(s, Freed(s)),
         blurred' = blurred,
         Tables(remote, local, job', names) => Tables(remote', local', job', names),
         \A r : /\ InRemote(r, remote') \subseteq InRemote(r, remote)
                /\ InLocal(r, local') \subseteq InLocal(r, local),
         \E p \in InRemote(RunOf(row), remote) \union InLocal(RunOf(row), local) :
           p \notin InRemote(RunOf(row), remote') \union InLocal(RunOf(row), local')
  PROVE  SaveInv'
<1> DEFINE j == job[Head(queue[s])]
<1>1. \A r : Carries(done, r) => r = RunOf(row)
  BY DEF Carries, Found
<1>2. \A r : ~Carries(Freed(s), r)
  BY DEF Carries, Freed
<1>3. \A r : Moves(r, j, done, remote, local, remote', local')
  <2> SUFFICES ASSUME NEW r PROVE Moves(r, j, done, remote, local, remote', local')
    OBVIOUS
  <2>1. CASE r # RunOf(row)
    BY <1>1, <2>1, MovesNothing
  <2>2. CASE r = RunOf(row)
    BY <2>2 DEF Moves
  <2>3. QED
    BY <2>1, <2>2
<1>4. \A r : Moves(r, j, Freed(s), remote, local, remote', local')
  BY <1>2, MovesNothing
<1>5. QED
  BY <1>3, <1>4, WorkerKeeps

\* The request takes the race over from the row, if the row was still there.
LEMMA LoadDeleteKeeps ==
  ASSUME SaveInv, NEW s \in Server, LoadDelete(s)
  PROVE  SaveInv'
<1> DEFINE k == Head(queue[s])
           j == job[k]
           rows == remote \intersect {j.row}
           last == [j EXCEPT !.status = "LOAD_SUCCESS"]
           done == [last EXCEPT !.at = "completed"]
<1>1. /\ Working(s, "load", "delete") /\ UNCHANGED <<game, local, names>>
      /\ \/ /\ remote' = remote \ rows /\ blurred' = blurred
            /\ Complete(s, IF rows # {} THEN last ELSE j)
         \/ /\ remote' = remote \ rows /\ blurred \subseteq blurred'
            /\ Continue(s, [j EXCEPT !.at = "failed"])
         \/ /\ remote' = remote /\ blurred' = blurred
            /\ Continue(s, [j EXCEPT !.at = "failed"])
  BY DEF LoadDelete, NumDeletedIsOne
<1>2. CASE Continue(s, [j EXCEPT !.at = "failed"]) /\ remote' \subseteq remote /\ blurred \subseteq blurred'
  BY <1>1, <1>2, LoadGoesLocal
<1>3. CASE rows = {} /\ remote' = remote \ rows /\ blurred' = blurred /\ Complete(s, j)
  <2>1. remote' = remote
    BY <1>3
  <2>2. QED
    BY <1>1, <1>3, <2>1, LoadEnds DEF tables
<1>4. CASE rows # {} /\ remote' = remote \ rows /\ blurred' = blurred /\ Complete(s, last)
  <2>1. /\ queue[s] # <<>> /\ j.on = s /\ j.kind = "load" /\ IsLoadJob(j, names)
        /\ DOMAIN j = JobFields /\ IsGiven(j, names) /\ j.saved.run = RunOf(j.row)
    BY <1>1, AtWork DEF IsLoadJob
  <2>2. /\ DOMAIN last = JobFields /\ last.at = j.at
        /\ DOMAIN done = JobFields /\ done.on = j.on /\ done.kind = j.kind /\ done.who = j.who
        /\ done.saved = j.saved /\ done.at = "completed" /\ done.status = "LOAD_SUCCESS"
    BY <2>1 DEF JobFields
  <2>3. Complete(s, last) /\ done = [last EXCEPT !.at = "completed"]
    BY <1>4
  <2> HIDE DEF done, last
  <2>4. Found(j, done, j.row, "completed", "LOAD_SUCCESS") /\ IsGiven(done, names)
    BY <2>1, <2>2 DEF Found, IsGiven
  <2>5. Goes(s, k, j, done, game, names)
    BY <2>1, <2>2, <2>4, LoadGoesOn
  <2>6. Works(s, done) \/ Works(s, Freed(s))
    BY <1>1, <2>1, <2>2, <2>3, <2>5, Completes
  <2>7. j.row \in remote /\ remote' = remote \ {j.row}
    BY <1>4
  <2>8. \A r : InRemote(r, remote') \subseteq InRemote(r, remote)
    BY <2>7 DEF InRemote
  <2>9. <<"remote", j.row>> \in InRemote(RunOf(j.row), remote)
    BY <2>7 DEF InRemote
  <2>10. <<"remote", j.row>> \notin InRemote(RunOf(j.row), remote') \union InLocal(RunOf(j.row), local')
    <3>1. <<"remote", j.row>>[1] = "remote"
      OBVIOUS
    <3>2. <<"remote", j.row>> \notin InLocal(RunOf(j.row), local')
      BY <3>1, Kinds
    <3>3. <<"remote", j.row>> \notin InRemote(RunOf(j.row), remote')
      BY <2>7 DEF InRemote
    <3>4. QED
      BY <3>2, <3>3
  <2>11. Tables(remote, local, job', names) => Tables(remote', local', job', names)
    BY <1>1, <2>7 DEF Tables
  <2>12. local' = local
    BY <1>1, SMTT(60)
  <2> HIDE DEF j, rows
  <2>13. QED
    BY <1>1, <1>4, <2>4, <2>6, <2>8, <2>9, <2>10, <2>11, <2>12, TakesAway DEF j
<1>5. QED
  BY <1>1, <1>2, <1>3, <1>4

\* The same with the server's own database.
LEMMA LoadLocalKeeps ==
  ASSUME SaveInv, NEW s \in Server, LoadLocal(s)
  PROVE  SaveInv'
<1> DEFINE k == Head(queue[s])
           j == job[k]
           found == {row \in local[s].saves : row.code = job[k].code /\ Matches(k, row)}
<1>1. /\ Working(s, "load", "failed") /\ UNCHANGED <<game, remote, names, blurred>>
      /\ \/ \E row \in found :
              /\ local' = [local EXCEPT ![s].saves = @ \ {row}]
              /\ Complete(s, [j EXCEPT !.status = "LOAD_SUCCESS", !.saved = Given(k, row)])
         \/ Complete(s, j) /\ local' = local
  BY DEF LoadLocal
<1>2. CASE Complete(s, j) /\ local' = local
  BY <1>1, <1>2, LoadEnds, SMTT(60) DEF tables
<1>3. ASSUME NEW row \in found, local' = [local EXCEPT ![s].saves = @ \ {row}],
             Complete(s, [j EXCEPT !.status = "LOAD_SUCCESS", !.saved = Given(k, row)])
      PROVE  SaveInv'
  <2> DEFINE saved == Given(k, row)
             last == [j EXCEPT !.status = "LOAD_SUCCESS", !.saved = saved]
             done == [last EXCEPT !.at = "completed"]
  <2>1. /\ queue[s] # <<>> /\ j.on = s /\ j.kind = "load" /\ IsLoadJob(j, names)
        /\ DOMAIN j = JobFields
    BY <1>1, AtWork DEF IsLoadJob
  <2>2. Tables(remote, local, job, names) /\ row \in local[s].saves
    BY <1>3 DEF SaveInv, Held
  <2>3. IsRow(row, names) /\ Matches(k, row)
    BY <1>3, <2>2 DEF Tables
  <2>4. Complete(s, last) /\ done = [last EXCEPT !.at = "completed"]
    BY <1>3
  <2>5. saved = Given(k, row) /\ j = job[k]
    OBVIOUS
  <2> HIDE DEF saved
  <2>6. /\ DOMAIN done = JobFields /\ done.on = j.on /\ done.kind = j.kind /\ done.who = j.who
        /\ done.saved = saved /\ done.at = "completed" /\ done.status = "LOAD_SUCCESS"
    BY <2>1 DEF JobFields
  <2> HIDE DEF done, last, j
  <2>7. Found(j, done, row, "completed", "LOAD_SUCCESS")
    BY <2>1, <2>3, <2>5, <2>6, WithRow
  <2>8. Goes(s, k, j, done, game, names)
    BY <2>1, <2>6, <2>7, LoadGoesOn, SMTT(60) DEF Found
  <2>9. Works(s, done) \/ Works(s, Freed(s))
    BY <1>1, <2>1, <2>4, <2>6, <2>8, Completes DEF j
  <2>10. LocalNow(s, local, local', local[s].saves \ {row}, local[s].backup)
    BY <1>3, <2>2 DEF Tables, LocalNow
  <2>11. \A t \in Server : local'[t].saves \subseteq local[t].saves
    BY <2>10 DEF LocalNow
  <2>12. \A r : InLocal(r, local') \subseteq InLocal(r, local)
    BY <2>11, LocalSaves
  <2>13. <<"local", <<s, row>>>> \in InLocal(RunOf(row), local)
    BY <2>2 DEF InLocal
  <2>14. <<"local", <<s, row>>>> \notin InRemote(RunOf(row), remote') \union InLocal(RunOf(row), local')
    <3>1. <<"local", <<s, row>>>>[1] = "local"
      OBVIOUS
    <3>2. <<"local", <<s, row>>>> \notin InRemote(RunOf(row), remote')
      BY <3>1, Kinds
    <3>3. row \notin local'[s].saves
      BY <2>10 DEF LocalNow
    <3>4. <<"local", <<s, row>>>> \notin InLocal(RunOf(row), local')
      BY <3>3 DEF InLocal
    <3>5. QED
      BY <3>2, <3>4
  <2>15. Tables(remote, local, job', names) => Tables(remote', local', job', names)
    <3>1. remote' = remote
      BY <1>1
    <3> DEFINE kept == local[s].saves \ {row}
    <3>2. kept \subseteq local[s].saves \union local[s].backup /\ LocalNow(s, local, local', kept, local[s].backup)
      BY <2>10
    <3> HIDE DEF kept
    <3>3. QED
      BY <3>1, <3>2, LocalChanges
  <2>16. remote' = remote /\ blurred' = blurred
    BY <1>1
  <2>17. QED
    BY <1>1, <2>7, <2>9, <2>12, <2>13, <2>14, <2>15, <2>16, TakesAway, ZenonT(60) DEF j
<1>4. QED
  BY <1>1, <1>2, <1>3, ZenonT(60)

\* At the start nothing holds a race.
LEMMA SaveInit == Init => SaveInv
<1> SUFFICES ASSUME Init PROVE SaveInv
  OBVIOUS
<1>1. /\ game = [s \in Server |-> Blank(s)] /\ queue = [s \in Server |-> <<>>] /\ job = <<>>
      /\ remote = {} /\ local = [s \in Server |-> [saves |-> {}, backup |-> {}]]
      /\ names = <<>> /\ blurred = {}
  BY DEF Init
<1>2. IsSequence(names) /\ Jobs(job, names) /\ Len(names) = 0 /\ Len(job) = 0
  BY <1>1 DEF IsSequence, Jobs
<1>3. Queues(queue, job)
  BY <1>1 DEF Queues, IsQueue
<1>4. Tables(remote, local, job, names)
  BY <1>1 DEF Tables
<1>5. ASSUME NEW s \in Server
      PROVE  IsGame(s, Blank(s), job, names)
  <2>1. /\ DOMAIN Blank(s) = GameFields /\ Blank(s).state = "EMPTY" /\ Blank(s).saving = 0
        /\ Blank(s).run = NoRun /\ Blank(s).ranked = {}
    BY DEF Blank, GameFields
  <2>2. QED
    BY <2>1 DEF IsGame, IsTeam, IsRacing, IsSaving, Races
<1>6. Games(game, job, names)
  BY <1>1, <1>5 DEF Games
<1>7. Once(game, job, remote, local, names, blurred)
  BY <1>2 DEF Once
<1>8. QED
  BY <1>2, <1>3, <1>4, <1>6, <1>7 DEF SaveInv, Held

\* The invariant speaks of the state alone.
LEMMA SaveStutters == SaveInv /\ UNCHANGED vars => SaveInv'
BY DEF vars, tables, SaveInv, Held

\* What players do is a step of the game, the start of a race, or a new
\* request.
LEMMA PlayersSteps ==
  ASSUME SaveInv, NEW s \in Server, Players(s)
  PROVE  \/ \E h : Plays(s, h)
         \/ \E i : Starts(s, i)
         \/ \E i, code : SaveTeam(s, i, code) \/ LoadTeam(s, i, code)
<1>1. CASE KillUnfinishable(s)
  <2>1. \A i : \E h : Plays(s, h)
    BY <1>1, PlayerSteps
  <2>2. QED
    BY <2>1
<1>2. ASSUME NEW i \in Slot[s],
             \/ LeaveTeam(s, i) \/ Disconnect(s, i) \/ Respawn(s, i) \/ Death(s, i)
             \/ Spectate(s, i) \/ LockTeam(s, i) \/ FinishTile(s, i)
      PROVE  \E h : Plays(s, h)
  BY <1>2, PlayerSteps
<1>3. ASSUME NEW i, NEW n, JoinTeam(s, i, n)
      PROVE  \E h : Plays(s, h)
  BY <1>3, JoinTeamPlays
<1>4. ASSUME NEW i, StartTile(s, i)
      PROVE  Starts(s, i) \/ \E h : Plays(s, h)
  BY <1>4, StartTileSteps
<1>5. QED
  BY <1>1, <1>2, <1>3, <1>4 DEF Players

\* What players do keeps the invariant.
LEMMA PlayersKeep ==
  ASSUME SaveInv, NEW s \in Server, Players(s)
  PROVE  SaveInv'
<1>1. ASSUME NEW h, Plays(s, h)
      PROVE  SaveInv'
  BY <1>1, PlayingKeeps
<1>2. ASSUME NEW i, Starts(s, i)
      PROVE  SaveInv'
  <2> DEFINE h == Started(game[s], i, Len(names) + 1)
  <2>1. /\ i \in Playing(game[s]) /\ ~IsRacing(game[s]) /\ ~IsSaving(game[s]) /\ Becomes(s, h)
        /\ names' = Append(names, Members(game[s])) /\ UNCHANGED <<queue, job, tables>>
    BY <1>2 DEF Starts
  <2>2. h = Started(game[s], i, Len(names) + 1)
    OBVIOUS
  <2> HIDE DEF h
  <2>3. QED
    BY <2>1, <2>2, FirstStart
<1>3. ASSUME NEW i, NEW code, SaveTeam(s, i, code) \/ LoadTeam(s, i, code)
      PROVE  SaveInv'
  BY <1>3, SaveTeamKeeps, LoadTeamKeeps
<1>4. QED
  BY <1>1, <1>2, <1>3, PlayersSteps

\* So does every step.
LEMMA SaveStep == SaveInv /\ [Next]_vars => SaveInv'
<1> SUFFICES ASSUME SaveInv, Next PROVE SaveInv'
  BY SaveStutters
<1>1. PICK s \in Server : Players(s) \/ Worker(s) \/ ProcessSaveTeam(s) \/ Reload(s) \/ Crash(s)
  BY DEF Next
<1>2. CASE Players(s)
  BY <1>2, PlayersKeep
<1>3. CASE Worker(s)
  <2>1. CASE SaveBackup(s) \/ SaveInsert(s) \/ SaveDeleteCopy(s) \/ SaveMoveCopy(s)
    BY <2>1, SaveBackupKeeps, SaveInsertKeeps, SaveDeleteCopyKeeps, SaveMoveCopyKeeps
  <2>2. CASE LoadSelect(s) \/ LoadDelete(s) \/ LoadLocal(s)
    BY <2>2, LoadSelectKeeps, LoadDeleteKeeps, LoadLocalKeeps
  <2>3. QED
    BY <1>3, <2>1, <2>2 DEF Worker
<1>4. CASE ProcessSaveTeam(s)
  BY <1>4, ProcessSaveTeamKeeps
<1>5. CASE Reload(s) \/ Crash(s)
  BY <1>5, ReloadOrCrashKeeps
<1>6. QED
  BY <1>1, <1>2, <1>3, <1>4, <1>5

\* Wherever a race is, in a game, a request, a row or at its end, there is
\* one such place, and what refers to something else refers to what is
\* there: this is the inductive invariant.
THEOREM RacesAreHeld == Spec => []SaveInv
<1>1. Init => SaveInv
  BY SaveInit
<1>2. SaveInv /\ [Next]_vars => SaveInv'
  BY SaveStep
<1>3. QED
  BY <1>1, <1>2, PTL DEF Spec

\* However slots change hands, servers save and load, and statements fail,
\* a team that races has only players that the race was started with.
THEOREM RacesKeepTheirPlayers == Spec => []RightPlayers
<1>1. SaveInv => RightPlayers
  BY DEF SaveInv, Held, Games, IsGame, Races, RightPlayers, Members
<1>2. QED
  BY <1>1, RacesAreHeld, PTL

-----------------------------------------------------------------------------
\* One place

\* What holds a race that is at the place p, by the place that it is.
HolderOf(p, h) ==
  \/ \E s \in Server : p = <<"game", s>> /\ h = <<"game", s>>
  \/ \E k \in 1..Len(job) : p = <<"game", job[k].on>> /\ h = <<"job", k>>
  \/ h = <<"remote", p>>
  \/ \E s \in Server : h = <<"local", <<s, p>>>>
  \/ \E s \in Server : p = <<"ranked", s>> /\ h = <<"ranked", s>>

\* A holder is at one place.
LEMMA HolderOfOne ==
  ASSUME NEW p, NEW q, NEW h, HolderOf(p, h), HolderOf(q, h)
  PROVE  p = q
<1>1. ASSUME NEW s, h = <<"game", s>>
      PROVE  p = <<"game", s>> /\ q = <<"game", s>>
  BY <1>1 DEF HolderOf
<1>2. ASSUME NEW k \in 1..Len(job), h = <<"job", k>>
      PROVE  p = <<"game", job[k].on>> /\ q = <<"game", job[k].on>>
  <2>1. ASSUME NEW x, HolderOf(x, h)
        PROVE  \E i \in 1..Len(job) : x = <<"game", job[i].on>> /\ h = <<"job", i>>
    BY <1>2, <2>1 DEF HolderOf
  <2>2. \A i \in 1..Len(job) : h = <<"job", i>> => i = k
    BY <1>2
  <2>3. ASSUME NEW x, HolderOf(x, h)
        PROVE  x = <<"game", job[k].on>>
    <3>1. PICK i \in 1..Len(job) : x = <<"game", job[i].on>> /\ h = <<"job", i>>
      BY <2>1, <2>3
    <3>2. i = k
      BY <2>2, <3>1
    <3>3. QED
      BY <3>1, <3>2
  <2>4. QED
    BY <2>3
<1>3. ASSUME h = <<"remote", p>>
      PROVE  q = p
  BY <1>3 DEF HolderOf
<1>4. ASSUME NEW s, h = <<"local", <<s, p>>>>
      PROVE  q = p
  BY <1>4 DEF HolderOf
<1>5. ASSUME NEW s, h = <<"ranked", s>>
      PROVE  p = <<"ranked", s>> /\ q = <<"ranked", s>>
  BY <1>5 DEF HolderOf
<1>6. QED
  BY <1>1, <1>2, <1>3, <1>4, <1>5 DEF HolderOf

\* A team that waits for its race waits for the request that carries it.
LEMMA AwaitedIsCarried ==
  ASSUME SaveInv, NEW s \in Server, NEW r, Awaited(s, r)
  PROVE  LET k == game[s].saving IN
         k \in 1..Len(job) /\ job[k].on = s /\ job[k].at # "freed" /\ Carries(job[k], r)
<1> DEFINE k == game[s].saving
<1>1. k \in 1..Len(job) /\ job[k].on = s /\ job[k].at # "freed" /\ Jobs(job, names)
  BY DEF SaveInv, Held, Games, IsGame, Asks, Awaited
<1>2. job[k].status \in {"LOAD_SUCCESS", "SAVE_FAILED"} /\ job[k].saved.run = r
  BY DEF Awaited
<1>3. IsSaveJob(job[k], names) \/ IsLoadJob(job[k], names)
  <2>1. IsJob(job[k], names) /\ job[k] # Freed(job[k].on)
    BY <1>1 DEF Jobs, Freed
  <2>2. QED
    BY <2>1 DEF IsJob
<1>4. Carries(job[k], r)
  BY <1>2, <1>3 DEF IsSaveJob, IsLoadJob, Carries
<1>5. QED
  BY <1>1, <1>4

\* Wherever a race is, there is what holds it.
LEMMA PlacesAreHeld ==
  ASSUME SaveInv, NEW r, NEW p \in Places(r)
  PROVE  \E h \in Holders(r, game, job, remote, local) : HolderOf(p, h)
<1>1. ASSUME NEW s \in Server, InGame(s, r), p = <<"game", s>>
      PROVE  p \in InGames(r, game) /\ HolderOf(p, p)
  BY <1>1 DEF InGame, InGames, HolderOf
<1>2. ASSUME NEW s \in Server, Awaited(s, r), p = <<"game", s>>
      PROVE  \E h \in InJobs(r, job) : HolderOf(p, h)
  <2>1. PICK k \in 1..Len(job) : job[k].on = s /\ Carries(job[k], r)
    BY <1>2, AwaitedIsCarried
  <2>2. <<"job", k>> \in InJobs(r, job)
    BY <2>1 DEF InJobs
  <2>3. HolderOf(p, <<"job", k>>)
    BY <1>2, <2>1 DEF HolderOf
  <2>4. QED
    BY <2>2, <2>3
<1>3. ASSUME p \in remote, RunOf(p) = r
      PROVE  <<"remote", p>> \in InRemote(r, remote) /\ HolderOf(p, <<"remote", p>>)
  BY <1>3 DEF InRemote, HolderOf
<1>4. ASSUME NEW s \in Server, p \in local[s].saves, RunOf(p) = r
      PROVE  <<"local", <<s, p>>>> \in InLocal(r, local) /\ HolderOf(p, <<"local", <<s, p>>>>)
  BY <1>4 DEF InLocal, HolderOf
<1>5. ASSUME NEW s \in Server, r \in game[s].ranked, p = <<"ranked", s>>
      PROVE  p \in AtEnd(r, game) /\ HolderOf(p, p)
  BY <1>5 DEF AtEnd, HolderOf
<1>6. \/ \E s \in Server : InGame(s, r) /\ p = <<"game", s>>
      \/ \E s \in Server : Awaited(s, r) /\ p = <<"game", s>>
      \/ p \in remote /\ RunOf(p) = r
      \/ \E s \in Server : p \in local[s].saves /\ RunOf(p) = r
      \/ \E s \in Server : r \in game[s].ranked /\ p = <<"ranked", s>>
  BY DEF Places, Rows
<1>7. QED
  BY <1>1, <1>2, <1>3, <1>4, <1>5, <1>6 DEF Holders

\* With one holder at most there is one place at most.
LEMMA OneHolderOnePlace == SaveInv => OnePlace
<1> SUFFICES ASSUME SaveInv, NEW r \in Run \ blurred
             PROVE  Cardinality(Places(r)) <= 1
  BY DEF OnePlace
<1>1. One(Holders(r, game, job, remote, local))
  BY DEF SaveInv, Once, Run
<1>2. \A p, q \in Places(r) : p = q
  BY <1>1, PlacesAreHeld, HolderOfOne DEF One
<1>3. CASE Places(r) = {}
  BY <1>3, FS_EmptySet
<1>4. ASSUME NEW p \in Places(r)
      PROVE  Cardinality(Places(r)) <= 1
  <2>1. Places(r) = {p}
    BY <1>2
  <2>2. Cardinality({p}) = 1
    BY FS_Singleton
  <2>3. QED
    BY <2>1, <2>2
<1>5. QED
  BY <1>3, <1>4

\* A race that no lost answer has blurred is at one place at most: two
\* servers never both play it, and a save is not there twice, or still
\* there when the race is played or has its rank.
THEOREM RacesAreAtOnePlace == Spec => []OnePlace
<1>1. QED
  BY OneHolderOnePlace, RacesAreHeld, PTL

-----------------------------------------------------------------------------
\* Nothing that is stored is lost

\* The team of s waits for the request k, which goes on as j.
Advances(s, k, j) ==
  /\ game' = game /\ game[s].saving = k /\ k \in 1..Len(job) /\ job[k].on = s
  /\ job'[k] = j /\ \A i \in 1..Len(job) \ {k} : job'[i] = job[i]
  /\ job[k].at # "freed" /\ IsSaving(game[s])

\* So it is in every statement of a request that a team waits for.
LEMMA Advanced ==
  ASSUME SaveInv, NEW s \in Server, NEW k, k = Head(queue[s]), NEW kind, NEW at,
         Working(s, kind, at),
         game[s].saving = k, game' = game, at # "freed", NEW j,
         \/ Continue(s, j)
         \/ \E last : Complete(s, last) /\ j = [last EXCEPT !.at = "completed"]
  PROVE  Advances(s, k, j)
<1>1. k \in 1..Len(job) /\ job[k].on = s /\ job[k].at = at
  BY AtWork
<1>2. job' = Put(job, k, j)
  BY DEF Continue, Complete, Put
<1>3. IsSequence(job)
  BY DEF SaveInv, Held, Jobs
<1>4. job'[k] = j /\ \A i \in 1..Len(job) \ {k} : job'[i] = job[i]
  BY <1>1, <1>2, <1>3 DEF IsSequence, Put
<1>5. IsSaving(game[s])
  BY <1>1 DEF IsSaving
<1>6. QED
  BY <1>1, <1>4, <1>5 DEF Advances

\* Where a race is stored: a team waits for it, a row has it, or a copy.
Copied(t, row, r) == row \in local[t].backup /\ RunOf(row) = r /\ job[row.id].at # "succeeded"
IsStored(r) ==
  \/ \E t \in Server : Awaited(t, r)
  \/ \E row \in remote : RunOf(row) = r
  \/ \E t \in Server : \E row \in local[t].saves : RunOf(row) = r
  \/ \E t \in Server : \E row : Copied(t, row, r)

\* The same as Stored, place by place.
LEMMA StoredIs == ASSUME NEW r PROVE Stored(r) <=> IsStored(r)
BY DEF Stored, IsStored, Rows, Copied

\* And after a step.
LEMMA StoredIsThen == ASSUME NEW r PROVE Stored(r)' <=> IsStored(r)'
BY DEF Stored, IsStored, Rows, Copied

\* What a copy is that of a request which its team waits for.
LEMMA CopyIs ==
  ASSUME SaveInv, NEW t \in Server, NEW row \in local[t].backup
  PROVE  /\ row.id \in 1..Len(job)
         /\ job[row.id].at # "freed" =>
              /\ job[row.id].kind = "save" /\ job[row.id].on = t
              /\ row = Copy(row.id) /\ RunOf(row) = job[row.id].saved.run
<1>1. IsCopy(t, row, job, names)
  BY DEF SaveInv, Held, Tables
<1>2. QED
  BY <1>1 DEF IsCopy, Copy, Row, RunOf

\* The race is stored after the step, or it is not known where it is.
Safe(r) == IsStored(r)' \/ r \in blurred'

\* A step of the worker of s keeps what is stored, if it keeps that of its
\* own request and takes no other copy away.
LEMMA WorkerIsSafe ==
  ASSUME SaveInv, NEW s \in Server, NEW k, NEW j, Advances(s, k, j), NEW r, IsStored(r),
         Awaited(s, r) => Safe(r),
         \A row \in remote : RunOf(row) = r => Safe(r),
         \A t \in Server : \A row \in local[t].saves : RunOf(row) = r => Safe(r),
         job[k].kind = "save" /\ job[k].at # "succeeded" /\ Copy(k) \in local[s].backup
           /\ job[k].saved.run = r => Safe(r),
         \A t \in Server : \A row \in local[t].backup : row.id # k => row \in local'[t].backup
  PROVE  Safe(r)
<1>1. ASSUME NEW t \in Server \ {s}, Awaited(t, r)
      PROVE  Safe(r)
  <2>1. game[t].saving \in 1..Len(job) /\ job[game[t].saving].on = t
    BY <1>1, AwaitedIsCarried
  <2>2. game[t].saving # k
    BY <2>1 DEF Advances
  <2>3. game'[t] = game[t] /\ job'[game[t].saving] = job[game[t].saving]
    BY <2>1, <2>2 DEF Advances
  <2>4. Awaited(t, r)'
    BY <1>1, <2>3 DEF Awaited, IsSaving
  <2>5. QED
    BY <2>4 DEF Safe, IsStored
<1>2. ASSUME NEW t \in Server, NEW row, Copied(t, row, r)
      PROVE  Safe(r)
  <2>1. row \in local[t].backup /\ RunOf(row) = r /\ job[row.id].at # "succeeded"
    BY <1>2 DEF Copied
  <2>2. /\ row.id \in 1..Len(job)
        /\ job[row.id].at # "freed" =>
              /\ job[row.id].kind = "save" /\ job[row.id].on = t
              /\ row = Copy(row.id) /\ RunOf(row) = job[row.id].saved.run
    BY <2>1, CopyIs
  <2>3. CASE row.id # k
    <3>1. job'[row.id] = job[row.id] /\ row \in local'[t].backup
      BY <2>1, <2>2, <2>3 DEF Advances
    <3>2. Copied(t, row, r)'
      BY <2>1, <3>1 DEF Copied, RunOf
    <3>3. QED
      BY <3>2 DEF Safe, IsStored
  <2>4. CASE row.id = k
    BY <2>1, <2>2, <2>4 DEF Advances
  <2>5. QED
    BY <2>3, <2>4
<1>3. QED
  BY <1>1, <1>2 DEF IsStored

\* What a race is stored in after a step.
LEMMA NowStored ==
  ASSUME NEW r
  PROVE  /\ \A t \in Server : Awaited(t, r)' => Safe(r)
         /\ \A row \in remote' : RunOf(row) = r => Safe(r)
         /\ \A t \in Server : \A row \in local'[t].saves : RunOf(row) = r => Safe(r)
         /\ \A t \in Server : \A row \in local'[t].backup :
              RunOf(row) = r /\ job'[row.id].at # "succeeded" => Safe(r)
BY DEF Safe, IsStored, Copied, RunOf

\* A team whose request goes on with the same result waits as before.
LEMMA AwaitedStill ==
  ASSUME NEW s \in Server, NEW k, NEW j, Advances(s, k, j), NEW r, Awaited(s, r),
         j.status = job[k].status, j.saved = job[k].saved
  PROVE  Safe(r)
<1>1. Awaited(s, r)'
  BY DEF Awaited, Advances, IsSaving
<1>2. QED
  BY <1>1, NowStored

\* The copy of a request has its race.
LEMMA CopyOf ==
  ASSUME NEW k
  PROVE  Copy(k).id = k /\ RunOf(Copy(k)) = job[k].saved.run
BY DEF Copy, Row, RunOf

\* The copy stands in for the team that waits.
LEMMA SaveBackupIsSafe ==
  ASSUME SaveInv, NEW s \in Server, SaveBackup(s), game[s].saving = Head(queue[s]), NEW r,
         IsStored(r)
  PROVE  Safe(r)
<1> DEFINE k == Head(queue[s])
           j == job[k]
           written == [j EXCEPT !.at = "insert", !.status = "SAVE_SUCCESS"]
           failed == [j EXCEPT !.at = "insert"]
<1>1. /\ Working(s, "save", "backup") /\ UNCHANGED <<game, remote>>
      /\ \/ local' = [local EXCEPT ![s].backup = @ \union {Copy(k)}] /\ Continue(s, written)
         \/ local' = local /\ Continue(s, failed)
  BY DEF SaveBackup
<1>2. IsSaveJob(j, names) /\ DOMAIN j = JobFields /\ k \in 1..Len(job)
  BY <1>1, AtWork DEF IsSaveJob
<1>3. /\ written.at = "insert"
      /\ failed.at = "insert" /\ failed.status = j.status /\ failed.saved = j.saved
  BY <1>2 DEF JobFields
<1>4. DOMAIN local = Server /\ \A t \in Server : DOMAIN local[t] = {"saves", "backup"}
  BY DEF SaveInv, Held, Tables
<1> HIDE DEF written, failed
<1>5. /\ \A t \in Server : local'[t].saves = local[t].saves
      /\ \A t \in Server : \A row \in local[t].backup : row \in local'[t].backup
  BY <1>1, <1>4
<1>6. /\ \A row \in remote : RunOf(row) = r => Safe(r)
      /\ \A t \in Server : \A row \in local[t].saves : RunOf(row) = r => Safe(r)
  BY <1>1, <1>5, NowStored
<1>7. ASSUME NEW jn, Advances(s, k, jn), jn.at = "insert", Awaited(s, r) => Safe(r)
      PROVE  Safe(r)
  <2>1. Copy(k) \in local[s].backup /\ j.saved.run = r => Safe(r)
    <3>1. job'[k].at = "insert"
      BY <1>7 DEF Advances
    <3> DEFINE row == Copy(k)
    <3>2. row.id = k /\ RunOf(row) = j.saved.run
      BY CopyOf
    <3> HIDE DEF row, k, j
    <3>3. row \in local[s].backup /\ j.saved.run = r => Safe(r)
      BY <1>5, <3>1, <3>2, NowStored
    <3>4. QED
      BY <3>3 DEF row, k, j
  <2>2. QED
    BY <1>5, <1>6, <1>7, <2>1, WorkerIsSafe
<1>8. CASE Continue(s, failed)
  <2>1. Advances(s, k, failed)
    BY <1>1, <1>8, Advanced
  <2>2. Awaited(s, r) => Safe(r)
    BY <1>3, <2>1, AwaitedStill
  <2>3. QED
    BY <1>3, <1>7, <2>1, <2>2
<1>9. CASE local' = [local EXCEPT ![s].backup = @ \union {Copy(k)}] /\ Continue(s, written)
  <2>1. Advances(s, k, written)
    BY <1>1, <1>9, Advanced
  <2>2. Awaited(s, r) => Safe(r)
    <3>1. Awaited(s, r) => j.saved.run = r
      BY <2>1 DEF Awaited, Advances
    <3> DEFINE row == Copy(k)
    <3>2. row.id = k /\ RunOf(row) = j.saved.run
      BY CopyOf
    <3>3. row \in local'[s].backup
      BY <1>4, <1>9
    <3>4. job'[k].at = "insert"
      BY <1>3, <2>1 DEF Advances
    <3> HIDE DEF row, k, j
    <3>5. QED
      BY <3>1, <3>2, <3>3, <3>4, NowStored
  <2>3. QED
    BY <1>3, <1>7, <2>1, <2>2
<1>10. QED
  BY <1>1, <1>8, <1>9

\* The row stands in for the team that waits and for the copy.
LEMMA SaveInsertIsSafe ==
  ASSUME SaveInv, NEW s \in Server, SaveInsert(s), game[s].saving = Head(queue[s]), NEW r,
         IsStored(r)
  PROVE  Safe(r)
<1> DEFINE k == Head(queue[s])
           j == job[k]
           taken == j.code = NoCode \/ \E row \in remote : row.code = j.code
           row == Row(IF taken THEN Generated(k) ELSE j.code, k)
           inserted == [j EXCEPT !.at = "succeeded", !.status = "SAVE_SUCCESS"]
           failed == [j EXCEPT !.at = "failed"]
<1>1. /\ Working(s, "save", "insert") /\ UNCHANGED <<game, local>>
      /\ \/ remote' = remote \union {row} /\ Continue(s, inserted)
         \/ remote \subseteq remote' /\ Continue(s, failed)
  BY DEF SaveInsert
<1>2. IsSaveJob(j, names) /\ DOMAIN j = JobFields
  BY <1>1, AtWork DEF IsSaveJob
<1>3. failed.at = "failed" /\ failed.status = j.status /\ failed.saved = j.saved
  BY <1>2 DEF JobFields
<1>4. RunOf(row) = j.saved.run
  BY DEF RunOf, Row
<1> HIDE DEF inserted, failed, row, taken
<1>5. /\ \A x \in remote : RunOf(x) = r => Safe(r)
      /\ \A t \in Server : \A x \in local[t].saves : RunOf(x) = r => Safe(r)
      /\ \A t \in Server : \A x \in local[t].backup : x \in local'[t].backup
  BY <1>1, NowStored
<1>6. CASE remote' = remote \union {row} /\ Continue(s, inserted)
  <2>1. Advances(s, k, inserted)
    BY <1>1, <1>6, Advanced
  <2>2. j.saved.run = r => Safe(r)
    BY <1>4, <1>6, NowStored
  <2>3. Awaited(s, r) => j.saved.run = r
    BY <2>1 DEF Awaited, Advances
  <2>4. QED
    BY <1>5, <2>1, <2>2, <2>3, WorkerIsSafe
<1>7. CASE Continue(s, failed)
  <2>1. Advances(s, k, failed)
    BY <1>1, <1>7, Advanced
  <2>2. Awaited(s, r) => Safe(r)
    BY <1>3, <2>1, AwaitedStill
  <2>3. Copy(k) \in local[s].backup /\ j.saved.run = r => Safe(r)
    <3>1. job'[k].at = "failed"
      BY <1>3, <2>1 DEF Advances
    <3> DEFINE copy == Copy(k)
    <3>2. copy.id = k /\ RunOf(copy) = j.saved.run
      BY CopyOf
    <3> HIDE DEF copy, k, j
    <3>3. copy \in local[s].backup /\ j.saved.run = r => Safe(r)
      BY <1>5, <3>1, <3>2, NowStored
    <3>4. QED
      BY <3>3 DEF copy, k, j
  <2>4. QED
    BY <1>5, <2>1, <2>2, <2>3, WorkerIsSafe
<1>8. QED
  BY <1>1, <1>6, <1>7

\* The copy is deleted only when the row was inserted.
LEMMA SaveDeleteCopyIsSafe ==
  ASSUME SaveInv, NEW s \in Server, SaveDeleteCopy(s), game[s].saving = Head(queue[s]),
         NEW r, IsStored(r)
  PROVE  Safe(r)
<1> DEFINE k == Head(queue[s])
           j == job[k]
           done == [j EXCEPT !.at = "completed"]
<1>1. /\ Working(s, "save", "succeeded") /\ UNCHANGED <<game, remote>> /\ Complete(s, j)
      /\ \/ local' = [local EXCEPT ![s].backup = @ \ {Copy(k)}]
         \/ local' = local
  BY DEF SaveDeleteCopy
<1>2. j.status = "SAVE_SUCCESS" /\ j.at = "succeeded"
  BY <1>1, AtWork DEF IsSaveJob
<1>3. DOMAIN local = Server /\ \A t \in Server : DOMAIN local[t] = {"saves", "backup"}
  BY DEF SaveInv, Held, Tables
<1>4. Copy(k).id = k
  BY CopyOf
<1>5. Advances(s, k, done)
  BY <1>1, Advanced
<1> DEFINE copy == Copy(k)
<1> HIDE DEF done, k, copy
<1>6. /\ \A t \in Server : local'[t].saves = local[t].saves
      /\ \A t \in Server : \A row \in local[t].backup : row # copy => row \in local'[t].backup
  BY <1>1, <1>3 DEF copy
<1>7. \A t \in Server : \A row \in local[t].backup : row.id # k => row \in local'[t].backup
  BY <1>4, <1>6 DEF copy
<1>8. /\ \A row \in remote : RunOf(row) = r => Safe(r)
      /\ \A t \in Server : \A row \in local[t].saves : RunOf(row) = r => Safe(r)
  BY <1>1, <1>6, NowStored
<1>9. ~Awaited(s, r)
  BY <1>2, <1>5 DEF Awaited, Advances
<1>10. QED
  BY <1>2, <1>5, <1>7, <1>8, <1>9, WorkerIsSafe

\* The copy is deleted only when it has become a row.
LEMMA SaveMoveCopyIsSafe ==
  ASSUME SaveInv, NEW s \in Server, SaveMoveCopy(s), game[s].saving = Head(queue[s]),
         NEW r, IsStored(r)
  PROVE  Safe(r)
<1> DEFINE k == Head(queue[s])
           j == job[k]
           done == [j EXCEPT !.at = "completed"]
           copied == local[s].backup \intersect {Copy(k)}
<1>1. /\ Working(s, "save", "failed") /\ UNCHANGED <<game, remote>> /\ Complete(s, j)
  BY DEF SaveMoveCopy
<1>2. PICK inserted \in BOOLEAN, deleted \in BOOLEAN :
        /\ deleted => inserted
        /\ local' = [local EXCEPT ![s].saves = IF inserted THEN @ \union copied ELSE @,
                                  ![s].backup = IF deleted THEN @ \ copied ELSE @]
  BY DEF SaveMoveCopy
<1>3. IsSaveJob(j, names) /\ DOMAIN j = JobFields
  BY <1>1, AtWork DEF IsSaveJob
<1>4. done.at = "completed" /\ done.status = j.status /\ done.saved = j.saved
  BY <1>3 DEF JobFields
<1>5. DOMAIN local = Server /\ \A t \in Server : DOMAIN local[t] = {"saves", "backup"}
  BY DEF SaveInv, Held, Tables
<1> DEFINE copy == Copy(k)
<1>6. copy.id = k /\ RunOf(copy) = j.saved.run
  BY CopyOf
<1>7. Advances(s, k, done)
  BY <1>1, Advanced
<1>8. copied \subseteq {copy}
  OBVIOUS
<1>9. copy \in local[s].backup => copy \in copied
  OBVIOUS
<1> HIDE DEF done, j, k, copy, copied
<1>10. /\ \A t \in Server : \A row \in local[t].saves : row \in local'[t].saves
       /\ \A t \in Server : \A row \in local[t].backup : row # copy => row \in local'[t].backup
       /\ copy \in local[s].backup => copy \in local'[s].saves \/ copy \in local'[s].backup
  <2>1. /\ \A t \in Server \ {s} : local'[t] = local[t]
        /\ local'[s].saves = IF inserted THEN local[s].saves \union copied ELSE local[s].saves
        /\ local'[s].backup = IF deleted THEN local[s].backup \ copied ELSE local[s].backup
    BY <1>2, <1>5
  <2>2. \A row \in local[s].saves : row \in local'[s].saves
    BY <2>1
  <2>3. \A row \in local[s].backup : row # copy => row \in local'[s].backup
    BY <1>8, <2>1
  <2>4. copy \in local[s].backup => copy \in local'[s].saves \/ copy \in local'[s].backup
    BY <1>2, <1>9, <2>1
  <2>5. QED
    BY <2>1, <2>2, <2>3, <2>4
<1>11. \A t \in Server : \A row \in local[t].backup : row.id # k => row \in local'[t].backup
  BY <1>6, <1>10
<1>12. /\ \A row \in remote : RunOf(row) = r => Safe(r)
       /\ \A t \in Server : \A row \in local[t].saves : RunOf(row) = r => Safe(r)
  BY <1>1, <1>10, NowStored
<1>13. Awaited(s, r) => Safe(r)
  BY <1>4, <1>7, AwaitedStill DEF j
<1>14. copy \in local[s].backup /\ j.saved.run = r => Safe(r)
  <2>1. job'[k].at = "completed"
    BY <1>4, <1>7 DEF Advances
  <2>2. QED
    BY <1>6, <1>10, <2>1, NowStored
<1>15. QED
  BY <1>7, <1>11, <1>12, <1>13, <1>14, WorkerIsSafe DEF j, copy

\* A load that nobody has waited for in vain takes no copy, and as long as
\* it has not ended holds no race.
LEMMA LoadIsSafe ==
  ASSUME SaveInv, NEW s \in Server, NEW at, Working(s, "load", at), game[s].saving = Head(queue[s]),
         NEW j, Advances(s, Head(queue[s]), j), NEW r, IsStored(r),
         \A row \in remote : RunOf(row) = r => Safe(r),
         \A t \in Server : \A row \in local[t].saves : RunOf(row) = r => Safe(r),
         \A t \in Server : local'[t].backup = local[t].backup
  PROVE  Safe(r)
<1> DEFINE k == Head(queue[s])
<1>1. job[k].kind = "load" /\ job[k].status = "LOAD_FAILED"
  BY AtWork DEF IsLoadJob
<1>2. ~Awaited(s, r)
  BY <1>1 DEF Awaited, Advances
<1> HIDE DEF k
<1>3. QED
  BY <1>1, <1>2, WorkerIsSafe DEF k

\* Looking for a save takes nothing away.
LEMMA LoadSelectIsSafe ==
  ASSUME SaveInv, NEW s \in Server, LoadSelect(s), game[s].saving = Head(queue[s]), NEW r,
         IsStored(r)
  PROVE  Safe(r)
<1> DEFINE k == Head(queue[s])
<1>1. Working(s, "load", "select") /\ UNCHANGED <<game, remote, local>>
  BY DEF LoadSelect, tables
<1>2. (\E j : Continue(s, j)) \/ Complete(s, job[k])
  BY DEF LoadSelect
<1>3. \E j : Continue(s, j) \/ \E last : Complete(s, last) /\ j = [last EXCEPT !.at = "completed"]
  BY <1>2
<1> HIDE DEF k
<1>4. \E j : Advances(s, Head(queue[s]), j)
  BY <1>1, <1>3, Advanced
<1>5. QED
  BY <1>1, <1>4, NowStored, LoadIsSafe, SMTT(60)

\* The row that is gone is in the request, unless the answer was lost.
LEMMA LoadDeleteIsSafe ==
  ASSUME SaveInv, NEW s \in Server, LoadDelete(s), game[s].saving = Head(queue[s]), NEW r,
         IsStored(r)
  PROVE  Safe(r)
<1> DEFINE k == Head(queue[s])
           j == job[k]
           rows == remote \intersect {j.row}
           last == [j EXCEPT !.status = "LOAD_SUCCESS"]
           done == [last EXCEPT !.at = "completed"]
<1>1. /\ Working(s, "load", "delete") /\ UNCHANGED <<game, local>>
      /\ \/ remote' = remote \ rows /\ Complete(s, IF rows # {} THEN last ELSE j)
         \/ /\ remote' = remote \ rows /\ Continue(s, [j EXCEPT !.at = "failed"])
            /\ blurred' = blurred \union {RunOf(row) : row \in rows}
         \/ remote' = remote /\ Continue(s, [j EXCEPT !.at = "failed"])
  BY DEF LoadDelete, NumDeletedIsOne
<1>2. j.saved.run = RunOf(j.row) /\ DOMAIN j = JobFields
  BY <1>1, AtWork DEF IsLoadJob
<1>3. done.status = "LOAD_SUCCESS" /\ done.saved = j.saved
  BY <1>2 DEF JobFields
<1>4. \E x : Advances(s, k, x)
  BY <1>1, Advanced
<1>5. \A t \in Server : \A row \in local[t].saves : RunOf(row) = r => Safe(r)
  BY <1>1, NowStored
<1>6. \A row \in remote : row \in remote' \/ row = j.row
  BY <1>1
<1>7. ASSUME j.row \in remote, j.row \notin remote', RunOf(j.row) = r
      PROVE  Safe(r)
  <2>1. \/ Complete(s, last)
        \/ blurred' = blurred \union {RunOf(row) : row \in {j.row}}
    BY <1>1, <1>7
  <2>2. CASE Complete(s, last)
    <3>1. Advances(s, k, done)
      BY <1>1, <2>2, Advanced
    <3> HIDE DEF done
    <3>2. Awaited(s, r)'
      BY <1>2, <1>3, <1>7, <3>1 DEF Awaited, Advances, IsSaving
    <3>3. QED
      BY <3>2, NowStored
  <2>3. CASE blurred' = blurred \union {RunOf(row) : row \in {j.row}}
    BY <1>7, <2>3 DEF Safe
  <2>4. QED
    BY <2>1, <2>2, <2>3
<1>8. \A row \in remote : RunOf(row) = r => Safe(r)
  BY <1>6, <1>7, NowStored, SMTT(60)
<1> HIDE DEF k, j, rows, last, done
<1>9. QED
  BY <1>1, <1>4, <1>5, <1>8, LoadIsSafe DEF k

\* The same with the server's own database.
LEMMA LoadLocalIsSafe ==
  ASSUME SaveInv, NEW s \in Server, LoadLocal(s), game[s].saving = Head(queue[s]), NEW r,
         IsStored(r)
  PROVE  Safe(r)
<1> DEFINE k == Head(queue[s])
           j == job[k]
           found == {row \in local[s].saves : row.code = job[k].code /\ Matches(k, row)}
<1>1. /\ Working(s, "load", "failed") /\ UNCHANGED <<game, remote>>
      /\ \/ \E row \in found :
              /\ local' = [local EXCEPT ![s].saves = @ \ {row}]
              /\ Complete(s, [j EXCEPT !.status = "LOAD_SUCCESS", !.saved = Given(k, row)])
         \/ Complete(s, j) /\ local' = local
  BY DEF LoadLocal
<1>2. \A row \in remote : RunOf(row) = r => Safe(r)
  BY <1>1, NowStored
<1>3. CASE Complete(s, j) /\ local' = local
  <2>1. \E x : Advances(s, k, x)
    BY <1>1, <1>3, Advanced
  <2>2. \A t \in Server : \A row \in local[t].saves : RunOf(row) = r => Safe(r)
    BY <1>3, NowStored
  <2> HIDE DEF j, k
  <2>3. QED
    BY <1>1, <1>2, <1>3, <2>1, <2>2, LoadIsSafe DEF k
<1>4. ASSUME NEW row \in found, local' = [local EXCEPT ![s].saves = @ \ {row}],
             Complete(s, [j EXCEPT !.status = "LOAD_SUCCESS", !.saved = Given(k, row)])
      PROVE  Safe(r)
  <2> DEFINE last == [j EXCEPT !.status = "LOAD_SUCCESS", !.saved = Given(k, row)]
             done == [last EXCEPT !.at = "completed"]
  <2>1. DOMAIN j = JobFields
    BY <1>1, AtWork DEF IsLoadJob
  <2>2. done.status = "LOAD_SUCCESS" /\ done.saved = Given(k, row)
    BY <2>1 DEF JobFields
  <2>3. Tables(remote, local, job, names) /\ row \in local[s].saves /\ Matches(k, row)
    BY <1>4 DEF SaveInv, Held
  <2>4. Given(k, row).run = RunOf(row)
    BY <2>3, GivenIs DEF Tables
  <2>5. Advances(s, k, done)
    BY <1>1, <1>4, Advanced
  <2> HIDE DEF done, last, found, j
  <2>6. LocalNow(s, local, local', local[s].saves \ {row}, local[s].backup)
    BY <1>4, <2>3 DEF Tables, LocalNow
  <2>7. /\ \A t \in Server : local'[t].backup = local[t].backup
        /\ \A t \in Server : \A x \in local[t].saves : x \in local'[t].saves \/ x = row
    BY <2>6 DEF LocalNow
  <2>8. RunOf(row) = r => Safe(r)
    <3>1. Awaited(s, RunOf(row))'
      BY <2>2, <2>4, <2>5 DEF Awaited, Advances, IsSaving
    <3>2. QED
      BY <3>1, NowStored
  <2>9. \A t \in Server : \A x \in local[t].saves : RunOf(x) = r => Safe(r)
    BY <2>7, <2>8, NowStored
  <2> HIDE DEF k
  <2>10. QED
    BY <1>1, <1>2, <2>5, <2>7, <2>9, LoadIsSafe DEF k
<1>5. QED
  BY <1>1, <1>3, <1>4, ZenonT(60)

\* A step of the game keeps what is stored, and who waits for it.
LEMMA GameIsSafe ==
  ASSUME SaveInv, NEW s \in Server, NEW h, Becomes(s, h), DOMAIN h = GameFields,
         h.saving = game[s].saving, UNCHANGED <<job, tables>>, NEW r, IsStored(r)
  PROVE  IsStored(r)'
<1>1. game' = Put(game, s, Left(h)) /\ job' = job /\ remote' = remote /\ local' = local
  BY DEF Becomes, Left, Put, tables
<1>2. Left(h).saving = h.saving
  BY DEF Left, GameFields
<1>3. DOMAIN game = Server
  BY DEF SaveInv, Held, Games
<1>4. \A t \in Server : game'[t].saving = game[t].saving
  BY <1>1, <1>2, <1>3 DEF Put
<1>5. \A t \in Server : Awaited(t, r) => Awaited(t, r)'
  BY <1>1, <1>4 DEF Awaited, IsSaving
<1>6. \A t \in Server : \A row : Copied(t, row, r) => Copied(t, row, r)'
  BY <1>1 DEF Copied, RunOf
<1>7. QED
  BY <1>1, <1>5, <1>6 DEF IsStored, RunOf

\* No other step of the game touches a save.
LEMMA PlaysIsSafe ==
  ASSUME SaveInv, NEW s \in Server, NEW h, Plays(s, h), NEW r, IsStored(r)
  PROVE  IsStored(r)'
<1>1. DOMAIN h = GameFields /\ h.saving = game[s].saving /\ Becomes(s, h)
  BY DEF Plays, Follows, IsTeam
<1>2. UNCHANGED <<job, tables>>
  BY DEF Plays, UnchangedRest
<1>3. QED
  BY <1>1, <1>2, GameIsSafe

\* Nor does the start of a race.
LEMMA StartsIsSafe ==
  ASSUME SaveInv, NEW s \in Server, NEW i, Starts(s, i), NEW r, IsStored(r)
  PROVE  IsStored(r)'
<1> DEFINE h == Started(game[s], i, Len(names) + 1)
<1>1. DOMAIN h = GameFields /\ h.saving = game[s].saving
  BY GamesAreTeams DEF Started, GameFields
<1>2. Becomes(s, h) /\ UNCHANGED <<job, tables>>
  BY DEF Starts
<1> HIDE DEF h
<1>3. QED
  BY <1>1, <1>2, GameIsSafe

\* A new request, of a team that has waited for none.
LEMMA RequestIsSafe ==
  ASSUME SaveInv, NEW s \in Server, NEW i, NEW code, SaveTeam(s, i, code) \/ LoadTeam(s, i, code),
         NEW r, IsStored(r)
  PROVE  IsStored(r)'
<1>1. \E h, j : Becomes(s, h) /\ job' = Append(job, j)
  BY DEF SaveTeam, LoadTeam
<1>2. ~IsSaving(game[s]) /\ remote' = remote /\ local' = local
  BY DEF SaveTeam, LoadTeam, tables
<1>3. DOMAIN game = Server /\ IsSequence(job)
  BY DEF SaveInv, Held, Games, Jobs
<1>4. \A t \in Server \ {s} : game'[t] = game[t]
  BY <1>1, <1>3 DEF Becomes
<1>5. \A k \in 1..Len(job) : job'[k] = job[k]
  BY <1>1, <1>3, AppendSequence
<1>6. ASSUME NEW t \in Server, Awaited(t, r)
      PROVE  Awaited(t, r)'
  <2>1. t # s
    BY <1>2, <1>6 DEF Awaited
  <2>2. game[t].saving \in 1..Len(job)
    BY <1>6, AwaitedIsCarried
  <2>3. QED
    BY <1>4, <1>5, <1>6, <2>1, <2>2 DEF Awaited, IsSaving
<1>7. ASSUME NEW t \in Server, NEW row, Copied(t, row, r)
      PROVE  Copied(t, row, r)'
  <2>1. row.id \in 1..Len(job)
    BY <1>7, CopyIs DEF Copied
  <2>2. QED
    BY <1>2, <1>5, <1>7, <2>1 DEF Copied, RunOf
<1>8. QED
  BY <1>2, <1>6, <1>7 DEF IsStored, RunOf

\* An answer that arrives where there is still someone brings the race
\* back into the game.
LEMMA AnswerIsSafe ==
  ASSUME SaveInv, NEW s \in Server, ProcessSaveTeam(s), Team(game[s]) # {}, NEW r, IsStored(r)
  PROVE  IsStored(r)' \/ InGame(s, r)'
<1> DEFINE g == game[s]
           k == g.saving
           j == job[k]
           h == [Applied(g, j) EXCEPT !.saving = 0]
<1>1. /\ IsSaving(g) /\ Becomes(s, h) /\ job' = [job EXCEPT ![k] = Freed(s)]
      /\ remote' = remote /\ local' = local
  BY DEF ProcessSaveTeam, tables
<1>2. /\ IsSequence(job) /\ DOMAIN game = Server /\ IsTeam(g) /\ k \in 1..Len(job) /\ j.on = s
  BY <1>1 DEF SaveInv, Held, Games, Jobs, IsGame, Asks
<1>3. game' = Put(game, s, Left(h))
  BY <1>1 DEF Becomes, Left, Put
<1>4. \A i \in 1..Len(job) : job'[i] = IF i = k THEN Freed(s) ELSE job[i]
  BY <1>1, <1>2 DEF IsSequence
<1>5. ASSUME Awaited(s, r)
      PROVE  InGame(s, r)'
  <2>1. j.status \in {"LOAD_SUCCESS", "SAVE_FAILED"} /\ j.saved.run = r
    BY <1>5 DEF Awaited
  <2> DEFINE a == Load(g, j.saved)
  <2>2. Applied(g, j) = a
    BY <2>1, SMTT(60) DEF Applied
  <2>3. DOMAIN a = GameFields /\ a.run = r /\ a.state = "STARTED"
    BY <1>2, <2>1 DEF IsTeam, GameFields, Load
  <2> HIDE DEF a
  <2>4. DOMAIN h = GameFields /\ h.run = r /\ h.state = "STARTED" /\ h.saving = 0
    BY <2>2, <2>3 DEF GameFields
  <2> HIDE DEF h
  <2>5. Left(h).run = r /\ Left(h).saving = 0
    BY <2>4 DEF Left, IsRacing, GameFields
  <2>6. QED
    BY <1>2, <1>3, <2>5 DEF InGame, IsSaving, Put
<1>6. ASSUME NEW t \in Server \ {s}, Awaited(t, r)
      PROVE  IsStored(r)'
  <2>1. game[t].saving \in 1..Len(job) /\ job[game[t].saving].on = t
    BY <1>6, AwaitedIsCarried
  <2>2. game[t].saving # k
    BY <1>2, <2>1
  <2>3. game'[t] = game[t] /\ job'[game[t].saving] = job[game[t].saving]
    BY <1>2, <1>3, <1>4, <2>1, <2>2 DEF Put
  <2>4. Awaited(t, r)'
    BY <1>6, <2>3 DEF Awaited, IsSaving
  <2>5. QED
    BY <2>4 DEF IsStored
<1>7. ASSUME NEW t \in Server, NEW row, Copied(t, row, r)
      PROVE  Copied(t, row, r)'
  <2>1. row.id \in 1..Len(job)
    BY <1>7, CopyIs DEF Copied
  <2>2. job'[row.id].at = "freed" \/ job'[row.id] = job[row.id]
    BY <1>4, <2>1 DEF Freed
  <2>3. QED
    BY <1>1, <1>7, <2>2 DEF Copied, RunOf
<1>8. QED
  BY <1>1, <1>5, <1>6, <1>7 DEF IsStored, RunOf

\* The worker keeps what is stored for a team that waits.
LEMMA WorkersAreSafe ==
  ASSUME SaveInv, NEW s \in Server, Worker(s), game[s].saving = Head(queue[s]), NEW r, IsStored(r)
  PROVE  Safe(r)
<1>1. CASE SaveBackup(s) \/ SaveInsert(s) \/ SaveDeleteCopy(s) \/ SaveMoveCopy(s)
  BY <1>1, SaveBackupIsSafe, SaveInsertIsSafe, SaveDeleteCopyIsSafe, SaveMoveCopyIsSafe
<1>2. CASE LoadSelect(s) \/ LoadDelete(s) \/ LoadLocal(s)
  BY <1>2, LoadSelectIsSafe, LoadDeleteIsSafe, LoadLocalIsSafe
<1>3. QED
  BY <1>1, <1>2 DEF Worker

\* Players keep what is stored.
LEMMA PlayersAreSafe ==
  ASSUME SaveInv, NEW s \in Server, Players(s), NEW r, IsStored(r)
  PROVE  IsStored(r)'
BY PlayersSteps, PlaysIsSafe, StartsIsSafe, RequestIsSafe

\* What was saved is stored until it is back in a game: a row that a load
\* takes away is in the request then, a copy that the worker deletes has
\* been inserted, and what fails halfway has changed nothing.  That is so
\* unless the answer was lost, nobody is there to get it, or the server
\* has ended.
THEOREM WhatIsSavedIsKept == Spec => Kept
<1> DEFINE IsKept(r) ==
       \/ Stored(r)' \/ \E s \in Server : InGame(s, r)'
       \/ r \in blurred'
       \/ \E s \in Server :
            \/ ProcessSaveTeam(s) /\ Team(game[s]) = {}
            \/ Worker(s) /\ game[s].saving # Head(queue[s])
            \/ Reload(s) \/ Crash(s)
<1>1. ASSUME SaveInv, Next, NEW r, Stored(r)
      PROVE  IsKept(r)
  <2>1. PICK s \in Server : Players(s) \/ Worker(s) \/ ProcessSaveTeam(s) \/ Reload(s) \/ Crash(s)
    BY <1>1 DEF Next
  <2>2. IsStored(r)
    BY <1>1, StoredIs
  <2>3. IsStored(r)' => Stored(r)'
    BY StoredIsThen
  <2>4. CASE Players(s)
    BY <1>1, <2>2, <2>3, <2>4, PlayersAreSafe
  <2>5. CASE Worker(s) /\ game[s].saving = Head(queue[s])
    BY <1>1, <2>2, <2>3, <2>5, WorkersAreSafe DEF Safe
  <2>6. CASE ProcessSaveTeam(s) /\ Team(game[s]) # {}
    BY <1>1, <2>2, <2>3, <2>6, AnswerIsSafe
  <2>7. QED
    BY <2>1, <2>4, <2>5, <2>6
<1>2. SaveInv /\ [Next]_vars => [\A r \in Run : Stored(r) => IsKept(r)]_vars
  BY <1>1
<1>3. QED
  BY <1>2, RacesAreHeld, PTL DEF Spec, Kept
=============================================================================
