------------------------------ MODULE TeamSave ------------------------------
(***************************************************************************)
(* How the race of a team is saved in a database and loaded again, on the  *)
(* same server or another: CGameTeams, CSaveTeam, CScore and CScoreWorker. *)
(*                                                                         *)
(* Every server has one team next to team 0, and there is one map; who is  *)
(* in team 0 or no player at all is not told apart.  The game of a server  *)
(* runs in one thread and a step of it is one handler; the worker asks the *)
(* databases statement by statement, and any statement may fail.  The      *)
(* remote database is shared and may also do what it is asked and fail to  *)
(* say so; the local one has a backup table and the proper one.            *)
(***************************************************************************)
EXTENDS Integers, FiniteSets, SequencesExt

CONSTANTS
  Server,       \* the servers
  Slot,         \* their client IDs: a set of numbers for each
  Name,         \* the names that players use in each slot of each server
  Code,         \* the codes that players choose for their saves
  Locking,      \* bound: the servers where players lock their team
  Ending,       \* bound: the servers that reload or crash
  Losing,       \* bound: the servers that answers of the remote database get lost for
  MaxRuns,      \* bound: races that are started
  MaxRequests   \* bound: /save and /load that each server takes up

ASSUME TeamSaveAssumption ==
  /\ Slot \in [Server -> SUBSET Nat]
  /\ UNION {Locking, Ending, Losing} \subseteq Server
  /\ MaxRuns \in Nat \ {0}
  /\ MaxRequests \in [Server -> Nat \ {0}]

VARIABLES
  game,         \* the game of each server, see Blank
  queue,        \* the requests that each server's pool still has to work off
  job,          \* every request, with the data that its worker and its team share
  remote,       \* the rows of record_saves
  local,        \* the rows of record_saves and record_saves_backup of each server
  names,        \* history: who was in the team when a race started
  blurred       \* history: races that a lost answer, or an early finish, left unclear

tables == <<remote, local>>
vars == <<game, queue, job, tables, names, blurred>>

Nobody == "nobody"
NoCode == <<"no code">>
Run == 1..Len(names)
Request == 1..Len(job)
NoRun == 0
Freed(s) == [on |-> s, at |-> "freed"]

(* The names of those in the team, by slot, and the DDRaceState of their   *)
(* characters, if they have one.                                           *)
Blank(s) ==
  [client |-> [i \in Slot[s] |-> Nobody], tee |-> [i \in Slot[s] |-> "dead"],
   teeStarted |-> {}, teeFinished |-> {},
   state |-> "EMPTY", locked |-> FALSE, saving |-> 0,
   run |-> NoRun, ranked |-> {}]

Init ==
  /\ game = [s \in Server |-> Blank(s)]
  /\ queue = [s \in Server |-> <<>>]
  /\ job = <<>>
  /\ remote = {}
  /\ local = [s \in Server |-> [saves |-> {}, backup |-> {}]]
  /\ names = <<>> /\ blurred = {}

Team(g) == {i \in DOMAIN g.client : g.client[i] # Nobody}
IsRacing(g) == g.state \in {"STARTED", "STARTED_UNFINISHABLE"}
Playing(g) == {i \in Team(g) : g.tee[i] # "dead"}
IsSaving(g) == g.saving # 0

(* What a step of the game leaves; a race that is over is forgotten, and a *)
(* rank given to a team that is being saved is noted.                      *)
Becomes(s, g) ==
  /\ game' = [game EXCEPT ![s] = [g EXCEPT !.run = IF IsRacing(g) THEN @ ELSE NoRun]]
  /\ blurred' = IF IsSaving(game[s]) THEN blurred \union (g.ranked \ game[s].ranked) ELSE blurred

-----------------------------------------------------------------------------
(* What happens to a team *)

(* SetForceCharacterTeam, out of the team for some of it, and into it. *)
LeaveAll(g, slots) ==
  LET left == [g EXCEPT !.client = [i \in DOMAIN @ |-> IF i \in slots THEN Nobody ELSE @[i]],
                        !.tee = [i \in DOMAIN @ |-> IF i \in slots THEN "dead" ELSE @[i]],
                        !.teeStarted = @ \ slots, !.teeFinished = @ \ slots] IN
  IF Team(left) = {} THEN [left EXCEPT !.state = "EMPTY", !.locked = FALSE] ELSE left
Leave(g, i) == LeaveAll(g, {i})
Enter(g, i, n) ==
  [g EXCEPT !.client[i] = n, !.teeStarted = @ \ {i}, !.teeFinished = @ \ {i},
            !.state = IF @ = "EMPTY" /\ ~g.locked THEN "OPEN" ELSE @]

(* CheckTeamFinished, with OnFinish and OnTeamFinish.  Teams that are not  *)
(* locked go back to team 0.                                               *)
CheckTeamFinished(g) ==
  LET finished == [g EXCEPT
        !.tee = [i \in DOMAIN @ |-> IF i \in Playing(g) THEN "finished" ELSE @[i]],
        !.teeStarted = @ \ Playing(g), !.teeFinished = @ \ Playing(g),
        !.state = "FINISHED", !.ranked = @ \union {g.run}]
  IN IF g.state = "STARTED" /\ Team(g) \subseteq g.teeFinished /\ Playing(g) # {}
     THEN IF g.locked THEN finished ELSE LeaveAll(finished, Playing(g))
     ELSE g

(* All characters of a team die together, and it starts anew. *)
StartAnew(g) ==
  [g EXCEPT !.tee = [j \in DOMAIN @ |-> "dead"],
            !.teeStarted = {}, !.teeFinished = {}, !.state = "OPEN"]

(* Die, with OnCharacterDeath.  A team that saves or loads stays together, *)
(* and a locked one dies together.                                         *)
Die(g, i) ==
  LET dead == [g EXCEPT !.tee[i] = "dead"] IN
  IF IsSaving(g) THEN dead
  ELSE IF g.locked /\ g.state = "OPEN" THEN Enter(dead, i, g.client[i])
  ELSE IF g.locked THEN StartAnew(g)
  ELSE CheckTeamFinished(Leave(
    [dead EXCEPT !.state = IF @ = "STARTED" /\ i \notin g.teeStarted
                           THEN "STARTED_UNFINISHABLE" ELSE @], i))

(* KillTeam: Die, for all who play, in a race or while it is saved. *)
KillTeam(g) ==
  IF IsSaving(g) THEN [g EXCEPT !.tee = [j \in DOMAIN @ |-> "dead"]]
  ELSE IF Playing(g) = {} THEN g
  ELSE IF g.locked THEN StartAnew(g)
  ELSE LeaveAll(g, Playing(g))

(* Spawn, with OnCharacterSpawn and DDRaceInit: who spawns in a locked     *)
(* team gets the state of the last of the others.                          *)
Spawn(g, i) ==
  LET others == Playing(g) \ {i} IN
  IF IsSaving(g) \/ g.locked
  THEN [g EXCEPT !.tee[i] = IF g.locked /\ others # {}
                            THEN g.tee[CHOOSE j \in others : \A k \in others : k <= j]
                            ELSE "none"]
  ELSE CheckTeamFinished(Leave(g, i))

-----------------------------------------------------------------------------
(* The players *)

NoRequest == UNCHANGED <<queue, job, tables>>

(* SetCharacterTeam, from team 0 and back to it. *)
FaultyMayJoin(g, i) == g.state \in {"EMPTY", "OPEN"}
MayJoin(g, i) == g.state \in {"EMPTY", "OPEN"} /\ ~IsSaving(g)
JoinTeam(s, i, n) ==
  /\ game[s].client[i] = Nobody /\ \A j \in Team(game[s]) : game[s].client[j] # n
  /\ MayJoin(game[s], i)
  /\ Becomes(s, [Enter(game[s], i, n) EXCEPT !.tee[i] = "none"])
  /\ NoRequest /\ UNCHANGED names
LeaveTeam(s, i) ==
  /\ i \in Team(game[s]) /\ game[s].tee[i] = "none" /\ ~IsSaving(game[s])
  /\ Becomes(s, Leave(game[s], i))
  /\ NoRequest /\ UNCHANGED names

(* OnPlayerDisconnect: the character dies in the team, then it is left. *)
Disconnect(s, i) ==
  /\ i \in Team(game[s])
  /\ LET g == IF game[s].tee[i] = "dead" THEN game[s] ELSE Die(game[s], i)
     IN Becomes(s, Leave(g, i))
  /\ NoRequest /\ UNCHANGED names

Respawn(s, i) ==
  /\ i \in Team(game[s]) \ Playing(game[s])
  /\ Becomes(s, Spawn(game[s], i))
  /\ NoRequest /\ UNCHANGED names

Death(s, i) ==
  /\ i \in Playing(game[s])
  /\ Becomes(s, Die(game[s], i))
  /\ NoRequest /\ UNCHANGED names

(* ConLockTeam *)
LockTeam(s, i) ==
  /\ s \in Locking /\ i \in Team(game[s])
  /\ Becomes(s, [game[s] EXCEPT !.locked = ~@])
  /\ NoRequest /\ UNCHANGED names

(* DoTeamChange: a player with a character joins the spectators. *)
Spectate(s, i) ==
  /\ i \in Playing(game[s])
  /\ Becomes(s, CheckTeamFinished(Leave(game[s], i)))
  /\ NoRequest /\ UNCHANGED names

(* HandleCharacterTiles and OnCharacterStart.  The first of a team starts  *)
(* the race for all, unless someone has yet to leave the last one.         *)
StartTile(s, i) ==
  LET g == game[s]
      waiting == \E j \in Team(g) : g.tee[j] = "finished"
      first == ~waiting /\ ~IsRacing(g) /\ g.state # "FINISHED"
  IN /\ i \in Playing(g)
     /\ \/ /\ IsSaving(g)
           /\ Becomes(s, Die(g, i))
           /\ UNCHANGED names
        \/ /\ ~IsSaving(g) /\ g.tee[i] # "finished" /\ waiting
           /\ Becomes(s, [g EXCEPT !.tee[i] = "none"])
           /\ UNCHANGED names
        \/ /\ ~IsSaving(g) /\ ~waiting /\ ~first
           /\ Becomes(s, [g EXCEPT !.teeStarted = @ \union {i}])
           /\ UNCHANGED names
        \/ /\ ~IsSaving(g) /\ first /\ Len(names) < MaxRuns
           /\ Becomes(s, [g EXCEPT
                !.state = "STARTED", !.teeStarted = @ \union {i},
                !.tee = [j \in DOMAIN @ |-> IF j \in Playing(g) THEN "started" ELSE @[j]],
                !.run = Len(names) + 1])
           /\ names' = Append(names, {g.client[j] : j \in Team(g)})
     /\ UNCHANGED <<queue, job, tables>>

(* OnCharacterFinish *)
FinishTile(s, i) ==
  /\ i \in Team(game[s]) /\ game[s].tee[i] = "started"
  /\ Becomes(s, CheckTeamFinished(IF i \in game[s].teeStarted
                                  THEN [game[s] EXCEPT !.teeFinished = @ \union {i}]
                                  ELSE game[s]))
  /\ NoRequest /\ UNCHANGED names

(* Tick: a team that can not finish any more is killed after a minute. *)
KillUnfinishable(s) ==
  /\ game[s].state = "STARTED_UNFINISHABLE"
  /\ Becomes(s, KillTeam(game[s]))
  /\ NoRequest /\ UNCHANGED names

-----------------------------------------------------------------------------
(* /save and /load *)

Generated(k) == <<"generated", k>>

(* CScore::SaveTeam, with CSaveTeam::Save and KillSavedTeam. *)
SaveTeam(s, i, code) ==
  LET g == game[s]
      k == Len(job) + 1
      saved == [run |-> g.run, locked |-> g.locked,
                tees |-> [n \in {g.client[j] : j \in Team(g)} |->
                  LET j == CHOOSE j \in Team(g) : g.client[j] = n IN
                  [slot |-> j, tee |-> g.tee[j], started |-> j \in g.teeStarted,
                   finished |-> j \in g.teeFinished]]]
  IN /\ Cardinality({r \in Request : job[r].on = s}) < MaxRequests[s]
     /\ i \in Team(g) /\ ~IsSaving(g)
     /\ Playing(g) = Team(g) /\ g.state = "STARTED"
     /\ Becomes(s, KillTeam([g EXCEPT !.saving = k]))
     /\ job' = Append(job, [on |-> s, kind |-> "save", code |-> code, saved |-> saved, who |-> <<>>,
                            at |-> "backup", status |-> "SAVE_FAILED", row |-> NoCode])
     /\ queue' = [queue EXCEPT ![s] = Append(@, k)]
     /\ UNCHANGED <<tables, names>>

(* CScore::LoadTeam *)
LoadTeam(s, i, code) ==
  LET g == game[s]
      k == Len(job) + 1
  IN /\ Cardinality({r \in Request : job[r].on = s}) < MaxRequests[s]
     /\ i \in Team(g) /\ ~IsSaving(g) /\ g.state = "OPEN"
     /\ Becomes(s, [g EXCEPT !.saving = k])
     /\ job' = Append(job, [on |-> s, kind |-> "load", code |-> code, saved |-> <<>>,
                            who |-> [n \in {g.client[j] : j \in Team(g)} |->
                                       CHOOSE j \in Team(g) : g.client[j] = n],
                            at |-> "select", status |-> "LOAD_FAILED", row |-> NoCode])
     /\ queue' = [queue EXCEPT ![s] = Append(@, k)]
     /\ UNCHANGED <<tables, names>>

(* CSaveTeam::Load, for those who are still in the team, or whoever has    *)
(* their slots in it now.                                                  *)
Load(g, saved) ==
  LET back == {n \in DOMAIN saved.tees : saved.tees[n].slot \in Team(g)}
      Slots(ns) == {saved.tees[n].slot : n \in ns}
      of == [i \in Slots(back) |-> saved.tees[CHOOSE n \in back : saved.tees[n].slot = i]]
  IN [g EXCEPT
        !.state = "STARTED", !.locked = saved.locked, !.run = saved.run,
        !.tee = [i \in DOMAIN @ |-> IF i \in Slots(back) THEN of[i].tee ELSE @[i]],
        !.teeStarted = (@ \ Slots(back)) \union Slots({n \in back : saved.tees[n].started}),
        !.teeFinished = (@ \ Slots(back)) \union Slots({n \in back : saved.tees[n].finished})]

(* ProcessSaveTeam *)
Applied(g, result) ==
  IF result.status = "SAVE_SUCCESS" THEN LeaveAll(g, Team(g))
  ELSE IF result.status # "LOAD_FAILED" /\ Team(g) # {} THEN Load(g, result.saved)
  ELSE g
ProcessSaveTeam(s) ==
  LET k == game[s].saving IN
  /\ IsSaving(game[s]) /\ job[k].at = "completed"
  /\ Becomes(s, [Applied(game[s], job[k]) EXCEPT !.saving = 0])
  /\ job' = [job EXCEPT ![k] = Freed(s)]
  /\ UNCHANGED <<queue, tables, names>>

-----------------------------------------------------------------------------
(* The worker: CScoreWorker::SaveTeam and CScoreWorker::LoadTeam *)

Row(code, k) == [code |-> code, id |-> k, saved |-> job[k].saved]
Copy(k) == Row(Generated(k), k)
RunOf(row) == row.saved.run

(* The first request of the queue goes on to its next statement, or ends. *)
Working(s, kind, at) ==
  /\ queue[s] # <<>>
  /\ job[Head(queue[s])].at = at /\ job[Head(queue[s])].kind = kind
Continue(s, next) == job' = [job EXCEPT ![Head(queue[s])] = next] /\ UNCHANGED queue
Complete(s, last) ==
  /\ job' = [job EXCEPT ![Head(queue[s])] =
       IF game[s].saving = Head(queue[s]) THEN [last EXCEPT !.at = "completed"] ELSE Freed(s)]
  /\ queue' = [queue EXCEPT ![s] = Tail(@)]

(* BACKUP_FIRST *)
SaveBackup(s) ==
  LET k == Head(queue[s]) IN
  /\ Working(s, "save", "backup")
  /\ \/ /\ local' = [local EXCEPT ![s].backup = @ \union {Copy(k)}]
        /\ Continue(s, [job[k] EXCEPT !.at = "insert", !.status = "SAVE_SUCCESS"])
     \/ /\ Continue(s, [job[k] EXCEPT !.at = "insert"])
        /\ UNCHANGED local
  /\ UNCHANGED <<game, remote, names, blurred>>

(* NORMAL.  A code that is taken gives way to the generated one. *)
SaveInsert(s) ==
  LET k == Head(queue[s])
      taken == job[k].code = NoCode \/ \E row \in remote : row.code = job[k].code
      row == Row(IF taken THEN Generated(k) ELSE job[k].code, k)
  IN /\ Working(s, "save", "insert")
     /\ \/ /\ remote' = remote \union {row}
           /\ Continue(s, [job[k] EXCEPT !.at = "succeeded", !.status = "SAVE_SUCCESS"])
           /\ UNCHANGED blurred
        \/ /\ s \in Losing
           /\ remote' = remote \union {row}
           /\ Continue(s, [job[k] EXCEPT !.at = "failed"])
           /\ blurred' = blurred \union {RunOf(row)}
        \/ /\ Continue(s, [job[k] EXCEPT !.at = "failed"])
           /\ UNCHANGED <<remote, blurred>>
     /\ UNCHANGED <<game, local, names>>

(* NORMAL_SUCCEEDED *)
SaveDeleteCopy(s) ==
  LET k == Head(queue[s]) IN
  /\ Working(s, "save", "succeeded")
  /\ \/ local' = [local EXCEPT ![s].backup = @ \ {Copy(k)}]
     \/ UNCHANGED local
  /\ Complete(s, job[k])
  /\ UNCHANGED <<game, remote, names, blurred>>

(* NORMAL_FAILED: the copy is inserted and, if that went well, deleted. *)
FaultySaveMoveCopy(s) ==
  LET k == Head(queue[s])
      copied == local[s].backup \intersect {Copy(k)}
  IN /\ Working(s, "save", "failed")
     /\ \E inserted \in BOOLEAN :
          local' = [local EXCEPT ![s].saves = IF inserted THEN @ \union copied ELSE @,
                                 ![s].backup = @ \ copied]
     /\ Complete(s, job[k])
     /\ UNCHANGED <<game, remote, names, blurred>>
SaveMoveCopy(s) ==
  LET k == Head(queue[s])
      copied == local[s].backup \intersect {Copy(k)}
  IN /\ Working(s, "save", "failed")
     /\ \E inserted, deleted \in BOOLEAN :
          /\ deleted => inserted
          /\ local' = [local EXCEPT ![s].saves = IF inserted THEN @ \union copied ELSE @,
                                    ![s].backup = IF deleted THEN @ \ copied ELSE @]
     /\ Complete(s, job[k])
     /\ UNCHANGED <<game, remote, names, blurred>>

(* MatchPlayers: the team has to be the one that saved, by name. *)
Matches(k, row) == DOMAIN row.saved.tees = DOMAIN job[k].who
Given(k, row) ==
  [row.saved EXCEPT !.tees = [n \in DOMAIN @ |-> [@[n] EXCEPT !.slot = job[k].who[n]]]]

(* NORMAL: look for the save, *)
LoadSelect(s) ==
  LET k == Head(queue[s])
      found == {row \in remote : row.code = job[k].code /\ Matches(k, row)}
  IN /\ Working(s, "load", "select")
     /\ \/ \E row \in found :
             Continue(s, [job[k] EXCEPT !.at = "delete", !.row = row, !.saved = Given(k, row)])
        \/ found = {} /\ Complete(s, job[k])
        \/ Continue(s, [job[k] EXCEPT !.at = "failed"])
     /\ UNCHANGED <<game, tables, names, blurred>>

(* and take it away, if no other server has done so. *)
FaultyNumDeletedIsOne(rows) == TRUE
NumDeletedIsOne(rows) == rows # {}

LoadDelete(s) ==
  LET k == Head(queue[s])
      rows == remote \intersect {job[k].row}
  IN /\ Working(s, "load", "delete")
     /\ \/ /\ remote' = remote \ rows
           /\ Complete(s, IF NumDeletedIsOne(rows)
                          THEN [job[k] EXCEPT !.status = "LOAD_SUCCESS"] ELSE job[k])
           /\ UNCHANGED blurred
        \/ /\ s \in Losing
           /\ remote' = remote \ rows
           /\ Continue(s, [job[k] EXCEPT !.at = "failed"])
           /\ blurred' = blurred \union {RunOf(row) : row \in rows}
        \/ /\ Continue(s, [job[k] EXCEPT !.at = "failed"])
           /\ UNCHANGED <<remote, blurred>>
     /\ UNCHANGED <<game, local, names>>

(* NORMAL_FAILED: the same with the local database, which nobody else uses. *)
LoadLocal(s) ==
  LET k == Head(queue[s])
      found == {row \in local[s].saves : row.code = job[k].code /\ Matches(k, row)}
  IN /\ Working(s, "load", "failed")
     /\ \/ \E row \in found :
             /\ local' = [local EXCEPT ![s].saves = @ \ {row}]
             /\ Complete(s, [job[k] EXCEPT !.status = "LOAD_SUCCESS",
                                           !.saved = Given(k, row)])
        \/ Complete(s, job[k]) /\ UNCHANGED local
     /\ UNCHANGED <<game, remote, names, blurred>>

-----------------------------------------------------------------------------
(* The ends of a game *)

(* A map change, or an orderly shutdown: the game is new, and the pool     *)
(* goes on with what it was asked.                                         *)
Reload(s) ==
  /\ s \in Ending
  /\ game' = [game EXCEPT ![s] = [Blank(s) EXCEPT !.ranked = game[s].ranked]]
  /\ job' = [k \in Request |-> IF k = game[s].saving /\ job[k].at = "completed" THEN Freed(s) ELSE job[k]]
  /\ UNCHANGED <<queue, tables, names, blurred>>

(* The process ends, and starts again. *)
Crash(s) ==
  /\ s \in Ending
  /\ game' = [game EXCEPT ![s] = [Blank(s) EXCEPT !.ranked = game[s].ranked]]
  /\ queue' = [queue EXCEPT ![s] = <<>>]
  /\ job' = [k \in Request |-> IF k = game[s].saving \/ Contains(queue[s], k) THEN Freed(s) ELSE job[k]]
  /\ UNCHANGED <<tables, names, blurred>>

(* Players load with the codes they were told, of saves that are under way *)
(* or stored.                                                              *)
SavesUnderWay == {k \in Request : /\ job[k].at \in {"backup", "insert", "succeeded", "failed"}
                                  /\ job[k].kind = "save"}
KnownCodes ==
  {code \in Code : \E k \in SavesUnderWay : job[k].code = code} \union {Generated(k) : k \in SavesUnderWay}
  \union {row.code : row \in remote \union UNION {local[s].saves : s \in Server}}

Worker(s) ==
  \/ SaveBackup(s) \/ SaveInsert(s) \/ SaveDeleteCopy(s) \/ SaveMoveCopy(s)
  \/ LoadSelect(s) \/ LoadDelete(s) \/ LoadLocal(s)

Players(s) ==
  \/ \E i \in Slot[s] :
       \/ \E n \in Name[s][i] : JoinTeam(s, i, n)
       \/ LeaveTeam(s, i) \/ Disconnect(s, i) \/ Respawn(s, i) \/ Death(s, i)
       \/ Spectate(s, i) \/ LockTeam(s, i) \/ StartTile(s, i) \/ FinishTile(s, i)
       \/ \E code \in Code \union {NoCode} : SaveTeam(s, i, code)
       \/ \E code \in KnownCodes : LoadTeam(s, i, code)
  \/ KillUnfinishable(s)

Next == \E s \in Server : Players(s) \/ Worker(s) \/ ProcessSaveTeam(s) \/ Reload(s) \/ Crash(s)

Spec == Init /\ [][Next]_vars

-----------------------------------------------------------------------------
(* Properties *)

InGame(s, r) == game[s].run = r /\ ~IsSaving(game[s])
Awaited(s, r) ==
  /\ IsSaving(game[s])
  /\ LET j == job[game[s].saving] IN
     j.status \in {"LOAD_SUCCESS", "SAVE_FAILED"} /\ j.saved.run = r
Rows(r) == {row \in remote \union UNION {local[s].saves : s \in Server} : RunOf(row) = r}

(* All places that a race may be at: a game or the way back into it, a row *)
(* that can be loaded, or its end.                                         *)
Places(r) ==
  {<<"game", s>> : s \in {s \in Server : InGame(s, r) \/ Awaited(s, r)}}
  \union Rows(r)
  \union {<<"ranked", s>> : s \in {s \in Server : r \in game[s].ranked}}

(* A race is never played twice: however servers save and load it at the   *)
(* same time, and whatever fails, it is at one place at most, and once it  *)
(* has its rank it is nowhere else.  A lost answer can double it, see      *)
(* blurred.                                                                *)
OnePlace == \A r \in Run \ blurred : Cardinality(Places(r)) <= 1

(* Who is in a racing team was in it when the race started, on whichever   *)
(* server that was: a slot that another player has taken since then gets   *)
(* nothing of a save.                                                      *)
RightPlayers ==
  \A s \in Server :
    IsRacing(game[s]) => {game[s].client[i] : i \in Team(game[s])} \subseteq names[game[s].run]

(* A race that was saved is in a table, or on its way back into the game,  *)
(* until it is in a game again, unless the server ends or reloads, nobody  *)
(* is left who waits for the result, or an answer is lost.                 *)
Stored(r) ==
  \/ \E s \in Server : Awaited(s, r)
  \/ Rows(r) # {}
  \/ \E s \in Server : \E row \in local[s].backup :
       RunOf(row) = r /\ job[row.id].at # "succeeded"
Kept ==
  [][\A r \in Run : Stored(r) =>
       \/ Stored(r)' \/ \E s \in Server : InGame(s, r)'
       \/ r \in blurred'
       \/ \E s \in Server :
            \/ ProcessSaveTeam(s) /\ Team(game[s]) = {}
            \/ Worker(s) /\ game[s].saving # Head(queue[s])
            \/ Reload(s) \/ Crash(s)]_vars
=============================================================================
