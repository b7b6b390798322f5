------------------------------ MODULE Register ------------------------------
(***************************************************************************)
(* The registration of a server at the master server: CRegister            *)
(* (engine/server/register.cpp) on the main thread, its requests as jobs   *)
(* of the engine's pool (JobPool), and the master server (mastersrv).      *)
(*                                                                         *)
(* For every protocol the server sends a register request each 15 seconds, *)
(* and at once when its information changes, when the master asks for the  *)
(* information, and when a challenge token arrives by UDP.  The requests   *)
(* of several workers overtake one another, and the master forgets.        *)
(*                                                                         *)
(* m_NumTotalRequests grows for ever and is only compared, so the model    *)
(* keeps distances to it: the age of a request is m_NumTotalRequests - 1 - *)
(* m_Index, and behind is m_NumTotalRequests - 1 - m_LatestResponseIndex.  *)
(* Time is abstracted: next says whether m_NextRegister has come.          *)
(***************************************************************************)
EXTENDS JobPool, FiniteSets

CONSTANTS
  Protocol,     \* the protocols, numbered in the order of the loops
  MaxEvents,    \* bound: changes of the information and of sv_register, the shutdown,
                \* lost and slow messages, new seeds and restarts of the master
  MaxPending    \* bound: jobs in the pool

ASSUME ProtocolAssumption == Protocol \subseteq Nat /\ IsFiniteSet(Protocol)
ASSUME BoundsAssumption ==
  {MaxEvents, MaxPending} \subseteq Nat

VARIABLES
  phase,       \* "starting" until the first Update, "running", "down"
  enabled,     \* m_aProtocolEnabled
  next,        \* m_NextRegister: "now" has come, "soon" within a second, "later"
  status,      \* m_LatestResponseStatus
  behind,      \* m_NumTotalRequests - 1 - m_LatestResponseIndex
  newToken,    \* m_NewChallengeToken
  token,       \* m_aChallengeToken, NoToken while m_HaveChallengeToken is false
  infoSerial,  \* m_InfoSerial
  okSerial,    \* m_LatestSuccessfulInfoSerial
  tokens,      \* the challenge packets on their way to the server
  listed,      \* master: the addresses, one for each protocol
  stored,      \* master: info_serial of the server's entry, -1 if it has none
  expired,     \* master: periods of 15 seconds since the address was refreshed
  seed,        \* master: the seed of the challenge tokens
  events,      \* how many of MaxEvents have happened
  told,        \* history: the latest information the master ever took
  excused      \* history: see ListedIsKnown

serverVars == <<phase, enabled, next, status, behind, newToken, token, infoSerial, okSerial>>
masterVars == <<listed, stored, expired, seed, told>>
vars == <<poolVars, serverVars, tokens, masterVars, events, excused>>

NoToken == 0
FirstSeed == 2       \* so that the token of no seed is valid at first

Quiet(p) == \A j \in Pending : j.protocol # p

(* The jobs of CRegister: a register request, with the server's            *)
(* information or without, or a delete request.  They are made after the   *)
(* handler took the new token or the new information.                      *)
RegisterJob(p) ==
  [kind |-> "register", protocol |-> p, age |-> 0, serial |-> infoSerial',
   info |-> infoSerial' > okSerial, token |-> token'[p], answer |-> "none"]
DeleteJob(p) == [kind |-> "delete", protocol |-> p, answer |-> "none"]

Event == events < MaxEvents /\ events' = events + 1

(* One more request of the protocol was sent after this one. *)
Older(job, S) == IF job.kind = "register" /\ job.protocol \in S
                 THEN [job EXCEPT !.age = @ + 1] ELSE job

-----------------------------------------------------------------------------
(* CRegister *)

Init ==
  /\ PoolInit
  /\ phase = "starting"
  /\ enabled = Protocol
  /\ next = [p \in Protocol |-> "now"]
  /\ status = [p \in Protocol |-> "none"]
  /\ behind = [p \in Protocol |-> 0]
  /\ newToken = [p \in Protocol |-> FALSE]
  /\ token = [p \in Protocol |-> NoToken]
  /\ infoSerial = 0
  /\ okSerial = -1
  /\ tokens = {}
  /\ listed = {} /\ stored = -1 /\ seed = FirstSeed /\ told = -1
  /\ expired = [p \in Protocol |-> 0]
  /\ events = 0
  /\ excused = [p \in Protocol |-> FALSE]

(* SendRegister for the protocols R and SendDeleteIfRegistered for the     *)
(* protocols D, in the order of the protocols.  nextAfter is               *)
(* m_NextRegister of the protocols that send nothing.                      *)
Send(R, D, nextAfter) ==
  LET senders == R \cup {p \in D : status[p] = "success"}
      n == Cardinality(senders)
  IN
  /\ NumPending + n <= MaxPending
  /\ \E order \in [1..n -> senders] :
       /\ \A i, j \in 1..n : i < j => order[i] < order[j]
       /\ queue' = [i \in DOMAIN queue |-> Older(queue[i], R)]
                     \o [i \in 1..n |-> IF order[i] \in R THEN RegisterJob(order[i])
                                                           ELSE DeleteJob(order[i])]
  /\ running' = [i \in DOMAIN running |-> Older(running[i], R)]
  /\ UNCHANGED <<threads, shutdown>>
  /\ status' = [p \in Protocol |-> IF p \in D THEN "none" ELSE status[p]]
  /\ behind' = [p \in Protocol |-> IF p \in R THEN behind[p] + 1 ELSE behind[p]]
  /\ next' = [p \in Protocol |-> IF p \in R THEN "later" ELSE nextAfter[p]]
  /\ excused' = [p \in Protocol |-> excused[p] /\ ~(p \in R /\ Quiet(p))]

(* No request in flight, as far as the indices tell, and the newest answer *)
(* asks for what there is now.                                             *)
CheckChallengeStatus(p, isNew) ==
  /\ behind[p] = 0
  /\ \/ status[p] = "need_challenge" /\ isNew
     \/ status[p] = "need_info"

Due(p, isNew) == CheckChallengeStatus(p, isNew) \/ next[p] = "now"

(* The first CRegister::Update: from now on changes are sent at once. *)
FirstUpdate ==
  /\ phase = "starting"
  /\ phase' = "running"
  /\ UNCHANGED <<poolVars, enabled, next, status, behind, newToken, token, infoSerial, okSerial,
                 tokens, masterVars, events, excused>>

(* One round of the loop of CRegister::Update; the workers run meanwhile. *)
Update(p) ==
  /\ phase = "running"
  /\ p \in enabled
  /\ Due(p, newToken[p])
  /\ UNCHANGED <<infoSerial, token>>
  /\ Send({p}, {}, next)
  /\ newToken' = [newToken EXCEPT ![p] = FALSE]
  /\ UNCHANGED <<phase, enabled, okSerial, tokens, masterVars, events>>

(* A challenge packet arrives, whether its protocol is enabled or not. *)
OnToken(p, t) ==
  /\ phase = "running"
  /\ [protocol |-> p, token |-> t] \in tokens
  /\ tokens' = tokens \ {[protocol |-> p, token |-> t]}
  /\ token' = [token EXCEPT ![p] = t]
  /\ newToken' = [newToken EXCEPT ![p] = ~Due(p, TRUE)]
  /\ UNCHANGED infoSerial
  /\ Send(IF Due(p, TRUE) THEN {p} ELSE {}, {}, next)
  /\ UNCHANGED <<phase, enabled, okSerial, masterVars, events>>

(* sv_register or sv_sixup changes: the protocols E are enabled now. *)
OnConfigChange(E) ==
  /\ phase # "down"
  /\ Event
  /\ E # enabled
  /\ enabled' = E
  /\ UNCHANGED <<infoSerial, token>>
  /\ IF phase = "running" THEN Send(E \ enabled, enabled \ E, next)
                          ELSE UNCHANGED <<poolVars, next, status, behind, excused>>
  /\ newToken' = [p \in Protocol |-> newToken[p] /\ ~(phase = "running" /\ p \in E \ enabled)]
  /\ UNCHANGED <<phase, okSerial, tokens, masterVars>>

(* The information changes.  Of the enabled protocols the one that is next *)
(* to register does so no later than a second after the last request, and  *)
(* whether that second is over is left open.                               *)
OnNewInfo ==
  /\ phase # "down"
  /\ Event
  /\ infoSerial' = infoSerial + 1
  /\ UNCHANGED token
  /\ IF phase = "starting" \/ enabled = {}
     THEN UNCHANGED <<poolVars, next, status, behind, newToken, excused>>
     ELSE \E first \in enabled, when \in {"now", "soon"} :
            LET rank == [now |-> 0, soon |-> 1, later |-> 2]
                hurried == [next EXCEPT ![first] = IF @ = "now" THEN @ ELSE when]
                due == {p \in enabled : hurried[p] = "now"}
            IN /\ \A p \in enabled : rank[next[first]] <= rank[next[p]]
               /\ Send(due, {}, hurried)
               /\ newToken' = [p \in Protocol |-> newToken[p] /\ p \notin due]
  /\ UNCHANGED <<phase, enabled, okSerial, tokens, masterVars>>

(* The server stops: what is registered is deleted, and packets are no     *)
(* longer received.                                                        *)
OnShutdown ==
  /\ phase = "running"
  /\ Event
  /\ phase' = "down"
  /\ UNCHANGED <<infoSerial, token>>
  /\ Send({}, enabled, next)
  /\ UNCHANGED <<enabled, newToken, okSerial, tokens, masterVars>>

(* The engine is deleted after the server, and the pool with it. *)
DestroyPool ==
  /\ phase = "down"
  /\ Destroy
  /\ UNCHANGED <<serverVars, tokens, masterVars, events, excused>>

-----------------------------------------------------------------------------
(* The workers *)

Work ==
  /\ Fetch \/ Return
  /\ UNCHANGED <<serverVars, tokens, masterVars, events, excused>>

(* The response of a register request says something. *)
Heard(job) == job.kind = "register" /\ job.answer # "error"

(* An answer counts for the status when its request is newer than that of  *)
(* every answer before it.                                                 *)
FaultyIsNewest(job) == Heard(job)
IsNewest(job) == Heard(job) /\ job.age < behind[job.protocol]

(* m_LatestSuccessfulInfoSerial after an answer: when the master asks for  *)
(* the information that it had, the other requests have to send it too.    *)
FaultyOkSerial(job) ==
  CASE Heard(job) /\ job.answer = "success" /\ job.serial > okSerial -> job.serial
    [] Heard(job) /\ job.answer = "need_info" -> okSerial - 1
    [] OTHER -> okSerial
StubbornOkSerial(job) ==
  IF Heard(job) /\ job.answer = "success" /\ job.serial > okSerial THEN job.serial ELSE okSerial
OkSerial(job) ==
  CASE Heard(job) /\ job.answer = "success" /\ job.serial > okSerial -> job.serial
    [] Heard(job) /\ job.answer = "need_info" /\ job.serial = okSerial -> okSerial - 1
    [] OTHER -> okSerial

(* CJob::Run after the response. *)
Answer(i) ==
  /\ Finish(i)
  /\ running[i].answer # "none"
  /\ LET job == running[i]
         p == job.protocol
     IN /\ status' = IF IsNewest(job) THEN [status EXCEPT ![p] = job.answer] ELSE status
        /\ behind' = IF IsNewest(job) THEN [behind EXCEPT ![p] = job.age] ELSE behind
        /\ okSerial' = OkSerial(job)
  /\ UNCHANGED <<phase, enabled, next, newToken, token, infoSerial, tokens, masterVars,
                 events, excused>>

-----------------------------------------------------------------------------
(* The master server *)

IsValid(t) == t \in {seed, seed - 1}

(* Servers::remove and Servers::prune_before: with its last address the    *)
(* master forgets the server and its information.                          *)
Forget(p) ==
  /\ listed' = listed \ {p}
  /\ stored' = IF listed' = {} THEN -1 ELSE stored

(* A request that was sent earlier for the protocol is still on its way. *)
Overtakes(i) == \E k \in 1..(i-1) :
                  running[k].protocol = running[i].protocol /\ running[k].answer = "none"

(* handle_register with Servers::add. *)
HandleRegister(i) ==
  /\ running[i].answer = "none"
  /\ running[i].kind = "register"
  /\ LET job == running[i]
         p == job.protocol
         needInfo == job.serial > stored
         result == IF ~IsValid(job.token) THEN "need_challenge"
                   ELSE IF needInfo /\ ~job.info THEN "need_info" ELSE "success"
     IN /\ running' = [running EXCEPT ![i].answer = result]
        /\ tokens' = IF job.token = seed THEN tokens
                     ELSE tokens \cup {[protocol |-> p, token |-> seed]}
        /\ IF result = "success"
           THEN /\ listed' = listed \cup {p}
                /\ stored' = IF needInfo THEN job.serial ELSE stored
                /\ told' = IF stored' > told THEN stored' ELSE told
                /\ expired' = [expired EXCEPT ![p] = 0]
           ELSE UNCHANGED <<listed, stored, told, expired>>
        /\ excused' = [excused EXCEPT ![p] =
                         @ \/ Overtakes(i) \/ (result # "success" /\ p \in listed)]
  /\ UNCHANGED <<queue, threads, shutdown, serverVars, seed, events>>

(* handle_delete *)
HandleDelete(i) ==
  /\ running[i].answer = "none"
  /\ running[i].kind = "delete"
  /\ LET p == running[i].protocol IN
     /\ running' = [running EXCEPT ![i].answer = IF p \in listed THEN "success" ELSE "error"]
     /\ Forget(p)
     /\ excused' = [excused EXCEPT ![p] = @ \/ Overtakes(i)]
  /\ UNCHANGED <<queue, threads, shutdown, serverVars, tokens, told, expired, seed, events>>

(* An address that was not refreshed for 30 seconds goes. *)
Prune(p) ==
  /\ p \in listed
  /\ expired[p] = 2
  /\ Forget(p)
  /\ UNCHANGED <<poolVars, serverVars, tokens, expired, seed, told, events, excused>>

-----------------------------------------------------------------------------
(* The environment *)

(* A request or its answer is lost, and the job gives up. *)
LoseRequest(i) ==
  /\ Event
  /\ running[i].answer # "error"
  /\ running' = [running EXCEPT ![i].answer = "error"]
  /\ excused' = [excused EXCEPT ![running[i].protocol] = TRUE]
  /\ UNCHANGED <<queue, threads, shutdown, serverVars, tokens, masterVars>>

LoseToken(t) ==
  /\ Event
  /\ t \in tokens
  /\ tokens' = tokens \ {t}
  /\ UNCHANGED <<poolVars, serverVars, masterVars, excused>>

(* The challenges get a new seed each hour, the one before stays valid.  A *)
(* server that registers has had a token of the seed by then.              *)
Reseed ==
  /\ Event
  /\ \A p \in listed : token[p] = seed
  /\ seed' = seed + 1
  /\ UNCHANGED <<poolVars, serverVars, tokens, listed, stored, expired, told, excused>>

(* The master starts anew, with nothing stored and other seeds. *)
RestartMaster ==
  /\ Event
  /\ listed' = {} /\ stored' = -1
  /\ seed' = seed + 2
  /\ UNCHANGED <<poolVars, serverVars, tokens, expired, told, excused>>

(* A second, or 15 seconds, pass.  What was sent has arrived and was       *)
(* answered by then, but for some of the MaxFaults.                        *)
UnderWay == \/ running # <<>> \/ (queue # <<>> /\ threads > 0)
            \/ tokens # {} /\ phase # "down"

Passes(from, expiry) ==
  /\ phase = "running" => \A p \in enabled : next[p] # "now"
  /\ IF UnderWay THEN Event ELSE UNCHANGED events
  /\ next' = [p \in Protocol |-> IF next[p] \in from THEN "now" ELSE next[p]]
  /\ expired' = [p \in Protocol |-> IF p \in listed /\ expired[p] < 2
                                    THEN expired[p] + expiry ELSE expired[p]]
  /\ UNCHANGED <<poolVars, phase, enabled, status, behind, newToken, token, infoSerial, okSerial,
                 tokens, listed, stored, seed, told, excused>>

Elapse ==
  \/ (\E p \in Protocol : next[p] = "soon") /\ Passes({"soon"}, 0)
  \/ (\A p \in Protocol : next[p] # "soon") /\ Passes({"later"}, 1)

Next ==
  \/ \E p \in Protocol : Update(p) \/ Prune(p)
  \/ \E t \in tokens : OnToken(t.protocol, t.token) \/ LoseToken(t)
  \/ \E E \in SUBSET Protocol : OnConfigChange(E)
  \/ FirstUpdate \/ Elapse \/ OnNewInfo \/ OnShutdown \/ DestroyPool \/ Reseed \/ RestartMaster
  \/ Work \/ \E i \in DOMAIN running : 
            HandleRegister(i) \/ HandleDelete(i) \/ Answer(i) \/ LoseRequest(i)

Fairness ==
  /\ \A p \in Protocol : WF_vars(Update(p)) /\ WF_vars(Prune(p))
  /\ \A p \in Protocol : WF_vars(\E t \in tokens : t.protocol = p /\ OnToken(p, t.token))
  /\ WF_vars(Work)
  /\ WF_vars(\E i \in DOMAIN running : HandleRegister(i) \/ HandleDelete(i) \/ Answer(i))
  /\ WF_vars(FirstUpdate) /\ WF_vars(Elapse) /\ WF_vars(DestroyPool)

Spec == Init /\ [][Next]_vars
FairSpec == Spec /\ Fairness

-----------------------------------------------------------------------------
(* Properties *)

(* Answers may come in any order: what the master lists the server knows   *)
(* of when nothing is under way, so that it can delete it.  Excused is a   *)
(* protocol, until it registers anew, when the master handled its requests *)
(* in another order than they were sent, when one was lost, and when the   *)
(* master asked again for a token or information for a listed address.     *)
ListedIsKnown == \A p \in listed : Quiet(p) /\ ~excused[p] => status[p] = "success"

(* A request without the information has been preceded by the same or a    *)
(* newer information that the master took, also when answers of several    *)
(* protocols come in any order and one asks for the information again.     *)
InfoWasTold == -1 <= okSerial /\ okSerial <= told

(* However requests, answers and tokens went, in the end the master lists  *)
(* the enabled protocols of a running server, and no others, and with its  *)
(* newest information; and nothing of a server that stopped.               *)
InSync == /\ listed = (IF phase = "down" THEN {} ELSE enabled)
          /\ listed # {} => stored = infoSerial
Settles == <>[]InSync
=============================================================================
