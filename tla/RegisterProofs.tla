--------------------------- MODULE RegisterProofs ---------------------------
(***************************************************************************)
(* For any number of protocols, workers and events: what the server        *)
(* believes that the master has been told is so, a register request that   *)
(* leaves the information out follows one with it that the master took;    *)
(* and what the master lists, unless it forgot or lost or reordered        *)
(* something itself, the server knows of when nothing is under way.        *)
(***************************************************************************)
EXTENDS Register, FiniteSetTheorems, SequenceTheorems, TLAPS

Answers == {"none", "success", "need_info", "need_challenge", "error"}

Job == [kind : {"register"}, protocol : Protocol, age : Nat, serial : Nat,
        info : BOOLEAN, token : Nat, answer : Answers]
       \union [kind : {"delete"}, protocol : Protocol, answer : Answers]

\* The jobs in the list, and those of the workers: a register request that succeeded
\* carried no information newer than the master ever took.
Fresh == {j \in Job : j.answer = "none"}
Taken(t) == {j \in Job : j.kind = "register" /\ j.answer = "success" => j.serial <= t}

Types == /\ infoSerial \in Nat /\ seed \in Nat
         /\ {okSerial, stored, told} \subseteq Int
         /\ token \in [Protocol -> Nat]
         /\ enabled \subseteq Protocol
         /\ \A t \in tokens : t.protocol \in Protocol /\ t.token \in Nat

Jobs == queue \in Seq(Fresh) /\ running \in Seq(Taken(told))

\* The master has taken what it has.
StoredWasTold == -1 <= stored /\ stored <= told

IInv == Types /\ Jobs /\ StoredWasTold /\ InfoWasTold

-----------------------------------------------------------------------------
(* The jobs. *)

\* What is known of the jobs is about the latest information ever taken.
LEMMA TakenGrows ==
    ASSUME NEW s, NEW t \in Int, NEW u \in Int, t <= u, s \in Seq(Taken(t))
    PROVE  s \in Seq(Taken(u))
<1>1. Taken(t) \subseteq Taken(u)
  <2> SUFFICES ASSUME NEW j \in Taken(t) PROVE j \in Taken(u)
    OBVIOUS
  <2>1. j \in Job /\ (j.kind = "register" => j.serial \in Int)
    BY DEF Taken, Job
  <2> QED
    BY <2>1 DEF Taken
<1> QED
  BY <1>1, SeqMonotonic

\* A job that is done leaves the others.
LEMMA RemovedFrom ==
    ASSUME NEW S, NEW s \in Seq(S), NEW i \in DOMAIN s
    PROVE  RemoveAt(s, i) \in Seq(S)
<1>1. /\ Len(s) \in Nat /\ DOMAIN s = 1 .. Len(s)
      /\ \A k \in 1 .. Len(s) : s[k] \in S
  BY LenProperties, ElementOfSeq
<1>2. i \in Int /\ 1 <= i /\ i <= Len(s)
  BY <1>1
<1>3. \A k \in 1 .. (i - 1) : s[k] \in S
  BY <1>1, <1>2
<1>4. \A k \in (i + 1) .. Len(s) : s[k] \in S
  BY <1>1, <1>2
<1>5. SubSeq(s, 1, i - 1) \in Seq(S)
  BY <1>2, <1>3, SubSeqProperties
<1>6. SubSeq(s, i + 1, Len(s)) \in Seq(S)
  BY <1>1, <1>2, <1>4, SubSeqProperties
<1> QED
  BY <1>5, <1>6, ConcatProperties DEF RemoveAt

\* That newer requests are sent changes nothing of what a job knows.
LEMMA AgedJob ==
    ASSUME NEW j \in Job, NEW S
    PROVE  /\ Older(j, S) \in Job
           /\ Older(j, S).answer = j.answer /\ Older(j, S).kind = j.kind
           /\ j.kind = "register" => Older(j, S).serial = j.serial
BY DEF Older, Job

LEMMA AgedJobs ==
    ASSUME NEW S, NEW t, NEW s
    PROVE  /\ s \in Seq(Fresh) => [i \in DOMAIN s |-> Older(s[i], S)] \in Seq(Fresh)
           /\ s \in Seq(Taken(t)) => [i \in DOMAIN s |-> Older(s[i], S)] \in Seq(Taken(t))
<1>1. ASSUME NEW T, s \in Seq(T), \A j \in T : Older(j, S) \in T
      PROVE  [i \in DOMAIN s |-> Older(s[i], S)] \in Seq(T)
  <2>1. Len(s) \in Nat /\ DOMAIN s = 1 .. Len(s) /\ \A k \in 1 .. Len(s) : s[k] \in T
    BY <1>1, LenProperties, ElementOfSeq
  <2>2. \A k \in 1 .. Len(s) : Older(s[k], S) \in T
    BY <1>1, <2>1
  <2> QED
    BY <2>1, <2>2
<1>2. \A j \in Fresh : Older(j, S) \in Fresh
  BY AgedJob DEF Fresh
<1>3. \A j \in Taken(t) : Older(j, S) \in Taken(t)
  BY AgedJob DEF Taken
<1> QED
  BY <1>1, <1>2, <1>3

LEMMA NewJob ==
    ASSUME NEW p \in Protocol, infoSerial' \in Nat, token' \in [Protocol -> Nat]
    PROVE  RegisterJob(p) \in Fresh /\ DeleteJob(p) \in Fresh
BY DEF RegisterJob, DeleteJob, Fresh, Job, Answers

\* Requests that are sent know as much as the server does.
LEMMA SendJobs ==
    ASSUME Jobs, infoSerial' \in Nat, token' \in [Protocol -> Nat],
           NEW R \in SUBSET Protocol, NEW D \in SUBSET Protocol, NEW nextAfter,
           Send(R, D, nextAfter)
    PROVE  queue' \in Seq(Fresh) /\ running' \in Seq(Taken(told))
<1> DEFINE senders == R \cup {p \in D : status[p] = "success"}
           n == Cardinality(senders)
<1>1. PICK order \in [1..n -> senders] :
         queue' = [i \in DOMAIN queue |-> Older(queue[i], R)]
                   \o [i \in 1..n |-> IF order[i] \in R THEN RegisterJob(order[i])
                                                         ELSE DeleteJob(order[i])]
  BY DEF Send
<1>2. n \in Nat
  <2>1. IsFiniteSet(Protocol) /\ senders \subseteq Protocol
    BY ProtocolAssumption
  <2> QED
    BY <2>1, FS_Subset, FS_CardinalityType
<1>3. \A i \in 1..n : order[i] \in Protocol
  OBVIOUS
<1> DEFINE new == [i \in 1..n |-> IF order[i] \in R THEN RegisterJob(order[i])
                                                     ELSE DeleteJob(order[i])]
<1>4. new \in Seq(Fresh)
  <2>1. \A i \in 1..n : (IF order[i] \in R THEN RegisterJob(order[i])
                                           ELSE DeleteJob(order[i])) \in Fresh
    BY <1>3, NewJob
  <2> QED
    BY <1>2, <2>1
<1>5. [i \in DOMAIN queue |-> Older(queue[i], R)] \in Seq(Fresh)
  BY AgedJobs DEF Jobs
<1>6. queue' \in Seq(Fresh)
  BY <1>1, <1>4, <1>5, ConcatProperties
<1>7. running' \in Seq(Taken(told))
  BY AgedJobs DEF Jobs, Send
<1> QED
  BY <1>6, <1>7

-----------------------------------------------------------------------------
(* The steps. *)

LEMMA ToldInit == Init => IInv
<1> SUFFICES ASSUME Init PROVE IInv
  OBVIOUS
<1>1. queue \in Seq(Fresh) /\ running \in Seq(Taken(told))
  BY DEF Init, PoolInit
<1> QED
  BY <1>1 DEF Init, IInv, Types, Jobs, StoredWasTold, InfoWasTold, NoToken, FirstSeed

\* The server's handlers: nothing that the master has changes, nor okSerial.
LEMMA ServerStep ==
    ASSUME IInv, infoSerial' \in Nat, token' \in [Protocol -> Nat], tokens' \subseteq tokens,
           enabled' \subseteq Protocol, UNCHANGED <<okSerial, masterVars>>,
           \/ UNCHANGED <<queue, running>>
           \/ \E R, D \in SUBSET Protocol : \E nextAfter : Send(R, D, nextAfter)
    PROVE  IInv'
<1>1. Types'
  BY DEF IInv, Types, masterVars
<1>2. queue' \in Seq(Fresh) /\ running' \in Seq(Taken(told))
  BY SendJobs DEF IInv, Jobs
<1> QED
  BY <1>1, <1>2 DEF IInv, Jobs, StoredWasTold, InfoWasTold, masterVars

LEMMA ServerSteps ==
    ASSUME IInv,
           \/ \E p \in Protocol : Update(p)
           \/ \E t \in tokens : OnToken(t.protocol, t.token) \/ LoseToken(t)
           \/ \E E \in SUBSET Protocol : OnConfigChange(E)
           \/ FirstUpdate \/ Elapse \/ OnNewInfo \/ OnShutdown
    PROVE  IInv'
<1>1. infoSerial \in Nat /\ token \in [Protocol -> Nat] /\ enabled \subseteq Protocol
  BY DEF IInv, Types
<1>2. ASSUME NEW p \in Protocol, Update(p)
      PROVE  IInv'
  <2>1. Send({p}, {}, next) /\ {p} \in SUBSET Protocol /\ {} \in SUBSET Protocol
    BY <1>2 DEF Update
  <2>2. UNCHANGED <<enabled, infoSerial, token, okSerial, masterVars, tokens>>
    BY <1>2 DEF Update
  <2> QED
    BY <1>1, <2>1, <2>2, ServerStep
<1>3. ASSUME NEW t \in tokens, OnToken(t.protocol, t.token)
      PROVE  IInv'
  <2>1. t.protocol \in Protocol /\ t.token \in Nat
    BY DEF IInv, Types
  <2>2. token' \in [Protocol -> Nat]
    BY <1>1, <1>3, <2>1 DEF OnToken
  <2>3. \E R, D \in SUBSET Protocol : \E nextAfter : Send(R, D, nextAfter)
    BY <1>3, <2>1 DEF OnToken
  <2>4. tokens' \subseteq tokens /\ UNCHANGED <<enabled, infoSerial, okSerial, masterVars>>
    BY <1>3 DEF OnToken
  <2> QED
    BY <1>1, <2>2, <2>3, <2>4, ServerStep
<1>4. ASSUME NEW t \in tokens, LoseToken(t)
      PROVE  IInv'
  <2>1. /\ UNCHANGED <<enabled, infoSerial, token, okSerial, masterVars, queue, running>>
        /\ tokens' \subseteq tokens
    BY <1>4 DEF LoseToken, poolVars, serverVars
  <2> QED
    BY <1>1, <2>1, ServerStep
<1>5. ASSUME NEW E \in SUBSET Protocol, OnConfigChange(E)
      PROVE  IInv'
  <2>1. \/ UNCHANGED <<queue, running>>
        \/ \E R, D \in SUBSET Protocol : \E nextAfter : Send(R, D, nextAfter)
    <3>1. enabled \in SUBSET Protocol
      BY DEF IInv, Types
    <3>2. E \ enabled \in SUBSET Protocol /\ enabled \ E \in SUBSET Protocol
      BY <3>1
    <3> QED
      BY <1>5, <3>2 DEF OnConfigChange, poolVars
  <2>2. enabled' \subseteq Protocol /\ UNCHANGED <<infoSerial, token, okSerial, masterVars, tokens>>
    BY <1>5 DEF OnConfigChange
  <2> QED
    BY <1>1, <2>1, <2>2, ServerStep
<1>6. CASE FirstUpdate
  <2>1. UNCHANGED <<enabled, infoSerial, token, okSerial, masterVars, tokens, queue, running>>
    BY <1>6 DEF FirstUpdate, poolVars
  <2> QED
    BY <1>1, <2>1, ServerStep
<1>7. CASE Elapse
  <2>1. /\ UNCHANGED <<enabled, infoSerial, token, okSerial, tokens, queue, running>>
        /\ UNCHANGED <<listed, stored, seed, told>>
    BY <1>7 DEF Elapse, Passes, poolVars
  <2> QED
    BY <1>1, <2>1 DEF IInv, Types, Jobs, StoredWasTold, InfoWasTold
<1>8. CASE OnNewInfo
  <2>1. infoSerial' \in Nat /\ UNCHANGED <<enabled, token, okSerial, masterVars, tokens>>
    BY <1>1, <1>8 DEF OnNewInfo
  <2>2. \/ UNCHANGED <<queue, running>>
        \/ \E R, D \in SUBSET Protocol : \E nextAfter : Send(R, D, nextAfter)
    <3>1. CASE phase = "starting" \/ enabled = {}
      BY <1>8, <3>1 DEF OnNewInfo, poolVars
    <3>2. CASE ~(phase = "starting" \/ enabled = {})
      <4>1. PICK S \in SUBSET enabled : \E nextAfter : Send(S, {}, nextAfter)
        BY <1>8, <3>2 DEF OnNewInfo
      <4>2. S \in SUBSET Protocol /\ {} \in SUBSET Protocol
        BY DEF IInv, Types
      <4> QED
        BY <4>1, <4>2
    <3> QED
      BY <3>1, <3>2
  <2> QED
    BY <1>1, <2>1, <2>2, ServerStep
<1>9. CASE OnShutdown
  <2>1. enabled \in SUBSET Protocol /\ {} \in SUBSET Protocol /\ Send({}, enabled, next)
    BY <1>9 DEF OnShutdown, IInv, Types
  <2>2. UNCHANGED <<enabled, infoSerial, token, okSerial, masterVars, tokens>>
    BY <1>9 DEF OnShutdown
  <2> QED
    BY <1>1, <2>1, <2>2, ServerStep
<1> QED
  BY <1>2, <1>3, <1>4, <1>5, <1>6, <1>7, <1>8, <1>9

\* The pool hands the jobs on.
LEMMA PoolSteps ==
    ASSUME IInv, Work \/ DestroyPool
    PROVE  IInv'
<1>1. /\ UNCHANGED <<serverVars, tokens, masterVars>>
      /\ Fetch \/ UNCHANGED <<queue, running>>
  BY DEF Work, DestroyPool, Return, Destroy
<1>2. Jobs'
  <2>1. CASE Fetch
    <3>1. queue \in Seq(Fresh) /\ queue # <<>> /\ running \in Seq(Taken(told))
      BY <2>1 DEF Fetch, IInv, Jobs
    <3>2. Head(queue) \in Fresh /\ Tail(queue) \in Seq(Fresh)
      BY <3>1, HeadTailProperties
    <3>3. Head(queue) \in Taken(told)
      BY <3>2 DEF Fresh, Taken
    <3>4. Append(running, Head(queue)) \in Seq(Taken(told))
      BY <3>1, <3>3, AppendProperties
    <3> QED
      BY <1>1, <2>1, <3>2, <3>4 DEF Fetch, Jobs, masterVars
  <2>2. CASE UNCHANGED <<queue, running>>
    BY <1>1, <2>2 DEF IInv, Jobs, masterVars
  <2> QED
    BY <1>1, <2>1, <2>2
<1> QED
  BY <1>1, <1>2 DEF IInv, Types, StoredWasTold, InfoWasTold, serverVars, masterVars

\* A request gets another answer, which is no success, or one about information
\* that the master has taken by now.
LEMMA Answered ==
    ASSUME IInv, NEW i \in DOMAIN running, NEW answer \in Answers,
           running' = [running EXCEPT ![i].answer = answer],
           told' \in Int, told <= told',
           running[i].kind = "register" /\ answer = "success" => running[i].serial <= told'
    PROVE  running' \in Seq(Taken(told'))
<1>1. told \in Int /\ running \in Seq(Taken(told))
  BY DEF IInv, Types, Jobs
<1>2. running \in Seq(Taken(told'))
  BY <1>1, TakenGrows
<1>3. i \in 1 .. Len(running) /\ running[i] \in Taken(told')
  BY <1>2, LenProperties, ElementOfSeq
<1> DEFINE job == [running[i] EXCEPT !.answer = answer]
<1>4. /\ job \in Job /\ job.kind = running[i].kind /\ job.answer = answer
      /\ job.kind = "register" => job.serial = running[i].serial
  BY <1>3 DEF Taken, Job
<1>5. job \in Taken(told')
  BY <1>4 DEF Taken
<1>6. running' = [running EXCEPT ![i] = job]
  OBVIOUS
<1> HIDE DEF job
<1> QED
  BY <1>2, <1>3, <1>5, <1>6, ExceptSeq

LEMMA MasterSteps ==
    ASSUME IInv,
           \/ \E i \in DOMAIN running : HandleRegister(i) \/ HandleDelete(i) \/ LoseRequest(i)
           \/ \E p \in Protocol : Prune(p)
           \/ Reseed \/ RestartMaster
    PROVE  IInv'
<1>1. /\ told \in Int /\ stored \in Int /\ okSerial \in Int /\ infoSerial \in Nat /\ seed \in Nat
      /\ token \in [Protocol -> Nat]
      /\ \A t \in tokens : t.protocol \in Protocol /\ t.token \in Nat
      /\ -1 <= stored /\ stored <= told /\ -1 <= okSerial /\ okSerial <= told
      /\ queue \in Seq(Fresh) /\ running \in Seq(Taken(told))
  BY DEF IInv, Types, Jobs, StoredWasTold, InfoWasTold
<1>2. ASSUME NEW i \in DOMAIN running, HandleRegister(i)
      PROVE  IInv'
  <2>1. running[i] \in Job /\ running[i].kind = "register"
    BY <1>1, <1>2, LenProperties, ElementOfSeq DEF Taken, HandleRegister
  <2>2. running[i].serial \in Nat /\ running[i].protocol \in Protocol
    BY <2>1 DEF Job
  <2> DEFINE serial == running[i].serial
  <2>3. PICK result \in {"need_challenge", "need_info", "success"} :
           /\ running' = [running EXCEPT ![i].answer = result]
           /\ IF result = "success"
              THEN /\ stored' = IF serial > stored THEN serial ELSE stored
                   /\ told' = IF stored' > told THEN stored' ELSE told
              ELSE UNCHANGED <<stored, told>>
    BY <1>2 DEF HandleRegister
  <2>4. /\ told' \in Int /\ stored' \in Int /\ told <= told'
        /\ -1 <= stored' /\ stored' <= told'
        /\ result = "success" => serial <= told'
    BY <1>1, <2>2, <2>3, SMTT(60)
  <2>5. running' \in Seq(Taken(told'))
    BY <2>3, <2>4, Answered DEF Answers
  <2>6. \A t \in tokens' : t.protocol \in Protocol /\ t.token \in Nat
    <3>1. tokens' \subseteq tokens \union {[protocol |-> running[i].protocol, token |-> seed]}
      BY <1>2 DEF HandleRegister
    <3> QED
      BY <1>1, <2>2, <3>1
  <2>7. UNCHANGED <<queue, infoSerial, seed, okSerial, token, enabled>>
    BY <1>2 DEF HandleRegister, serverVars
  <2>8. -1 <= okSerial' /\ okSerial' <= told'
    BY <1>1, <2>4, <2>7
  <2> QED
    BY <1>1, <2>4, <2>5, <2>6, <2>7, <2>8
       DEF IInv, Types, Jobs, StoredWasTold, InfoWasTold
<1>3. ASSUME NEW i \in DOMAIN running, HandleDelete(i)
      PROVE  IInv'
  <2>1. PICK answer \in {"success", "error"} : running' = [running EXCEPT ![i].answer = answer]
    BY <1>3 DEF HandleDelete
  <2>2. running[i].kind = "delete" /\ stored' \in {-1, stored}
    BY <1>3 DEF HandleDelete, Forget
  <2>3. UNCHANGED <<queue, infoSerial, seed, okSerial, token, enabled, tokens, told>>
    BY <1>3 DEF HandleDelete, serverVars
  <2>4. /\ told' \in Int /\ told <= told' /\ answer \in Answers
        /\ ~(running[i].kind = "register" /\ answer = "success")
    BY <1>1, <2>1, <2>2, <2>3 DEF Answers
  <2>5. running' \in Seq(Taken(told'))
    BY <2>1, <2>4, Answered
  <2> QED
    BY <1>1, <2>2, <2>3, <2>5, SMTT(60) DEF IInv, Types, Jobs, StoredWasTold, InfoWasTold
<1>4. ASSUME NEW i \in DOMAIN running, LoseRequest(i)
      PROVE  IInv'
  <2>1. running' = [running EXCEPT ![i].answer = "error"]
    BY <1>4 DEF LoseRequest
  <2>2. UNCHANGED <<queue, infoSerial, seed, okSerial, token, enabled, tokens, told, stored>>
    BY <1>4 DEF LoseRequest, serverVars, masterVars
  <2>3. told' \in Int /\ told <= told' /\ "error" \in Answers /\ "error" # "success"
    BY <1>1, <2>2 DEF Answers
  <2>4. running' \in Seq(Taken(told'))
    BY <2>1, <2>3, Answered
  <2> QED
    BY <1>1, <2>2, <2>4 DEF IInv, Types, Jobs, StoredWasTold, InfoWasTold
<1>5. CASE (\E p \in Protocol : Prune(p)) \/ Reseed \/ RestartMaster
  <2>1. /\ stored' \in {-1, stored} /\ seed' \in Nat
        /\ UNCHANGED <<queue, running, infoSerial, okSerial, token, enabled, tokens, told>>
    BY <1>1, <1>5, SMTT(60) DEF Prune, Forget, Reseed, RestartMaster, poolVars, serverVars
  <2> QED
    BY <1>1, <2>1 DEF IInv, Types, Jobs, StoredWasTold, InfoWasTold
<1> QED
  BY <1>2, <1>3, <1>4, <1>5

\* An answer reaches the server, which believes what it hears.
LEMMA AnswerStep ==
    ASSUME IInv, NEW i \in DOMAIN running, Answer(i)
    PROVE  IInv'
<1> DEFINE job == running[i]
<1>1. running \in Seq(Taken(told)) /\ told \in Int /\ okSerial \in Int
  BY DEF IInv, Types, Jobs
<1>2. job \in Taken(told)
  BY <1>1, LenProperties, ElementOfSeq
<1>3. running' \in Seq(Taken(told))
  BY <1>1, RemovedFrom DEF Answer, Finish
<1>4. UNCHANGED <<queue, infoSerial, token, enabled, tokens, masterVars>>
  BY DEF Answer, Finish
<1>5. okSerial' = OkSerial(job)
  BY DEF Answer
<1>6. okSerial' \in Int /\ -1 <= okSerial' /\ okSerial' <= told
  <2>1. -1 <= okSerial /\ okSerial <= told
    BY DEF IInv, InfoWasTold
  <2>2. CASE Heard(job)
    <3>1. job.serial \in Nat /\ (job.answer = "success" => job.serial <= told)
      BY <1>2, <2>2 DEF Heard, Taken, Job
    <3> HIDE DEF job
    <3> QED
      BY <1>1, <1>5, <2>1, <3>1 DEF OkSerial
  <2>3. CASE ~Heard(job)
    BY <1>1, <1>5, <2>1, <2>3 DEF OkSerial
  <2> QED
    BY <2>2, <2>3
<1> QED
  BY <1>3, <1>4, <1>6 DEF IInv, Types, Jobs, StoredWasTold, InfoWasTold, masterVars

-----------------------------------------------------------------------------
(* The theorems. *)

LEMMA ToldStep ==
    ASSUME IInv, [Next]_vars
    PROVE  IInv'
<1>1. CASE UNCHANGED vars
  BY <1>1 DEF vars, poolVars, serverVars, masterVars, IInv, Types, Jobs, StoredWasTold,
              InfoWasTold
<1>2. CASE Next
  BY <1>2, ServerSteps, PoolSteps, MasterSteps, AnswerStep DEF Next
<1> QED
  BY <1>1, <1>2

\* What the server believes that the master has been told is so, whatever answers
\* and requests are lost or come late, and however often the master forgets.
THEOREM TheMasterWasTold == Spec => []InfoWasTold
<1>1. IInv => InfoWasTold
  BY DEF IInv
<1> QED
  BY <1>1, ToldInit, ToldStep, PTL DEF Spec

-----------------------------------------------------------------------------
(* What the master lists the server knows of.                              *)

IsReg(j, p) == j.kind = "register" /\ j.protocol = p

\* Of two requests of a protocol the one taken, or added, later is newer.
OldFirst(s) ==
    \A k, l \in 1 .. Len(s) :
       /\ k < l
       /\ s[k].kind = "register" /\ s[l].kind = "register" /\ s[k].protocol = s[l].protocol
       => s[l].age < s[k].age

\* The master has handled what was sent for p in that order.
HandledFirst(s, p) ==
    \A k, l \in 1 .. Len(s) :
       k < l /\ s[k].protocol = p /\ s[l].protocol = p /\ s[k].answer = "none"
       => s[l].answer = "none"

\* A request that the master has not handled is newer than all that were answered.
AllNew(s, p, b) ==
    \A k \in 1 .. Len(s) : IsReg(s[k], p) /\ s[k].answer = "none" => s[k].age < b

\* A request or delete is still to be handled; or the newest request succeeded and
\* its answer will count; or it has counted.
ToHandle(s, p) == \E k \in 1 .. Len(s) : s[k].protocol = p /\ s[k].answer = "none"
ToAnswer(s, p, b) ==
    \E k \in 1 .. Len(s) :
       /\ IsReg(s[k], p) /\ s[k].answer = "success" /\ s[k].age < b
       /\ \A l \in 1 .. Len(s) : IsReg(s[l], p) => s[k].age <= s[l].age
Counted(s, p, b) == \A l \in 1 .. Len(s) : IsReg(s[l], p) => b <= s[l].age
IsKnown(s, p, b, st) ==
    ToHandle(s, p) \/ ToAnswer(s, p, b) \/ (st = "success" /\ Counted(s, p, b))

\* All that is known of a protocol while nothing excuses it.
InOrder(s, p, b) == HandledFirst(s, p) /\ AllNew(s, p, b)
Row(s, p, b, st, isListed) == InOrder(s, p, b) /\ (isListed => IsKnown(s, p, b, st))

\* The jobs in the order in which they were sent.
Sent == running \o queue

RowTypes == /\ behind \in [Protocol -> Nat]
            /\ status \in [Protocol -> Answers]
            /\ excused \in [Protocol -> BOOLEAN]
            /\ listed \subseteq Protocol

KnownInv == /\ RowTypes
            /\ OldFirst(Sent)
            /\ \A p \in Protocol : ~excused[p] =>
                  Row(Sent, p, behind[p], status[p], p \in listed)

-----------------------------------------------------------------------------
(* The jobs as one sequence. *)

LEMMA JobSeq ==
    ASSUME NEW s \in Seq(Job)
    PROVE  /\ Len(s) \in Nat
           /\ \A k \in 1 .. Len(s) : s[k] \in Job /\ (s[k].kind = "register" => s[k].age \in Nat)
<1>1. Len(s) \in Nat /\ \A k \in 1 .. Len(s) : s[k] \in Job
  BY LenProperties, ElementOfSeq
<1>2. \A j \in Job : j.kind = "register" => j.age \in Nat
  BY DEF Job
<1> QED
  BY <1>1, <1>2

\* t is s without its i-th element.
Without(s, t, i) == /\ Len(t) = Len(s) - 1
                    /\ \A k \in 1 .. Len(t) : t[k] = IF k < i THEN s[k] ELSE s[k + 1]

\* The answer of a request counts if it is newer than those answered before.
Hears(job, p, b, c, st, su) ==
    IF IsReg(job, p) /\ job.answer # "error" /\ job.age < b
    THEN c = job.age /\ su = job.answer ELSE c = b /\ su = st

LEMMA AnsweredRow ==
    ASSUME NEW s \in Seq(Job), NEW t \in Seq(Job), NEW i \in 1 .. Len(s), Without(s, t, i),
           OldFirst(s), s[i].answer # "none",
           NEW p, NEW b \in Nat, NEW st, NEW isListed \in BOOLEAN, Row(s, p, b, st, isListed),
           NEW c \in Nat, NEW su, Hears(s[i], p, b, c, st, su)
    PROVE  Row(t, p, c, su, isListed)
<1>0. IF IsReg(s[i], p) /\ s[i].answer # "error" /\ s[i].age < b
      THEN c = s[i].age /\ su = s[i].answer ELSE c = b /\ su = st
  BY DEF Hears
<1> DEFINE At(k) == IF k < i THEN k ELSE k + 1
<1>1. /\ Len(s) \in Nat /\ Len(t) = Len(s) - 1
      /\ \A k \in 1 .. Len(t) : At(k) \in 1 .. Len(s) /\ t[k] = s[At(k)] /\ At(k) # i
      /\ \A k, l \in 1 .. Len(t) : k < l => At(k) < At(l)
      /\ \A k \in 1 .. Len(s) : k # i => \E l \in 1 .. Len(t) : At(l) = k
  <2>1. Len(s) \in Nat /\ Len(t) = Len(s) - 1 /\ i \in Nat /\ 1 <= i /\ i <= Len(s)
    BY JobSeq DEF Without
  <2>2. ASSUME NEW k \in 1 .. Len(s), k # i
        PROVE  \E l \in 1 .. Len(t) : At(l) = k
    <3>1. CASE k < i
      BY <2>1, <3>1, SMTT(60)
    <3>2. CASE ~(k < i)
      <4>1. k - 1 \in 1 .. Len(t) /\ ~(k - 1 < i) /\ (k - 1) + 1 = k
        BY <2>1, <2>2, <3>2
      <4> QED
        BY <4>1
    <3> QED
      BY <3>1, <3>2
  <2> QED
    BY <2>1, <2>2, SMTT(60) DEF Without
<1>2. \A k \in 1 .. Len(s) : s[k].kind = "register" => s[k].age \in Nat
  BY JobSeq
<1> HIDE DEF At
<1>3. InOrder(s, p, b) /\ (isListed => IsKnown(s, p, b, st))
  BY DEF Row
<1>4. HandledFirst(t, p)
  <2> SUFFICES ASSUME NEW k \in 1 .. Len(t), NEW l \in 1 .. Len(t), k < l,
                      t[k].protocol = p, t[l].protocol = p, t[k].answer = "none"
               PROVE  t[l].answer = "none"
    BY DEF HandledFirst
  <2>1. At(k) \in 1 .. Len(s) /\ At(l) \in 1 .. Len(s) /\ At(k) < At(l)
    BY <1>1
  <2>2. t[k] = s[At(k)] /\ t[l] = s[At(l)]
    BY <1>1
  <2> QED
    BY <1>3, <2>1, <2>2 DEF InOrder, HandledFirst
<1>5. AllNew(t, p, c)
  <2> SUFFICES ASSUME NEW k \in 1 .. Len(t), IsReg(t[k], p), t[k].answer = "none"
               PROVE  t[k].age < c
    BY DEF AllNew
  <2>1. At(k) \in 1 .. Len(s) /\ At(k) # i /\ t[k] = s[At(k)] /\ t[k].age < b
    BY <1>1, <1>3 DEF InOrder, AllNew
  <2>2. CASE c = b
    BY <2>1, <2>2
  <2>3. CASE IsReg(s[i], p) /\ c = s[i].age
    <3>1. ~(At(k) < i)
      BY <1>3, <2>1, <2>3 DEF InOrder, HandledFirst, IsReg
    <3>2. i < At(k)
      BY <1>1, <2>1, <3>1
    <3> QED
      BY <2>1, <2>3, <3>2 DEF OldFirst, IsReg
  <2> QED
    BY <1>0, <2>2, <2>3
<1>6. ASSUME isListed
      PROVE  IsKnown(t, p, c, su)
  <2>1. CASE ToHandle(s, p)
    <3>1. PICK k \in 1 .. Len(s) : s[k].protocol = p /\ s[k].answer = "none"
      BY <2>1 DEF ToHandle
    <3>2. PICK l \in 1 .. Len(t) : At(l) = k
      BY <1>1, <3>1
    <3>3. ToHandle(t, p)
      BY <1>1, <3>1, <3>2 DEF ToHandle
    <3> QED
      BY <3>3 DEF IsKnown
  <2>2. CASE ToAnswer(s, p, b)
    <3>1. PICK k \in 1 .. Len(s) :
             /\ IsReg(s[k], p) /\ s[k].answer = "success" /\ s[k].age < b
             /\ \A l \in 1 .. Len(s) : IsReg(s[l], p) => s[k].age <= s[l].age
      BY <2>2 DEF ToAnswer
    <3>2. CASE k = i
      <4>1. c = s[i].age /\ su = "success"
        BY <1>0, <3>1, <3>2
      <4>2. Counted(t, p, c)
        BY <1>1, <3>1, <3>2, <4>1 DEF Counted
      <4> QED
        BY <4>1, <4>2 DEF IsKnown
    <3>3. CASE k # i
      <4>1. PICK m \in 1 .. Len(t) : At(m) = k
        BY <1>1, <3>3
      <4>2. s[k].age < c
        <5>1. CASE c = b
          BY <3>1, <5>1
        <5>2. CASE IsReg(s[i], p) /\ c = s[i].age
          <6>1. s[k].age # s[i].age
            <7>1. k < i \/ i < k
              BY <1>1, <3>3
            <7>2. s[k].age \in Nat /\ s[i].age \in Nat
              BY <1>2, <3>1, <5>2 DEF IsReg
            <7>3. s[i].age < s[k].age \/ s[k].age < s[i].age
              BY <3>1, <5>2, <7>1 DEF OldFirst, IsReg
            <7> QED
              BY <7>2, <7>3
          <6>2. s[k].age <= s[i].age /\ s[k].age \in Nat /\ s[i].age \in Nat
            BY <1>2, <3>1, <5>2 DEF IsReg
          <6> QED
            BY <5>2, <6>1, <6>2, SMTT(60)
        <5> QED
          BY <1>0, <5>1, <5>2
      <4>3. /\ IsReg(t[m], p) /\ t[m].answer = "success" /\ t[m].age < c
            /\ \A l \in 1 .. Len(t) : IsReg(t[l], p) => t[m].age <= t[l].age
        BY <1>1, <3>1, <4>1, <4>2
      <4>4. ToAnswer(t, p, c)
        BY <4>3 DEF ToAnswer
      <4> QED
        BY <4>4 DEF IsKnown
    <3> QED
      BY <3>2, <3>3
  <2>3. CASE st = "success" /\ Counted(s, p, b)
    <3>1. c = b /\ su = st
      <4>1. IsReg(s[i], p) => b <= s[i].age /\ s[i].age \in Nat
        BY <1>2, <2>3 DEF Counted, IsReg
      <4> QED
        BY <1>0, <4>1
    <3>2. Counted(t, p, c)
      BY <1>1, <2>3, <3>1 DEF Counted
    <3> QED
      BY <2>3, <3>1, <3>2 DEF IsKnown
  <2> QED
    BY <1>3, <1>6, <2>1, <2>2, <2>3 DEF IsKnown
<1> QED
  BY <1>4, <1>5, <1>6 DEF Row, InOrder

LEMMA AnsweredOrder ==
    ASSUME NEW s \in Seq(Job), NEW t \in Seq(Job), NEW i \in 1 .. Len(s), Without(s, t, i),
           OldFirst(s)
    PROVE  OldFirst(t)
<1> DEFINE At(k) == IF k < i THEN k ELSE k + 1
<1>1. Len(s) \in Nat /\ Len(t) = Len(s) - 1 /\ i \in Nat /\ 1 <= i /\ i <= Len(s)
  BY JobSeq DEF Without
<1>2. /\ \A k \in 1 .. Len(t) : At(k) \in 1 .. Len(s) /\ t[k] = s[At(k)]
      /\ \A k, l \in 1 .. Len(t) : k < l => At(k) < At(l)
  BY <1>1, SMTT(60) DEF Without
<1> HIDE DEF At
<1> QED
  BY <1>2 DEF OldFirst

\* The i-th request gets the answer a.
Replied(s, t, i, a) ==
    /\ Len(t) = Len(s)
    /\ \A k \in 1 .. Len(s) :
          /\ t[k].kind = s[k].kind /\ t[k].protocol = s[k].protocol
          /\ s[k].kind = "register" => t[k].age = s[k].age
          /\ t[k].answer = IF k = i THEN a ELSE s[k].answer

\* It is p's, the first that the master handles, and succeeds if p is listed; or that
\* of another protocol.
Handled(s, i, a, p, isListed, willBe) ==
    IF s[i].protocol = p
    THEN /\ s[i].answer = "none"
         /\ \A k \in 1 .. i - 1 : s[k].protocol = p => s[k].answer # "none"
         /\ willBe => s[i].kind = "register" /\ a = "success"
    ELSE willBe => isListed

LEMMA RepliedOrder ==
    ASSUME NEW s, NEW t, NEW i, NEW a, Replied(s, t, i, a), OldFirst(s)
    PROVE  OldFirst(t)
BY DEF Replied, OldFirst

LEMMA HandledRow ==
    ASSUME NEW s \in Seq(Job), NEW t, NEW i \in 1 .. Len(s), NEW a,
           Replied(s, t, i, a), a # "none", OldFirst(s),
           NEW p, NEW b \in Nat, NEW st, NEW isListed \in BOOLEAN, Row(s, p, b, st, isListed),
           NEW willBe \in BOOLEAN, Handled(s, i, a, p, isListed, willBe)
    PROVE  Row(t, p, b, st, willBe)
<1>0. /\ s[i].protocol = p =>
            /\ s[i].answer = "none"
            /\ \A k \in 1 .. i - 1 : s[k].protocol = p => s[k].answer # "none"
            /\ willBe => s[i].kind = "register" /\ a = "success"
      /\ s[i].protocol # p => (willBe => isListed)
  BY DEF Handled
<1>1. /\ InOrder(s, p, b) /\ (isListed => IsKnown(s, p, b, st))
      /\ Len(s) \in Nat
      /\ \A k \in 1 .. Len(s) : s[k].kind = "register" => s[k].age \in Nat
  BY JobSeq DEF Row
<1>2. /\ Len(t) = Len(s)
      /\ \A k \in 1 .. Len(s) : /\ t[k].protocol = s[k].protocol /\ t[k].kind = s[k].kind
                                /\ s[k].kind = "register" => t[k].age = s[k].age
                                /\ k # i => t[k].answer = s[k].answer
      /\ t[i].answer = a
  BY DEF Replied
<1>3. HandledFirst(t, p)
  <2> SUFFICES ASSUME NEW k \in 1 .. Len(t), NEW l \in 1 .. Len(t), k < l,
                      t[k].protocol = p, t[l].protocol = p, t[k].answer = "none"
               PROVE  t[l].answer = "none"
    BY DEF HandledFirst
  <2>1. k # i /\ s[k].answer = "none" /\ s[k].protocol = p /\ s[l].protocol = p
    BY <1>2
  <2>2. l # i
    BY <1>0, <1>1, <1>2, <2>1
  <2> QED
    BY <1>1, <1>2, <2>1, <2>2 DEF InOrder, HandledFirst
<1>4. AllNew(t, p, b)
  BY <1>1, <1>2 DEF InOrder, AllNew, IsReg
<1>5. ASSUME willBe, s[i].protocol = p
      PROVE  IsKnown(t, p, b, st)
  <2>1. CASE \E k \in 1 .. Len(s) : k # i /\ s[k].protocol = p /\ s[k].answer = "none"
    BY <1>2, <2>1 DEF IsKnown, ToHandle
  <2>2. CASE ~ \E k \in 1 .. Len(s) : k # i /\ s[k].protocol = p /\ s[k].answer = "none"
    <3>1. IsReg(s[i], p) /\ s[i].age < b /\ s[i].age \in Nat
      BY <1>0, <1>1, <1>5 DEF InOrder, AllNew, IsReg
    <3>2. ASSUME NEW l \in 1 .. Len(s), IsReg(s[l], p)
          PROVE  s[i].age <= s[l].age
      <4>1. CASE l = i
        BY <3>1, <4>1
      <4>2. CASE l # i
        <5>1. s[l].answer # "none" /\ s[l].protocol = p
          BY <2>2, <3>2, <4>2 DEF IsReg
        <5>2. ~(i < l)
          BY <1>0, <1>1, <1>5, <5>1 DEF InOrder, HandledFirst
        <5>3. l < i
          BY <1>1, <4>2, <5>2
        <5> QED
          BY <1>1, <3>1, <3>2, <5>3 DEF OldFirst, IsReg
      <4> QED
        BY <4>1, <4>2
    <3>3. /\ IsReg(t[i], p) /\ t[i].answer = "success" /\ t[i].age < b
          /\ \A l \in 1 .. Len(t) : IsReg(t[l], p) => t[i].age <= t[l].age
      BY <1>0, <1>2, <1>5, <3>1, <3>2, SMTT(60) DEF IsReg
    <3> QED
      BY <1>2, <3>3 DEF IsKnown, ToAnswer
  <2> QED
    BY <2>1, <2>2
<1>6. ASSUME willBe, s[i].protocol # p
      PROVE  IsKnown(t, p, b, st)
  <2>1. IsKnown(s, p, b, st)
    BY <1>0, <1>1, <1>6
  <2>2. \A k \in 1 .. Len(s) : s[k].protocol = p => t[k].answer = s[k].answer
    BY <1>2, <1>6
  <2>3. ToHandle(s, p) => ToHandle(t, p)
    BY <1>2, <2>2 DEF ToHandle
  <2>4. ToAnswer(s, p, b) => ToAnswer(t, p, b)
    <3> SUFFICES ASSUME ToAnswer(s, p, b) PROVE ToAnswer(t, p, b)
      OBVIOUS
    <3>1. PICK k \in 1 .. Len(s) :
             /\ IsReg(s[k], p) /\ s[k].answer = "success" /\ s[k].age < b
             /\ \A l \in 1 .. Len(s) : IsReg(s[l], p) => s[k].age <= s[l].age
      BY DEF ToAnswer
    <3>2. /\ IsReg(t[k], p) /\ t[k].answer = "success" /\ t[k].age < b
          /\ \A l \in 1 .. Len(t) : IsReg(t[l], p) => t[k].age <= t[l].age
      BY <1>2, <2>2, <3>1 DEF IsReg
    <3> QED
      BY <1>2, <3>2 DEF ToAnswer
  <2>5. Counted(s, p, b) => Counted(t, p, b)
    BY <1>2 DEF Counted, IsReg
  <2> QED
    BY <2>1, <2>3, <2>4, <2>5 DEF IsKnown
<1> QED
  BY <1>3, <1>4, <1>5, <1>6 DEF Row, InOrder

\* The sequence t is s, each request of S older by one, and new after it, which has
\* one job for each of the protocols in senders.
Sends(s, t, S, new) ==
    /\ Len(t) = Len(s) + Len(new)
    /\ \A k \in 1 .. Len(s) : t[k] = Older(s[k], S)
    /\ \A k \in 1 .. Len(new) : t[Len(s) + k] = new[k]

\* A new request, or delete, is fresh, and the only new one for its protocol.
IsNew(new, S) ==
    /\ \A k \in 1 .. Len(new) :
          /\ new[k] \in Job /\ new[k].answer = "none"
          /\ new[k].kind = "register" => new[k].age = 0 /\ new[k].protocol \in S
    /\ \A k, l \in 1 .. Len(new) : new[k].protocol = new[l].protocol => k = l

LEMMA OlderAge ==
    ASSUME NEW j \in Job, NEW S
    PROVE  /\ Older(j, S).kind = j.kind /\ Older(j, S).protocol = j.protocol
           /\ Older(j, S).answer = j.answer
           /\ j.kind = "register" =>
                 Older(j, S).age = IF j.protocol \in S THEN j.age + 1 ELSE j.age
BY DEF Older, Job

LEMMA SentOrder ==
    ASSUME NEW s \in Seq(Job), NEW new \in Seq(Job), NEW t, NEW S,
           Sends(s, t, S, new), IsNew(new, S), OldFirst(s)
    PROVE  OldFirst(t)
<1>1. /\ Len(s) \in Nat /\ Len(new) \in Nat
      /\ \A k \in 1 .. Len(s) : s[k] \in Job /\ (s[k].kind = "register" => s[k].age \in Nat)
  BY JobSeq
<1> SUFFICES ASSUME NEW k \in 1 .. Len(t), NEW l \in 1 .. Len(t), k < l,
                    t[k].kind = "register", t[l].kind = "register",
                    t[k].protocol = t[l].protocol
             PROVE  t[l].age < t[k].age
  BY DEF OldFirst
<1>2. CASE l <= Len(s)
  <2>1. k \in 1 .. Len(s) /\ l \in 1 .. Len(s)
    BY <1>1, <1>2
  <2>2. t[k] = Older(s[k], S) /\ t[l] = Older(s[l], S)
    BY <2>1 DEF Sends
  <2>3. /\ s[k].kind = "register" /\ s[l].kind = "register" /\ s[k].protocol = s[l].protocol
        /\ t[k].age = IF s[k].protocol \in S THEN s[k].age + 1 ELSE s[k].age
        /\ t[l].age = IF s[l].protocol \in S THEN s[l].age + 1 ELSE s[l].age
    BY <1>1, <2>1, <2>2, OlderAge
  <2>4. s[l].age < s[k].age /\ s[k].age \in Nat /\ s[l].age \in Nat
    BY <1>1, <2>1, <2>3 DEF OldFirst
  <2> QED
    BY <2>3, <2>4, SMTT(60)
<1>3. CASE ~(l <= Len(s))
  <2> DEFINE n == l - Len(s)
  <2>1. n \in 1 .. Len(new) /\ l = Len(s) + n
    BY <1>1, <1>3 DEF Sends
  <2>2. t[l] = new[n]
    BY <2>1 DEF Sends
  <2>3. t[l].age = 0 /\ t[l].protocol \in S
    BY <2>1, <2>2 DEF IsNew
  <2>4. CASE k <= Len(s)
    <3>1. k \in 1 .. Len(s)
      BY <1>1, <2>4
    <3>2. t[k] = Older(s[k], S)
      BY <3>1 DEF Sends
    <3>3. s[k].kind = "register" /\ s[k].protocol \in S /\ t[k].age = s[k].age + 1
      BY <1>1, <2>3, <3>1, <3>2, OlderAge
    <3> QED
      BY <1>1, <2>3, <3>1, <3>3
  <2>5. CASE ~(k <= Len(s))
    <3> DEFINE m == k - Len(s)
    <3>1. m \in 1 .. Len(new) /\ k = Len(s) + m /\ m # n
      BY <1>1, <2>5 DEF Sends
    <3>2. t[k] = new[m]
      BY <3>1 DEF Sends
    <3> QED
      BY <2>1, <2>2, <3>1, <3>2 DEF IsNew
  <2> QED
    BY <2>4, <2>5
<1> QED
  BY <1>2, <1>3

\* A request of p, if its protocol is in S, is among the new jobs; its status is
\* forgotten only when a delete is, or when it is no success.
Follows(new, S, p, b, c, st, su) ==
    /\ p \in S => \E k \in 1 .. Len(new) : new[k].protocol = p
    /\ \/ su = st
       \/ st # "success"
       \/ \E k \in 1 .. Len(new) : new[k].protocol = p
    /\ c = IF p \in S THEN b + 1 ELSE b

LEMMA SentRow ==
    ASSUME NEW s \in Seq(Job), NEW new \in Seq(Job), NEW t, NEW S,
           Sends(s, t, S, new), IsNew(new, S),
           NEW p, NEW b \in Nat, NEW st, NEW su, NEW isListed \in BOOLEAN,
           Row(s, p, b, st, isListed), NEW c, Follows(new, S, p, b, c, st, su)
    PROVE  Row(t, p, c, su, isListed)
<1>0. /\ p \in S => \E k \in 1 .. Len(new) : new[k].protocol = p
      /\ \/ su = st
         \/ st # "success"
         \/ \E k \in 1 .. Len(new) : new[k].protocol = p
      /\ c = IF p \in S THEN b + 1 ELSE b
  BY DEF Follows
<1>1. /\ Len(s) \in Nat /\ Len(new) \in Nat
      /\ \A k \in 1 .. Len(s) : s[k] \in Job /\ (s[k].kind = "register" => s[k].age \in Nat)
      /\ InOrder(s, p, b) /\ (isListed => IsKnown(s, p, b, st))
  BY JobSeq DEF Row
<1>2. ASSUME NEW k \in 1 .. Len(s)
      PROVE  /\ k \in 1 .. Len(t)
             /\ t[k].kind = s[k].kind /\ t[k].protocol = s[k].protocol
             /\ t[k].answer = s[k].answer
             /\ IsReg(s[k], p) => t[k].age = IF p \in S THEN s[k].age + 1 ELSE s[k].age
  <2>1. t[k] = Older(s[k], S) /\ s[k] \in Job
    BY <1>1 DEF Sends
  <2>2. k \in 1 .. Len(t)
    BY <1>1 DEF Sends
  <2> QED
    BY <2>1, <2>2, OlderAge DEF IsReg
<1>3. ASSUME NEW k \in 1 .. Len(t), k \notin 1 .. Len(s)
      PROVE  /\ Len(s) < k
             /\ t[k].answer = "none"
             /\ t[k].kind = "register" => t[k].age = 0 /\ t[k].protocol \in S
  <2> DEFINE n == k - Len(s)
  <2>1. n \in 1 .. Len(new) /\ k = Len(s) + n /\ Len(s) < k
    BY <1>1, <1>3 DEF Sends
  <2>2. t[k] = new[n]
    BY <2>1 DEF Sends
  <2> QED
    BY <2>1, <2>2 DEF IsNew
<1>4. HandledFirst(t, p)
  <2> SUFFICES ASSUME NEW k \in 1 .. Len(t), NEW l \in 1 .. Len(t), k < l,
                      t[k].protocol = p, t[l].protocol = p, t[k].answer = "none"
               PROVE  t[l].answer = "none"
    BY DEF HandledFirst
  <2>1. CASE l \in 1 .. Len(s)
    <3>1. k \in 1 .. Len(s)
      BY <1>1, <2>1
    <3>2. s[k].protocol = p /\ s[l].protocol = p /\ s[k].answer = "none"
      BY <1>2, <2>1, <3>1
    <3>3. s[l].answer = "none"
      BY <1>1, <2>1, <3>1, <3>2 DEF InOrder, HandledFirst
    <3> QED
      BY <1>2, <2>1, <3>3
  <2>2. CASE l \notin 1 .. Len(s)
    BY <1>3, <2>2
  <2> QED
    BY <2>1, <2>2
<1>5. AllNew(t, p, c)
  <2> SUFFICES ASSUME NEW k \in 1 .. Len(t), IsReg(t[k], p), t[k].answer = "none"
               PROVE  t[k].age < c
    BY DEF AllNew
  <2>1. CASE k \in 1 .. Len(s)
    <3>1. IsReg(s[k], p) /\ s[k].answer = "none" /\ s[k].age \in Nat
      BY <1>1, <1>2, <2>1 DEF IsReg
    <3>2. s[k].age < b
      BY <1>1, <2>1, <3>1 DEF InOrder, AllNew
    <3> QED
      BY <1>0, <1>2, <2>1, <3>1, <3>2
  <2>2. CASE k \notin 1 .. Len(s)
    BY <1>0, <1>3, <2>2 DEF IsReg
  <2> QED
    BY <2>1, <2>2
<1>6. ASSUME NEW k \in 1 .. Len(new), new[k].protocol = p
      PROVE  IsKnown(t, p, c, su)
  <2>1. Len(s) + k \in 1 .. Len(t) /\ t[Len(s) + k] = new[k]
    BY <1>1 DEF Sends
  <2>2. t[Len(s) + k].protocol = p /\ t[Len(s) + k].answer = "none"
    BY <1>6, <2>1 DEF IsNew
  <2> QED
    BY <2>1, <2>2 DEF IsKnown, ToHandle
<1>7. ASSUME isListed, p \notin S, su = st \/ st # "success"
      PROVE  IsKnown(t, p, b, su)
  <2>1. IsKnown(s, p, b, st)
    BY <1>1, <1>7
  <2>2. ToHandle(s, p) => ToHandle(t, p)
    BY <1>2 DEF ToHandle
  <2>3. ASSUME NEW k \in 1 .. Len(t), IsReg(t[k], p)
        PROVE  k \in 1 .. Len(s) /\ IsReg(s[k], p) /\ t[k].age = s[k].age
    <3>1. k \in 1 .. Len(s)
      BY <1>3, <1>7, <2>3 DEF IsReg
    <3> QED
      BY <1>2, <1>7, <2>3, <3>1 DEF IsReg
  <2>4. ToAnswer(s, p, b) => ToAnswer(t, p, b)
    <3> SUFFICES ASSUME ToAnswer(s, p, b) PROVE ToAnswer(t, p, b)
      OBVIOUS
    <3>1. PICK k \in 1 .. Len(s) :
             /\ IsReg(s[k], p) /\ s[k].answer = "success" /\ s[k].age < b
             /\ \A l \in 1 .. Len(s) : IsReg(s[l], p) => s[k].age <= s[l].age
      BY DEF ToAnswer
    <3>2. /\ k \in 1 .. Len(t) /\ IsReg(t[k], p) /\ t[k].answer = "success"
          /\ t[k].age = s[k].age
      BY <1>2, <1>7, <3>1 DEF IsReg
    <3>3. \A l \in 1 .. Len(t) : IsReg(t[l], p) => t[k].age <= t[l].age
      BY <2>3, <3>1, <3>2
    <3> QED
      BY <3>1, <3>2, <3>3 DEF ToAnswer
  <2>5. Counted(s, p, b) => Counted(t, p, b)
    BY <2>3 DEF Counted
  <2> QED
    BY <1>7, <2>1, <2>2, <2>4, <2>5 DEF IsKnown
<1>8. ASSUME isListed
      PROVE  IsKnown(t, p, c, su)
  <2>1. CASE \E k \in 1 .. Len(new) : new[k].protocol = p
    BY <1>6, <2>1
  <2>2. CASE ~ \E k \in 1 .. Len(new) : new[k].protocol = p
    <3>1. p \notin S /\ (su = st \/ st # "success") /\ c = b
      BY <1>0, <2>2
    <3> QED
      BY <1>7, <1>8, <3>1
  <2> QED
    BY <2>1, <2>2
<1> QED
  BY <1>4, <1>5, <1>8 DEF Row, InOrder

\* The first request after a time without any starts afresh.
LEMMA FreshRow ==
    ASSUME NEW s \in Seq(Job), NEW new \in Seq(Job), NEW t, NEW S,
           Sends(s, t, S, new), IsNew(new, S), NEW p \in S, NEW b \in Nat, NEW su,
           \A k \in 1 .. Len(s) : s[k].protocol # p,
           \E k \in 1 .. Len(new) : new[k].protocol = p, NEW isListed \in BOOLEAN
    PROVE  Row(t, p, b + 1, su, isListed)
<1>1. InOrder(s, p, b)
  BY DEF InOrder, HandledFirst, AllNew, IsReg
<1>2. Row(s, p, b, su, FALSE)
  BY <1>1 DEF Row
<1>3. Row(t, p, b + 1, su, FALSE)
  <2>1. Follows(new, S, p, b, b + 1, su, su)
    BY DEF Follows
  <2> QED
    BY <1>2, <2>1, SentRow
<1>4. PICK k \in 1 .. Len(new) : new[k].protocol = p
  OBVIOUS
<1>5. Len(s) + k \in 1 .. Len(t) /\ t[Len(s) + k] = new[k]
  BY JobSeq DEF Sends
<1>6. t[Len(s) + k].protocol = p /\ t[Len(s) + k].answer = "none"
  BY <1>4, <1>5 DEF IsNew
<1>7. ToHandle(t, p)
  BY <1>5, <1>6 DEF ToHandle
<1> QED
  BY <1>3, <1>7 DEF Row, IsKnown

\* A concatenation, element by element.
LEMMA Joined ==
    ASSUME NEW S, NEW r \in Seq(S), NEW q \in Seq(S)
    PROVE  /\ r \o q \in Seq(S) /\ Len(r) \in Nat /\ Len(q) \in Nat
           /\ Len(r \o q) = Len(r) + Len(q)
           /\ \A k \in 1 .. Len(r) : (r \o q)[k] = r[k]
           /\ \A k \in 1 .. Len(q) : (r \o q)[Len(r) + k] = q[k]
           /\ \A k \in 1 .. Len(r) + Len(q) :
                 k \notin 1 .. Len(r) => k - Len(r) \in 1 .. Len(q) /\ (r \o q)[k] = q[k - Len(r)]
<1>1. Len(r) \in Nat /\ Len(q) \in Nat
  BY LenProperties
<1>2. r \o q \in Seq(S) /\ Len(r \o q) = Len(r) + Len(q)
  BY ConcatProperties
<1>3. \A k \in 1 .. Len(r) + Len(q) :
         (r \o q)[k] = IF k <= Len(r) THEN r[k] ELSE q[k - Len(r)]
  BY ConcatProperties
<1>4. ASSUME NEW k \in 1 .. Len(q)
      PROVE  (r \o q)[Len(r) + k] = q[k]
  <2>1. /\ Len(r) + k \in 1 .. Len(r) + Len(q) /\ ~(Len(r) + k <= Len(r))
        /\ (Len(r) + k) - Len(r) = k
    BY <1>1
  <2> QED
    BY <1>3, <2>1
<1>5. ASSUME NEW k \in 1 .. Len(r)
      PROVE  (r \o q)[k] = r[k]
  <2>1. k \in 1 .. Len(r) + Len(q) /\ k <= Len(r)
    BY <1>1
  <2> QED
    BY <1>3, <2>1
<1>6. ASSUME NEW k \in 1 .. Len(r) + Len(q), k \notin 1 .. Len(r)
      PROVE  k - Len(r) \in 1 .. Len(q) /\ (r \o q)[k] = q[k - Len(r)]
  <2>1. k - Len(r) \in 1 .. Len(q) /\ ~(k <= Len(r))
    BY <1>1, <1>6
  <2> QED
    BY <1>3, <2>1
<1> QED
  BY <1>1, <1>2, <1>4, <1>5, <1>6

LEMMA JoinedAt ==
    ASSUME NEW S, NEW r \in Seq(S), NEW q \in Seq(S), NEW k
    PROVE  /\ k \in 1 .. Len(r) => (r \o q)[k] = r[k]
           /\ k \in 1 .. Len(q) => (r \o q)[Len(r) + k] = q[k]
BY Joined

\* The jobs, in the order in which they were sent.
LEMMA SentJobs ==
    ASSUME Jobs
    PROVE  /\ running \in Seq(Job) /\ queue \in Seq(Job) /\ Sent \in Seq(Job)
           /\ \A k \in 1 .. Len(queue) : queue[k].answer = "none"
<1>1. running \in Seq(Job) /\ queue \in Seq(Job)
  <2>1. Taken(told) \subseteq Job /\ Fresh \subseteq Job
    BY DEF Taken, Fresh
  <2> QED
    BY <2>1, SeqMonotonic DEF Jobs
<1>2. \A k \in 1 .. Len(queue) : queue[k] \in Fresh
  BY LenProperties, ElementOfSeq DEF Jobs
<1> QED
  BY <1>1, <1>2, Joined DEF Sent, Fresh

\* An order of the numbers of S has them all.
LEMMA OrderIsOnto ==
    ASSUME NEW S \in SUBSET Nat, IsFiniteSet(S),
           NEW order \in [1 .. Cardinality(S) -> S],
           \A i, j \in 1 .. Cardinality(S) : i < j => order[i] < order[j]
    PROVE  /\ \A p \in S : \E i \in 1 .. Cardinality(S) : order[i] = p
           /\ \A i, j \in 1 .. Cardinality(S) : order[i] = order[j] => i = j
<1> DEFINE n == Cardinality(S)
<1>1. n \in Nat
  BY FS_CardinalityType
<1>2. IsFiniteSet(1 .. n) /\ Cardinality(1 .. n) = n
  BY <1>1, FS_Interval
<1> HIDE DEF n
<1>3. order \in [1 .. n -> S] /\ \A i, j \in 1 .. n : i < j => order[i] < order[j]
  BY DEF n
<1>4. \A i \in 1 .. n : order[i] \in Nat
  BY <1>3
<1>5. ASSUME NEW i \in 1 .. n, NEW j \in 1 .. n, order[i] = order[j]
      PROVE  i = j
  <2>1. ~(i < j) /\ ~(j < i)
    BY <1>3, <1>4, <1>5
  <2> QED
    BY <1>1, <2>1
<1>6. order \in Injection(1 .. n, S)
  BY <1>3, <1>5 DEF Injection, IsInjective
<1>7. order \in Surjection(1 .. n, S)
  BY <1>2, <1>6, FS_Injection DEF n
<1>8. \A p \in S : \E i \in 1 .. n : order[i] = p
  BY <1>7 DEF Surjection
<1> QED
  BY <1>5, <1>8 DEF n

\* The jobs get older and new ones come in.
LEMMA JoinedSends ==
    ASSUME NEW r \in Seq(Job), NEW q \in Seq(Job), NEW rn \in Seq(Job), NEW aged \in Seq(Job),
           NEW new \in Seq(Job), NEW R, Len(rn) = Len(r), Len(aged) = Len(q),
           \A k \in 1 .. Len(r) : rn[k] = Older(r[k], R),
           \A k \in 1 .. Len(q) : aged[k] = Older(q[k], R)
    PROVE  Sends(r \o q, rn \o (aged \o new), R, new)
<1> DEFINE qn == aged \o new
<1>1. Len(r) \in Nat /\ Len(q) \in Nat /\ Len(new) \in Nat /\ Len(r \o q) = Len(r) + Len(q)
  <2>1. Len(r \o q) = Len(r) + Len(q)
    BY Joined
  <2>2. Len(r) \in Nat /\ Len(q) \in Nat /\ Len(new) \in Nat
    OBVIOUS
  <2> QED
    BY <2>1, <2>2
<1>2. qn \in Seq(Job) /\ Len(qn) = Len(q) + Len(new)
  <2>1. aged \o new \in Seq(Job)
    BY Joined
  <2>2. Len(aged \o new) = Len(aged) + Len(new)
    BY Joined
  <2> QED
    BY <2>1, <2>2
<1>3. /\ \A k \in 1 .. Len(q) : qn[k] = aged[k]
      /\ \A k \in 1 .. Len(new) : qn[Len(q) + k] = new[k]
  BY JoinedAt
<1> HIDE DEF qn
<1>4. Len(rn \o qn) = Len(r) + Len(q) + Len(new)
  <2>1. Len(rn \o qn) = Len(rn) + Len(qn)
    BY <1>2, Joined
  <2> QED
    BY <1>1, <1>2, <2>1
<1>5. ASSUME NEW k \in 1 .. Len(r)
      PROVE  (rn \o qn)[k] = Older((r \o q)[k], R)
  <2>1. (rn \o qn)[k] = rn[k]
    BY <1>2, JoinedAt
  <2>2. (r \o q)[k] = r[k]
    BY JoinedAt
  <2> QED
    BY <2>1, <2>2
<1>6. ASSUME NEW m \in 1 .. Len(q) + Len(new)
      PROVE  (rn \o qn)[Len(r) + m] = qn[m]
  <2>1. m \in 1 .. Len(qn)
    BY <1>2
  <2>2. (rn \o qn)[Len(rn) + m] = qn[m]
    BY <1>2, <2>1, JoinedAt
  <2> QED
    BY <2>2
<1>7. ASSUME NEW m \in 1 .. Len(q)
      PROVE  (r \o q)[Len(r) + m] = q[m]
  BY JoinedAt
<1>8. ASSUME NEW k \in 1 .. Len(r \o q)
      PROVE  (rn \o qn)[k] = Older((r \o q)[k], R)
  <2>1. CASE k \in 1 .. Len(r)
    BY <1>5, <2>1
  <2>2. CASE k \notin 1 .. Len(r)
    <3> DEFINE m == k - Len(r)
    <3>1. m \in 1 .. Len(q) /\ m \in 1 .. Len(q) + Len(new) /\ k = Len(r) + m
      BY <1>1, <2>2
    <3> HIDE DEF m
    <3>2. (rn \o qn)[k] = qn[m] /\ (r \o q)[k] = q[m]
      BY <1>6, <1>7, <3>1
    <3> QED
      BY <1>3, <3>1, <3>2
  <2> QED
    BY <2>1, <2>2
<1>9. ASSUME NEW k \in 1 .. Len(new)
      PROVE  (rn \o qn)[Len(r \o q) + k] = new[k]
  <2> DEFINE m == Len(q) + k
  <2>1. m \in 1 .. Len(q) + Len(new) /\ Len(r \o q) + k = Len(r) + m /\ qn[m] = new[k]
    BY <1>1, <1>3
  <2> HIDE DEF m
  <2> QED
    BY <1>6, <2>1
<1>10. Sends(r \o q, rn \o qn, R, new)
  BY <1>1, <1>4, <1>8, <1>9 DEF Sends
<1> QED
  BY <1>10 DEF qn

\* What Send does to the jobs.
LEMMA SendSends ==
    ASSUME Jobs, infoSerial' \in Nat, token' \in [Protocol -> Nat],
           NEW R \in SUBSET Protocol, NEW D \in SUBSET Protocol, NEW nextAfter,
           Send(R, D, nextAfter)
    PROVE  \E new \in Seq(Job) :
              /\ Sends(Sent, Sent', R, new) /\ IsNew(new, R)
              /\ \A p \in R \union {d \in D : status[d] = "success"} :
                    \E k \in 1 .. Len(new) : new[k].protocol = p
<1> DEFINE senders == R \cup {p \in D : status[p] = "success"}
           n == Cardinality(senders)
<1>1. PICK order \in [1..n -> senders] :
         /\ \A i, j \in 1..n : i < j => order[i] < order[j]
         /\ queue' = [i \in DOMAIN queue |-> Older(queue[i], R)]
                   \o [i \in 1..n |-> IF order[i] \in R THEN RegisterJob(order[i])
                                                         ELSE DeleteJob(order[i])]
  BY DEF Send
<1>2. IsFiniteSet(senders) /\ n \in Nat /\ senders \subseteq Protocol /\ senders \subseteq Nat
  <2>1. IsFiniteSet(Protocol) /\ senders \subseteq Protocol /\ Protocol \subseteq Nat
    BY ProtocolAssumption
  <2> QED
    BY <2>1, FS_Subset, FS_CardinalityType
<1>3. /\ \A p \in senders : \E i \in 1 .. n : order[i] = p
      /\ \A i, j \in 1 .. n : order[i] = order[j] => i = j
  <2> HIDE DEF senders
  <2> QED
    BY <1>1, <1>2, OrderIsOnto
<1> DEFINE new == [i \in 1..n |-> IF order[i] \in R THEN RegisterJob(order[i])
                                                     ELSE DeleteJob(order[i])]
<1>4. ASSUME NEW i \in 1..n
      PROVE  /\ new[i] \in Job /\ new[i].answer = "none" /\ new[i].protocol = order[i]
             /\ new[i].kind = "register" => new[i].age = 0 /\ new[i].protocol \in R
  <2>1. order[i] \in Protocol
    BY <1>2
  <2>2. RegisterJob(order[i]) \in Job /\ DeleteJob(order[i]) \in Job
    BY <2>1, NewJob DEF Fresh
  <2>3. CASE order[i] \in R
    <3>1. new[i] = RegisterJob(order[i])
      BY <2>3
    <3> QED
      BY <2>2, <2>3, <3>1 DEF RegisterJob
  <2>4. CASE order[i] \notin R
    <3>1. new[i] = DeleteJob(order[i])
      BY <2>4
    <3> QED
      BY <2>2, <3>1 DEF DeleteJob
  <2> QED
    BY <2>3, <2>4
<1>5. new \in Seq(Job) /\ Len(new) = n
  <2>1. new \in [1 .. n -> Job] /\ DOMAIN new = 1 .. n
    BY <1>4
  <2> HIDE DEF new, n
  <2>2. new \in Seq(Job)
    BY <1>2, <2>1, SeqDef
  <2>3. Len(new) = n
    BY <1>2, <2>1, <2>2, LenProperties
  <2> QED
    BY <2>2, <2>3
<1> HIDE DEF new, n, senders
<1> DEFINE aged == [i \in DOMAIN queue |-> Older(queue[i], R)]
<1>6. queue' = aged \o new
  BY <1>1 DEF aged, new, n, senders
<1>7. running' = [i \in DOMAIN running |-> Older(running[i], R)]
  BY DEF Send
<1> HIDE DEF aged
<1>8. /\ running \in Seq(Job) /\ queue \in Seq(Job)
      /\ Len(running) \in Nat /\ Len(queue) \in Nat
      /\ DOMAIN running = 1 .. Len(running) /\ DOMAIN queue = 1 .. Len(queue)
  BY SentJobs, LenProperties
<1>9. /\ aged \in Seq(Job) /\ Len(aged) = Len(queue)
      /\ \A k \in 1 .. Len(queue) : aged[k] = Older(queue[k], R)
  <2>1. \A k \in 1 .. Len(queue) : queue[k] \in Job
    BY <1>8, ElementOfSeq
  <2>2. \A k \in 1 .. Len(queue) : Older(queue[k], R) \in Job
    BY <2>1, AgedJob
  <2>3. aged = [k \in 1 .. Len(queue) |-> Older(queue[k], R)]
    BY <1>8 DEF aged
  <2>4. aged \in Seq(Job)
    BY <1>8, <2>2, <2>3
  <2>5. DOMAIN aged = 1 .. Len(queue)
    BY <2>3
  <2>6. Len(aged) = Len(queue)
    BY <1>8, <2>4, <2>5, LenProperties
  <2> QED
    BY <2>3, <2>4, <2>6
<1>10. /\ running' \in Seq(Job) /\ Len(running') = Len(running)
       /\ \A k \in 1 .. Len(running) : running'[k] = Older(running[k], R)
  <2>1. \A k \in 1 .. Len(running) : running[k] \in Job
    BY <1>8, ElementOfSeq
  <2>2. \A k \in 1 .. Len(running) : Older(running[k], R) \in Job
    BY <2>1, AgedJob
  <2>3. running' = [k \in 1 .. Len(running) |-> Older(running[k], R)]
    BY <1>7, <1>8
  <2>4. running' \in Seq(Job)
    BY <1>8, <2>2, <2>3
  <2>5. DOMAIN running' = 1 .. Len(running)
    BY <2>3
  <2>6. Len(running') = Len(running)
    BY <1>8, <2>4, <2>5, LenProperties
  <2> QED
    BY <2>3, <2>4, <2>6
<1>11. Sends(Sent, Sent', R, new)
  BY <1>5, <1>6, <1>8, <1>9, <1>10, JoinedSends DEF Sent
<1>12. IsNew(new, R)
  BY <1>3, <1>4, <1>5, SMTT(60) DEF IsNew
<1>13. \A p \in senders : \E k \in 1 .. Len(new) : new[k].protocol = p
  BY <1>3, <1>4, <1>5
<1> QED
  BY <1>5, <1>11, <1>12, <1>13 DEF senders

\* With no job of p under way there is none of p.
LEMMA QuietSent ==
    ASSUME Jobs, NEW p, Quiet(p)
    PROVE  \A k \in 1 .. Len(Sent) : Sent[k].protocol # p
<1>1. /\ \A k \in 1 .. Len(running) : running[k].protocol # p
      /\ \A k \in 1 .. Len(queue) : queue[k].protocol # p
  <2>1. DOMAIN running = 1 .. Len(running) /\ DOMAIN queue = 1 .. Len(queue)
    BY SentJobs, LenProperties
  <2> QED
    BY <2>1 DEF Quiet, Pending, ToSet
<1>2. /\ running \in Seq(Job) /\ queue \in Seq(Job)
  BY SentJobs
<1>3. Len(Sent) = Len(running) + Len(queue)
  BY <1>2, Joined DEF Sent
<1>4. ASSUME NEW k \in 1 .. Len(Sent)
      PROVE  Sent[k].protocol # p
  <2>1. CASE k \in 1 .. Len(running)
    BY <1>1, <1>2, <2>1, Joined DEF Sent
  <2>2. CASE k \notin 1 .. Len(running)
    <3>1. k - Len(running) \in 1 .. Len(queue) /\ Sent[k] = queue[k - Len(running)]
      BY <1>2, <1>3, <2>2, Joined DEF Sent
    <3> QED
      BY <1>1, <3>1
  <2> QED
    BY <2>1, <2>2
<1> QED
  BY <1>4

\* So what is listed stays known.
LEMMA SendKnown ==
    ASSUME Jobs, KnownInv, infoSerial' \in Nat, token' \in [Protocol -> Nat],
           NEW R \in SUBSET Protocol, NEW D \in SUBSET Protocol, NEW nextAfter,
           Send(R, D, nextAfter), UNCHANGED listed
    PROVE  KnownInv'
<1>1. PICK new \in Seq(Job) :
         /\ Sends(Sent, Sent', R, new) /\ IsNew(new, R)
         /\ \A p \in R \union {d \in D : status[d] = "success"} :
               \E k \in 1 .. Len(new) : new[k].protocol = p
  BY SendSends
<1>2. Sent \in Seq(Job)
  BY SentJobs
<1>3. OldFirst(Sent')
  BY <1>1, <1>2, SentOrder DEF KnownInv
<1>4. /\ status' = [p \in Protocol |-> IF p \in D THEN "none" ELSE status[p]]
      /\ behind' = [p \in Protocol |-> IF p \in R THEN behind[p] + 1 ELSE behind[p]]
      /\ excused' = [p \in Protocol |-> excused[p] /\ ~(p \in R /\ Quiet(p))]
  BY DEF Send
<1>5. RowTypes'
  BY <1>4 DEF KnownInv, RowTypes, Answers
<1>6. ASSUME NEW p \in Protocol, ~excused'[p]
      PROVE  Row(Sent', p, behind'[p], status'[p], p \in listed)
  <2>1. behind[p] \in Nat /\ behind'[p] = IF p \in R THEN behind[p] + 1 ELSE behind[p]
    BY <1>4 DEF KnownInv, RowTypes
  <2>2. status'[p] = IF p \in D THEN "none" ELSE status[p]
    BY <1>4
  <2> DEFINE isListed == p \in listed
  <2>3. isListed \in BOOLEAN
    OBVIOUS
  <2> HIDE DEF isListed
  <2>4. CASE ~excused[p]
    <3>1. Row(Sent, p, behind[p], status[p], isListed)
      BY <2>4 DEF KnownInv, isListed
    <3>2. \/ status'[p] = status[p]
          \/ status[p] # "success"
          \/ \E k \in 1 .. Len(new) : new[k].protocol = p
      BY <1>1, <2>2
    <3>3. p \in R => \E k \in 1 .. Len(new) : new[k].protocol = p
      BY <1>1
    <3>4. Row(Sent', p, behind'[p], status'[p], isListed)
      <4> DEFINE s == Sent
                 t == Sent'
                 b == behind[p]
                 c == behind'[p]
                 st == status[p]
                 su == status'[p]
      <4>1. s \in Seq(Job) /\ Sends(s, t, R, new) /\ IsNew(new, R) /\ b \in Nat
        BY <1>1, <1>2, <2>1
      <4>2. Row(s, p, b, st, isListed)
        BY <3>1
      <4>3. Follows(new, R, p, b, c, st, su)
        BY <2>1, <3>2, <3>3 DEF Follows
      <4>4. Row(t, p, c, su, isListed)
        <5> HIDE DEF s, t, b, c, st, su
        <5> QED
          BY <2>3, <4>1, <4>2, <4>3, SentRow
      <4> QED
        BY <4>4
    <3> QED
      BY <2>1, <3>4 DEF isListed
  <2>5. CASE p \in R /\ Quiet(p)
    <3>1. \A k \in 1 .. Len(Sent) : Sent[k].protocol # p
      BY <2>5, QuietSent
    <3>2. \E k \in 1 .. Len(new) : new[k].protocol = p
      BY <1>1, <2>5
    <3>3. Row(Sent', p, behind[p] + 1, status'[p], isListed)
      BY <1>1, <1>2, <2>1, <2>3, <2>5, <3>1, <3>2, FreshRow, ZenonT(60)
    <3> QED
      BY <2>1, <2>5, <3>3 DEF isListed
  <2> QED
    BY <1>4, <1>6, <2>4, <2>5
<1> QED
  BY <1>3, <1>5, <1>6 DEF KnownInv

-----------------------------------------------------------------------------
(* The steps keep what is listed known. *)

\* The first of q becomes the last of r.
LEMMA HandedOver ==
    ASSUME NEW S, NEW r \in Seq(S), NEW q \in Seq(S), q # <<>>
    PROVE  Append(r, Head(q)) \o Tail(q) = r \o q
<1> DEFINE h == Head(q)
           u == Tail(q)
           a == Append(r, h)
<1>1. h \in S /\ u \in Seq(S) /\ Len(u) = Len(q) - 1 /\ Len(q) \in Nat /\ Len(q) # 0
  BY HeadTailProperties, EmptySeq, LenProperties
<1>2. a \in Seq(S) /\ Len(a) = Len(r) + 1 /\ Len(r) \in Nat
  BY <1>1, AppendProperties, LenProperties
<1>3. a[Len(r) + 1] = h /\ \A k \in 1 .. Len(r) : a[k] = r[k]
  BY <1>1, AppendProperties
<1>4. q[1] = h /\ \A k \in 1 .. Len(u) : u[k] = q[k + 1]
  BY <1>1, HeadTailProperties
<1> HIDE DEF h, u, a
<1>5. a \o u \in Seq(S) /\ Len(a \o u) = Len(r) + Len(q)
  <2>1. Len(a \o u) = Len(a) + Len(u)
    BY <1>1, <1>2, ConcatProperties
  <2> QED
    BY <1>1, <1>2, <2>1, ConcatProperties
<1>6. r \o q \in Seq(S) /\ Len(r \o q) = Len(r) + Len(q)
  BY ConcatProperties
<1>7. ASSUME NEW k \in 1 .. Len(r) + Len(q)
      PROVE  (a \o u)[k] = (r \o q)[k]
  <2>1. CASE k <= Len(r)
    <3>1. k \in 1 .. Len(r) /\ k \in 1 .. Len(a)
      BY <1>1, <1>2, <2>1
    <3>2. (a \o u)[k] = a[k]
      BY <1>1, <1>2, <3>1, Joined
    <3>3. (r \o q)[k] = r[k]
      BY <3>1, Joined
    <3> QED
      BY <1>3, <3>1, <3>2, <3>3
  <2>2. CASE k = Len(r) + 1
    <3>1. k \in 1 .. Len(a) /\ 1 \in 1 .. Len(q)
      BY <1>1, <1>2, <2>2
    <3>2. (a \o u)[k] = a[k]
      BY <1>1, <1>2, <3>1, Joined
    <3>3. (r \o q)[Len(r) + 1] = q[1]
      BY <3>1, Joined
    <3> QED
      BY <1>3, <1>4, <2>2, <3>2, <3>3
  <2>3. CASE ~(k <= Len(r)) /\ k # Len(r) + 1
    <3> DEFINE m == k - Len(a)
    <3>1. /\ m \in 1 .. Len(u) /\ k = Len(a) + m
          /\ m + 1 \in 1 .. Len(q) /\ k = Len(r) + (m + 1)
      BY <1>1, <1>2, <2>3
    <3> HIDE DEF m
    <3>2. (a \o u)[Len(a) + m] = u[m]
      BY <1>1, <1>2, <3>1, Joined, SMTT(60)
    <3>3. (r \o q)[Len(r) + (m + 1)] = q[m + 1]
      BY <3>1, Joined
    <3> QED
      BY <1>4, <3>1, <3>2, <3>3
  <2> QED
    BY <1>2, <2>1, <2>2, <2>3
<1>8. a \o u = r \o q
  BY <1>5, <1>6, <1>7, SeqEqual
<1> QED
  BY <1>8 DEF a, h, u

\* The i-th of r leaves.
LEMMA LeftOut ==
    ASSUME NEW S, NEW r \in Seq(S), NEW q \in Seq(S), NEW i \in 1 .. Len(r)
    PROVE  /\ RemoveAt(r, i) \o q \in Seq(S)
           /\ Without(r \o q, RemoveAt(r, i) \o q, i)
<1> DEFINE w == RemoveAt(r, i)
<1>1. Len(r) \in Nat /\ Len(q) \in Nat /\ i \in Nat /\ 1 <= i /\ i <= Len(r)
  BY LenProperties
<1>2. w \in Seq(S)
  <2>1. DOMAIN r = 1 .. Len(r)
    BY LenProperties
  <2> QED
    BY <2>1, RemovedFrom
<1>3. Len(w) = Len(r) - 1 /\ \A k \in 1 .. Len(r) - 1 : w[k] = IF k < i THEN r[k] ELSE r[k + 1]
  <2> DEFINE f == SubSeq(r, 1, i - 1)
             g == SubSeq(r, i + 1, Len(r))
  <2>1. f \in Seq(S) /\ Len(f) = i - 1 /\ \A k \in 1 .. i - 1 : f[k] = r[k]
    <3>1. \A k \in 1 .. i - 1 : r[k] \in S
      BY <1>1, ElementOfSeq
    <3>2. /\ SubSeq(r, 1, i - 1) \in Seq(S)
          /\ Len(SubSeq(r, 1, i - 1)) = (IF 1 <= i - 1 THEN (i - 1) - 1 + 1 ELSE 0)
          /\ \A k \in 1 .. (i - 1) - 1 + 1 : SubSeq(r, 1, i - 1)[k] = r[1 + k - 1]
      BY <1>1, <3>1, SubSeqProperties
    <3>3. \A k \in 1 .. i - 1 : k \in 1 .. (i - 1) - 1 + 1 /\ 1 + k - 1 = k
      BY <1>1
    <3>4. Len(f) = i - 1
      BY <1>1, <3>2
    <3> QED
      BY <3>2, <3>3, <3>4
  <2>2. /\ g \in Seq(S) /\ Len(g) = Len(r) - i
        /\ \A k \in 1 .. Len(r) - i : g[k] = r[i + k]
    <3>1. \A k \in i + 1 .. Len(r) : r[k] \in S
      BY <1>1, ElementOfSeq
    <3>2. /\ SubSeq(r, i + 1, Len(r)) \in Seq(S)
          /\ Len(SubSeq(r, i + 1, Len(r))) = (IF i + 1 <= Len(r) THEN Len(r) - (i + 1) + 1 ELSE 0)
          /\ \A k \in 1 .. Len(r) - (i + 1) + 1 : SubSeq(r, i + 1, Len(r))[k] = r[(i + 1) + k - 1]
      BY <1>1, <3>1, SubSeqProperties
    <3>3. \A k \in 1 .. Len(r) - i : k \in 1 .. Len(r) - (i + 1) + 1 /\ (i + 1) + k - 1 = i + k
      BY <1>1
    <3>4. Len(g) = Len(r) - i
      BY <1>1, <3>2
    <3> QED
      BY <3>2, <3>3, <3>4
  <2>3. w = f \o g
    BY DEF RemoveAt
  <2> HIDE DEF f, g, w
  <2>4. Len(f \o g) = Len(f) + Len(g)
    BY <2>1, <2>2, Joined
  <2>5. ASSUME NEW k \in 1 .. Len(r) - 1
        PROVE  (f \o g)[k] = IF k < i THEN r[k] ELSE r[k + 1]
    <3>1. CASE k < i
      <4>1. k \in 1 .. Len(f) /\ k \in 1 .. i - 1
        BY <1>1, <2>1, <3>1
      <4>2. (f \o g)[k] = f[k]
        BY <2>1, <2>2, <4>1, Joined
      <4> QED
        BY <2>1, <3>1, <4>1, <4>2
    <3>2. CASE ~(k < i)
      <4> DEFINE m == k - Len(f)
      <4>1. m \in 1 .. Len(g) /\ k = Len(f) + m /\ m \in 1 .. Len(r) - i /\ i + m = k + 1
        BY <1>1, <2>1, <2>2, <3>2
      <4> HIDE DEF m
      <4>2. (f \o g)[Len(f) + m] = g[m]
        BY <2>1, <2>2, <4>1, Joined
      <4> QED
        BY <2>2, <3>2, <4>1, <4>2
    <3> QED
      BY <3>1, <3>2
  <2>6. Len(w) = Len(r) - 1
    BY <1>1, <2>1, <2>2, <2>3, <2>4
  <2> QED
    BY <2>3, <2>5, <2>6
<1> HIDE DEF w
<1>4. w \o q \in Seq(S) /\ Len(w \o q) = Len(r) - 1 + Len(q) /\ Len(r \o q) = Len(r) + Len(q)
  BY <1>1, <1>2, <1>3, Joined
<1>5. ASSUME NEW k \in 1 .. Len(w \o q)
      PROVE  (w \o q)[k] = IF k < i THEN (r \o q)[k] ELSE (r \o q)[k + 1]
  <2>1. CASE k \in 1 .. Len(w)
    <3>1. (w \o q)[k] = w[k]
      BY <1>2, <2>1, Joined
    <3>2. k \in 1 .. Len(r) /\ k + 1 \in 1 .. Len(r) /\ k \in 1 .. Len(r) - 1
      BY <1>1, <1>3, <2>1
    <3>3. (r \o q)[k] = r[k] /\ (r \o q)[k + 1] = r[k + 1]
      BY <3>2, Joined
    <3> QED
      BY <1>3, <3>1, <3>2, <3>3
  <2>2. CASE k \notin 1 .. Len(w)
    <3> DEFINE m == k - Len(w)
    <3>1. m \in 1 .. Len(q) /\ k = Len(w) + m /\ ~(k < i) /\ k + 1 = Len(r) + m
      BY <1>1, <1>3, <1>4, <2>2
    <3> HIDE DEF m
    <3>2. (w \o q)[Len(w) + m] = q[m]
      BY <1>2, <3>1, Joined
    <3>3. (r \o q)[Len(r) + m] = q[m]
      BY <3>1, Joined
    <3> QED
      BY <3>1, <3>2, <3>3
  <2> QED
    BY <2>1, <2>2
<1>6. Without(r \o q, w \o q, i)
  BY <1>1, <1>4, <1>5 DEF Without
<1> QED
  BY <1>4, <1>6 DEF w

\* Nothing is sent, handled or heard; the master may forget.
LEMMA StillKnown ==
    ASSUME KnownInv, Sent' = Sent, UNCHANGED <<behind, status, excused>>, listed' \subseteq listed
    PROVE  KnownInv'
<1>1. RowTypes'
  BY DEF KnownInv, RowTypes
<1>2. OldFirst(Sent')
  BY DEF KnownInv
<1>3. ASSUME NEW p \in Protocol, ~excused'[p]
      PROVE  Row(Sent', p, behind'[p], status'[p], p \in listed')
  <2>1. Row(Sent, p, behind[p], status[p], p \in listed)
    BY <1>3 DEF KnownInv
  <2>2. Row(Sent, p, behind[p], status[p], p \in listed')
    BY <2>1 DEF Row
  <2> QED
    BY <2>2
<1> QED
  BY <1>1, <1>2, <1>3 DEF KnownInv

\* The i-th of the jobs that run.
LEMMA SentAt ==
    ASSUME Jobs, NEW i \in DOMAIN running
    PROVE  /\ i \in 1 .. Len(running) /\ i \in 1 .. Len(Sent) /\ i \in Nat
           /\ Sent[i] = running[i] /\ running[i] \in Job
           /\ \A k \in 1 .. i - 1 : k \in 1 .. Len(running) /\ Sent[k] = running[k]
<1>1. running \in Seq(Job) /\ queue \in Seq(Job)
  BY SentJobs
<1>2. i \in 1 .. Len(running) /\ Len(running) \in Nat
  BY <1>1, LenProperties
<1>3. Len(Sent) = Len(running) + Len(queue) /\ Len(queue) \in Nat
  BY <1>1, Joined DEF Sent
<1>4. \A k \in 1 .. Len(running) : Sent[k] = running[k]
  BY <1>1, Joined DEF Sent
<1>5. running[i] \in Job
  BY <1>1, <1>2, ElementOfSeq
<1> QED
  BY <1>2, <1>3, <1>4, <1>5

LEMMA AnswerKnown ==
    ASSUME Jobs, KnownInv, NEW i \in DOMAIN running, Answer(i)
    PROVE  KnownInv'
<1> DEFINE job == running[i]
<1>1. /\ i \in 1 .. Len(running) /\ i \in 1 .. Len(Sent)
      /\ Sent[i] = job /\ job \in Job /\ job.answer # "none"
      /\ Sent \in Seq(Job)
  BY SentAt, SentJobs DEF Answer
<1>2. Sent' \in Seq(Job) /\ Without(Sent, Sent', i)
  <2>1. running' = RemoveAt(running, i) /\ queue' = queue
    BY DEF Answer, Finish
  <2>2. Sent' = RemoveAt(running, i) \o queue
    BY <2>1 DEF Sent
  <2> QED
    BY <1>1, <2>2, SentJobs, LeftOut DEF Sent
<1>3. OldFirst(Sent')
  BY <1>1, <1>2, AnsweredOrder DEF KnownInv
<1>4. /\ UNCHANGED <<listed, excused>>
      /\ status' = IF IsNewest(job) THEN [status EXCEPT ![job.protocol] = job.answer] ELSE status
      /\ behind' = IF IsNewest(job) THEN [behind EXCEPT ![job.protocol] = job.age] ELSE behind
  BY DEF Answer, masterVars
<1>5. /\ job.protocol \in Protocol /\ job.answer \in Answers
      /\ IsNewest(job) => job.kind = "register" /\ job.age \in Nat
  BY <1>1 DEF Job, IsNewest, Heard
<1>6. behind \in [Protocol -> Nat] /\ status \in [Protocol -> Answers]
  BY DEF KnownInv, RowTypes
<1>7. ASSUME NEW p \in Protocol
      PROVE  Hears(job, p, behind[p], behind'[p], status[p], status'[p])
  <2>1. CASE IsNewest(job) /\ job.protocol = p
    <3>1. behind'[p] = job.age /\ status'[p] = job.answer
      BY <1>4, <1>6, <2>1
    <3> QED
      BY <2>1, <3>1 DEF Hears, IsNewest, Heard, IsReg
  <2>2. CASE ~(IsNewest(job) /\ job.protocol = p)
    <3>1. behind'[p] = behind[p] /\ status'[p] = status[p]
      BY <1>4, <1>6, <2>2
    <3> QED
      BY <2>2, <3>1 DEF Hears, IsNewest, Heard, IsReg
  <2> QED
    BY <2>1, <2>2
<1>8. behind' \in [Protocol -> Nat] /\ status' \in [Protocol -> Answers]
  BY <1>4, <1>5, <1>6
<1>9. ASSUME NEW p \in Protocol, ~excused'[p]
      PROVE  Row(Sent', p, behind'[p], status'[p], p \in listed')
  <2> DEFINE isListed == p \in listed
             s == Sent
             t == Sent'
             b == behind[p]
             c == behind'[p]
             st == status[p]
             su == status'[p]
  <2>1. isListed \in BOOLEAN /\ s \in Seq(Job) /\ t \in Seq(Job) /\ i \in 1 .. Len(s)
    BY <1>1, <1>2
  <2>2. Without(s, t, i) /\ OldFirst(s) /\ s[i].answer # "none"
    BY <1>1, <1>2 DEF KnownInv
  <2>3. b \in Nat /\ c \in Nat
    BY <1>6, <1>8
  <2>4. Row(s, p, b, st, isListed)
    BY <1>4, <1>9 DEF KnownInv
  <2>5. Hears(s[i], p, b, c, st, su)
    BY <1>1, <1>7
  <2>6. Row(t, p, c, su, isListed)
    <3> HIDE DEF isListed, s, t, b, c, st, su
    <3> QED
      BY <2>1, <2>2, <2>3, <2>4, <2>5, AnsweredRow
  <2> QED
    BY <1>4, <2>6
<1>10. RowTypes'
  BY <1>4, <1>8 DEF KnownInv, RowTypes
<1> QED
  BY <1>3, <1>9, <1>10 DEF KnownInv

\* A request gets an answer from the master, or is lost.
LEMMA RepliedKnown ==
    ASSUME Jobs, KnownInv, NEW i \in DOMAIN running, NEW a \in Answers \ {"none"},
           running' = [running EXCEPT ![i].answer = a], UNCHANGED <<queue, behind, status>>,
           excused' \in [Protocol -> BOOLEAN], listed' \subseteq Protocol,
           \A p \in Protocol : ~excused'[p] =>
              ~excused[p] /\ Handled(Sent, i, a, p, p \in listed, p \in listed')
    PROVE  KnownInv'
<1> DEFINE job == [running[i] EXCEPT !.answer = a]
<1>1. /\ i \in 1 .. Len(running) /\ i \in 1 .. Len(Sent)
      /\ Sent[i] = running[i] /\ running[i] \in Job /\ Sent \in Seq(Job)
  BY SentAt, SentJobs
<1>2. /\ job \in Job /\ job.answer = a
      /\ job.kind = running[i].kind /\ job.protocol = running[i].protocol
      /\ running[i].kind = "register" => job.age = running[i].age
  BY <1>1 DEF Job
<1>3. running' = [running EXCEPT ![i] = job]
  OBVIOUS
<1> HIDE DEF job
<1>4. running \in Seq(Job) /\ queue \in Seq(Job)
  BY SentJobs
<1>5. /\ running' \in Seq(Job) /\ Len(running') = Len(running)
      /\ \A k \in 1 .. Len(running) : running'[k] = IF k = i THEN job ELSE running[k]
  <2> DEFINE r == running
             u == [r EXCEPT ![i] = job]
  <2>1. r \in Seq(Job) /\ i \in 1 .. Len(r) /\ job \in Job /\ running' = u
    BY <1>1, <1>2, <1>3, <1>4
  <2>2. u \in Seq(Job) /\ Len(u) = Len(r)
    <3> HIDE DEF r
    <3> QED
      BY <2>1, ExceptSeq
  <2>3. \A k \in 1 .. Len(r) : u[k] = IF k = i THEN job ELSE r[k]
    <3> HIDE DEF r
    <3> QED
      BY <2>1, ExceptSeq
  <2> QED
    BY <2>1, <2>2, <2>3
<1>6. Replied(Sent, Sent', i, a)
  <2> DEFINE r == running
             q == queue
             rn == running'
  <2>0. r \in Seq(Job) /\ q \in Seq(Job) /\ rn \in Seq(Job) /\ Len(rn) = Len(r)
    BY <1>4, <1>5
  <2>1. Sent' = rn \o q /\ Sent = r \o q
    BY DEF Sent
  <2>2. /\ \A k \in 1 .. Len(r) : rn[k] = IF k = i THEN job ELSE r[k]
        /\ i \in 1 .. Len(r) /\ job.answer = a
        /\ job.kind = r[i].kind /\ job.protocol = r[i].protocol
        /\ r[i].kind = "register" => job.age = r[i].age
    BY <1>1, <1>2, <1>5, SMTT(60)
  <2> HIDE DEF r, q, rn
  <2>3. Len(rn \o q) = Len(r \o q) /\ Len(r \o q) = Len(r) + Len(q)
    BY <2>0, Joined, ZenonT(60)
  <2>4. ASSUME NEW k \in 1 .. Len(r \o q)
        PROVE  /\ (rn \o q)[k].kind = (r \o q)[k].kind
               /\ (rn \o q)[k].protocol = (r \o q)[k].protocol
               /\ (r \o q)[k].kind = "register" => (rn \o q)[k].age = (r \o q)[k].age
               /\ (rn \o q)[k].answer = IF k = i THEN a ELSE (r \o q)[k].answer
    <3>1. CASE k \in 1 .. Len(r)
      <4>1. (rn \o q)[k] = rn[k] /\ (r \o q)[k] = r[k]
        BY <2>0, <3>1, Joined
      <4> QED
        BY <2>2, <3>1, <4>1
    <3>2. CASE k \notin 1 .. Len(r)
      <4>1. (rn \o q)[k] = q[k - Len(rn)] /\ (r \o q)[k] = q[k - Len(r)] /\ k # i
        BY <2>0, <2>2, <2>3, <3>2, Joined
      <4> QED
        BY <2>0, <4>1
    <3> QED
      BY <3>1, <3>2
  <2>5. Replied(r \o q, rn \o q, i, a)
    BY <2>3, <2>4 DEF Replied
  <2> QED
    BY <2>1, <2>5
<1>7. OldFirst(Sent')
  BY <1>6, RepliedOrder DEF KnownInv
<1>8. ASSUME NEW p \in Protocol, ~excused'[p]
      PROVE  Row(Sent', p, behind'[p], status'[p], p \in listed')
  <2> DEFINE isListed == p \in listed
             willBe == p \in listed'
             s == Sent
             t == Sent'
             b == behind[p]
             st == status[p]
  <2>1. isListed \in BOOLEAN /\ willBe \in BOOLEAN /\ s \in Seq(Job) /\ i \in 1 .. Len(s)
    BY <1>1
  <2>2. Replied(s, t, i, a) /\ OldFirst(s) /\ a # "none"
    BY <1>6 DEF KnownInv
  <2>3. b \in Nat
    BY DEF KnownInv, RowTypes
  <2>4. Row(s, p, b, st, isListed)
    BY <1>8 DEF KnownInv
  <2>5. Handled(s, i, a, p, isListed, willBe)
    BY <1>8
  <2>6. Row(t, p, b, st, willBe)
    <3> HIDE DEF isListed, willBe, s, t, b, st
    <3> QED
      BY <2>1, <2>2, <2>3, <2>4, <2>5, HandledRow
  <2> QED
    BY <2>6
<1>9. RowTypes'
  BY DEF KnownInv, RowTypes
<1> QED
  BY <1>7, <1>8, <1>9 DEF KnownInv

LEMMA KnownInit == Init => KnownInv
<1> SUFFICES ASSUME Init PROVE KnownInv
  OBVIOUS
<1>1. RowTypes
  BY DEF Init, RowTypes, Answers
<1>2. Len(Sent) = 0
  <2>1. running = <<>> /\ queue = <<>>
    BY DEF Init, PoolInit
  <2> QED
    BY <2>1 DEF Sent
<1>3. OldFirst(Sent)
  BY <1>2 DEF OldFirst
<1>4. ASSUME NEW p \in Protocol
      PROVE  Row(Sent, p, behind[p], status[p], p \in listed)
  <2>1. HandledFirst(Sent, p) /\ AllNew(Sent, p, behind[p])
    BY <1>2 DEF HandledFirst, AllNew
  <2>2. p \notin listed
    BY DEF Init
  <2> QED
    BY <2>1, <2>2 DEF Row, InOrder
<1> QED
  BY <1>1, <1>3, <1>4 DEF KnownInv

\* The server's handlers.
LEMMA ServerKnown ==
    ASSUME IInv, KnownInv,
           \/ \E p \in Protocol : Update(p)
           \/ \E t \in tokens : OnToken(t.protocol, t.token)
           \/ \E E \in SUBSET Protocol : OnConfigChange(E)
           \/ OnNewInfo \/ OnShutdown
    PROVE  KnownInv'
<1>1. /\ infoSerial \in Nat /\ token \in [Protocol -> Nat] /\ enabled \in SUBSET Protocol
      /\ {} \in SUBSET Protocol /\ Jobs
  BY DEF IInv, Types
<1>2. ASSUME UNCHANGED <<poolVars, status, behind, excused, listed>>
      PROVE  KnownInv'
  BY <1>2, StillKnown DEF Sent, poolVars
<1>3. ASSUME NEW p \in Protocol, Update(p)
      PROVE  KnownInv'
  <2>1. Send({p}, {}, next) /\ {p} \in SUBSET Protocol
    BY <1>3 DEF Update
  <2>2. UNCHANGED <<infoSerial, token, listed>>
    BY <1>3 DEF Update, masterVars
  <2>3. infoSerial' \in Nat /\ token' \in [Protocol -> Nat]
    BY <1>1, <2>2
  <2> QED
    BY <1>1, <2>1, <2>2, <2>3, SendKnown
<1>4. ASSUME NEW t \in tokens, OnToken(t.protocol, t.token)
      PROVE  KnownInv'
  <2>1. t.protocol \in Protocol /\ t.token \in Nat
    BY DEF IInv, Types
  <2>2. token' \in [Protocol -> Nat] /\ UNCHANGED <<infoSerial, listed>>
    BY <1>1, <1>4, <2>1 DEF OnToken, masterVars
  <2>3. PICK R \in SUBSET Protocol : Send(R, {}, next)
    BY <1>4, <2>1 DEF OnToken
  <2>4. infoSerial' \in Nat
    BY <1>1, <2>2
  <2> QED
    BY <1>1, <2>2, <2>3, <2>4, SendKnown
<1>5. ASSUME NEW E \in SUBSET Protocol, OnConfigChange(E)
      PROVE  KnownInv'
  <2>1. UNCHANGED <<infoSerial, token, listed>>
    BY <1>5 DEF OnConfigChange, masterVars
  <2>2. CASE phase = "running"
    <3>1. Send(E \ enabled, enabled \ E, next)
      BY <1>5, <2>2 DEF OnConfigChange
    <3>2. E \ enabled \in SUBSET Protocol /\ enabled \ E \in SUBSET Protocol
      BY <1>1
    <3>3. infoSerial' \in Nat /\ token' \in [Protocol -> Nat]
      BY <1>1, <2>1
    <3> QED
      BY <1>1, <2>1, <3>1, <3>2, <3>3, SendKnown
  <2>3. CASE phase # "running"
    <3>1. UNCHANGED <<poolVars, status, behind, excused>>
      BY <1>5, <2>3 DEF OnConfigChange
    <3> QED
      BY <1>2, <2>1, <3>1
  <2> QED
    BY <2>2, <2>3
<1>6. CASE OnNewInfo
  <2>1. infoSerial' \in Nat /\ UNCHANGED <<token, listed>>
    BY <1>1, <1>6 DEF OnNewInfo, masterVars
  <2>2. CASE phase = "starting" \/ enabled = {}
    <3>1. UNCHANGED <<poolVars, status, behind, excused>>
      BY <1>6, <2>2 DEF OnNewInfo
    <3> QED
      BY <1>2, <2>1, <3>1
  <2>3. CASE ~(phase = "starting" \/ enabled = {})
    <3>1. PICK S \in SUBSET enabled : \E nextAfter : Send(S, {}, nextAfter)
      BY <1>6, <2>3 DEF OnNewInfo
    <3>2. S \in SUBSET Protocol /\ token' \in [Protocol -> Nat]
      BY <1>1, <2>1
    <3> QED
      BY <1>1, <2>1, <3>1, <3>2, SendKnown
  <2> QED
    BY <2>2, <2>3
<1>7. CASE OnShutdown
  <2>1. Send({}, enabled, next) /\ UNCHANGED <<infoSerial, token, listed>>
    BY <1>7 DEF OnShutdown, masterVars
  <2>2. infoSerial' \in Nat /\ token' \in [Protocol -> Nat]
    BY <1>1, <2>1
  <2> QED
    BY <1>1, <2>1, <2>2, SendKnown
<1> QED
  BY <1>3, <1>4, <1>5, <1>6, <1>7

\* The master's.
LEMMA MasterKnown ==
    ASSUME IInv, KnownInv,
           \E i \in DOMAIN running : HandleRegister(i) \/ HandleDelete(i) \/ LoseRequest(i)
    PROVE  KnownInv'
<1>1. Jobs
  BY DEF IInv
<1>2. excused \in [Protocol -> BOOLEAN] /\ listed \subseteq Protocol
  BY DEF KnownInv, RowTypes
<1>3. ASSUME NEW i \in DOMAIN running
      PROVE  /\ Sent[i] = running[i] /\ running[i].protocol \in Protocol
             /\ \A k \in 1 .. i - 1 : Sent[k] = running[k]
  <2>1. \A j \in Job : j.protocol \in Protocol
    BY DEF Job
  <2> QED
    BY <1>1, <2>1, SentAt
<1>4. ASSUME NEW i \in DOMAIN running, HandleRegister(i)
      PROVE  KnownInv'
  <2> DEFINE q == running[i].protocol
  <2>1. PICK result \in {"need_challenge", "need_info", "success"} :
           /\ running' = [running EXCEPT ![i].answer = result]
           /\ listed' = IF result = "success" THEN listed \cup {q} ELSE listed
           /\ excused' = [excused EXCEPT ![q] =
                            @ \/ Overtakes(i) \/ (result # "success" /\ q \in listed)]
    BY <1>4 DEF HandleRegister
  <2>2. /\ running[i].answer = "none" /\ running[i].kind = "register"
        /\ UNCHANGED <<queue, behind, status>>
    BY <1>4 DEF HandleRegister, serverVars
  <2>3. /\ q \in Protocol /\ Sent[i] = running[i]
        /\ \A k \in 1 .. i - 1 : Sent[k] = running[k]
    BY <1>3
  <2>4. excused' \in [Protocol -> BOOLEAN] /\ listed' \subseteq Protocol
    BY <1>2, <2>1, <2>3
  <2>5. ASSUME NEW p \in Protocol, ~excused'[p]
        PROVE  ~excused[p] /\ Handled(Sent, i, result, p, p \in listed, p \in listed')
    <3>1. CASE p = q
      <4>1. ~excused[q] /\ ~Overtakes(i) /\ ~(result # "success" /\ q \in listed)
        BY <1>2, <2>1, <2>3, <2>5, <3>1
      <4>2. \A k \in 1 .. i - 1 : Sent[k].protocol = p => Sent[k].answer # "none"
        BY <2>3, <3>1, <4>1 DEF Overtakes
      <4>3. p \in listed' => result = "success"
        BY <2>1, <3>1, <4>1
      <4> QED
        BY <2>2, <2>3, <3>1, <4>1, <4>2, <4>3 DEF Handled
    <3>2. CASE p # q
      <4>1. ~excused[p] /\ (p \in listed' => p \in listed)
        BY <1>2, <2>1, <2>5, <3>2
      <4> QED
        BY <2>3, <3>2, <4>1 DEF Handled
    <3> QED
      BY <3>1, <3>2
  <2>6. result \in Answers \ {"none"}
    BY DEF Answers
  <2> QED
    BY <1>1, <2>1, <2>2, <2>4, <2>5, <2>6, RepliedKnown
<1>5. ASSUME NEW i \in DOMAIN running, HandleDelete(i)
      PROVE  KnownInv'
  <2> DEFINE q == running[i].protocol
  <2>1. PICK result \in {"success", "error"} :
           /\ running' = [running EXCEPT ![i].answer = result]
           /\ listed' = listed \ {q}
           /\ excused' = [excused EXCEPT ![q] = @ \/ Overtakes(i)]
    BY <1>5 DEF HandleDelete, Forget
  <2>2. running[i].answer = "none" /\ UNCHANGED <<queue, behind, status>>
    BY <1>5 DEF HandleDelete, serverVars
  <2>3. /\ q \in Protocol /\ Sent[i] = running[i]
        /\ \A k \in 1 .. i - 1 : Sent[k] = running[k]
    BY <1>3
  <2>4. excused' \in [Protocol -> BOOLEAN] /\ listed' \subseteq Protocol
    BY <1>2, <2>1, <2>3
  <2>5. ASSUME NEW p \in Protocol, ~excused'[p]
        PROVE  ~excused[p] /\ Handled(Sent, i, result, p, p \in listed, p \in listed')
    <3>1. CASE p = q
      <4>1. ~excused[q] /\ ~Overtakes(i)
        BY <1>2, <2>1, <2>3, <2>5, <3>1
      <4>2. \A k \in 1 .. i - 1 : Sent[k].protocol = p => Sent[k].answer # "none"
        BY <2>3, <3>1, <4>1 DEF Overtakes
      <4>3. p \notin listed'
        BY <2>1, <3>1
      <4> QED
        BY <2>2, <2>3, <3>1, <4>1, <4>2, <4>3 DEF Handled
    <3>2. CASE p # q
      <4>1. ~excused[p] /\ (p \in listed' => p \in listed)
        BY <1>2, <2>1, <2>5, <3>2
      <4> QED
        BY <2>3, <3>2, <4>1 DEF Handled
    <3> QED
      BY <3>1, <3>2
  <2>6. result \in Answers \ {"none"}
    BY DEF Answers
  <2> QED
    BY <1>1, <2>1, <2>2, <2>4, <2>5, <2>6, RepliedKnown
<1>6. ASSUME NEW i \in DOMAIN running, LoseRequest(i)
      PROVE  KnownInv'
  <2> DEFINE q == running[i].protocol
  <2>1. /\ running' = [running EXCEPT ![i].answer = "error"]
        /\ excused' = [excused EXCEPT ![q] = TRUE]
        /\ UNCHANGED <<queue, behind, status, listed>>
    BY <1>6 DEF LoseRequest, serverVars, masterVars
  <2>2. q \in Protocol /\ Sent[i] = running[i]
    BY <1>3
  <2>3. excused' \in [Protocol -> BOOLEAN] /\ listed' \subseteq Protocol
    BY <1>2, <2>1
  <2>4. ASSUME NEW p \in Protocol, ~excused'[p]
        PROVE  ~excused[p] /\ Handled(Sent, i, "error", p, p \in listed, p \in listed')
    <3>1. p # q
      BY <1>2, <2>1, <2>2, <2>4
    <3>2. ~excused[p] /\ (p \in listed' => p \in listed)
      BY <1>2, <2>1, <2>4, <3>1
    <3> QED
      BY <2>2, <3>1, <3>2 DEF Handled
  <2>5. "error" \in Answers \ {"none"}
    BY DEF Answers
  <2> QED
    BY <1>1, <2>1, <2>3, <2>4, <2>5, RepliedKnown
<1> QED
  BY <1>4, <1>5, <1>6

\* All the others neither send nor handle anything.
LEMMA OthersKnown ==
    ASSUME IInv, KnownInv,
           \/ \E p \in Protocol : Prune(p)
           \/ \E t \in tokens : LoseToken(t)
           \/ FirstUpdate \/ Elapse \/ DestroyPool \/ Reseed \/ RestartMaster \/ Work
    PROVE  KnownInv'
<1>1. UNCHANGED <<behind, status, excused>>
  BY DEF Prune, LoseToken, FirstUpdate, Elapse, Passes, DestroyPool, Reseed, RestartMaster, Work,
         serverVars
<1>2. listed' \subseteq listed
  BY DEF Prune, Forget, LoseToken, FirstUpdate, Elapse, Passes, DestroyPool, Reseed,
         RestartMaster, Work, masterVars
<1>3. Sent' = Sent
  <2>1. CASE Fetch
    <3>1. running \in Seq(Job) /\ queue \in Seq(Job) /\ queue # <<>>
      BY <2>1, SentJobs DEF Fetch, IInv
    <3>2. running' = Append(running, Head(queue)) /\ queue' = Tail(queue)
      BY <2>1 DEF Fetch
    <3> QED
      BY <3>1, <3>2, HandedOver DEF Sent
  <2>2. CASE ~Fetch
    <3>1. UNCHANGED <<queue, running>>
      BY <2>2 DEF Prune, LoseToken, FirstUpdate, Elapse, Passes, DestroyPool, Destroy, Reseed,
                  RestartMaster, Work, Return, poolVars
    <3> QED
      BY <3>1 DEF Sent
  <2> QED
    BY <2>1, <2>2
<1> QED
  BY <1>1, <1>2, <1>3, StillKnown

LEMMA KnownStep ==
    ASSUME IInv, KnownInv, [Next]_vars
    PROVE  KnownInv'
<1>1. CASE UNCHANGED vars
  <2>1. UNCHANGED <<queue, running, behind, status, excused, listed>>
    BY <1>1 DEF vars, poolVars, serverVars, masterVars
  <2> QED
    BY <2>1, StillKnown DEF Sent
<1>2. CASE Next
  <2>1. ASSUME NEW i \in DOMAIN running, Answer(i)
        PROVE  KnownInv'
    BY <2>1, AnswerKnown DEF IInv
  <2> QED
    BY <1>2, <2>1, ServerKnown, MasterKnown, OthersKnown DEF Next
<1> QED
  BY <1>1, <1>2

\* With nothing under way, what is known has been answered and has counted.
LEMMA KnownIsKnown ==
    ASSUME IInv, KnownInv
    PROVE  ListedIsKnown
<1> SUFFICES ASSUME NEW p \in listed, Quiet(p), ~excused[p]
             PROVE  status[p] = "success"
  BY DEF ListedIsKnown
<1>1. p \in Protocol /\ IsKnown(Sent, p, behind[p], status[p])
  BY DEF KnownInv, RowTypes, Row
<1>2. \A k \in 1 .. Len(Sent) : Sent[k].protocol # p
  BY QuietSent DEF IInv
<1> QED
  BY <1>1, <1>2 DEF IsKnown, ToHandle, ToAnswer, IsReg

\* What the master lists the server knows of when nothing is under way: it has had the
\* success as its newest answer, in whatever order requests and answers came; so it
\* deletes it when it stops.
THEOREM WhatIsListedIsKnown == Spec => []ListedIsKnown
<1>1. Init => IInv /\ KnownInv
  BY ToldInit, KnownInit
<1>2. IInv /\ KnownInv /\ [Next]_vars => (IInv /\ KnownInv)'
  BY ToldStep, KnownStep
<1>3. IInv /\ KnownInv => ListedIsKnown
  BY KnownIsKnown
<1> QED
  BY <1>1, <1>2, <1>3, PTL DEF Spec
=============================================================================
