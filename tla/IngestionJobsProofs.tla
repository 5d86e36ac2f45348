------------------------- MODULE IngestionJobsProofs -------------------------
(***************************************************************************)
(* Theorems about IngestionJobs, for every number of jobs, accounts,        *)
(* workers and API requests.                                                *)
(***************************************************************************)
EXTENDS IngestionJobs, TLAPS

\* The fields that a request of each kind has.
LEMMA RequestFields ==
    ASSUME TypeOK, NEW c \in Clients
    PROVE  /\ req[c].op = "insert" => req[c].account \in Accounts
           /\ req[c].op = "autoreap" => /\ req[c].account \in Accounts /\ req[c].job \in Jobs
                                        /\ req[c].again \in BOOLEAN
           /\ req[c].op = "reap" => req[c].jobs \subseteq Jobs
BY DEF TypeOK, Requests, NoReq

\* SetStatus keeps the types of the two columns it writes.
LEMMA SetStatusType ==
    ASSUME TypeOK, NEW J \in SUBSET Jobs, NEW s \in Statuses, SetStatus(J, s)
    PROVE  status' \in [Jobs -> Statuses] /\ stale' \in [Jobs -> BOOLEAN]
BY DEF TypeOK, SetStatus

\* The initial state is well typed.
LEMMA InitTypeOK == Init => TypeOK
BY AccountsAssumption
   DEF Init, TypeOK, Statuses, ActiveStatuses, WorkerPCs, Requests, NoReq, NoJob

\* Every step keeps the types.
LEMMA NextTypeOK == TypeOK /\ [Next]_vars => TypeOK'
<1> SUFFICES ASSUME TypeOK, [Next]_vars PROVE TypeOK'
  OBVIOUS
<1>0. /\ "failed" \in Statuses /\ "completed" \in Statuses /\ "queued" \in Statuses
      /\ "running" \in Statuses
      /\ NoReq \in Requests
  BY DEF Statuses, ActiveStatuses, Requests
<1>1. ASSUME NEW c \in Clients, NEW a \in Accounts, CreateCheck(c, a)
      PROVE  TypeOK'
  <2>1. \A j \in Jobs :
          /\ [op |-> "insert", account |-> a] \in Requests
          /\ [op |-> "autoreap", account |-> a, job |-> j, again |-> FALSE] \in Requests
    BY DEF Requests
  <2>2. [op |-> "insert", account |-> a] \in Requests
    BY DEF Requests
  <2>3. ActiveIn(a) \subseteq Jobs
    BY DEF ActiveIn
  <2>4. req' \in [Clients -> Requests]
    BY <1>1, <2>1, <2>2, <2>3 DEF CreateCheck, TypeOK
  <2> QED BY <1>1, <2>4 DEF CreateCheck, TypeOK
<1>2. ASSUME NEW c \in Clients, AutoReap(c)
      PROVE  TypeOK'
  <2>1. req[c].account \in Accounts /\ req[c].job \in Jobs
    BY <1>2, RequestFields DEF AutoReap
  <2>2. status' \in [Jobs -> Statuses] /\ stale' \in [Jobs -> BOOLEAN]
    BY <1>0, <1>2, <2>1, SetStatusType DEF AutoReap
  <2> QED BY <1>2, <2>1, <2>2 DEF AutoReap, TypeOK, Requests
<1>3. ASSUME NEW c \in Clients, Insert(c)
      PROVE  TypeOK'
  <2>1. PICK j \in Jobs : SetStatus({j}, "queued") /\ account' = [account EXCEPT ![j] = req[c].account]
    BY <1>3 DEF Insert
  <2>2. status' \in [Jobs -> Statuses] /\ stale' \in [Jobs -> BOOLEAN]
    BY <1>0, <2>1, SetStatusType
  <2> QED BY <1>0, <1>3, <2>1, <2>2, RequestFields DEF Insert, TypeOK
<1>4. ASSUME NEW c \in Clients, InsertConflict(c)
      PROVE  TypeOK'
  <2>1. req[c].account \in Accounts
    BY <1>4, RequestFields DEF InsertConflict
  <2> QED BY <1>4, <2>1 DEF InsertConflict, ActiveIn, TypeOK, Requests
<1>5. ASSUME NEW c \in Clients, ApiReapRead(c)
      PROVE  TypeOK'
  BY <1>5 DEF ApiReapRead, TypeOK, Requests
<1>6. ASSUME NEW c \in Clients, ApiReapCommit(c)
      PROVE  TypeOK'
  <2>1. status' \in [Jobs -> Statuses] /\ stale' \in [Jobs -> BOOLEAN]
    BY <1>0, <1>6, RequestFields, SetStatusType DEF ApiReapCommit
  <2> QED BY <1>0, <1>6, <2>1 DEF ApiReapCommit, TypeOK
<1>7. ASSUME NEW w \in Workers, ReapRead(w)
      PROVE  TypeOK'
  BY <1>7 DEF ReapRead, TypeOK, WorkerPCs
<1>8. ASSUME NEW w \in Workers, ReapCommit(w)
      PROVE  TypeOK'
  <2>1. status' \in [Jobs -> Statuses] /\ stale' \in [Jobs -> BOOLEAN]
    BY <1>0, <1>8, SetStatusType DEF ReapCommit, TypeOK
  <2> QED BY <1>8, <2>1 DEF ReapCommit, TypeOK, WorkerPCs
<1>9. ASSUME NEW w \in Workers, Dequeue(w)
      PROVE  TypeOK'
  BY <1>9 DEF Dequeue, TypeOK, WorkerPCs
<1>10. ASSUME NEW w \in Workers, ExecuteRead(w)
       PROVE  TypeOK'
  BY <1>10 DEF ExecuteRead, Leave, TypeOK, WorkerPCs
<1>11. ASSUME NEW w \in Workers, ExecuteBegin(w)
       PROVE  TypeOK'
  <2>1. status' \in [Jobs -> Statuses] /\ stale' \in [Jobs -> BOOLEAN]
    BY <1>0, <1>11, SetStatusType DEF ExecuteBegin, TypeOK
  <2> QED BY <1>11, <2>1 DEF ExecuteBegin, TypeOK, WorkerPCs
<1>12. ASSUME NEW w \in Workers, ExecuteBeginConflict(w)
       PROVE  TypeOK'
  BY <1>12 DEF ExecuteBeginConflict, Leave, TypeOK, WorkerPCs
<1>13. ASSUME NEW w \in Workers, NEW outcome \in {"completed", "failed"},
              ExecuteFinish(w, outcome)
       PROVE  TypeOK'
  <2>1. status' \in [Jobs -> Statuses] /\ stale' \in [Jobs -> BOOLEAN]
    BY <1>0, <1>13, SetStatusType DEF ExecuteFinish, TypeOK
  <2> QED BY <1>13, <2>1 DEF ExecuteFinish, Leave, TypeOK, WorkerPCs
<1>14. ASSUME NEW w \in Workers, ExecuteRecover(w)
       PROVE  TypeOK'
  <2>1. status' \in [Jobs -> Statuses] /\ stale' \in [Jobs -> BOOLEAN]
    BY <1>0, <1>14, SetStatusType DEF ExecuteRecover, TypeOK
  <2> QED BY <1>14, <2>1 DEF ExecuteRecover, Leave, TypeOK, WorkerPCs
<1>15. ASSUME NEW w \in Workers, ExecuteLost(w)
       PROVE  TypeOK'
  BY <1>15 DEF ExecuteLost, Leave, TypeOK, WorkerPCs
<1>16. ASSUME NEW w \in Workers, Crash(w)
       PROVE  TypeOK'
  BY <1>16 DEF Crash, TypeOK, WorkerPCs
<1>17. ASSUME NEW j \in Jobs, GrowsStale(j)
       PROVE  TypeOK'
  BY <1>17 DEF GrowsStale, TypeOK
<1>18. CASE UNCHANGED vars
  BY <1>18 DEF vars, TypeOK
<1> QED
  BY <1>1, <1>2, <1>3, <1>4, <1>5, <1>6, <1>7, <1>8, <1>9, <1>10, <1>11, <1>12, <1>13, <1>14,
     <1>15, <1>16, <1>17, <1>18 DEF Next, ClientStep, WorkerStep

\* Type correctness of the legacy jobs.
THEOREM TypeCorrect == Spec => []TypeOK
BY InitTypeOK, NextTypeOK, PTL DEF Spec

-----------------------------------------------------------------------------
(* Verdicts *)

\* Whoever is about to write a status holds a job that is not decided, or that was
\* silent at some time: both kinds of request select by age, the startup reaper and
\* the worker by a status that only they and those requests change.
VerdictInv ==
    /\ \A j \in Jobs : stale[j] => j \in silent
    /\ \A c \in Clients : /\ req[c].op = "autoreap" => req[c].job \in silent
                          /\ req[c].op = "reap" => req[c].jobs \subseteq silent
    /\ \A w \in Workers :
         /\ pc[w] = "reaping" => \A j \in orphans[w] : Active(j) \/ j \in silent
         /\ pc[w] = "begin" => status[job[w]] = "queued" \/ job[w] \in silent
         /\ pc[w] = "exec" => status[job[w]] = "running" \/ job[w] \in silent

\* A step changes the verdict of silent jobs only.
Stands == \A j \in Jobs : status[j] \in {"completed", "failed"} /\ status'[j] # status[j] => j \in silent

\* A step of an API request that writes: it fails silent jobs, or inserts a new one.
LEMMA ClientWrites ==
    ASSUME TypeOK, VerdictInv, NEW c \in Clients, AutoReap(c) \/ Insert(c) \/ ApiReapCommit(c)
    PROVE  VerdictInv' /\ Stands
<1>0. UNCHANGED <<pc, job, orphans, silent>>
  BY DEF AutoReap, Insert, ApiReapCommit
<1>1. \A d \in Clients : /\ req'[d].op = "autoreap" => req'[d] = req[d]
                         /\ req'[d].op = "reap" => req'[d] = req[d]
  BY DEF AutoReap, Insert, ApiReapCommit, NoReq, TypeOK
<1>2. ASSUME NEW J \in SUBSET silent, SetStatus(J, "failed")
      PROVE  VerdictInv' /\ Stands
  <2>1. \A j \in Jobs : j \notin silent => status'[j] = status[j]
    BY <1>2 DEF SetStatus
  <2>2. \A j \in Jobs : stale'[j] => stale[j]
    BY <1>2 DEF SetStatus
  <2>3. \A w \in Workers : orphans[w] \subseteq Jobs /\ (pc[w] \in {"begin", "exec"} => job[w] \in Jobs)
    BY DEF TypeOK
  <2> QED BY <1>0, <1>1, <2>1, <2>2, <2>3 DEF VerdictInv, Active, Stands
<1>3. CASE AutoReap(c)
  BY <1>2, <1>3 DEF AutoReap, VerdictInv
<1>4. CASE ApiReapCommit(c)
  BY <1>2, <1>4 DEF ApiReapCommit, VerdictInv
<1>5. CASE Insert(c)
  <2>1. PICK i \in Jobs : status[i] = "absent" /\ SetStatus({i}, "queued")
    BY <1>5 DEF Insert
  <2>2. \A j \in Jobs : status[j] # "absent" => status'[j] = status[j]
    BY <2>1 DEF SetStatus
  <2>3. \A j \in Jobs : stale'[j] => stale[j]
    BY <2>1 DEF SetStatus
  <2>4. \A w \in Workers : orphans[w] \subseteq Jobs /\ (pc[w] \in {"begin", "exec"} => job[w] \in Jobs)
    BY DEF TypeOK
  <2>5. \A j \in Jobs : Active(j) => Active(j)'
    BY <2>2 DEF Active, ActiveStatuses
  <2>6. Stands
    BY <2>2 DEF Stands
  <2> QED BY <1>0, <1>1, <2>2, <2>3, <2>4, <2>5, <2>6 DEF VerdictInv
<1> QED BY <1>3, <1>4, <1>5

\* A step of a request that only reads: what it goes on to fail has been stale.
LEMMA ClientReads ==
    ASSUME TypeOK, VerdictInv, NEW c \in Clients,
           (\E a \in Accounts : CreateCheck(c, a)) \/ InsertConflict(c) \/ ApiReapRead(c)
    PROVE  VerdictInv' /\ Stands
<1>1. UNCHANGED <<status, stale, pc, job, orphans, silent>>
  BY DEF CreateCheck, InsertConflict, ApiReapRead
<1>2. \A d \in Clients : /\ req'[d].op = "autoreap" => req'[d].job \in silent
                         /\ req'[d].op = "reap" => req'[d].jobs \subseteq silent
  <2>1. ASSUME NEW a \in Accounts, CreateCheck(c, a)
        PROVE  req'[c].op = "autoreap" => req'[c].job \in silent
    BY <2>1 DEF CreateCheck, ActiveIn, VerdictInv, TypeOK
  <2>2. CASE InsertConflict(c)
    BY <2>2 DEF InsertConflict, ActiveIn, VerdictInv, TypeOK, NoReq
  <2>3. CASE ApiReapRead(c)
    BY <2>3 DEF ApiReapRead, VerdictInv, TypeOK
  <2>4. \A d \in Clients \ {c} : req'[d] = req[d]
    BY DEF CreateCheck, InsertConflict, ApiReapRead, TypeOK
  <2>5. /\ req'[c].op = "autoreap" => req'[c].job \in silent
        /\ req'[c].op = "reap" => req'[c].jobs \subseteq silent
    <3>1. ASSUME NEW a \in Accounts, CreateCheck(c, a)
          PROVE  req'[c].op # "reap"
      BY <3>1 DEF CreateCheck, TypeOK
    <3>2. CASE InsertConflict(c)
      <4>1. req'[c].op # "reap"
        BY <3>2 DEF InsertConflict, TypeOK, NoReq
      <4> QED BY <2>2, <3>2, <4>1
    <3>3. CASE ApiReapRead(c)
      BY <3>3 DEF ApiReapRead, VerdictInv, TypeOK
    <3> QED BY <2>1, <3>1, <3>2, <3>3
  <2> QED BY <2>4, <2>5 DEF VerdictInv
<1> QED BY <1>1, <1>2 DEF VerdictInv, Active, Stands

\* A step of the worker, when there is one.
LEMMA WorkerVerdicts ==
    ASSUME NEW w0, Workers = {w0}, TypeOK, VerdictInv, WorkerStep(w0) \/ Crash(w0)
    PROVE  VerdictInv' /\ Stands
<1>0. UNCHANGED <<req, silent>>
  BY DEF WorkerStep, ReapRead, ReapCommit, Dequeue, ExecuteRead, ExecuteBegin, ExecuteBeginConflict,
         ExecuteFinish, ExecuteRecover, ExecuteLost, Crash
<1>1. ASSUME \A j \in Jobs : stale'[j] => stale[j], pc'[w0] \notin {"reaping", "begin", "exec"}
      PROVE  VerdictInv'
  BY <1>0, <1>1 DEF VerdictInv
<1>2. \A J \in SUBSET Jobs, s \in Statuses : SetStatus(J, s) =>
        /\ \A j \in Jobs : stale'[j] => stale[j]
        /\ \A j \in Jobs \ J : status'[j] = status[j]
  BY DEF SetStatus
<1>3. CASE ReapRead(w0)
  BY <1>0, <1>3 DEF ReapRead, VerdictInv, Stands, Active, TypeOK
<1>4. CASE ReapCommit(w0)
  <2>1. orphans[w0] \in SUBSET Jobs /\ pc'[w0] = "idle"
    BY <1>4 DEF ReapCommit, TypeOK
  <2>2. \A j \in orphans[w0] : status[j] \in {"completed", "failed"} => j \in silent
    BY <1>4 DEF ReapCommit, VerdictInv, Active, ActiveStatuses
  <2> QED BY <1>1, <1>2, <1>4, <2>1, <2>2 DEF ReapCommit, Stands, Statuses
<1>5. CASE Dequeue(w0)
  <2>1. pc'[w0] = "picked" /\ UNCHANGED <<status, stale>>
    BY <1>5 DEF Dequeue, TypeOK
  <2> QED BY <1>1, <2>1 DEF Stands
<1>6. CASE ExecuteRead(w0)
  <2>1. UNCHANGED <<status, stale>> /\ (pc'[w0] = "idle" \/ pc'[w0] = "begin")
    BY <1>6 DEF ExecuteRead, Leave, TypeOK
  <2>2. CASE pc'[w0] = "idle"
    BY <1>1, <2>1, <2>2 DEF Stands
  <2>3. CASE pc'[w0] = "begin"
    <3>1. status[job[w0]] = "queued" /\ job' = job
      BY <1>6, <2>3 DEF ExecuteRead, Leave, TypeOK
    <3> QED BY <1>0, <2>1, <2>3, <3>1 DEF VerdictInv, Stands
  <2> QED BY <2>1, <2>2, <2>3
<1>7. CASE ExecuteBegin(w0)
  <2>1. /\ job[w0] \in Jobs /\ SetStatus({job[w0]}, "running") /\ pc'[w0] = "exec" /\ job' = job
        /\ status[job[w0]] = "queued" \/ job[w0] \in silent
    BY <1>7 DEF ExecuteBegin, TypeOK, VerdictInv
  <2>2. status'[job[w0]] = "running" /\ \A j \in Jobs : stale'[j] => stale[j]
    BY <2>1 DEF SetStatus
  <2>3. Stands
    BY <1>2, <2>1 DEF Stands, Statuses, ActiveStatuses
  <2> QED BY <1>0, <2>1, <2>2, <2>3 DEF VerdictInv
<1>8. CASE ExecuteBeginConflict(w0)
  <2>1. pc'[w0] = "idle" /\ UNCHANGED <<status, stale>>
    BY <1>8 DEF ExecuteBeginConflict, Leave, TypeOK
  <2> QED BY <1>1, <2>1 DEF Stands
<1>9. ASSUME NEW s \in {"completed", "failed"},
             ExecuteFinish(w0, s) \/ ExecuteRecover(w0)
      PROVE  VerdictInv' /\ Stands
  <2>1. /\ pc'[w0] = "idle" /\ job[w0] \in Jobs
        /\ status[job[w0]] = "running" \/ job[w0] \in silent
    BY <1>9 DEF ExecuteFinish, ExecuteRecover, Leave, TypeOK, VerdictInv
  <2>2. PICK J \in SUBSET {job[w0]} : SetStatus(J, s) \/ SetStatus(J, "failed")
    BY <1>9 DEF ExecuteFinish, ExecuteRecover
  <2> QED BY <1>1, <1>2, <2>1, <2>2 DEF Stands, Statuses
<1>10. CASE ExecuteLost(w0) \/ Crash(w0)
  <2>1. pc'[w0] \in {"idle", "starting"} /\ UNCHANGED <<status, stale>>
    BY <1>10 DEF ExecuteLost, Crash, Leave, TypeOK
  <2> QED BY <1>1, <2>1 DEF Stands
<1> QED BY <1>3, <1>4, <1>5, <1>6, <1>7, <1>8, <1>9, <1>10 DEF WorkerStep

LEMMA NextVerdicts ==
    ASSUME NEW w0, Workers = {w0}, TypeOK, VerdictInv, [Next]_vars
    PROVE  VerdictInv' /\ Stands
<1>1. ASSUME NEW j \in Jobs, GrowsStale(j)
      PROVE  VerdictInv' /\ Stands
  BY <1>1 DEF GrowsStale, VerdictInv, Active, Stands, TypeOK
<1>2. CASE UNCHANGED vars
  BY <1>2 DEF vars, VerdictInv, Active, Stands
<1> QED
  BY <1>1, <1>2, ClientWrites, ClientReads, WorkerVerdicts DEF Next, ClientStep

\* With one worker, for any number of jobs, requests, crashes and lost outcomes: only
\* a job that was silent for thirty minutes gets another verdict.
THEOREM VerdictsStandHolds ==
    ASSUME NEW w0, Workers = {w0}
    PROVE  Spec => VerdictsStand
<1>1. Init => TypeOK /\ VerdictInv
  BY InitTypeOK DEF Init, VerdictInv, NoReq
<1>2. (TypeOK /\ VerdictInv) /\ [Next]_vars => (TypeOK /\ VerdictInv)'
  BY NextTypeOK, NextVerdicts
<1>3. (TypeOK /\ VerdictInv) /\ [Next]_vars =>
        [\A j \in Jobs : status[j] \in {"completed", "failed"} /\ status'[j] # status[j] => j \in silent]_vars
  BY NextVerdicts DEF Stands
<1> QED BY <1>1, <1>2, <1>3, PTL DEF Spec, VerdictsStand

-----------------------------------------------------------------------------
(* A single worker owns what is running *)

\* With the one worker that is deployed, a row that says running is the one it
\* executes, or is about to be reaped by its startup, unless an outcome was lost.
THEOREM SingleWorkerOwns ==
    ASSUME NEW w0, Workers = {w0}
    PROVE  Spec => []RunningIsOwned
<1>1. Init => TypeOK /\ RunningIsOwned
  BY InitTypeOK DEF Init, RunningIsOwned
<1>2. (TypeOK /\ RunningIsOwned) /\ [Next]_vars => (TypeOK /\ RunningIsOwned)'
  <2> SUFFICES ASSUME TypeOK, RunningIsOwned, [Next]_vars PROVE RunningIsOwned'
    BY NextTypeOK
  <2> USE DEF RunningIsOwned
  <2>1. CASE UNCHANGED <<status, pc, job, orphans, lost>>
    BY <2>1
  <2>2. ASSUME NEW J \in SUBSET Jobs, SetStatus(J, "failed"), UNCHANGED <<pc, job, orphans, lost>>
        PROVE  RunningIsOwned'
    BY <2>2 DEF SetStatus, TypeOK
  <2>3. ASSUME NEW c \in Clients, AutoReap(c) \/ ApiReapCommit(c) PROVE RunningIsOwned'
    BY <2>2, <2>3, RequestFields DEF AutoReap, ApiReapCommit
  <2>4. ASSUME NEW c \in Clients, Insert(c) PROVE RunningIsOwned'
    BY <2>4 DEF Insert, SetStatus, TypeOK
  <2>5. ASSUME NEW w \in Workers, WorkerStep(w) PROVE RunningIsOwned'
    <3>0. w = w0
      OBVIOUS
    <3>1. CASE ReapRead(w)
      BY <3>0, <3>1 DEF ReapRead, Active, ActiveStatuses, TypeOK
    <3>2. CASE ReapCommit(w)
      BY <3>0, <3>2 DEF ReapCommit, SetStatus, TypeOK
    <3>3. CASE Dequeue(w)
      BY <3>0, <3>3 DEF Dequeue, TypeOK
    <3>4. CASE ExecuteRead(w)
      BY <3>0, <3>4 DEF ExecuteRead, Leave, TypeOK
    <3>5. CASE ExecuteBegin(w)
      BY <3>0, <3>5 DEF ExecuteBegin, SetStatus, TypeOK
    <3>6. CASE ExecuteBeginConflict(w)
      BY <3>0, <3>6 DEF ExecuteBeginConflict, Leave, TypeOK
    <3>7. ASSUME NEW outcome \in {"completed", "failed"}, ExecuteFinish(w, outcome)
          PROVE  RunningIsOwned'
      BY <3>0, <3>7 DEF ExecuteFinish, Leave, SetStatus, TypeOK
    <3>8. CASE ExecuteRecover(w)
      BY <3>0, <3>8 DEF ExecuteRecover, Leave, SetStatus, Active, ActiveStatuses, TypeOK
    <3>9. CASE ExecuteLost(w)
      BY <3>9 DEF ExecuteLost, TypeOK
    <3> QED BY <2>5, <3>1, <3>2, <3>3, <3>4, <3>5, <3>6, <3>7, <3>8, <3>9 DEF WorkerStep
  <2>6. ASSUME NEW w \in Workers, Crash(w) PROVE RunningIsOwned'
    BY <2>6 DEF Crash, TypeOK
  <2> QED
    BY <2>1, <2>3, <2>4, <2>5, <2>6
       DEF Next, ClientStep, CreateCheck, InsertConflict, ApiReapRead, GrowsStale, vars
<1> QED BY <1>1, <1>2, PTL DEF Spec
==============================================================================
