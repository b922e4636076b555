------------------------------ MODULE WorkMgr ------------------------------
(***************************************************************************)
(* The coordinator's WorkMgr with what it works on: the queues             *)
(* (WorkQueueMgr), the pool (PoolMgr) and the workers (WorkerService).     *)
(*                                                                         *)
(* The scheduler thread runs AssignWorkTask again and again: checkTask,    *)
(* then assignWork.  Every accepted queueWork starts one more thread that  *)
(* runs assignWork once.  assignWork takes a work, then a worker, sends    *)
(* the worker a run request, and marks the result, first on the work and   *)
(* then on the worker; no lock is held from one to the next.               *)
(***************************************************************************)
EXTENDS Naturals, Sequences, FiniteSets

CONSTANTS Work,         \* the works, by their UUID
          Worker,       \* the workers, by their host:port
          NoWork, NoWorker, NoStatus,   \* Java null
          Scheduler,    \* the thread of AssignWorkTask
          Trigger,      \* bound: threads of queueWork that run at a time
          Poller,       \* the thread of WorkerStatusRefreshTask
          Registrar,    \* bound: the thread that refreshes a new worker
          MaxRefreshing, \* bound: threads that refresh beside the scheduler
          FaultKinds,   \* bound: the kinds of faults that happen
          MaxFaults     \* bound: how many faults happen

ASSUME BoundsAssumption ==
  /\ MaxRefreshing \in Nat /\ MaxFaults \in Nat
  /\ FaultKinds \subseteq {"request", "query", "error", "restart", "pool", "refresh"}

Assigner == {Scheduler} \cup Trigger
Spawned  == {Scheduler, Registrar}

VARIABLES incomplete, completed, status, assignedWorker, lastChecked, monitor,
          checker                       \* WorkQueueMgr
VARIABLES pool, handed, refresher       \* PoolMgr
VARIABLES stage, claim, taskLog         \* the workers
VARIABLES assigner,     \* the threads in assignWork
          request,      \* how far the run request of an assigner has got
          orphans,      \* run requests on their way that nobody waits for
          answer,       \* the result of the scheduler's gettaskstatus request
          turn,         \* what the scheduler does next: "check" or "assign"
          reported,     \* history: <<x, w, s>>, worker x logged s for work w
          faults        \* faults so far

Q == INSTANCE WorkQueueMgr
P == INSTANCE PoolMgr
S == INSTANCE WorkerService

\* null is no work, worker or status, and the poller is a thread of its own.
ASSUME PartsAssumption ==
  /\ NoWork \notin Work /\ NoWorker \notin Worker /\ NoStatus \notin Q!TaskStatus
  /\ Poller \notin Spawned

queueVars   == <<incomplete, completed, status, assignedWorker, lastChecked,
                 monitor, checker>>
poolVars    == <<pool, handed, refresher>>
serviceVars == <<stage, claim, taskLog>>
assignVars  == <<assigner, request, orphans>>
vars == <<queueVars, poolVars, serviceVars, assignVars, answer, turn, reported,
          faults>>
-----------------------------------------------------------------------------
(* assigner: "begin": about to ask for a work; "worker": about to ask for  *)
(* a worker; "release": there was none; "wait": the request is out;        *)
(* "success", "error", "failure": about to mark the work so; "assigning":  *)
(* in setAssignment; "busy", "idle": about to report so on the worker.     *)
(* request: "sent"; "claimed": the worker serves it; "accepted",           *)
(* "refused": the reply is on its way; "broken": the connection is.        *)

AssignerPc == {"rest", "begin", "worker", "release", "wait", "success", "error",
               "failure", "assigning", "busy", "idle"}
AtRest == [pc |-> "rest", work |-> NoWork]

TypeOK ==
  /\ Q!TypeOK
  /\ P!TypeOK
  /\ stage \in [Worker -> S!Stages]
  /\ claim \in [Worker -> Work \cup {NoWork}]
  /\ taskLog \in [Worker -> [Work -> Q!TaskStatus \cup {NoStatus}]]
  /\ assigner \in [Assigner -> [pc : AssignerPc, work : Work \cup {NoWork}]]
  /\ request \in [Assigner -> {"none", "sent", "claimed", "accepted", "refused",
                               "broken"}]
  /\ orphans \subseteq Work \X Worker
  /\ answer \in Q!TaskStatus \cup {NoStatus}
  /\ turn \in {"check", "assign"}
  /\ reported \subseteq Worker \X Work \X Q!TaskStatus
  /\ faults \in 0 .. MaxFaults

Init ==
  /\ Q!Init
  /\ P!Init
  /\ S!Init
  /\ assigner = [a \in Assigner |-> AtRest]
  /\ request = [a \in Assigner |-> "none"]
  /\ orphans = {}
  /\ answer = NoStatus
  /\ turn = "check"
  /\ reported = {}
  /\ faults = 0

Goes(a, from, to) ==
  /\ assigner[a].pc = from
  /\ assigner' = [assigner EXCEPT ![a].pc = to]

\* assignWork returns, and the scheduler goes on to its next round.
Returns(a, from) ==
  /\ assigner[a].pc = from
  /\ assigner' = [assigner EXCEPT ![a] = AtRest]
  /\ turn' = IF a = Scheduler THEN "check" ELSE turn

Fault(kind) ==
  /\ kind \in FaultKinds
  /\ faults < MaxFaults
  /\ faults' = faults + 1

\* One more thread beside the scheduler may start to refresh.
MayRefresh ==
  Cardinality({r \in {Poller, Registrar} : refresher[r] # P!Quiet}) < MaxRefreshing
-----------------------------------------------------------------------------
(* queueWork and assignWork.                                               *)

QueueWork(w) ==
  /\ Q!QueueUnassignedWork(w)
  /\ \E a \in Trigger : Goes(a, "rest", "begin")
  /\ UNCHANGED <<poolVars, serviceVars, request, orphans, answer, turn, reported,
                 faults>>

\* After checkTask, with the refresh it may have asked for.
SchedulerAssigns ==
  /\ turn = "assign"
  /\ refresher[Scheduler] = P!Quiet
  /\ Goes(Scheduler, "rest", "begin")
  /\ UNCHANGED <<queueVars, poolVars, serviceVars, request, orphans, answer, turn,
                 reported, faults>>

TakeWork(a, w) ==
  /\ assigner[a].pc = "begin"
  /\ Q!GetWorkForAssignment(w)
  /\ assigner' = [assigner EXCEPT ![a] = [pc |-> "worker", work |-> w]]
  /\ UNCHANGED <<poolVars, serviceVars, request, orphans, answer, turn, reported,
                 faults>>

NoWorkToAssign(a) ==
  /\ Q!MonitorFree
  /\ \A i \in DOMAIN incomplete : status[incomplete[i]] # "UNASSIGNED"
  /\ Returns(a, "begin")
  /\ UNCHANGED <<queueVars, poolVars, serviceVars, request, orphans, answer,
                 reported, faults>>

\* The worker is marked TRYINGTOASSIGN, and the run request is sent.
TakeWorker(a, x) ==
  /\ Goes(a, "worker", "wait")
  /\ P!GetWorkerForAssignment(a, x)
  /\ request' = [request EXCEPT ![a] = "sent"]
  /\ UNCHANGED <<queueVars, serviceVars, orphans, answer, turn, reported, faults>>

\* Mutant: without an idle worker the thread returns and keeps the work.
KeepWork(a) ==
  /\ \A x \in Worker : pool[x] # "IDLE"
  /\ Returns(a, "worker")
  /\ UNCHANGED <<queueVars, poolVars, serviceVars, request, orphans, answer,
                 reported, faults>>

NoIdleWorker(a) ==
  /\ \A x \in Worker : pool[x] # "IDLE"
  /\ Goes(a, "worker", "release")
  /\ UNCHANGED <<queueVars, poolVars, serviceVars, request, orphans, answer, turn,
                 reported, faults>>

ReleaseWork(a) ==
  /\ Returns(a, "release")
  /\ Q!MarkAssignmentFailure(assigner[a].work)
  /\ UNCHANGED <<poolVars, serviceVars, request, orphans, answer, reported, faults>>

\* Mutant: every reply with status OK counts as an acceptance.
AssumeAccepted(a) ==
  /\ \/ request[a] \in {"accepted", "refused"} /\ Goes(a, "wait", "success")
     \/ request[a] = "broken" /\ Goes(a, "wait", "failure")
  /\ request' = [request EXCEPT ![a] = "none"]
  /\ UNCHANGED <<queueVars, poolVars, serviceVars, orphans, answer, turn, reported,
                 faults>>

\* The request ends.  A reply that refuses the task, for any reason, is an
\* assignment error; everything but a reply is a failure.
ReceiveReply(a) ==
  /\ \/ request[a] = "accepted" /\ Goes(a, "wait", "success")
     \/ request[a] = "refused"  /\ Goes(a, "wait", "error")
     \/ request[a] = "broken"   /\ Goes(a, "wait", "failure")
  /\ request' = [request EXCEPT ![a] = "none"]
  /\ UNCHANGED <<queueVars, poolVars, serviceVars, orphans, answer, turn, reported,
                 faults>>

\* No connection, a status other than OK or an unreadable reply: what became
\* of the request is not known to the assigner.
RequestFails(a) ==
  /\ Fault("request")
  /\ Goes(a, "wait", "failure")
  /\ request' = [request EXCEPT ![a] = "none"]
  /\ \/ UNCHANGED orphans
     \/ /\ request[a] = "sent"
        /\ orphans' = orphans \cup {<<assigner[a].work, handed[a]>>}
  /\ UNCHANGED <<queueVars, poolVars, serviceVars, answer, turn, reported>>

MarkWork(a) ==
  LET w == assigner[a].work
  IN  /\ \/ Goes(a, "success", "assigning") /\ Q!BeginAssignment(w, handed[a])
         \/ Goes(a, "assigning", "busy")    /\ Q!EndAssignment
         \/ Goes(a, "error", "idle")        /\ Q!MarkAssignmentError(w)
         \/ Goes(a, "failure", "idle")      /\ Q!MarkAssignmentFailure(w)
      /\ UNCHANGED <<poolVars, serviceVars, request, orphans, answer, turn,
                     reported, faults>>

\* Mutant: only a worker that took the work is reported on.
MarkBusyOnly(a) ==
  /\ \/ Returns(a, "busy") /\ P!MarkAssignmentResult(a, TRUE)
     \/ /\ Returns(a, "idle")
        /\ handed' = [handed EXCEPT ![a] = NoWorker]
        /\ UNCHANGED <<pool, refresher>>
  /\ UNCHANGED <<queueVars, serviceVars, request, orphans, answer, reported, faults>>

MarkWorker(a) ==
  /\ \/ Returns(a, "busy") /\ P!MarkAssignmentResult(a, TRUE)
     \/ Returns(a, "idle") /\ P!MarkAssignmentResult(a, FALSE)
  /\ UNCHANGED <<queueVars, serviceVars, request, orphans, answer, reported, faults>>
-----------------------------------------------------------------------------
(* checkTask.                                                              *)

\* Until a work to check is found and its worker read; without one, checkTask
\* returns.
FindWorkToCheck ==
  /\ turn = "check"
  /\ \/ /\ Q!BeginScan \/ Q!ScanStep \/ Q!TakeForChecking \/ Q!ReadAssignedWorker
        /\ UNCHANGED turn
     \/ /\ Q!ScanEnds \/ Q!ScanFails \/ Q!MakeWorkUnassigned
        /\ turn' = "assign"
  /\ UNCHANGED <<poolVars, serviceVars, assignVars, answer, reported, faults>>

\* Mutant: a task that is not in the log is taken for one that has ended.
GoneIsDone ==
  LET s == taskLog[checker.worker][checker.work]
  IN  IF s = NoStatus THEN "TerminatedNormally" ELSE s

TaskStatusAtWorker ==
  LET s == taskLog[checker.worker][checker.work]
  IN  IF s = NoStatus THEN "Unknown" ELSE s

QueryTask ==
  /\ Q!CheckerAt("check")
  /\ answer = NoStatus
  /\ answer' = TaskStatusAtWorker
  /\ UNCHANGED <<queueVars, poolVars, serviceVars, assignVars, turn, reported, faults>>

\* Mutant: the failure key of the reply is taken for the task's status.
AnswerFailureKey ==
  /\ Fault("query")
  /\ Q!CheckerAt("check")
  /\ answer = NoStatus
  /\ answer' = "failure"
  /\ UNCHANGED <<queueVars, poolVars, serviceVars, assignVars, turn, reported>>

\* No connection, a status other than OK, a failure or an unreadable reply.
QueryFails ==
  /\ Fault("query")
  /\ Q!CheckerAt("check")
  /\ answer = NoStatus
  /\ answer' = "UnreachableOrBadResponse"
  /\ UNCHANGED <<queueVars, poolVars, serviceVars, assignVars, turn, reported>>

\* A task that has ended is a hint to refresh the status of its worker.
ProcessAnswer ==
  /\ answer # NoStatus
  /\ Q!ProcessStatusCheckResult(answer)
  /\ IF answer \in {"TerminatedNormally", "TerminatedAbnormally"}
       THEN P!BeginHint(Scheduler, checker.worker)
       ELSE UNCHANGED poolVars
  /\ answer' = NoStatus
  /\ turn' = "assign"
  /\ UNCHANGED <<serviceVars, assignVars, reported, faults>>
-----------------------------------------------------------------------------
(* The workers, as WorkerService promises them.                            *)

Reports(x, w, s) == reported' = reported \cup {<<x, w, s>>}

\* The request that worker x is serving, unless nobody waits for it any more.
ServedFor(x) == {a \in Assigner : request[a] = "claimed" /\ handed[a] = x}
Resolve(x, result) ==
  request' = [a \in Assigner |-> IF a \in ServedFor(x) THEN result ELSE request[a]]

\* A run request arrives.  It claims an idle worker, or is refused: the worker
\* is not idle, or the task's arguments are no good.
Arrive(a) ==
  /\ request[a] = "sent"
  /\ LET x == handed[a]
     IN  \/ /\ S!Claim(x, assigner[a].work)
            /\ request' = [request EXCEPT ![a] = "claimed"]
         \/ /\ request' = [request EXCEPT ![a] = "refused"]
            /\ UNCHANGED serviceVars
  /\ UNCHANGED <<queueVars, poolVars, assigner, orphans, answer, turn, reported,
                 faults>>

ArriveLate(w, x) ==
  /\ <<w, x>> \in orphans
  /\ S!Claim(x, w) \/ UNCHANGED serviceVars
  /\ orphans' = orphans \ {<<w, x>>}
  /\ UNCHANGED <<queueVars, poolVars, assigner, request, answer, turn, reported,
                 faults>>

\* The worker logs and starts the task, or cannot: it has logged it before, or
\* cannot open the log file of the job.
Serve(x) ==
  /\ \/ /\ S!Log(x)
        /\ Resolve(x, "accepted")
        /\ Reports(x, claim[x], "Unscheduled")
     \/ /\ S!Refuse(x)
        /\ Resolve(x, "refused")
        /\ UNCHANGED reported
  /\ UNCHANGED <<queueVars, poolVars, assigner, orphans, answer, turn, faults>>

RunTask(x) ==
  /\ \/ S!Begin(x) /\ UNCHANGED reported
     \/ \E end \in {"TerminatedNormally", "TerminatedAbnormally"} :
           S!Finish(x, end) /\ Reports(x, claim[x], end)
     \/ S!BecomeIdle(x) /\ UNCHANGED reported
  /\ UNCHANGED <<queueVars, poolVars, assignVars, answer, turn, faults>>

\* An Error ends the thread that runs the task: the worker stays as it is.
LoseTask(x) ==
  /\ Fault("error")
  /\ S!GetStuck(x)
  /\ UNCHANGED <<queueVars, poolVars, assignVars, answer, turn, reported>>

Restart(x) ==
  /\ Fault("restart")
  /\ S!Restart(x)
  /\ Resolve(x, "broken")
  /\ UNCHANGED <<queueVars, poolVars, assigner, orphans, answer, turn, reported>>
-----------------------------------------------------------------------------
(* The pool: registration and refreshes.                                   *)

Others == <<queueVars, serviceVars, assignVars, answer, turn, reported>>

\* A worker that the coordinator does not know is not polled, and registers.
Register(x) ==
  /\ pool[x] = P!Absent
  /\ MayRefresh /\ P!AddToPool(x)
  /\ UNCHANGED <<refresher[Scheduler], Others, faults>>

\* A worker that has not been polled for a while registers again.
RegisterAgain(x) ==
  /\ Fault("pool")
  /\ pool[x] # P!Absent
  /\ MayRefresh /\ P!AddToPool(x)
  /\ UNCHANGED <<refresher[Scheduler], Others>>

Unregister(x) ==
  /\ Fault("pool")
  /\ P!DeleteFromPool(x)
  /\ UNCHANGED Others

Refresh(r) ==
  /\ \/ r = Poller /\ MayRefresh /\ P!BeginPoll
     \/ \E x \in Worker : P!Ask(r, x)
     \/ /\ P!RefresherAt(r, "ask")
        /\ P!Receive(r, IF stage[refresher[r].worker] = "free" THEN "idle" ELSE "busy")
     \/ P!TestStatus(r)
     \/ P!WriteStatus(r)
  /\ UNCHANGED <<Others, faults>>

RefreshFails(r) ==
  /\ Fault("refresh")
  /\ \E result \in {"bad", "nonOK", "unreachable"} : P!Receive(r, result)
  /\ UNCHANGED Others
-----------------------------------------------------------------------------
AssignerNext(a) ==
  \/ \E w \in Work : TakeWork(a, w)
  \/ NoWorkToAssign(a)
  \/ \E x \in Worker : TakeWorker(a, x)
  \/ NoIdleWorker(a)
  \/ ReleaseWork(a)
  \/ ReceiveReply(a)
  \/ MarkWork(a)
  \/ MarkWorker(a)

CheckerNext ==
  \/ FindWorkToCheck
  \/ QueryTask
  \/ ProcessAnswer
  \/ SchedulerAssigns

WorkerNext(x) == Serve(x) \/ RunTask(x)

FaultNext ==
  \/ \E a \in Assigner : RequestFails(a)
  \/ QueryFails
  \/ \E x \in Worker : LoseTask(x) \/ Restart(x) \/ RegisterAgain(x) \/ Unregister(x)
  \/ \E r \in P!Refresher : RefreshFails(r)

Next ==
  \/ \E w \in Work : QueueWork(w)
  \/ \E a \in Assigner : AssignerNext(a) \/ Arrive(a)
  \/ \E w \in Work, x \in Worker : ArriveLate(w, x)
  \/ CheckerNext
  \/ \E x \in Worker : WorkerNext(x) \/ Register(x)
  \/ \E r \in P!Refresher : Refresh(r)
  \/ FaultNext

Spec == Init /\ [][Next]_vars

\* Threads run, a request that does not fail ends, a worker that is not in the
\* pool registers, and the tasks come to an end.
Fairness ==
  /\ \A a \in Assigner : WF_vars(AssignerNext(a)) /\ WF_vars(Arrive(a))
  /\ WF_vars(CheckerNext)
  /\ \A x \in Worker : WF_vars(WorkerNext(x)) /\ WF_vars(Register(x))
  /\ \A r \in P!Refresher : WF_vars(Refresh(r))

FairSpec == Spec /\ Fairness
-----------------------------------------------------------------------------
(* What the coordinator guarantees.                                        *)

Holds(a, w) ==
  /\ assigner[a].work = w
  /\ assigner[a].pc \in {"worker", "release", "wait", "success", "error", "failure"}

\* A work on offer is in the hands of exactly one thread of assignWork, which
\* will mark it, and a thread marks only a work that is still on offer: the
\* methods that mark a work do not look at its status, and rely on that.
OneHolder == \A w \in Work :
  /\ status[w] = "TRYINGTOASSIGN" <=> \E a \in Assigner : Holds(a, w)
  /\ \A a, b \in Assigner : Holds(a, w) /\ Holds(b, w) => a = b

\* What a client is told happened: a work counts as terminated, normally or
\* abnormally, only if on some worker its task did terminate that way.
OutcomeHappened == \A w \in Work :
  /\ status[w] = "TERMINATEDNORMALLY" =>
       \E x \in Worker : <<x, w, "TerminatedNormally">> \in reported
  /\ status[w] = "TERMINATEDABNORMALLY" =>
       \E x \in Worker : <<x, w, "TerminatedAbnormally">> \in reported

\* The worker that is asked for the status of a work is one that accepted it,
\* although the work and its worker are read and written without a lock.
AsksAnAcceptor ==
  Q!CheckerAt("check") =>
    <<checker.worker, checker.work, "Unscheduled">> \in reported

\* Every work that was queued comes to an end, whatever (finitely often) fails.
EveryWorkEnds == \A w \in Work :
  Q!IsIn(w, incomplete) ~> status[w] \in Q!EndCodes
=============================================================================
