-------------------------- MODULE WorkMgr_proofs ---------------------------
(***************************************************************************)
(* The safety of WorkMgr, the coordinator and its workers, for any works,  *)
(* workers, threads and faults: the parts are used as their own modules    *)
(* allow, so that what is proved of each of them holds of the whole; a     *)
(* work on offer has one holder; and what is believed of a task happened.  *)
(***************************************************************************)
EXTENDS WorkMgr, TLAPS

Queue == INSTANCE WorkQueueMgr_proofs
Pool  == INSTANCE PoolMgr_proofs

-----------------------------------------------------------------------------
(* What is proved of the parts, with the names that WorkMgr has for them.  *)

LEMMA QueueAssumptions ==
  NoStatus \notin Queue!TaskStatus /\ NoWorker \notin Worker /\ NoWork \notin Work
  BY PartsAssumption DEF Q!TaskStatus, Queue!TaskStatus

LEMMA SameQueueInv == Queue!IInv <=> Q!IInv
  BY DEF Queue!IInv, Q!IInv, Queue!TypeOK, Q!TypeOK, Queue!OnePlacePerWork,
         Q!OnePlacePerWork, Queue!StatusMatchesQueue, Q!StatusMatchesQueue,
         Queue!CheckedWorkIsHeld, Q!CheckedWorkIsHeld, Queue!FreshStrikes,
         Q!FreshStrikes, Queue!Bookkeeping, Q!Bookkeeping, Queue!Held, Q!Held,
         Queue!CheckerHolds, Q!CheckerHolds, Queue!MonitorFree, Q!MonitorFree,
         Queue!CheckerAt, Q!CheckerAt, Queue!CheckerState, Q!CheckerState,
         Queue!CheckerPc, Q!CheckerPc, Queue!TaskStatus, Q!TaskStatus,
         Queue!WorkStatusCode, Q!WorkStatusCode, Queue!EndCodes, Q!EndCodes,
         Queue!IsIn, Q!IsIn, Queue!IsInjective, Q!IsInjective

LEMMA SameQueueInit == Queue!Init <=> Q!Init
  BY DEF Queue!Init, Q!Init, Queue!Unowned, Q!Unowned, Queue!Resting, Q!Resting

LEMMA SameQueueNext == [Queue!Next]_(Queue!queueVars) <=> [Q!Next]_(Q!queueVars)
  BY DEF Queue!queueVars, Q!queueVars, Queue!Next, Q!Next, Queue!AssignerNext,
         Q!AssignerNext, Queue!EndAssignment, Q!EndAssignment, Queue!CheckerNext,
         Q!CheckerNext, Queue!QueueUnassignedWork, Q!QueueUnassignedWork,
         Queue!GetWorkForAssignment, Q!GetWorkForAssignment, Queue!BeginAssignment,
         Q!BeginAssignment, Queue!MarkAssignmentFailure, Q!MarkAssignmentFailure,
         Queue!MarkAssignmentError, Q!MarkAssignmentError, Queue!BeginScan,
         Q!BeginScan, Queue!ScanEnds, Q!ScanEnds, Queue!ScanFails, Q!ScanFails,
         Queue!ScanStep, Q!ScanStep, Queue!TakeForChecking, Q!TakeForChecking,
         Queue!ReadAssignedWorker, Q!ReadAssignedWorker, Queue!MakeWorkUnassigned,
         Q!MakeWorkUnassigned, Queue!ProcessStatusCheckResult,
         Q!ProcessStatusCheckResult, Queue!KeepAssignment, Q!KeepAssignment,
         Queue!CompleteWork, Q!CompleteWork, Queue!FreeWork, Q!FreeWork,
         Queue!MonitorFree, Q!MonitorFree, Queue!IsIn, Q!IsIn, Queue!Modified,
         Q!Modified, Queue!SetStatus, Q!SetStatus, Queue!Unowned, Q!Unowned,
         Queue!Resting, Q!Resting, Queue!CheckerAt, Q!CheckerAt,
         Queue!MoveToCompleted, Q!MoveToCompleted, Queue!RemoveAt, Q!RemoveAt,
         Queue!TaskStatus, Q!TaskStatus

LEMMA QueueInit == Q!Init => Q!IInv
  BY SameQueueInit, SameQueueInv, Queue!InitInv, QueueAssumptions

LEMMA QueueNext == Q!IInv /\ [Q!Next]_(Q!queueVars) => Q!IInv'
  <1>1. (Queue!IInv <=> Q!IInv)'
    BY SameQueueInv, PTL
  <1>2. QED  BY <1>1, SameQueueInv, SameQueueNext, Queue!NextInv, QueueAssumptions

LEMMA SamePoolType == Pool!TypeOK <=> P!TypeOK
  BY DEF Pool!TypeOK, P!TypeOK, Pool!StatusCode, P!StatusCode, Pool!Absent, P!Absent,
         Pool!Refresher, P!Refresher, Pool!RefresherState, P!RefresherState,
         Pool!Polled, P!Polled

LEMMA SamePoolInit == Pool!Init <=> P!Init
  BY DEF Pool!Init, P!Init, Pool!Absent, P!Absent, Pool!Refresher, P!Refresher,
         Pool!Quiet, P!Quiet

LEMMA SamePoolNext == [Pool!Next]_(Pool!poolVars) <=> [P!Next]_(P!poolVars)
  BY DEF Pool!poolVars, P!poolVars, Pool!Next, P!Next, Pool!RegistrationNext,
         P!RegistrationNext, Pool!AddToPool, P!AddToPool, Pool!DeleteFromPool,
         P!DeleteFromPool, Pool!AssignerNext, P!AssignerNext,
         Pool!GetWorkerForAssignment, P!GetWorkerForAssignment,
         Pool!MarkAssignmentResult, P!MarkAssignmentResult, Pool!BeginPoll,
         P!BeginPoll, Pool!RefresherNext, P!RefresherNext, Pool!BeginHint,
         P!BeginHint, Pool!Ask, P!Ask, Pool!Receive, P!Receive, Pool!TestStatus,
         P!TestStatus, Pool!WriteStatus, P!WriteStatus, Pool!UpdateWorkerStatus,
         P!UpdateWorkerStatus, Pool!NextInList, P!NextInList, Pool!RefresherAt,
         P!RefresherAt, Pool!Members, P!Members, Pool!Absent, P!Absent,
         Pool!Quiet, P!Quiet, Pool!Refresher, P!Refresher, Pool!Answer, P!Answer

LEMMA PoolInit == P!Init => P!TypeOK
  BY SamePoolInit, SamePoolType, Pool!InitType, PartsAssumption

LEMMA PoolNext == P!TypeOK /\ [P!Next]_(P!poolVars) => P!TypeOK'
  <1>1. (Pool!TypeOK <=> P!TypeOK)'
    BY SamePoolType, PTL
  <1>2. QED  BY <1>1, SamePoolType, SamePoolNext, Pool!NextType, PartsAssumption
-----------------------------------------------------------------------------
(* The inductive invariant.                                                *)

Ends == {"TerminatedNormally", "TerminatedAbnormally"}

\* Worker x has reported to have logged work w, that is, accepted it.
Accepted(x, w) == <<x, w, "Unscheduled">> \in reported

\* An assigner has a work from "worker" on, a worker from "wait" on, and a
\* request, if at all, in "wait".
Locals == \A a \in Assigner :
  /\ assigner[a].pc \notin {"rest", "begin"} => assigner[a].work \in Work
  /\ handed[a] # NoWorker <=>
       assigner[a].pc \in {"wait", "success", "error", "failure", "assigning", "busy",
                           "idle"}
  /\ request[a] # "none" => assigner[a].pc = "wait"

\* A worker that is not idle is claimed for a work, and when the request that it
\* serves is an assigner's, for the work of that.
Served ==
  /\ \A x \in Worker : stage[x] # "free" => claim[x] \in Work
  /\ \A a \in Assigner : request[a] = "claimed" =>
       stage[handed[a]] = "claimed" /\ claim[handed[a]] = assigner[a].work

\* Whoever is written down, or about to be, as the worker of a work accepted it.
AcceptedOnly ==
  /\ \A a \in Assigner : request[a] = "accepted" \/ assigner[a].pc = "success" =>
       Accepted(handed[a], assigner[a].work)
  /\ ~ Q!MonitorFree => Accepted(monitor.worker, monitor.work)
  /\ \A w \in Work : assignedWorker[w] # NoWorker => Accepted(assignedWorker[w], w)

\* What a worker has in its log of an end, and what it answers of one, it reported.
EndsReported ==
  /\ \A x \in Worker, w \in Work :
       taskLog[x][w] \in Ends => <<x, w, taskLog[x][w]>> \in reported
  /\ answer # NoStatus => Q!CheckerAt("check")
  /\ answer \in Ends => <<checker.worker, checker.work, answer>> \in reported

IInv == /\ Q!IInv
        /\ TypeOK
        /\ Locals
        /\ Served
        /\ OneHolder
        /\ AcceptedOnly
        /\ AsksAnAcceptor
        /\ EndsReported
        /\ OutcomeHappened

-----------------------------------------------------------------------------
(* Every step uses the parts as they allow.                                *)

LEMMA UsesQueue ==
  ASSUME IInv, [Next]_vars
  PROVE  [Q!Next]_(Q!queueVars)
  <1> USE DEF IInv, Q!queueVars
  <1>1. ASSUME NEW w \in Work, QueueWork(w) PROVE Q!Next
    BY <1>1 DEF QueueWork, Q!Next, Q!AssignerNext
  <1>2. ASSUME NEW a \in Assigner, AssignerNext(a) PROVE [Q!Next]_(Q!queueVars)
    <2>1. ASSUME NEW w \in Work, TakeWork(a, w) PROVE Q!Next
      BY <2>1 DEF TakeWork, Q!Next, Q!AssignerNext
    <2>2. ASSUME assigner[a].pc \notin {"rest", "begin"} PROVE assigner[a].work \in Work
      BY <2>2 DEF Locals
    <2>3. CASE ReleaseWork(a)
      BY <2>2, <2>3 DEF ReleaseWork, Returns, Q!Next, Q!AssignerNext
    <2>4. CASE MarkWork(a)
      <3>1. assigner[a].work \in Work
        BY <2>2, <2>4 DEF MarkWork, Goes
      <3>2. assigner[a].pc = "success" => handed[a] \in Worker
        BY DEF Locals, TypeOK, P!TypeOK
      <3>3. QED  BY <2>4, <3>1, <3>2 DEF MarkWork, Goes, Q!Next, Q!AssignerNext
    <2>5. CASE NoWorkToAssign(a) \/ (\E x \in Worker : TakeWorker(a, x)) \/ NoIdleWorker(a)
               \/ ReceiveReply(a) \/ MarkWorker(a)
      BY <2>5 DEF NoWorkToAssign, TakeWorker, NoIdleWorker, ReceiveReply, MarkWorker,
                  queueVars
    <2>6. QED  BY <1>2, <2>1, <2>3, <2>4, <2>5 DEF AssignerNext
  <1>3. CASE CheckerNext
    <2>1. CASE FindWorkToCheck
      BY <2>1 DEF FindWorkToCheck, Q!Next, Q!CheckerNext
    <2>2. CASE ProcessAnswer
      <3>1. answer \in Q!TaskStatus
        BY <2>2 DEF ProcessAnswer, TypeOK
      <3>2. QED  BY <2>2, <3>1 DEF ProcessAnswer, Q!Next, Q!CheckerNext
    <2>3. CASE QueryTask \/ SchedulerAssigns
      BY <2>3 DEF QueryTask, SchedulerAssigns, queueVars
    <2>4. QED  BY <1>3, <2>1, <2>2, <2>3 DEF CheckerNext
  <1>4. CASE UNCHANGED queueVars
    BY <1>4 DEF queueVars
  <1>5. QED
    <2>1. ASSUME NEW a \in Assigner, Arrive(a) PROVE UNCHANGED queueVars
      BY <2>1 DEF Arrive
    <2>2. ASSUME NEW w \in Work, NEW x \in Worker, ArriveLate(w, x)
          PROVE  UNCHANGED queueVars
      BY <2>2 DEF ArriveLate
    <2>3. ASSUME NEW x \in Worker, WorkerNext(x) \/ Register(x) PROVE UNCHANGED queueVars
      BY <2>3 DEF WorkerNext, Serve, RunTask, Register, Others
    <2>4. ASSUME NEW r \in P!Refresher, Refresh(r) PROVE UNCHANGED queueVars
      BY <2>4 DEF Refresh, Others
    <2>5. ASSUME FaultNext PROVE UNCHANGED queueVars
      BY <2>5 DEF FaultNext, RequestFails, QueryFails, LoseTask, Restart, RegisterAgain,
                  Unregister, RefreshFails, Others
    <2>6. UNCHANGED vars => UNCHANGED queueVars
      BY DEF vars
    <2>7. QED  BY <1>1, <1>2, <1>3, <1>4, <2>1, <2>2, <2>3, <2>4, <2>5, <2>6 DEF Next

LEMMA UsesPool ==
  ASSUME IInv, [Next]_vars
  PROVE  [P!Next]_(P!poolVars)
  <1> USE DEF IInv, P!poolVars
  <1>1. ASSUME NEW a \in Assigner, AssignerNext(a) PROVE [P!Next]_(P!poolVars)
    <2>1. ASSUME NEW x \in Worker, TakeWorker(a, x) PROVE P!Next
      BY <2>1 DEF TakeWorker, P!Next, P!AssignerNext
    <2>2. CASE MarkWorker(a)
      BY <2>2 DEF MarkWorker, P!Next, P!AssignerNext
    <2>3. CASE UNCHANGED poolVars
      BY <2>3 DEF poolVars
    <2>4. QED
      BY <1>1, <2>1, <2>2, <2>3
         DEF AssignerNext, TakeWork, NoWorkToAssign, NoIdleWorker, ReleaseWork,
             ReceiveReply, MarkWork
  <1>2. CASE ProcessAnswer
    <2>1. Q!CheckerAt("check")
      BY <1>2 DEF ProcessAnswer, Q!ProcessStatusCheckResult
    <2>2. checker.worker \in Worker
      BY <2>1 DEF AsksAnAcceptor, TypeOK
    <2>3. Scheduler \in Spawned /\ Scheduler \in P!Refresher
      BY DEF Spawned, P!Refresher
    <2>4. QED
      BY <1>2, <2>2, <2>3 DEF ProcessAnswer, P!Next, P!RefresherNext, poolVars
  <1>3. ASSUME NEW x \in Worker, Register(x) \/ RegisterAgain(x) \/ Unregister(x)
        PROVE  P!Next
    BY <1>3 DEF Register, RegisterAgain, Unregister, P!Next, P!RegistrationNext
  <1>4. ASSUME NEW r \in P!Refresher, Refresh(r) PROVE P!Next
    <2>1. ASSUME NEW result \in P!Answer, P!Receive(r, result) PROVE P!Next
      BY <2>1 DEF P!Next, P!RefresherNext
    <2>2. CASE P!BeginPoll \/ (\E x \in Worker : P!Ask(r, x)) \/ P!TestStatus(r)
               \/ P!WriteStatus(r)
      BY <2>2 DEF P!Next, P!RefresherNext
    <2>3. "idle" \in P!Answer /\ "busy" \in P!Answer
      BY DEF P!Answer
    <2>4. QED  BY <1>4, <2>1, <2>2, <2>3 DEF Refresh
  <1>5. ASSUME NEW r \in P!Refresher, RefreshFails(r) PROVE P!Next
    BY <1>5 DEF RefreshFails, P!Next, P!RefresherNext, P!Answer
  <1>6. CASE UNCHANGED poolVars
    BY <1>6 DEF poolVars
  <1>7. QED
    <2>1. ASSUME NEW w \in Work, QueueWork(w) PROVE UNCHANGED poolVars
      BY <2>1 DEF QueueWork
    <2>2. ASSUME NEW a \in Assigner, Arrive(a) \/ RequestFails(a) PROVE UNCHANGED poolVars
      BY <2>2 DEF Arrive, RequestFails
    <2>3. ASSUME NEW w \in Work, NEW x \in Worker, ArriveLate(w, x)
          PROVE  UNCHANGED poolVars
      BY <2>3 DEF ArriveLate
    <2>4. ASSUME NEW x \in Worker, WorkerNext(x) \/ LoseTask(x) \/ Restart(x)
          PROVE  UNCHANGED poolVars
      BY <2>4 DEF WorkerNext, Serve, RunTask, LoseTask, Restart
    <2>5. ASSUME FindWorkToCheck \/ QueryTask \/ SchedulerAssigns \/ QueryFails
          PROVE  UNCHANGED poolVars
      BY <2>5 DEF FindWorkToCheck, QueryTask, SchedulerAssigns, QueryFails
    <2>6. UNCHANGED vars => UNCHANGED poolVars
      BY DEF vars
    <2>7. QED
      BY <1>1, <1>2, <1>3, <1>4, <1>5, <1>6, <2>1, <2>2, <2>3, <2>4, <2>5, <2>6
         DEF Next, CheckerNext, FaultNext

LEMMA UsesService ==
  ASSUME IInv, [Next]_vars
  PROVE  [S!Next]_(S!serviceVars)
  <1> USE DEF IInv, S!serviceVars
  <1>1. ASSUME NEW a \in Assigner, Arrive(a) PROVE [S!Next]_(S!serviceVars)
    <2>1. assigner[a].pc = "wait"
      BY <1>1 DEF Arrive, Locals
    <2>2. assigner[a].work \in Work /\ handed[a] \in Worker
      BY <2>1 DEF Locals, TypeOK, P!TypeOK
    <2>3. QED  BY <1>1, <2>2 DEF Arrive, S!Next, serviceVars
  <1>2. ASSUME NEW w \in Work, NEW x \in Worker, ArriveLate(w, x)
        PROVE  [S!Next]_(S!serviceVars)
    BY <1>2 DEF ArriveLate, S!Next, serviceVars
  <1>3. ASSUME NEW x \in Worker, WorkerNext(x) \/ LoseTask(x) \/ Restart(x) PROVE S!Next
    BY <1>3 DEF WorkerNext, Serve, RunTask, LoseTask, Restart, S!Next
  <1>4. CASE UNCHANGED serviceVars
    BY <1>4 DEF serviceVars
  <1>5. QED
    <2>1. ASSUME NEW w \in Work, QueueWork(w) PROVE UNCHANGED serviceVars
      BY <2>1 DEF QueueWork
    <2>2. ASSUME NEW a \in Assigner, AssignerNext(a) \/ RequestFails(a)
          PROVE  UNCHANGED serviceVars
      BY <2>2 DEF AssignerNext, TakeWork, NoWorkToAssign, TakeWorker, NoIdleWorker,
                  ReleaseWork, ReceiveReply, MarkWork, MarkWorker, RequestFails
    <2>3. ASSUME CheckerNext \/ QueryFails PROVE UNCHANGED serviceVars
      BY <2>3 DEF CheckerNext, FindWorkToCheck, QueryTask, ProcessAnswer,
                  SchedulerAssigns, QueryFails
    <2>4. ASSUME NEW x \in Worker, Register(x) \/ RegisterAgain(x) \/ Unregister(x)
          PROVE  UNCHANGED serviceVars
      BY <2>4 DEF Register, RegisterAgain, Unregister, Others
    <2>5. ASSUME NEW r \in P!Refresher, Refresh(r) \/ RefreshFails(r)
          PROVE  UNCHANGED serviceVars
      BY <2>5 DEF Refresh, RefreshFails, Others
    <2>6. UNCHANGED vars => UNCHANGED serviceVars
      BY DEF vars
    <2>7. QED  BY <1>1, <1>2, <1>3, <1>4, <2>1, <2>2, <2>3, <2>4, <2>5, <2>6
               DEF Next, FaultNext
-----------------------------------------------------------------------------
(* The invariant is inductive.                                             *)

LEMMA InitHolds == Init => IInv
  <1> SUFFICES ASSUME Init PROVE IInv
    OBVIOUS
  <1>1. Q!IInv /\ P!TypeOK
    BY QueueInit, PoolInit DEF Init
  <1>2. /\ status = [w \in Work |-> "UNASSIGNED"]
        /\ assignedWorker = [w \in Work |-> NoWorker]
        /\ Q!MonitorFree
        /\ checker.pc = "rest"
    BY DEF Init, Q!Init, Q!MonitorFree, Q!Unowned, Q!Resting
  <1>3. TypeOK
    BY <1>1, BoundsAssumption
       DEF Init, S!Init, S!Stages, TypeOK, Q!IInv, AtRest, AssignerPc
  <1>4. Locals /\ Served
    BY PartsAssumption DEF Init, Locals, Served, P!Init, S!Init, AtRest
  <1>5. OneHolder
    BY <1>2 DEF Init, OneHolder, Holds, AtRest
  <1>6. AcceptedOnly /\ AsksAnAcceptor /\ EndsReported
    BY <1>2, PartsAssumption
       DEF Init, AcceptedOnly, AsksAnAcceptor, EndsReported, AtRest, S!Init, Ends,
           Q!CheckerAt, Q!TaskStatus
  <1>7. OutcomeHappened
    BY <1>2 DEF OutcomeHappened
  <1>8. QED  BY <1>1, <1>3, <1>4, <1>5, <1>6, <1>7 DEF IInv

LEMMA ResolveType ==
  ASSUME TypeOK, NEW x, NEW result \in {"accepted", "refused", "broken"},
         Resolve(x, result)
  PROVE  request' \in [Assigner -> {"none", "sent", "claimed", "accepted", "refused",
                                    "broken"}]
  BY DEF TypeOK, Resolve

\* The types of the variables of WorkMgr itself and of the workers.
OwnTypes ==
  /\ stage \in [Worker -> S!Stages]
  /\ claim \in [Worker -> Work \cup {NoWork}]
  /\ taskLog \in [Worker -> [Work -> Q!TaskStatus \cup {NoStatus}]]
  /\ assigner \in [Assigner -> [pc : AssignerPc, work : Work \cup {NoWork}]]
  /\ request \in [Assigner -> {"none", "sent", "claimed", "accepted", "refused",
                               "broken"}]
  /\ orphans \subseteq Work \X Worker
  /\ answer \in Q!TaskStatus \cup {NoStatus}
  /\ turn \in {"check", "assign"}
  /\ reported \subseteq Worker \X Work \X Q!TaskStatus
  /\ faults \in 0 .. MaxFaults

\* A thread in assignWork goes to another line.
LEMMA GoesType ==
  ASSUME TypeOK, NEW a \in Assigner, NEW to \in AssignerPc,
         assigner' = [assigner EXCEPT ![a].pc = to]
  PROVE  assigner' \in [Assigner -> [pc : AssignerPc, work : Work \cup {NoWork}]]
  <1>1. assigner \in [Assigner -> [pc : AssignerPc, work : Work \cup {NoWork}]]
    BY DEF TypeOK
  <1>2. QED  BY <1>1

LEMMA AssignerType ==
  ASSUME IInv, NEW a \in Assigner, AssignerNext(a) \/ RequestFails(a) \/ Arrive(a)
  PROVE  OwnTypes'
  <1> USE DEF IInv, TypeOK, OwnTypes, AssignerPc, Goes, Returns, AtRest
  <1>1. ASSUME NEW w \in Work, TakeWork(a, w) PROVE OwnTypes'
    BY <1>1 DEF TakeWork, serviceVars
  <1>2. CASE NoWorkToAssign(a)
    BY <1>2 DEF NoWorkToAssign, serviceVars
  <1>3. ASSUME NEW x \in Worker, TakeWorker(a, x) PROVE OwnTypes'
    BY <1>3 DEF TakeWorker, serviceVars
  <1>4. CASE NoIdleWorker(a)
    BY <1>4 DEF NoIdleWorker, serviceVars
  <1>5. CASE ReleaseWork(a)
    BY <1>5 DEF ReleaseWork, serviceVars
  <1>6. CASE ReceiveReply(a)
    <2>1. PICK to \in AssignerPc : assigner' = [assigner EXCEPT ![a].pc = to]
      BY <1>6 DEF ReceiveReply
    <2>2. assigner' \in [Assigner -> [pc : AssignerPc, work : Work \cup {NoWork}]]
      BY <2>1, GoesType
    <2>3. request' \in [Assigner -> {"none", "sent", "claimed", "accepted", "refused",
                                     "broken"}]
      BY <1>6 DEF ReceiveReply
    <2>4. QED  BY <1>6, <2>2, <2>3 DEF ReceiveReply, serviceVars
  <1>7. CASE MarkWork(a)
    <2>1. PICK to \in AssignerPc : assigner' = [assigner EXCEPT ![a].pc = to]
      BY <1>7 DEF MarkWork
    <2>2. assigner' \in [Assigner -> [pc : AssignerPc, work : Work \cup {NoWork}]]
      BY <2>1, GoesType
    <2>3. QED  BY <1>7, <2>2 DEF MarkWork, serviceVars
  <1>8. CASE MarkWorker(a)
    <2>1. Returns(a, "busy") \/ Returns(a, "idle")
      BY <1>8 DEF MarkWorker
    <2>2. assigner' \in [Assigner -> [pc : AssignerPc, work : Work \cup {NoWork}]]
          /\ turn' \in {"check", "assign"}
      BY <2>1
    <2>3. QED  BY <1>8, <2>2 DEF MarkWorker, serviceVars
  <1>9. CASE RequestFails(a)
    <2>1. request[a] = "sent" => <<assigner[a].work, handed[a]>> \in Work \X Worker
      BY DEF Locals, P!TypeOK
    <2>2. orphans' \subseteq Work \X Worker
      BY <1>9, <2>1 DEF RequestFails
    <2>3. faults' \in 0 .. MaxFaults
      BY <1>9, BoundsAssumption DEF RequestFails, Fault
    <2>4. QED  BY <1>9, <2>2, <2>3 DEF RequestFails, serviceVars
  <1>10. CASE Arrive(a)
    <2>1. assigner[a].work \in Work /\ handed[a] \in Worker
      BY <1>10 DEF Arrive, Locals, P!TypeOK
    <2>2. stage' \in [Worker -> S!Stages] /\ claim' \in [Worker -> Work \cup {NoWork}]
          /\ UNCHANGED taskLog
      BY <1>10, <2>1 DEF Arrive, S!Claim, S!Stage, S!Stages, serviceVars
    <2>3. QED  BY <1>10, <2>2 DEF Arrive
  <1>11. QED
    BY <1>1, <1>2, <1>3, <1>4, <1>5, <1>6, <1>7, <1>8, <1>9, <1>10 DEF AssignerNext

LEMMA CheckerType ==
  ASSUME IInv, CheckerNext \/ QueryFails
  PROVE  OwnTypes'
  <1> USE DEF IInv, TypeOK, OwnTypes, serviceVars, assignVars
  <1>1. CASE FindWorkToCheck
    BY <1>1 DEF FindWorkToCheck
  <1>2. CASE QueryTask
    <2>1. checker.worker \in Worker /\ checker.work \in Work
      BY <1>2 DEF QueryTask, AsksAnAcceptor
    <2>2. answer' \in Q!TaskStatus
      BY <1>2, <2>1 DEF QueryTask, TaskStatusAtWorker, Q!TaskStatus
    <2>3. QED  BY <1>2, <2>2 DEF QueryTask
  <1>3. CASE ProcessAnswer
    BY <1>3 DEF ProcessAnswer
  <1>4. CASE SchedulerAssigns
    BY <1>4 DEF SchedulerAssigns, Goes, AssignerPc, Assigner
  <1>5. CASE QueryFails
    BY <1>5, BoundsAssumption DEF QueryFails, Fault, Q!TaskStatus
  <1>6. QED  BY <1>1, <1>2, <1>3, <1>4, <1>5 DEF CheckerNext

LEMMA WorkerType ==
  ASSUME IInv, NEW x \in Worker, WorkerNext(x) \/ LoseTask(x) \/ Restart(x)
  PROVE  OwnTypes'
  <1> USE DEF IInv, TypeOK, OwnTypes, assignVars, S!Stages, S!Stage, S!Report
  <1>1. stage[x] # "free" => claim[x] \in Work
    BY DEF Served
  <1>2. CASE Serve(x)
    <2>1. request' \in [Assigner -> {"none", "sent", "claimed", "accepted", "refused",
                                     "broken"}]
      BY <1>2, ResolveType DEF Serve
    <2>2. CASE S!Log(x) /\ Reports(x, claim[x], "Unscheduled")
      <3>1. claim[x] \in Work /\ "Unscheduled" \in Q!TaskStatus
        BY <1>1, <2>2 DEF S!Log, Q!TaskStatus
      <3>2. taskLog' \in [Worker -> [Work -> Q!TaskStatus \cup {NoStatus}]]
        BY <2>2, <3>1 DEF S!Log
      <3>3. reported' \subseteq Worker \X Work \X Q!TaskStatus
        BY <2>2, <3>1 DEF Reports
      <3>4. QED  BY <1>2, <2>1, <2>2, <3>2, <3>3 DEF Serve, S!Log
    <2>3. CASE S!Refuse(x) /\ UNCHANGED reported
      BY <1>2, <2>1, <2>3 DEF Serve, S!Refuse
    <2>4. QED  BY <1>2, <2>2, <2>3 DEF Serve
  <1>3. CASE RunTask(x)
    <2>1. CASE S!Begin(x) /\ UNCHANGED reported
      <3>1. claim[x] \in Work /\ "InProgress" \in Q!TaskStatus
        BY <1>1, <2>1 DEF S!Begin, Q!TaskStatus
      <3>2. taskLog' \in [Worker -> [Work -> Q!TaskStatus \cup {NoStatus}]]
        BY <2>1, <3>1 DEF S!Begin
      <3>3. QED  BY <1>3, <2>1, <3>2 DEF RunTask, S!Begin
    <2>2. ASSUME NEW end \in Ends, S!Finish(x, end), Reports(x, claim[x], end)
          PROVE  OwnTypes'
      <3>1. claim[x] \in Work /\ end \in Q!TaskStatus
        BY <1>1, <2>2 DEF S!Finish, Q!TaskStatus, Ends
      <3>2. taskLog' \in [Worker -> [Work -> Q!TaskStatus \cup {NoStatus}]]
        BY <2>2, <3>1 DEF S!Finish
      <3>3. reported' \subseteq Worker \X Work \X Q!TaskStatus
        BY <2>2, <3>1 DEF Reports
      <3>4. QED  BY <1>3, <2>2, <3>2, <3>3 DEF RunTask, S!Finish
    <2>3. CASE S!BecomeIdle(x) /\ UNCHANGED reported
      BY <1>3, <2>3 DEF RunTask, S!BecomeIdle
    <2>4. QED  BY <1>3, <2>1, <2>2, <2>3 DEF RunTask, Ends
  <1>4. CASE Restart(x)
    <2>1. request' \in [Assigner -> {"none", "sent", "claimed", "accepted", "refused",
                                     "broken"}]
      BY <1>4, ResolveType DEF Restart
    <2>2. faults' \in 0 .. MaxFaults
      BY <1>4, BoundsAssumption DEF Restart, Fault
    <2>3. QED  BY <1>4, <2>1, <2>2 DEF Restart, S!Restart
  <1>5. CASE LoseTask(x)
    BY <1>5, BoundsAssumption DEF LoseTask, Fault, S!GetStuck
  <1>6. QED  BY <1>2, <1>3, <1>4, <1>5 DEF WorkerNext

LEMMA NextType ==
  ASSUME IInv, [Next]_vars
  PROVE  TypeOK'
  <1>1. Q!TypeOK' /\ P!TypeOK'
    BY UsesQueue, UsesPool, QueueNext, PoolNext DEF IInv, TypeOK, Q!IInv
  <1>2. OwnTypes'
    <2> USE DEF IInv, TypeOK, OwnTypes
    <2>1. ASSUME NEW w \in Work, QueueWork(w) PROVE OwnTypes'
      BY <2>1 DEF QueueWork, Goes, AssignerPc, serviceVars, Assigner
    <2>2. ASSUME NEW w \in Work, NEW x \in Worker, ArriveLate(w, x) PROVE OwnTypes'
      <3>1. stage' \in [Worker -> S!Stages] /\ claim' \in [Worker -> Work \cup {NoWork}]
            /\ UNCHANGED taskLog
        BY <2>2 DEF ArriveLate, S!Claim, S!Stage, S!Stages, serviceVars
      <3>2. QED  BY <2>2, <3>1 DEF ArriveLate
    <2>3. ASSUME NEW x \in Worker, Register(x) PROVE OwnTypes'
      BY <2>3 DEF Register, Others, serviceVars, assignVars
    <2>4. ASSUME NEW r \in P!Refresher, Refresh(r) PROVE OwnTypes'
      BY <2>4 DEF Refresh, Others, serviceVars, assignVars
    <2>5. ASSUME NEW x \in Worker, RegisterAgain(x) \/ Unregister(x) PROVE OwnTypes'
      BY <2>5, BoundsAssumption
         DEF RegisterAgain, Unregister, Fault, Others, serviceVars, assignVars
    <2>6. ASSUME NEW r \in P!Refresher, RefreshFails(r) PROVE OwnTypes'
      BY <2>6, BoundsAssumption DEF RefreshFails, Fault, Others, serviceVars, assignVars
    <2>7. CASE UNCHANGED vars
      BY <2>7 DEF vars, serviceVars, assignVars
    <2>8. QED
      BY <2>1, <2>2, <2>3, <2>4, <2>5, <2>6, <2>7, AssignerType, CheckerType, WorkerType
         DEF Next, FaultNext
  <1>3. QED  BY <1>1, <1>2 DEF TypeOK, OwnTypes

\* Steps that are not an assigner's leave what the assigners have as it is, and
\* resolve requests that workers serve at most.
LEMMA AssignersStay ==
  ASSUME IInv,
         \/ CheckerNext /\ ~ SchedulerAssigns
         \/ \E w \in Work, x \in Worker : ArriveLate(w, x)
         \/ \E x \in Worker : WorkerNext(x) \/ Register(x)
         \/ \E r \in P!Refresher : Refresh(r) \/ RefreshFails(r)
         \/ QueryFails
         \/ \E x \in Worker : \/ LoseTask(x) \/ Restart(x)
                              \/ RegisterAgain(x) \/ Unregister(x)
         \/ UNCHANGED vars
  PROVE  /\ UNCHANGED <<assigner, handed>>
         /\ \A a \in Assigner : request'[a] = request[a] \/ request[a] = "claimed"
  <1>1. ASSUME CheckerNext, ~ SchedulerAssigns
        PROVE  UNCHANGED <<assigner, handed, request>>
    BY <1>1 DEF CheckerNext, FindWorkToCheck, QueryTask, ProcessAnswer, P!BeginHint,
                assignVars, poolVars
  <1>2. ASSUME NEW w \in Work, NEW x \in Worker, ArriveLate(w, x)
        PROVE  UNCHANGED <<assigner, handed, request>>
    BY <1>2 DEF ArriveLate, poolVars
  <1>3. ASSUME NEW x \in Worker, Serve(x) \/ Restart(x)
        PROVE  /\ UNCHANGED <<assigner, handed>>
               /\ \A a \in Assigner : request'[a] = request[a] \/ request[a] = "claimed"
    <2>1. UNCHANGED <<assigner, handed>>
      BY <1>3 DEF Serve, Restart, poolVars
    <2>2. PICK result : Resolve(x, result)
      BY <1>3 DEF Serve, Restart
    <2>3. QED  BY <2>1, <2>2 DEF Resolve, ServedFor
  <1>4. ASSUME NEW x \in Worker, RunTask(x) \/ LoseTask(x)
        PROVE  UNCHANGED <<assigner, handed, request>>
    BY <1>4 DEF RunTask, LoseTask, assignVars, poolVars
  <1>5. ASSUME NEW x \in Worker, Register(x) \/ RegisterAgain(x) \/ Unregister(x)
        PROVE  UNCHANGED <<assigner, handed, request>>
    BY <1>5 DEF Register, RegisterAgain, Unregister, Others, assignVars, P!AddToPool,
                P!DeleteFromPool
  <1>6. ASSUME NEW r \in P!Refresher, Refresh(r) \/ RefreshFails(r)
        PROVE  UNCHANGED <<assigner, handed, request>>
    BY <1>6 DEF Refresh, RefreshFails, Others, assignVars, P!BeginPoll, P!Ask,
                P!Receive, P!TestStatus, P!WriteStatus
  <1>7. QueryFails \/ UNCHANGED vars => UNCHANGED <<assigner, handed, request>>
    BY DEF QueryFails, vars, assignVars, poolVars
  <1>8. QED  BY <1>1, <1>2, <1>3, <1>4, <1>5, <1>6, <1>7 DEF WorkerNext

\* What steps of an assigner, or that start one, do to the assigners.
LEMMA OneAssigner ==
  ASSUME IInv, NEW a \in Assigner,
         \/ AssignerNext(a) \/ RequestFails(a) \/ Arrive(a)
         \/ Goes(a, "rest", "begin") /\ UNCHANGED <<handed, request>>
  PROVE  \A b \in Assigner \ {a} : /\ assigner'[b] = assigner[b]
                                   /\ handed'[b] = handed[b]
                                   /\ request'[b] = request[b]
  <1> USE DEF IInv, TypeOK, P!TypeOK, Goes, Returns, poolVars
  <1>1. \A b \in Assigner \ {a} : assigner'[b] = assigner[b]
    BY DEF AssignerNext, TakeWork, NoWorkToAssign, TakeWorker, NoIdleWorker, ReleaseWork,
           ReceiveReply, MarkWork, MarkWorker, RequestFails, Arrive
  <1>2. \A b \in Assigner \ {a} : handed'[b] = handed[b]
    BY DEF AssignerNext, TakeWork, NoWorkToAssign, TakeWorker, NoIdleWorker, ReleaseWork,
           ReceiveReply, MarkWork, MarkWorker, RequestFails, Arrive,
           P!GetWorkerForAssignment, P!MarkAssignmentResult
  <1>3. \A b \in Assigner \ {a} : request'[b] = request[b]
    BY DEF AssignerNext, TakeWork, NoWorkToAssign, TakeWorker, NoIdleWorker, ReleaseWork,
           ReceiveReply, MarkWork, MarkWorker, RequestFails, Arrive
  <1>4. QED  BY <1>1, <1>2, <1>3

\* And what they do to its own.
LEMMA OwnLocals ==
  ASSUME IInv, NEW a \in Assigner,
         \/ AssignerNext(a) \/ RequestFails(a) \/ Arrive(a)
         \/ Goes(a, "rest", "begin") /\ UNCHANGED <<handed, request>>
  PROVE  /\ assigner'[a].pc \notin {"rest", "begin"} => assigner'[a].work \in Work
         /\ handed'[a] # NoWorker <=>
              assigner'[a].pc \in {"wait", "success", "error", "failure", "assigning",
                                   "busy", "idle"}
         /\ request'[a] # "none" => assigner'[a].pc = "wait"
  <1> USE DEF IInv, TypeOK, P!TypeOK, Goes, Returns, poolVars, Locals, AtRest
  <1>1. CASE \/ Arrive(a) \/ RequestFails(a)
             \/ Goes(a, "rest", "begin") /\ UNCHANGED <<handed, request>>
    BY <1>1 DEF Arrive, RequestFails
  <1>2. CASE MarkWorker(a)
    <2>1. handed' = [handed EXCEPT ![a] = NoWorker]
      BY <1>2 DEF MarkWorker, P!MarkAssignmentResult
    <2>2. assigner' = [assigner EXCEPT ![a] = AtRest] /\ UNCHANGED request
          /\ assigner[a].pc # "wait"
      BY <1>2 DEF MarkWorker
    <2>3. QED  BY <2>1, <2>2
  <1>3. CASE MarkWork(a)
    <2>1. PICK from \in {"success", "assigning", "error", "failure"},
               to \in {"assigning", "busy", "idle"} : Goes(a, from, to)
      BY <1>3 DEF MarkWork
    <2>2. UNCHANGED <<handed, request>>
      BY <1>3 DEF MarkWork
    <2>3. QED  BY <2>1, <2>2
  <1>4. ASSUME NEW w \in Work, TakeWork(a, w)
        PROVE  /\ assigner'[a].pc = "worker" /\ assigner'[a].work \in Work
               /\ handed'[a] = NoWorker /\ request'[a] = "none"
    BY <1>4 DEF TakeWork
  <1>5. ASSUME NEW x \in Worker, TakeWorker(a, x)
        PROVE  /\ assigner'[a].pc = "wait" /\ assigner'[a].work \in Work
               /\ handed'[a] # NoWorker
    BY <1>5, PartsAssumption DEF TakeWorker, P!GetWorkerForAssignment
  <1>6. CASE NoWorkToAssign(a) \/ NoIdleWorker(a) \/ ReleaseWork(a) \/ ReceiveReply(a)
    BY <1>6 DEF NoWorkToAssign, NoIdleWorker, ReleaseWork, ReceiveReply
  <1>7. QED  BY <1>1, <1>2, <1>3, <1>4, <1>5, <1>6 DEF AssignerNext

LEMMA LocalsNext ==
  ASSUME IInv, [Next]_vars
  PROVE  Locals'
  <1>1. ASSUME NEW a \in Assigner,
               \/ AssignerNext(a) \/ RequestFails(a) \/ Arrive(a)
               \/ Goes(a, "rest", "begin") /\ UNCHANGED <<handed, request>>
        PROVE  Locals'
    BY <1>1, OneAssigner, OwnLocals DEF Locals, IInv
  <1>2. ASSUME NEW w \in Work, QueueWork(w) PROVE Locals'
    BY <1>1, <1>2 DEF QueueWork, poolVars, Assigner
  <1>3. CASE SchedulerAssigns
    BY <1>1, <1>3 DEF SchedulerAssigns, poolVars, Assigner
  <1>4. ASSUME UNCHANGED <<assigner, handed>>,
               \A a \in Assigner : request'[a] = request[a] \/ request[a] = "claimed"
        PROVE  Locals'
    BY <1>4 DEF Locals, IInv
  <1>5. QED  BY <1>1, <1>2, <1>3, <1>4, AssignersStay DEF Next, FaultNext

\* Steps of workers and arriving requests.
LEMMA ServedByWorkers ==
  ASSUME IInv,
         \/ \E a \in Assigner : Arrive(a)
         \/ \E w \in Work, x \in Worker : ArriveLate(w, x)
         \/ \E x \in Worker : WorkerNext(x) \/ LoseTask(x) \/ Restart(x)
  PROVE  Served'
  <1> USE DEF IInv, TypeOK, P!TypeOK, S!Stage, S!Stages
  <1>1. ASSUME NEW w \in Work, NEW x \in Worker, S!Claim(x, w)
        PROVE  /\ \A y \in Worker : stage'[y] # "free" => claim'[y] \in Work
               /\ \A b \in Assigner : request[b] = "claimed" => handed[b] # x
               /\ \A y \in Worker \ {x} : stage'[y] = stage[y] /\ claim'[y] = claim[y]
               /\ stage'[x] = "claimed" /\ claim'[x] = w
    BY <1>1 DEF S!Claim, Served
  <1>2. ASSUME NEW b \in Assigner, request[b] = "claimed"
        PROVE  handed[b] \in Worker
    BY <1>2 DEF Locals
  <1>3. ASSUME NEW a \in Assigner, Arrive(a) PROVE Served'
    <2>1. assigner[a].work \in Work /\ handed[a] \in Worker
      BY <1>3 DEF Arrive, Locals
    <2>2. CASE S!Claim(handed[a], assigner[a].work) /\ request' = [request EXCEPT ![a] = "claimed"]
      <3>1. UNCHANGED <<assigner, handed>>
        BY <1>3 DEF Arrive, poolVars
      <3>2. QED  BY <1>1, <1>2, <2>1, <2>2, <3>1 DEF Served
    <2>3. CASE UNCHANGED serviceVars /\ request' = [request EXCEPT ![a] = "refused"]
      BY <1>3, <2>3 DEF Arrive, poolVars, serviceVars, Served
    <2>4. QED  BY <1>3, <2>2, <2>3 DEF Arrive
  <1>4. ASSUME NEW w \in Work, NEW x \in Worker, ArriveLate(w, x) PROVE Served'
    <2>1. UNCHANGED <<assigner, handed, request>>
      BY <1>4 DEF ArriveLate, poolVars
    <2>2. CASE S!Claim(x, w)
      BY <1>1, <1>2, <2>1, <2>2 DEF Served
    <2>3. CASE UNCHANGED serviceVars
      BY <2>1, <2>3 DEF serviceVars, Served
    <2>4. QED  BY <1>4, <2>2, <2>3 DEF ArriveLate
  <1>5. ASSUME NEW x \in Worker, Serve(x) \/ Restart(x) PROVE Served'
    <2>1. UNCHANGED <<assigner, handed>>
      BY <1>5 DEF Serve, Restart, poolVars
    <2>2. PICK result \in {"accepted", "refused", "broken"} : Resolve(x, result)
      BY <1>5 DEF Serve, Restart
    <2>3. \A b \in Assigner : request'[b] = "claimed" =>
            request[b] = "claimed" /\ handed[b] # x
      BY <2>2 DEF Resolve, ServedFor
    <2>4. /\ \A y \in Worker \ {x} : stage'[y] = stage[y] /\ claim'[y] = claim[y]
          /\ stage'[x] # "free" => stage[x] # "free" /\ claim'[x] = claim[x]
      BY <1>5 DEF Serve, Restart, S!Log, S!Refuse, S!Restart
    <2>5. QED  BY <1>2, <2>1, <2>3, <2>4 DEF Served
  <1>6. ASSUME NEW x \in Worker, RunTask(x) \/ LoseTask(x) PROVE Served'
    <2>1. UNCHANGED <<assigner, handed, request>>
      BY <1>6 DEF RunTask, LoseTask, assignVars, poolVars
    <2>2. /\ \A y \in Worker \ {x} : stage'[y] = stage[y] /\ claim'[y] = claim[y]
          /\ stage[x] # "claimed"
          /\ stage'[x] # "free" => stage[x] # "free" /\ claim'[x] = claim[x]
      BY <1>6 DEF RunTask, LoseTask, S!Begin, S!Finish, S!BecomeIdle, S!GetStuck
    <2>3. \A y \in Worker : stage'[y] # "free" => claim'[y] \in Work
      <3> SUFFICES ASSUME NEW y \in Worker, stage'[y] # "free" PROVE claim'[y] \in Work
        OBVIOUS
      <3>1. stage[y] # "free" /\ claim'[y] = claim[y]
        BY <2>2
      <3>2. QED  BY <1>2, <3>1 DEF Served
    <2>4. \A b \in Assigner : request'[b] = "claimed" =>
            stage'[handed'[b]] = "claimed" /\ claim'[handed'[b]] = assigner'[b].work
      <3> SUFFICES ASSUME NEW b \in Assigner, request[b] = "claimed"
                   PROVE  stage'[handed[b]] = "claimed"
                          /\ claim'[handed[b]] = assigner[b].work
        BY <2>1
      <3>1. handed[b] \in Worker /\ stage[handed[b]] = "claimed"
            /\ claim[handed[b]] = assigner[b].work
        BY <1>2 DEF Served
      <3>2. handed[b] # x
        BY <2>2, <3>1
      <3>3. QED  BY <2>2, <3>1, <3>2
    <2>5. QED  BY <2>3, <2>4 DEF Served
  <1>7. QED  BY <1>3, <1>4, <1>5, <1>6 DEF WorkerNext

LEMMA ServedNext ==
  ASSUME IInv, [Next]_vars
  PROVE  Served'
  <1> USE DEF IInv, TypeOK
  <1>1. ASSUME NEW a \in Assigner, UNCHANGED serviceVars,
               \/ AssignerNext(a) \/ RequestFails(a)
               \/ Goes(a, "rest", "begin") /\ UNCHANGED <<handed, request>>
        PROVE  Served'
    <2>1. \A b \in Assigner \ {a} : /\ assigner'[b] = assigner[b]
                                    /\ handed'[b] = handed[b]
                                    /\ request'[b] = request[b]
      BY <1>1, OneAssigner
    <2>2. request'[a] # "claimed"
      BY <1>1 DEF AssignerNext, TakeWork, NoWorkToAssign, TakeWorker, NoIdleWorker,
                  ReleaseWork, ReceiveReply, MarkWork, MarkWorker, RequestFails, Goes,
                  Returns, Locals
    <2>3. QED  BY <1>1, <2>1, <2>2 DEF Served, serviceVars
  <1>2. ASSUME UNCHANGED <<serviceVars, assigner, handed, request>> PROVE Served'
    BY <1>2 DEF Served, serviceVars
  <1>3. ASSUME NEW a \in Assigner, AssignerNext(a) \/ RequestFails(a) PROVE Served'
    <2>1. UNCHANGED serviceVars
      BY <1>3 DEF AssignerNext, TakeWork, NoWorkToAssign, TakeWorker, NoIdleWorker,
                  ReleaseWork, ReceiveReply, MarkWork, MarkWorker, RequestFails
    <2>2. QED  BY <1>1, <1>3, <2>1
  <1>4. ASSUME NEW w \in Work, QueueWork(w) PROVE Served'
    BY <1>1, <1>4 DEF QueueWork, poolVars, Assigner
  <1>5. CASE SchedulerAssigns
    BY <1>1, <1>5 DEF SchedulerAssigns, poolVars, Assigner
  <1>6. ASSUME NEW x \in Worker, Register(x) \/ RegisterAgain(x) \/ Unregister(x)
        PROVE  Served'
    BY <1>2, <1>6 DEF Register, RegisterAgain, Unregister, Others, assignVars,
                      P!AddToPool, P!DeleteFromPool
  <1>7. ASSUME NEW r \in P!Refresher, Refresh(r) \/ RefreshFails(r) PROVE Served'
    BY <1>2, <1>7 DEF Refresh, RefreshFails, Others, assignVars, P!BeginPoll, P!Ask,
                      P!Receive, P!TestStatus, P!WriteStatus
  <1>8. CASE FindWorkToCheck \/ QueryTask \/ ProcessAnswer \/ QueryFails
    BY <1>2, <1>8 DEF FindWorkToCheck, QueryTask, ProcessAnswer, QueryFails,
                      P!BeginHint, assignVars, poolVars
  <1>9. CASE UNCHANGED vars
    BY <1>2, <1>9 DEF vars, assignVars, poolVars
  <1>10. QED
    BY <1>3, <1>4, <1>5, <1>6, <1>7, <1>8, <1>9, ServedByWorkers
       DEF Next, CheckerNext, FaultNext

\* No work is handed out or given back.
LEMMA SameHolders ==
  ASSUME OneHolder,
         \A w \in Work : status'[w] = "TRYINGTOASSIGN" <=> status[w] = "TRYINGTOASSIGN",
         \A w \in Work, a \in Assigner : Holds(a, w)' <=> Holds(a, w)
  PROVE  OneHolder'
  BY DEF OneHolder

\* An assigner gives its work back.
LEMMA GivesBack ==
  ASSUME IInv, NEW a \in Assigner, NEW code, code # "TRYINGTOASSIGN",
         Holds(a, assigner[a].work),
         status' = [status EXCEPT ![assigner[a].work] = code],
         \A w \in Work : ~ Holds(a, w)',
         \A b \in Assigner \ {a} : assigner'[b] = assigner[b]
  PROVE  OneHolder'
  <1> DEFINE w == assigner[a].work
  <1>1. w \in Work
    BY DEF IInv, Locals, Holds
  <1>2. \A v \in Work, b \in Assigner : Holds(b, v)' <=> Holds(b, v) /\ v # w
    BY DEF IInv, OneHolder, Holds
  <1>3. \A v \in Work : status'[v] = "TRYINGTOASSIGN" <=>
                          status[v] = "TRYINGTOASSIGN" /\ v # w
    BY <1>1 DEF IInv, TypeOK, Q!TypeOK
  <1>4. QED  BY <1>2, <1>3 DEF IInv, OneHolder

\* The scheduler changes the status of a work that it has taken, or takes one that
\* is assigned; such a work is not on offer, and will not be.
LEMMA CheckerChanges ==
  ASSUME IInv, CheckerNext \/ QueryFails
  PROVE  \A w \in Work : status'[w] = "TRYINGTOASSIGN" <=> status[w] = "TRYINGTOASSIGN"
  <1> USE DEF IInv, Q!IInv, Q!TypeOK, Q!CheckerAt, Q!SetStatus
  <1>1. CASE Q!TakeForChecking
    <2>1. checker.work \in Work /\ status[checker.work] = "ASSIGNED"
      BY <1>1 DEF Q!TakeForChecking, Q!Bookkeeping
    <2>2. QED  BY <1>1, <2>1 DEF Q!TakeForChecking
  <1>2. CASE Q!MakeWorkUnassigned
    <2>1. checker.work \in Work /\ status[checker.work] = "CHECKINGSTATUS"
      BY <1>2 DEF Q!MakeWorkUnassigned, Q!Bookkeeping, Q!CheckedWorkIsHeld, Q!CheckerHolds
    <2>2. QED  BY <1>2, <2>1 DEF Q!MakeWorkUnassigned
  <1>3. CASE Q!ProcessStatusCheckResult(answer)
    <2>1. checker.work \in Work /\ status[checker.work] = "CHECKINGSTATUS"
      BY <1>3 DEF Q!ProcessStatusCheckResult, Q!Bookkeeping, Q!CheckedWorkIsHeld,
                  Q!CheckerHolds
    <2>2. \E code \in {"ASSIGNED", "UNASSIGNED", "TERMINATEDNORMALLY",
                       "TERMINATEDABNORMALLY"} :
            status' = [status EXCEPT ![checker.work] = code]
      BY <1>3 DEF Q!ProcessStatusCheckResult, Q!KeepAssignment, Q!CompleteWork, Q!FreeWork
    <2>3. QED  BY <2>1, <2>2
  <1>4. CASE UNCHANGED status
    BY <1>4
  <1>5. QED
    BY <1>1, <1>2, <1>3, <1>4
       DEF CheckerNext, FindWorkToCheck, QueryTask, ProcessAnswer, SchedulerAssigns,
           QueryFails, queueVars, Q!BeginScan, Q!ScanStep, Q!ReadAssignedWorker,
           Q!ScanEnds, Q!ScanFails

LEMMA HolderByAssigner ==
  ASSUME IInv, NEW a \in Assigner, AssignerNext(a)
  PROVE  OneHolder'
  <1> USE DEF IInv, TypeOK, Q!TypeOK
  <1>1. \A b \in Assigner \ {a} : assigner'[b] = assigner[b]
    BY OneAssigner
  <1>2. ASSUME NEW w \in Work, TakeWork(a, w) PROVE OneHolder'
    <2>1. status[w] = "UNASSIGNED" /\ status' = [status EXCEPT ![w] = "TRYINGTOASSIGN"]
      BY <1>2 DEF TakeWork, Q!GetWorkForAssignment, Q!SetStatus
    <2>2. assigner[a].pc = "begin" /\ assigner'[a] = [pc |-> "worker", work |-> w]
      BY <1>2 DEF TakeWork
    <2>3. \A v \in Work, b \in Assigner :
            Holds(b, v)' <=> Holds(b, v) \/ (b = a /\ v = w)
      BY <1>1, <2>2 DEF Holds
    <2>4. \A b \in Assigner : ~ Holds(b, w)
      BY <2>1 DEF OneHolder
    <2>5. \A v \in Work : status'[v] = "TRYINGTOASSIGN" <=>
                            status[v] = "TRYINGTOASSIGN" \/ v = w
      BY <2>1
    <2>6. QED  BY <2>3, <2>4, <2>5 DEF OneHolder
  <1>3. CASE \/ NoWorkToAssign(a) \/ NoIdleWorker(a) \/ ReceiveReply(a) \/ MarkWorker(a)
             \/ \E x \in Worker : TakeWorker(a, x)
    <2>1. UNCHANGED status
      BY <1>3 DEF NoWorkToAssign, NoIdleWorker, ReceiveReply, MarkWorker, TakeWorker,
                  queueVars
    <2>2. \A w \in Work : Holds(a, w)' <=> Holds(a, w)
      <3>1. CASE NoWorkToAssign(a) \/ MarkWorker(a)
        <4>1. PICK from \in {"begin", "busy", "idle"} : Returns(a, from)
          BY <3>1 DEF NoWorkToAssign, MarkWorker
        <4>2. QED  BY <4>1 DEF Returns, AtRest, Holds
      <3>2. CASE NoIdleWorker(a) \/ ReceiveReply(a) \/ \E x \in Worker : TakeWorker(a, x)
        <4>1. PICK from \in {"worker", "wait"},
                   to \in {"wait", "release", "success", "error", "failure"} :
                Goes(a, from, to)
          BY <3>2 DEF NoIdleWorker, ReceiveReply, TakeWorker
        <4>2. QED  BY <4>1 DEF Goes, Holds
      <3>3. QED  BY <1>3, <3>1, <3>2
    <2>3. QED  BY <1>1, <2>1, <2>2, SameHolders DEF Holds
  <1>4. CASE ReleaseWork(a)
    <2>1. Holds(a, assigner[a].work) /\ \A w \in Work : ~ Holds(a, w)'
      BY <1>4 DEF ReleaseWork, Returns, AtRest, Holds
    <2>2. status' = [status EXCEPT ![assigner[a].work] = "UNASSIGNED"]
      BY <1>4 DEF ReleaseWork, Q!MarkAssignmentFailure, Q!SetStatus
    <2>3. QED  BY <1>1, <2>1, <2>2, GivesBack
  <1>5. CASE MarkWork(a)
    <2>1. CASE Goes(a, "assigning", "busy") /\ Q!EndAssignment
      BY <1>1, <2>1, SameHolders DEF Goes, Holds, Q!EndAssignment
    <2>2. CASE Goes(a, "success", "assigning") /\ Q!BeginAssignment(assigner[a].work, handed[a])
      <3>1. Holds(a, assigner[a].work) /\ \A w \in Work : ~ Holds(a, w)'
        BY <2>2 DEF Goes, Holds
      <3>2. status' = [status EXCEPT ![assigner[a].work] = "ASSIGNED"]
        BY <2>2 DEF Q!BeginAssignment, Q!SetStatus
      <3>3. QED  BY <1>1, <3>1, <3>2, GivesBack
    <2>3. CASE Goes(a, "error", "idle") /\ Q!MarkAssignmentError(assigner[a].work)
      <3>1. Holds(a, assigner[a].work) /\ \A w \in Work : ~ Holds(a, w)'
        BY <2>3 DEF Goes, Holds
      <3>2. status' = [status EXCEPT ![assigner[a].work] = "ASSIGNMENTERROR"]
        BY <2>3 DEF Q!MarkAssignmentError, Q!SetStatus
      <3>3. QED  BY <1>1, <3>1, <3>2, GivesBack
    <2>4. CASE Goes(a, "failure", "idle") /\ Q!MarkAssignmentFailure(assigner[a].work)
      <3>1. Holds(a, assigner[a].work) /\ \A w \in Work : ~ Holds(a, w)'
        BY <2>4 DEF Goes, Holds
      <3>2. status' = [status EXCEPT ![assigner[a].work] = "UNASSIGNED"]
        BY <2>4 DEF Q!MarkAssignmentFailure, Q!SetStatus
      <3>3. QED  BY <1>1, <3>1, <3>2, GivesBack
    <2>5. QED  BY <1>5, <2>1, <2>2, <2>3, <2>4 DEF MarkWork
  <1>6. QED  BY <1>2, <1>3, <1>4, <1>5 DEF AssignerNext

\* Whatever is not the scheduler's or an assigner's leaves the queues alone.
LEMMA QueueStays ==
  ASSUME \/ \E a \in Assigner : Arrive(a) \/ RequestFails(a)
         \/ \E w \in Work, x \in Worker : ArriveLate(w, x)
         \/ \E x \in Worker : WorkerNext(x) \/ Register(x)
         \/ \E r \in P!Refresher : Refresh(r) \/ RefreshFails(r)
         \/ QueryTask \/ QueryFails \/ SchedulerAssigns
         \/ \E x \in Worker : \/ LoseTask(x) \/ Restart(x)
                              \/ RegisterAgain(x) \/ Unregister(x)
         \/ UNCHANGED vars
  PROVE  UNCHANGED queueVars
  <1>1. ASSUME NEW a \in Assigner, Arrive(a) \/ RequestFails(a) PROVE UNCHANGED queueVars
    BY <1>1 DEF Arrive, RequestFails
  <1>2. ASSUME NEW x \in Worker, \E w \in Work : ArriveLate(w, x)
        PROVE  UNCHANGED queueVars
    BY <1>2 DEF ArriveLate
  <1>3. ASSUME NEW x \in Worker,
               \/ WorkerNext(x) \/ Register(x) \/ LoseTask(x) \/ Restart(x) \/ RegisterAgain(x)
               \/ Unregister(x)
        PROVE  UNCHANGED queueVars
    BY <1>3 DEF WorkerNext, Serve, RunTask, Register, LoseTask, Restart, RegisterAgain,
                Unregister, Others
  <1>4. ASSUME NEW r \in P!Refresher, Refresh(r) \/ RefreshFails(r)
        PROVE  UNCHANGED queueVars
    BY <1>4 DEF Refresh, RefreshFails, Others
  <1>5. QueryTask \/ QueryFails \/ SchedulerAssigns \/ UNCHANGED vars => UNCHANGED queueVars
    BY DEF QueryTask, QueryFails, SchedulerAssigns, vars
  <1>6. QED  BY <1>1, <1>2, <1>3, <1>4, <1>5

LEMMA HolderNext ==
  ASSUME IInv, [Next]_vars
  PROVE  OneHolder'
  <1> USE DEF IInv, TypeOK
  <1>1. ASSUME NEW a \in Assigner, Goes(a, "rest", "begin"), UNCHANGED status
        PROVE  OneHolder'
    BY <1>1, SameHolders DEF Goes, Holds
  <1>2. ASSUME NEW w \in Work, QueueWork(w) PROVE OneHolder'
    BY <1>1, <1>2 DEF QueueWork, Q!QueueUnassignedWork, Assigner
  <1>3. CASE SchedulerAssigns
    BY <1>1, <1>3 DEF SchedulerAssigns, queueVars, Assigner
  <1>4. ASSUME NEW a \in Assigner, Arrive(a) \/ RequestFails(a) PROVE OneHolder'
    <2>1. UNCHANGED status
      BY <1>4, QueueStays DEF queueVars
    <2>2. \A b \in Assigner, w \in Work : Holds(b, w)' <=> Holds(b, w)
      BY <1>4 DEF Arrive, RequestFails, Goes, Holds
    <2>3. QED  BY <2>1, <2>2, SameHolders
  <1>5. ASSUME UNCHANGED assigner,
               \A w \in Work : status'[w] = "TRYINGTOASSIGN" <=>
                                 status[w] = "TRYINGTOASSIGN"
        PROVE  OneHolder'
    BY <1>5, SameHolders DEF Holds
  <1>6. CASE CheckerNext /\ ~ SchedulerAssigns
    BY <1>5, <1>6, CheckerChanges, AssignersStay
  <1>7. QED
    BY <1>2, <1>3, <1>4, <1>5, <1>6, HolderByAssigner, AssignersStay, QueueStays
       DEF Next, FaultNext, queueVars
-----------------------------------------------------------------------------
(* Who is written down as the worker of a work.                            *)

LEMMA ReportsStay ==
  ASSUME [Next]_vars
  PROVE  reported \subseteq reported'
  <1>1. ASSUME NEW a \in Assigner, AssignerNext(a) \/ Arrive(a) \/ RequestFails(a)
        PROVE  reported' = reported
    BY <1>1 DEF AssignerNext, TakeWork, NoWorkToAssign, TakeWorker, NoIdleWorker,
                ReleaseWork, ReceiveReply, MarkWork, MarkWorker, Arrive, RequestFails
  <1>2. ASSUME NEW x \in Worker,
               \/ WorkerNext(x) \/ Register(x) \/ LoseTask(x) \/ Restart(x) \/ RegisterAgain(x)
               \/ Unregister(x) \/ \E w \in Work : ArriveLate(w, x)
        PROVE  reported \subseteq reported'
    BY <1>2 DEF WorkerNext, Serve, RunTask, Reports, Register, LoseTask, Restart, RegisterAgain,
                Unregister, Others, ArriveLate
  <1>3. ASSUME NEW r \in P!Refresher, Refresh(r) \/ RefreshFails(r)
        PROVE  reported' = reported
    BY <1>3 DEF Refresh, RefreshFails, Others
  <1>4. CASE CheckerNext \/ QueryFails \/ (\E w \in Work : QueueWork(w)) \/ UNCHANGED vars
    BY <1>4 DEF CheckerNext, FindWorkToCheck, QueryTask, ProcessAnswer,
                SchedulerAssigns, QueryFails, QueueWork, vars
  <1>5. QED  BY <1>1, <1>2, <1>3, <1>4 DEF Next, FaultNext

\* What the steps that write the queues write to monitor and to assignedWorker.
LEMMA AssignmentWrites ==
  ASSUME IInv, [Next]_vars
  PROVE  /\ \/ monitor' = monitor
            \/ Q!MonitorFree'
            \/ \E a \in Assigner :
                  /\ assigner[a].pc = "success"
                  /\ monitor' = [work |-> assigner[a].work, worker |-> handed[a]]
         /\ \A w \in Work :
              \/ assignedWorker'[w] \in {assignedWorker[w], NoWorker}
              \/ ~ Q!MonitorFree /\ monitor.work = w /\ assignedWorker'[w] = monitor.worker
  <1> DEFINE Goal == /\ \/ monitor' = monitor
                        \/ Q!MonitorFree'
                        \/ \E a \in Assigner :
                              /\ assigner[a].pc = "success"
                              /\ monitor' = [work |-> assigner[a].work, worker |-> handed[a]]
                     /\ \A w \in Work :
                          \/ assignedWorker'[w] \in {assignedWorker[w], NoWorker}
                          \/ /\ ~ Q!MonitorFree
                             /\ monitor.work = w /\ assignedWorker'[w] = monitor.worker
  <1> USE DEF IInv, TypeOK, Q!TypeOK
  <1>1. ASSUME NEW a \in Assigner, MarkWork(a) PROVE Goal
    <2>1. CASE Goes(a, "success", "assigning") /\ Q!BeginAssignment(assigner[a].work, handed[a])
      BY <2>1 DEF Goes, Q!BeginAssignment
    <2>2. CASE Q!EndAssignment
      BY <2>2 DEF Q!EndAssignment, Q!MonitorFree, Q!Unowned
    <2>3. CASE UNCHANGED <<monitor, assignedWorker>>
      BY <2>3
    <2>4. QED
      BY <1>1, <2>1, <2>2, <2>3 DEF MarkWork, Q!MarkAssignmentError,
                                    Q!MarkAssignmentFailure
  <1>2. CASE ProcessAnswer
    <2>1. CASE Q!FreeWork(checker.work, answer)
      BY <1>2, <2>1 DEF Q!FreeWork, ProcessAnswer, Q!ProcessStatusCheckResult
    <2>2. CASE ~ Q!FreeWork(checker.work, answer)
      BY <1>2, <2>2 DEF Q!KeepAssignment, Q!CompleteWork, ProcessAnswer,
                        Q!ProcessStatusCheckResult
    <2>3. QED  BY <2>1, <2>2
  <1>3. CASE UNCHANGED <<monitor, assignedWorker>>
    BY <1>3
  <1>4. ASSUME NEW a \in Assigner, AssignerNext(a), ~ MarkWork(a)
        PROVE  UNCHANGED <<monitor, assignedWorker>>
    BY <1>4 DEF AssignerNext, TakeWork, NoWorkToAssign, TakeWorker, NoIdleWorker,
                ReleaseWork, ReceiveReply, MarkWorker, queueVars,
                Q!GetWorkForAssignment, Q!MarkAssignmentFailure
  <1>5. ASSUME CheckerNext, ~ ProcessAnswer PROVE UNCHANGED <<monitor, assignedWorker>>
    BY <1>5 DEF CheckerNext, FindWorkToCheck, QueryTask, SchedulerAssigns, queueVars,
                Q!BeginScan, Q!ScanStep, Q!TakeForChecking, Q!ReadAssignedWorker,
                Q!ScanEnds, Q!ScanFails, Q!MakeWorkUnassigned
  <1>6. ASSUME NEW w \in Work, QueueWork(w) PROVE UNCHANGED <<monitor, assignedWorker>>
    BY <1>6 DEF QueueWork, Q!QueueUnassignedWork
  <1>7. QED
    BY <1>1, <1>2, <1>3, <1>4, <1>5, <1>6, QueueStays DEF Next, FaultNext, queueVars

\* A request is accepted when the worker that serves it logs its task.
LEMMA AcceptsWhatItLogs ==
  ASSUME IInv, [Next]_vars, NEW a \in Assigner, request'[a] = "accepted",
         request[a] # "accepted"
  PROVE  /\ handed'[a] = handed[a] /\ assigner'[a] = assigner[a]
         /\ Accepted(handed[a], assigner[a].work)'
  <1> USE DEF IInv, TypeOK
  <1>1. PICK x \in Worker : Serve(x)
    <2>1. ASSUME NEW b \in Assigner, AssignerNext(b) \/ RequestFails(b) \/ Arrive(b)
          PROVE  FALSE
      BY <2>1 DEF AssignerNext, TakeWork, NoWorkToAssign, TakeWorker, NoIdleWorker,
                  ReleaseWork, ReceiveReply, MarkWork, MarkWorker, RequestFails, Arrive
    <2>2. ASSUME UNCHANGED request PROVE FALSE
      BY <2>2
    <2>3. ASSUME NEW x \in Worker, Restart(x) PROVE FALSE
      BY <2>3 DEF Restart, Resolve
    <2>4. ASSUME NEW x \in Worker, (WorkerNext(x) /\ ~ Serve(x)) \/ LoseTask(x)
          PROVE  FALSE
      BY <2>4 DEF WorkerNext, RunTask, LoseTask, assignVars
    <2>5. ASSUME CheckerNext \/ QueryFails \/ (\E w \in Work : QueueWork(w))
                 \/ UNCHANGED vars
          PROVE  UNCHANGED request
      BY <2>5 DEF CheckerNext, FindWorkToCheck, QueryTask, ProcessAnswer,
                  SchedulerAssigns, QueryFails, QueueWork, vars, assignVars
    <2>6. ASSUME NEW x \in Worker,
                 \/ Register(x) \/ RegisterAgain(x) \/ Unregister(x)
                 \/ \E w \in Work : ArriveLate(w, x)
          PROVE  UNCHANGED request
      BY <2>6 DEF Register, RegisterAgain, Unregister, Others, ArriveLate, assignVars
    <2>7. ASSUME NEW r \in P!Refresher, Refresh(r) \/ RefreshFails(r)
          PROVE  UNCHANGED request
      BY <2>7 DEF Refresh, RefreshFails, Others, assignVars
    <2>8. QED
      BY <2>1, <2>2, <2>3, <2>4, <2>5, <2>6, <2>7 DEF Next, FaultNext
  <1>2. Resolve(x, "accepted") /\ Reports(x, claim[x], "Unscheduled")
    BY <1>1 DEF Serve, Resolve
  <1>3. request[a] = "claimed" /\ handed[a] = x
    BY <1>2 DEF Resolve, ServedFor
  <1>4. claim[x] = assigner[a].work
    BY <1>3 DEF Served
  <1>5. UNCHANGED <<handed, assigner>>
    BY <1>1 DEF Serve, poolVars
  <1>6. QED  BY <1>2, <1>3, <1>4, <1>5 DEF Reports, Accepted

\* What an assigner knows of a reply stays true of the worker and the work it has.
LEMMA RepliesStay ==
  ASSUME IInv, [Next]_vars, NEW a \in Assigner,
         \/ request'[a] = "accepted" /\ request[a] = "accepted"
         \/ assigner'[a].pc = "success"
  PROVE  /\ request[a] = "accepted" \/ assigner[a].pc = "success"
         /\ handed'[a] = handed[a] /\ assigner'[a].work = assigner[a].work
  <1> DEFINE Goal == /\ request[a] = "accepted" \/ assigner[a].pc = "success"
                     /\ handed'[a] = handed[a] /\ assigner'[a].work = assigner[a].work
  <1> USE DEF IInv, TypeOK, P!TypeOK
  <1>1. ASSUME UNCHANGED <<handed, assigner>> PROVE Goal
    BY <1>1
  <1>2. ASSUME NEW b \in Assigner \ {a},
               \/ AssignerNext(b) \/ RequestFails(b) \/ Arrive(b)
               \/ Goes(b, "rest", "begin") /\ UNCHANGED <<handed, request>>
        PROVE  Goal
    BY <1>2, OneAssigner, <1>1
  <1>3. ASSUME AssignerNext(a) \/ RequestFails(a) PROVE Goal
    <2>1. CASE ReceiveReply(a)
      BY <2>1 DEF ReceiveReply, Goes, poolVars
    <2>2. ASSUME ~ ReceiveReply(a) PROVE FALSE
      <3>1. assigner'[a].pc # "success"
        <4>1. CASE RequestFails(a) \/ \E w \in Work : TakeWork(a, w)
          BY <4>1 DEF RequestFails, TakeWork, Goes
        <4>2. CASE NoWorkToAssign(a) \/ ReleaseWork(a) \/ MarkWorker(a)
          <5>1. PICK from \in {"begin", "release", "busy", "idle"} : Returns(a, from)
            BY <4>2 DEF NoWorkToAssign, ReleaseWork, MarkWorker
          <5>2. QED  BY <5>1 DEF Returns, AtRest
        <4>3. CASE NoIdleWorker(a) \/ MarkWork(a) \/ \E x \in Worker : TakeWorker(a, x)
          <5>1. PICK from \in AssignerPc, to \in {"wait", "release", "assigning", "busy", "idle"} :
                  Goes(a, from, to)
            BY <4>3 DEF NoIdleWorker, MarkWork, TakeWorker, AssignerPc
          <5>2. QED  BY <5>1 DEF Goes
        <4>4. QED  BY <1>3, <2>2, <4>1, <4>2, <4>3 DEF AssignerNext
      <3>2. request[a] = "accepted" /\ request'[a] = "accepted"
        BY <3>1
      <3>3. assigner[a].pc = "wait"
        BY <3>2 DEF Locals
      <3>4. ~ RequestFails(a)
        BY <3>2 DEF RequestFails
      <3>5. CASE NoWorkToAssign(a) \/ ReleaseWork(a) \/ MarkWorker(a)
        <4>1. PICK from \in {"begin", "release", "busy", "idle"} : Returns(a, from)
          BY <3>5 DEF NoWorkToAssign, ReleaseWork, MarkWorker
        <4>2. QED  BY <3>3, <4>1 DEF Returns
      <3>6. ~ NoIdleWorker(a) /\ ~ MarkWork(a)
        BY <3>3 DEF NoIdleWorker, MarkWork, Goes
      <3>7. ASSUME NEW w, TakeWork(a, w) PROVE FALSE
        BY <3>3, <3>7 DEF TakeWork
      <3>8. ASSUME NEW x, TakeWorker(a, x) PROVE FALSE
        BY <3>3, <3>8 DEF TakeWorker, Goes
      <3>9. QED
        BY <1>3, <2>2, <3>4, <3>5, <3>6, <3>7, <3>8 DEF AssignerNext
    <2>3. QED  BY <2>1, <2>2
  <1>4. CASE Arrive(a)
    BY <1>4 DEF Arrive, poolVars
  <1>5. ASSUME Goes(a, "rest", "begin") /\ UNCHANGED <<handed, request>> PROVE FALSE
    BY <1>5 DEF Goes, Locals
  <1>6. ASSUME NEW w \in Work, QueueWork(w) PROVE Goal
    BY <1>2, <1>5, <1>6 DEF QueueWork, poolVars, Assigner
  <1>7. CASE SchedulerAssigns
    BY <1>2, <1>5, <1>7 DEF SchedulerAssigns, poolVars, Assigner
  <1>8. QED
    BY <1>1, <1>2, <1>3, <1>4, <1>6, <1>7, AssignersStay DEF Next, FaultNext

LEMMA AcceptedNext ==
  ASSUME IInv, [Next]_vars
  PROVE  AcceptedOnly'
  <1> USE DEF IInv, TypeOK
  <1>1. \A x, w : Accepted(x, w) => Accepted(x, w)'
    BY ReportsStay DEF Accepted
  <1>2. ASSUME NEW a \in Assigner, request'[a] = "accepted" \/ assigner'[a].pc = "success"
        PROVE  Accepted(handed[a], assigner[a].work)'
    BY <1>1, <1>2, AcceptsWhatItLogs, RepliesStay DEF AcceptedOnly, Accepted
  <1>3. ~ Q!MonitorFree' => Accepted(monitor.worker, monitor.work)'
    <2>1. CASE monitor' = monitor
      BY <1>1, <2>1 DEF AcceptedOnly, Accepted, Q!MonitorFree
    <2>2. ASSUME NEW a \in Assigner, assigner[a].pc = "success",
                 monitor' = [work |-> assigner[a].work, worker |-> handed[a]]
          PROVE  Accepted(monitor.worker, monitor.work)'
      <3>1. <<handed[a], assigner[a].work, "Unscheduled">> \in reported'
        BY <1>1, <2>2 DEF AcceptedOnly, Accepted
      <3>2. QED  BY <2>2, <3>1 DEF Accepted
    <2>3. QED  BY <2>1, <2>2, AssignmentWrites
  <1>4. \A w \in Work : assignedWorker'[w] # NoWorker => Accepted(assignedWorker[w], w)'
    BY <1>1, AssignmentWrites DEF AcceptedOnly, Accepted
  <1>5. QED  BY <1>2, <1>3, <1>4 DEF AcceptedOnly
-----------------------------------------------------------------------------
(* What is believed of a task.                                             *)

LEMMA CheckerPcOnly ==
  ASSUME IInv, Q!ReadAssignedWorker
  PROVE  /\ checker'.work = checker.work /\ checker.work \in Work
         /\ checker'.worker = assignedWorker[checker.work]
         /\ checker'.pc = "check" => checker'.worker # NoWorker
  BY DEF IInv, Q!IInv, Q!TypeOK, Q!CheckerState, Q!Bookkeeping, Q!ReadAssignedWorker,
         Q!CheckerAt

\* The scheduler asks about a work whose worker it has just read, or goes on asking.
LEMMA CheckerMoves ==
  ASSUME IInv, [Next]_vars
  PROVE  \/ /\ checker'.work = checker.work
            /\ checker'.worker = checker.worker
            /\ checker'.pc = "check" <=> checker.pc = "check"
         \/ checker'.pc # "check" /\ (Q!CheckerAt("check") => ProcessAnswer)
         \/ Q!CheckerAt("got") /\ Q!ReadAssignedWorker
  <1> DEFINE Goal == \/ /\ checker'.work = checker.work
                        /\ checker'.worker = checker.worker
                        /\ checker'.pc = "check" <=> checker.pc = "check"
                     \/ checker'.pc # "check" /\ (Q!CheckerAt("check") => ProcessAnswer)
                     \/ Q!CheckerAt("got") /\ Q!ReadAssignedWorker
  <1> USE DEF IInv, Q!IInv, Q!TypeOK, Q!CheckerState
  <1>1. CASE UNCHANGED checker
    BY <1>1
  <1>2. CASE Q!Modified
    BY <1>2 DEF Q!Modified
  <1>3. ASSUME NEW a \in Assigner, AssignerNext(a) PROVE Goal
    BY <1>1, <1>2, <1>3
       DEF AssignerNext, TakeWork, NoWorkToAssign, TakeWorker, NoIdleWorker, ReleaseWork,
           ReceiveReply, MarkWork, MarkWorker, queueVars, Q!GetWorkForAssignment,
           Q!BeginAssignment, Q!EndAssignment, Q!MarkAssignmentError,
           Q!MarkAssignmentFailure
  <1>4. ASSUME NEW w \in Work, QueueWork(w) PROVE Goal
    BY <1>2, <1>4 DEF QueueWork, Q!QueueUnassignedWork
  <1>5. CASE FindWorkToCheck
    <2>1. CASE Q!ReadAssignedWorker
      BY <2>1 DEF Q!ReadAssignedWorker
    <2>2. ASSUME ~ Q!ReadAssignedWorker
          PROVE  checker'.pc # "check" /\ ~ Q!CheckerAt("check")
      <3>1. CASE Q!BeginScan \/ Q!ScanEnds \/ Q!ScanFails
        BY <3>1 DEF Q!BeginScan, Q!ScanEnds, Q!ScanFails, Q!CheckerAt, Q!Resting
      <3>2. CASE Q!ScanStep
        BY <3>2 DEF Q!ScanStep, Q!CheckerAt, Q!Resting
      <3>3. CASE Q!TakeForChecking \/ Q!MakeWorkUnassigned
        BY <3>3 DEF Q!TakeForChecking, Q!MakeWorkUnassigned, Q!CheckerAt, Q!Resting
      <3>4. QED  BY <1>5, <2>2, <3>1, <3>2, <3>3 DEF FindWorkToCheck
    <2>3. QED  BY <2>1, <2>2
  <1>6. CASE ProcessAnswer
    BY <1>6 DEF ProcessAnswer, Q!ProcessStatusCheckResult, Q!Resting
  <1>7. QED
    BY <1>1, <1>3, <1>4, <1>5, <1>6, QueueStays DEF Next, FaultNext, CheckerNext, queueVars

LEMMA AsksNext ==
  ASSUME IInv, [Next]_vars
  PROVE  AsksAnAcceptor'
  <1>1. \A x, w : Accepted(x, w) => Accepted(x, w)'
    BY ReportsStay DEF Accepted
  <1>2. CASE /\ checker'.work = checker.work
             /\ checker'.worker = checker.worker
             /\ checker'.pc = "check" <=> checker.pc = "check"
    BY <1>1, <1>2 DEF IInv, AsksAnAcceptor, Accepted, Q!CheckerAt
  <1>3. CASE Q!ReadAssignedWorker
    BY <1>1, <1>3, CheckerPcOnly DEF IInv, AcceptedOnly, AsksAnAcceptor, Accepted,
                                     Q!CheckerAt
  <1>4. QED
    BY <1>2, <1>3, CheckerMoves DEF AsksAnAcceptor, Q!CheckerAt

\* An end that a worker has in its log after a step was there, or is reported.
LEMMA LogsReported ==
  ASSUME IInv, [Next]_vars, NEW x \in Worker, NEW w \in Work, taskLog'[x][w] \in Ends
  PROVE  <<x, w, taskLog'[x][w]>> \in reported'
  <1> DEFINE Goal == <<x, w, taskLog'[x][w]>> \in reported'
  <1> USE DEF IInv, TypeOK
  <1>1. CASE taskLog'[x][w] = taskLog[x][w]
    BY <1>1, ReportsStay DEF EndsReported
  <1>2. ASSUME NEW y \in Worker, Serve(y) PROVE Goal
    <2>1. CASE UNCHANGED taskLog
      BY <1>1, <2>1
    <2>2. CASE S!Log(y)
      <3>1. taskLog' = [taskLog EXCEPT ![y][claim[y]] = "Unscheduled"]
        BY <2>2 DEF S!Log, S!Report
      <3>2. taskLog'[x][w] = taskLog[x][w] \/ taskLog'[x][w] = "Unscheduled"
        BY <3>1
      <3>3. QED  BY <1>1, <3>2 DEF Ends
    <2>3. QED  BY <1>2, <2>1, <2>2 DEF Serve, S!Refuse
  <1>3. ASSUME NEW y \in Worker, RunTask(y) PROVE Goal
    <2>1. CASE UNCHANGED taskLog
      BY <1>1, <2>1
    <2>2. CASE S!Begin(y)
      <3>1. taskLog' = [taskLog EXCEPT ![y][claim[y]] = "InProgress"]
        BY <2>2 DEF S!Begin, S!Report
      <3>2. taskLog'[x][w] = taskLog[x][w] \/ taskLog'[x][w] = "InProgress"
        BY <3>1
      <3>3. QED  BY <1>1, <3>2 DEF Ends
    <2>3. ASSUME NEW end \in Ends, S!Finish(y, end), Reports(y, claim[y], end)
          PROVE  Goal
      <3>1. taskLog' = [taskLog EXCEPT ![y][claim[y]] = end]
        BY <2>3 DEF S!Finish, S!Report
      <3>2. taskLog'[x][w] = taskLog[x][w]
              \/ (x = y /\ w = claim[y] /\ taskLog'[x][w] = end)
        BY <3>1
      <3>3. QED  BY <1>1, <2>3, <3>2 DEF Reports
    <2>4. QED  BY <1>3, <2>1, <2>2, <2>3 DEF RunTask, S!BecomeIdle, Ends
  <1>4. ASSUME NEW y \in Worker, Restart(y) PROVE Goal
    <2>1. taskLog' = [taskLog EXCEPT ![y] = [v \in Work |-> NoStatus]]
      BY <1>4 DEF Restart, S!Restart
    <2>2. taskLog'[x][w] = taskLog[x][w] \/ taskLog'[x][w] = NoStatus
      BY <2>1
    <2>3. QED  BY <1>1, <2>2, PartsAssumption DEF Ends, Q!TaskStatus
  <1>5. ASSUME NEW a \in Assigner, AssignerNext(a) \/ Arrive(a) \/ RequestFails(a)
        PROVE  taskLog' = taskLog
    BY <1>5 DEF AssignerNext, TakeWork, NoWorkToAssign, TakeWorker, NoIdleWorker,
                ReleaseWork, ReceiveReply, MarkWork, MarkWorker, Arrive, RequestFails,
                serviceVars, S!Claim
  <1>6. ASSUME NEW y \in Worker,
               \/ Register(y) \/ RegisterAgain(y) \/ Unregister(y)
               \/ LoseTask(y) \/ \E v \in Work : ArriveLate(v, y)
        PROVE  taskLog' = taskLog
    BY <1>6 DEF Register, RegisterAgain, Unregister, Others, LoseTask, ArriveLate,
                serviceVars, S!GetStuck, S!Claim
  <1>7. ASSUME NEW r \in P!Refresher, Refresh(r) \/ RefreshFails(r)
        PROVE  taskLog' = taskLog
    BY <1>7 DEF Refresh, RefreshFails, Others, serviceVars
  <1>8. ASSUME CheckerNext \/ QueryFails \/ (\E v \in Work : QueueWork(v)) \/ UNCHANGED vars
        PROVE  taskLog' = taskLog
    BY <1>8 DEF CheckerNext, FindWorkToCheck, QueryTask, ProcessAnswer,
                SchedulerAssigns, QueryFails, QueueWork, vars, serviceVars
  <1>9. QED
    BY <1>1, <1>2, <1>3, <1>4, <1>5, <1>6, <1>7, <1>8
       DEF Next, FaultNext, WorkerNext

LEMMA AnswerWrites ==
  ASSUME [Next]_vars
  PROVE  answer' = answer \/ QueryTask \/ QueryFails \/ ProcessAnswer
  <1>1. ASSUME NEW a \in Assigner, AssignerNext(a) \/ Arrive(a) \/ RequestFails(a)
        PROVE  answer' = answer
    BY <1>1 DEF AssignerNext, TakeWork, NoWorkToAssign, TakeWorker, NoIdleWorker,
                ReleaseWork, ReceiveReply, MarkWork, MarkWorker, Arrive, RequestFails
  <1>2. ASSUME NEW x \in Worker,
               \/ WorkerNext(x) \/ Register(x) \/ LoseTask(x) \/ Restart(x) \/ RegisterAgain(x)
               \/ Unregister(x) \/ \E w \in Work : ArriveLate(w, x)
        PROVE  answer' = answer
    BY <1>2 DEF WorkerNext, Serve, RunTask, Register, LoseTask, Restart, RegisterAgain,
                Unregister, Others, ArriveLate
  <1>3. ASSUME NEW r \in P!Refresher, Refresh(r) \/ RefreshFails(r)
        PROVE  answer' = answer
    BY <1>3 DEF Refresh, RefreshFails, Others
  <1>4. CASE \/ FindWorkToCheck \/ SchedulerAssigns \/ (\E w \in Work : QueueWork(w))
             \/ UNCHANGED vars
    BY <1>4 DEF FindWorkToCheck, SchedulerAssigns, QueueWork, vars
  <1>5. QED  BY <1>1, <1>2, <1>3, <1>4 DEF Next, FaultNext, CheckerNext

LEMMA EndsNext ==
  ASSUME IInv, [Next]_vars
  PROVE  EndsReported'
  <1> USE DEF IInv, TypeOK
  <1>1. \A x \in Worker, w \in Work :
          taskLog'[x][w] \in Ends => <<x, w, taskLog'[x][w]>> \in reported'
    BY LogsReported
  <1>2. /\ answer' # NoStatus => Q!CheckerAt("check")'
        /\ answer' \in Ends => <<checker'.worker, checker'.work, answer'>> \in reported'
    <2>1. CASE QueryTask
      <3>1. /\ checker.pc = "check" /\ checker' = checker /\ reported' = reported
            /\ answer' = TaskStatusAtWorker
        BY <2>1 DEF QueryTask, Q!CheckerAt, queueVars
      <3>2. checker.worker \in Worker /\ checker.work \in Work
        BY <3>1 DEF AsksAnAcceptor, Q!CheckerAt
      <3>3. QED
        BY <3>1, <3>2 DEF TaskStatusAtWorker, EndsReported, Ends, Q!CheckerAt
    <2>2. CASE QueryFails
      BY <2>2 DEF QueryFails, Q!CheckerAt, queueVars, Ends
    <2>3. CASE ProcessAnswer
      BY <2>3, PartsAssumption DEF ProcessAnswer, Ends, Q!TaskStatus
    <2>4. ASSUME answer' = answer, answer # NoStatus, ~ ProcessAnswer
          PROVE  /\ checker'.work = checker.work
                 /\ checker'.worker = checker.worker
                 /\ checker'.pc = "check"
      BY <2>4, CheckerMoves DEF EndsReported, Q!CheckerAt
    <2>5. NoStatus \notin Ends
      BY PartsAssumption DEF Ends, Q!TaskStatus
    <2>6. CASE answer' = answer /\ ~ ProcessAnswer
      BY <2>4, <2>5, <2>6, ReportsStay DEF EndsReported, Q!CheckerAt
    <2>7. QED  BY <2>1, <2>2, <2>3, <2>6, AnswerWrites
  <1>3. QED  BY <1>1, <1>2 DEF EndsReported, Q!CheckerAt

\* The codes of a work that has come to an end are written by ProcessAnswer only.
LEMMA EndCodeWrites ==
  ASSUME IInv, [Next]_vars, NEW w \in Work,
         status'[w] \in {"TERMINATEDNORMALLY", "TERMINATEDABNORMALLY"},
         status'[w] # status[w]
  PROVE  /\ checker.work = w
         /\ answer = IF status'[w] = "TERMINATEDNORMALLY" THEN "TerminatedNormally"
                                                          ELSE "TerminatedAbnormally"
  <1> USE DEF IInv, TypeOK, Q!TypeOK, Q!SetStatus
  <1>1. ASSUME NEW v, NEW code \in {"UNASSIGNED", "TRYINGTOASSIGN", "ASSIGNED",
                                    "CHECKINGSTATUS", "ASSIGNMENTERROR"},
               status' = [status EXCEPT ![v] = code]
        PROVE  FALSE
    BY <1>1
  <1>2. ASSUME NEW a \in Assigner, AssignerNext(a) PROVE FALSE
    <2>1. \/ UNCHANGED status
          \/ \E v \in Work \cup {assigner[a].work}, code \in {"UNASSIGNED", "TRYINGTOASSIGN", "ASSIGNED",
                                    "CHECKINGSTATUS", "ASSIGNMENTERROR"} :
               status' = [status EXCEPT ![v] = code]
      BY <1>2
         DEF AssignerNext, TakeWork, NoWorkToAssign, TakeWorker, NoIdleWorker, ReleaseWork,
             ReceiveReply, MarkWork, MarkWorker, queueVars, Q!GetWorkForAssignment,
             Q!BeginAssignment, Q!EndAssignment, Q!MarkAssignmentError,
             Q!MarkAssignmentFailure
    <2>2. QED  BY <1>1, <2>1
  <1>3. ASSUME NEW v \in Work, QueueWork(v) PROVE FALSE
    BY <1>3 DEF QueueWork, Q!QueueUnassignedWork
  <1>4. CASE FindWorkToCheck
    <2>1. UNCHANGED status \/ Q!TakeForChecking \/ Q!MakeWorkUnassigned
      BY <1>4 DEF FindWorkToCheck, Q!BeginScan, Q!ScanStep, Q!ScanEnds, Q!ScanFails,
                  Q!ReadAssignedWorker
    <2>2. QED  BY <1>1, <2>1 DEF Q!TakeForChecking, Q!MakeWorkUnassigned
  <1>5. CASE ProcessAnswer
    <2>1. Q!CompleteWork(checker.work, answer)
      BY <1>1, <1>5 DEF ProcessAnswer, Q!ProcessStatusCheckResult, Q!KeepAssignment,
                        Q!FreeWork
    <2>2. QED  BY <2>1 DEF Q!CompleteWork
  <1>6. QED
    BY <1>2, <1>3, <1>4, <1>5, QueueStays DEF Next, FaultNext, CheckerNext, queueVars

LEMMA OutcomeNext ==
  ASSUME IInv, [Next]_vars
  PROVE  OutcomeHappened'
  <1> SUFFICES ASSUME NEW w \in Work
               PROVE  /\ status'[w] = "TERMINATEDNORMALLY" =>
                           \E x \in Worker : <<x, w, "TerminatedNormally">> \in reported'
                      /\ status'[w] = "TERMINATEDABNORMALLY" =>
                           \E x \in Worker : <<x, w, "TerminatedAbnormally">> \in reported'
    BY DEF OutcomeHappened
  <1>1. CASE status'[w] = status[w]
    BY <1>1, ReportsStay DEF IInv, OutcomeHappened
  <1>2. ASSUME status'[w] # status[w],
               status'[w] \in {"TERMINATEDNORMALLY", "TERMINATEDABNORMALLY"}
        PROVE  /\ checker.worker \in Worker
               /\ <<checker.worker, w, answer>> \in reported'
               /\ answer = IF status'[w] = "TERMINATEDNORMALLY"
                             THEN "TerminatedNormally" ELSE "TerminatedAbnormally"
    <2>1. answer \in Ends /\ checker.work = w
      BY <1>2, EndCodeWrites DEF Ends
    <2>2. <<checker.worker, checker.work, answer>> \in reported
      BY <2>1 DEF IInv, EndsReported
    <2>3. QED  BY <1>2, <2>1, <2>2, EndCodeWrites, ReportsStay DEF IInv, TypeOK
  <1>3. QED  BY <1>1, <1>2

LEMMA NextHolds == IInv /\ [Next]_vars => IInv'
  <1> SUFFICES ASSUME IInv, [Next]_vars PROVE IInv'
    OBVIOUS
  <1>1. Q!IInv'
    BY UsesQueue, QueueNext DEF IInv
  <1>2. QED
    BY <1>1, NextType, LocalsNext, ServedNext, HolderNext, AcceptedNext, AsksNext,
       EndsNext, OutcomeNext DEF IInv
-----------------------------------------------------------------------------
(* The theorems.                                                           *)

\* The inductive invariant holds of every reachable state.
THEOREM Invariance == Spec => []IInv
  BY InitHolds, NextHolds, PTL DEF Spec

\* The variables of the coordinator and its workers hold values of their types.
THEOREM TypeCorrect == Spec => []TypeOK
  <1>1. IInv => TypeOK
    BY DEF IInv
  <1>2. QED  BY <1>1, Invariance, PTL

\* A work in TRYINGTOASSIGN is in the hands of exactly one thread of assignWork,
\* however many threads run it and whatever requests fail: no two mark one work,
\* and none is left without a thread that marks it.
THEOREM WorkHasOneHolder == Spec => []OneHolder
  <1>1. IInv => OneHolder
    BY DEF IInv
  <1>2. QED  BY <1>1, Invariance, PTL

\* When getStatus tells a client that a work terminated, normally or abnormally,
\* its task did so on some worker, whatever workers restarted in between and
\* whichever requests of assignWork and checkTask got lost.
THEOREM OutcomesHappened == Spec => []OutcomeHappened
  <1>1. IInv => OutcomeHappened
    BY DEF IInv
  <1>2. QED  BY <1>1, Invariance, PTL

\* checkTask asks a worker for a task only if the worker accepted that task, since
\* the worker of a work is written only after its reply to the run request.
THEOREM AskedAccepted == Spec => []AsksAnAcceptor
  <1>1. IInv => AsksAnAcceptor
    BY DEF IInv
  <1>2. QED  BY <1>1, Invariance, PTL

\* WorkMgr calls the methods of WorkQueueMgr and PoolMgr only where these modules
\* allow it, and its workers do no more than WorkerService allows: whatever holds
\* of the parts by themselves holds of them in the coordinator.
THEOREM Composition == Spec => Q!Spec /\ P!Spec /\ S!Spec
  <1>1. Init => Q!Init /\ P!Init /\ S!Init
    BY DEF Init
  <1>2. IInv /\ [Next]_vars => /\ [Q!Next]_(Q!queueVars)
                               /\ [P!Next]_(P!poolVars)
                               /\ [S!Next]_(S!serviceVars)
    BY UsesQueue, UsesPool, UsesService
  <1>3. QED  BY <1>1, <1>2, Invariance, PTL DEF Spec, Q!Spec, P!Spec, S!Spec

\* The invariants of the queues, in the coordinator as a whole: no work is twice in
\* them, statuses and queues agree, CHECKINGSTATUS is a loan, strikes are fresh.
THEOREM QueuesInOrder ==
  Spec => [](/\ Q!OnePlacePerWork
             /\ Q!StatusMatchesQueue
             /\ Q!CheckedWorkIsHeld
             /\ Q!FreshStrikes)
  <1>1. IInv => /\ Q!OnePlacePerWork
                /\ Q!StatusMatchesQueue
                /\ Q!CheckedWorkIsHeld
                /\ Q!FreshStrikes
    BY DEF IInv, Q!IInv
  <1>2. QED  BY <1>1, Invariance, PTL

\* Every work of the coordinator goes through the abstract life cycle: it is on
\* offer to one worker at a time and ends at most once, for good.
THEOREM EveryWorkLives == Spec => Q!ImplementsLifecycle
  <1> DEFINE mine == [w \in Work |-> Q!LifePhase(w)]
             parts == [w \in Work |-> Queue!LifePhase(w)]
  <1>1. Spec => Queue!Spec
    BY Composition, SameQueueInit, SameQueueNext, PTL DEF Q!Spec, Queue!Spec
  <1>2. Queue!Spec => Queue!ImplementsLifecycle
    BY Queue!Implementation, QueueAssumptions
  <1>3. mine = parts
    BY DEF Q!LifePhase, Queue!LifePhase, Q!IsIn, Queue!IsIn
  <1>4. Queue!Life!Init => Q!Life!Init
    BY <1>3 DEF Queue!Life!Init, Q!Life!Init
  <1>5. [Queue!Life!Next]_parts => [Q!Life!Next]_mine
    <2>1. (mine = parts)'
      BY <1>3, PTL
    <2>2. QED
      BY <1>3, <2>1
         DEF Queue!Life!Next, Q!Life!Next, Queue!Life!Submit, Q!Life!Submit,
             Queue!Life!Offer, Q!Life!Offer, Queue!Life!Refuse, Q!Life!Refuse,
             Queue!Life!Reject, Q!Life!Reject, Queue!Life!Accept, Q!Life!Accept,
             Queue!Life!Reschedule, Q!Life!Reschedule, Queue!Life!Finish,
             Q!Life!Finish, Queue!Life!Move, Q!Life!Move
  <1>6. QED
    BY <1>1, <1>2, <1>4, <1>5, PTL
       DEF Queue!ImplementsLifecycle, Q!ImplementsLifecycle, Queue!Life!Spec, Q!Life!Spec

\* A worker in TRYINGTOASSIGN is in the hands of a thread of assignWork that waits
\* for its reply or is about to mark it, so that none is left in that status.
OfferedIsMarked == \A x \in Worker :
  pool[x] = "TRYINGTOASSIGN" =>
    \E a \in Assigner :
      /\ handed[a] = x
      /\ assigner[a].pc \in {"wait", "success", "error", "failure", "assigning", "busy",
                             "idle"}

\* No worker stays on offer: whoever took it will report on it.
THEOREM OfferedMarked == Spec => []OfferedIsMarked
  <1>1. IInv /\ P!OfferedIsHeld => OfferedIsMarked
    BY PartsAssumption DEF IInv, Locals, P!OfferedIsHeld, OfferedIsMarked
  <1>2. Pool!OfferedIsHeld <=> P!OfferedIsHeld
    BY DEF Pool!OfferedIsHeld, P!OfferedIsHeld
  <1>3. Spec => Pool!Spec
    <2>1. P!Init => Pool!Init
      BY SamePoolInit
    <2>2. [P!Next]_(P!poolVars) => [Pool!Next]_(Pool!poolVars)
      BY SamePoolNext
    <2>3. QED  BY <2>1, <2>2, Composition, PTL DEF P!Spec, Pool!Spec
  <1>4. Pool!Spec => []Pool!OfferedIsHeld
    BY Pool!OfferedHeld, PartsAssumption
  <1>5. QED  BY <1>1, <1>2, <1>3, <1>4, Invariance, PTL

\* In the coordinator as a whole, no work is overtaken in the queue and no deleted
\* worker is put back into the pool by a late answer or assignment result.
THEOREM PartsKeepSteps == Spec => Q!KeepsTurn /\ P!NoComeback
  <1>1. Spec => Queue!Spec /\ Pool!Spec
    BY Composition, SameQueueInit, SameQueueNext, SamePoolInit, SamePoolNext, PTL
       DEF Q!Spec, Queue!Spec, P!Spec, Pool!Spec
  <1>2. Queue!Spec => Queue!KeepsTurn
    BY Queue!TurnsKept, QueueAssumptions
  <1>3. Pool!Spec => Pool!NoComeback
    BY Pool!StaysDeleted, PartsAssumption
  <1>4. [Queue!NobodyOvertakes]_(Queue!queueVars) <=> [Q!NobodyOvertakes]_(Q!queueVars)
    BY DEF Queue!NobodyOvertakes, Q!NobodyOvertakes, Queue!queueVars, Q!queueVars
  <1>5. [Pool!ComesBackRegistered]_(Pool!poolVars) <=> [P!ComesBackRegistered]_(P!poolVars)
    BY DEF Pool!ComesBackRegistered, P!ComesBackRegistered, Pool!poolVars, P!poolVars,
           Pool!Absent, P!Absent, Pool!Quiet, P!Quiet
  <1>6. QED
    BY <1>1, <1>2, <1>3, <1>4, <1>5, PTL
       DEF Queue!KeepsTurn, Q!KeepsTurn, Pool!NoComeback, P!NoComeback
=============================================================================
