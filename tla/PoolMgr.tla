------------------------------ MODULE PoolMgr ------------------------------
(***************************************************************************)
(* The coordinator's PoolMgr: what it believes of each worker, the threads *)
(* that poll the workers and the threads that were handed a worker.        *)
(*                                                                         *)
(* The synchronized methods are one step each.  refreshWorkerStatus is not *)
(* synchronized and spans an HTTP request: asking, testing the believed    *)
(* status and writing the new one are separate steps.  What a worker       *)
(* answers is left open here (module WorkMgr has the workers).             *)
(***************************************************************************)
EXTENDS Naturals

CONSTANTS Worker,       \* the workers, by their host:port
          NoWorker,     \* no worker (Java null)
          Assigner,     \* the threads that run WorkMgr.assignWork
          Poller,       \* the thread of WorkerStatusRefreshTask
          Spawned       \* bound: the other threads that may refresh at a time

ASSUME NoWorkerAssumption == NoWorker \notin Worker
ASSUME PollerAssumption   == Poller \notin Spawned

Refresher == {Poller} \cup Spawned

\* WorkerStatus.StatusCode, and Absent for a worker that is not in the map.
StatusCode == {"BUSY", "IDLE", "TRYINGTOASSIGN", "UNKNOWN", "UNREACHABLE"}
Absent == "ABSENT"

\* The statuses a refresh can find out.
Polled == StatusCode \ {"TRYINGTOASSIGN"}

\* How a getstatus request can end: with the worker's idle flag, with a reply
\* that has none (or a failure, or one that cannot be parsed), with a status
\* other than OK, or without a connection.
Answer == {"idle", "busy", "bad", "nonOK", "unreachable"}

VARIABLES pool,         \* workerPool: the status of each worker, or Absent
          handed,       \* the worker an assigner was handed and still has
          refresher     \* the refreshing threads

poolVars == <<pool, handed, refresher>>
-----------------------------------------------------------------------------
(* A refreshing thread: todo are the workers of its list it has yet to ask; *)
(* "ask": its request is out; "test": it has the idle flag (as the code it  *)
(* stands for) and is about to look at the believed status; "set": it is    *)
(* about to write code.                                                    *)

RefresherState == [pc : {"rest", "ask", "test", "set"}, todo : SUBSET Worker,
                   worker : Worker \cup {NoWorker},
                   code : Polled \cup {Absent}]

Quiet == [pc |-> "rest", todo |-> {}, worker |-> NoWorker, code |-> Absent]

TypeOK ==
  /\ pool \in [Worker -> StatusCode \cup {Absent}]
  /\ handed \in [Assigner -> Worker \cup {NoWorker}]
  /\ refresher \in [Refresher -> RefresherState]

Init ==
  /\ pool = [x \in Worker |-> Absent]
  /\ handed = [a \in Assigner |-> NoWorker]
  /\ refresher = [r \in Refresher |-> Quiet]

Members == {x \in Worker : pool[x] # Absent}

\* Mutant: the status is written whether or not the worker is in the pool.
PutWorkerStatus(x, code) == pool' = [pool EXCEPT ![x] = code]

\* updateWorkerStatus: a worker that has left the pool stays out of it.
UpdateWorkerStatus(x, code) ==
  pool' = [pool EXCEPT ![x] = IF @ = Absent THEN @ ELSE code]

RefresherAt(r, pc) == refresher[r].pc = pc

\* Mutant: a worker that could not be refreshed ends the pass over the list.
AbandonList(r) == refresher' = [refresher EXCEPT ![r] = Quiet]

\* Thread r is done with the worker it was asking.
NextInList(r) ==
  refresher' = [refresher EXCEPT ![r] = [Quiet EXCEPT !.todo = refresher[r].todo]]
-----------------------------------------------------------------------------
(* Registration (PoolMgrService.updatePool).                               *)

\* A worker starts, or starts again, as UNKNOWN, and a new thread refreshes it.
AddToPool(x) ==
  /\ pool' = [pool EXCEPT ![x] = "UNKNOWN"]
  /\ \E r \in Spawned :
        /\ refresher[r] = Quiet
        /\ refresher' = [refresher EXCEPT ![r].todo = {x}]
  /\ UNCHANGED handed

DeleteFromPool(x) ==
  /\ pool[x] # Absent
  /\ pool' = [pool EXCEPT ![x] = Absent]
  /\ UNCHANGED <<handed, refresher>>
-----------------------------------------------------------------------------
(* Handing workers to assigners.                                           *)

\* Any IDLE worker (the order of a HashMap) is handed out.
GetWorkerForAssignment(a, x) ==
  /\ handed[a] = NoWorker
  /\ pool[x] = "IDLE"
  /\ UpdateWorkerStatus(x, "TRYINGTOASSIGN")
  /\ handed' = [handed EXCEPT ![a] = x]
  /\ UNCHANGED refresher

\* Mutant: only a successful assignment is reported to the pool.
MarkSuccessOnly(a, assignmentSuccessful) ==
  /\ handed[a] # NoWorker
  /\ IF assignmentSuccessful THEN UpdateWorkerStatus(handed[a], "BUSY")
                             ELSE UNCHANGED pool
  /\ handed' = [handed EXCEPT ![a] = NoWorker]
  /\ UNCHANGED refresher

\* Mutant: the status of the work is written where the worker's belongs.
MarkAsAssigned(a, assignmentSuccessful) ==
  /\ handed[a] # NoWorker
  /\ UpdateWorkerStatus(handed[a],
                        IF assignmentSuccessful THEN "ASSIGNED" ELSE "IDLE")
  /\ handed' = [handed EXCEPT ![a] = NoWorker]
  /\ UNCHANGED refresher

MarkAssignmentResult(a, assignmentSuccessful) ==
  /\ handed[a] # NoWorker
  /\ UpdateWorkerStatus(handed[a], IF assignmentSuccessful THEN "BUSY" ELSE "IDLE")
  /\ handed' = [handed EXCEPT ![a] = NoWorker]
  /\ UNCHANGED refresher
-----------------------------------------------------------------------------
(* refreshWorkerStatus.                                                    *)

\* WorkerStatusRefreshTask: getAllWorkers, then the workers one after another.
BeginPoll ==
  /\ refresher[Poller] = Quiet
  /\ refresher' = [refresher EXCEPT ![Poller].todo = Members]
  /\ UNCHANGED <<pool, handed>>

\* A caller, on a thread of its own, refreshes one worker (the hint of
\* WorkMgr.checkTask when a task has ended).
BeginHint(r, x) ==
  /\ refresher[r] = Quiet
  /\ refresher' = [refresher EXCEPT ![r].todo = {x}]
  /\ UNCHANGED <<pool, handed>>

Ask(r, x) ==
  /\ RefresherAt(r, "rest")
  /\ x \in refresher[r].todo
  /\ refresher' = [refresher EXCEPT ![r] = [pc |-> "ask", todo |-> @.todo \ {x},
                                            worker |-> x, code |-> Absent]]
  /\ UNCHANGED <<pool, handed>>

\* The request ends: what the thread will do next, and with which code.
Receive(r, answer) ==
  /\ RefresherAt(r, "ask")
  /\ LET goOn(pc, code) == refresher' = [refresher EXCEPT ![r].pc = pc,
                                                          ![r].code = code]
     IN  \/ answer = "idle"        /\ goOn("test", "IDLE")
         \/ answer = "busy"        /\ goOn("test", "BUSY")
         \/ answer = "bad"         /\ goOn("set", "UNKNOWN")
         \/ answer = "unreachable" /\ goOn("set", "UNREACHABLE")
         \/ answer = "nonOK"       /\ NextInList(r)
  /\ UNCHANGED <<pool, handed>>

\* getWorkerStatus(worker).getStatus() != TRYINGTOASSIGN, without the monitor;
\* for a worker no longer in the pool it throws, and UNKNOWN is to be written.
TestStatus(r) ==
  /\ RefresherAt(r, "test")
  /\ LET x == refresher[r].worker
     IN  \/ /\ pool[x] = "TRYINGTOASSIGN"
            /\ NextInList(r)
         \/ /\ pool[x] = Absent
            /\ refresher' = [refresher EXCEPT ![r].pc = "set", ![r].code = "UNKNOWN"]
         \/ /\ pool[x] \notin {"TRYINGTOASSIGN", Absent}
            /\ refresher' = [refresher EXCEPT ![r].pc = "set"]
  /\ UNCHANGED <<pool, handed>>

WriteStatus(r) ==
  /\ RefresherAt(r, "set")
  /\ UpdateWorkerStatus(refresher[r].worker, refresher[r].code)
  /\ NextInList(r)
  /\ UNCHANGED handed
-----------------------------------------------------------------------------
RegistrationNext(x) == AddToPool(x) \/ DeleteFromPool(x)

AssignerNext(a) ==
  \/ \E x \in Worker : GetWorkerForAssignment(a, x)
  \/ \E ok \in BOOLEAN : MarkAssignmentResult(a, ok)

RefresherNext(r) ==
  \/ r \in Spawned /\ \E x \in Worker : BeginHint(r, x)
  \/ \E x \in Worker : Ask(r, x)
  \/ \E answer \in Answer : Receive(r, answer)
  \/ TestStatus(r)
  \/ WriteStatus(r)

Next ==
  \/ \E x \in Worker : RegistrationNext(x)
  \/ \E a \in Assigner : AssignerNext(a)
  \/ BeginPoll
  \/ \E r \in Refresher : RefresherNext(r)

Spec == Init /\ [][Next]_poolVars

\* The poller is run again and again (scheduleWithFixedDelay; every exception
\* of a refresh is caught), and each of its requests ends.  The HTTP client is
\* given no timeout: that a request ends is an assumption about the workers.
Fairness ==
  /\ WF_poolVars(BeginPoll)
  /\ WF_poolVars(\E x \in Worker : Ask(Poller, x))
  /\ WF_poolVars(\E answer \in Answer : Receive(Poller, answer))
  /\ WF_poolVars(TestStatus(Poller) \/ WriteStatus(Poller))

FairSpec == Spec /\ Fairness
-----------------------------------------------------------------------------
(* What the pool manager guarantees.                                       *)

\* TRYINGTOASSIGN is a loan: a worker that has it is in the hands of a thread
\* that will report on it, so that no worker is left in the one status that
\* refreshWorkerStatus means to leave alone and that is never handed out.
OfferedIsHeld == \A x \in Worker :
  pool[x] = "TRYINGTOASSIGN" => \E a \in Assigner : handed[a] = x

\* A worker that was deleted comes back by registration only, as UNKNOWN and
\* with a refresh on its way; an answer or an assignment result that arrives
\* late for it does not put it back (the containsKey of updateWorkerStatus).
ComesBackRegistered == \A x \in Worker :
  pool[x] = Absent /\ pool'[x] # Absent
    => /\ pool'[x] = "UNKNOWN"
       /\ \E r \in Spawned : refresher[r] = Quiet /\ refresher'[r].todo = {x}
NoComeback == [][ComesBackRegistered]_poolVars

\* Every worker in the pool is asked for its status again and again, however
\* the requests to the other workers of the pass end.
KeepsBeingPolled == \A x \in Worker :
  []<>(pool[x] = Absent \/ refresher[Poller].worker = x)

\* A refresh leaves a worker in TRYINGTOASSIGN alone.  Comment of
\* refreshWorkerStatus, PoolMgr.java:168: "update the status, except leave the
\* ones with TRYINGTOASSIGN alone".
LeavesOfferedAlone == \A r \in Refresher, x \in Worker :
  WriteStatus(r) /\ pool[x] = "TRYINGTOASSIGN" => pool'[x] = pool[x]
RefreshLeavesOffered == [][LeavesOfferedAlone]_poolVars
============================================================================
