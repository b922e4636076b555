---------------------------- MODULE WorkQueueMgr ----------------------------
(***************************************************************************)
(* The coordinator's WorkQueueMgr: the queue of incomplete works, the      *)
(* queue of completed works and the QueuedWork records in them.            *)
(*                                                                         *)
(* The methods declared synchronized are one step each, because a thread   *)
(* that runs one holds the manager's monitor and no other synchronized     *)
(* method sees the states in between.  getWorkForChecking is the one       *)
(* method that takes no monitor: its scan of the LinkedList, its test of   *)
(* a status and the write of the next status are steps of their own, and   *)
(* markAssignmentSuccess is split at the one place where such a scan can   *)
(* tell: QueuedWork.setAssignment writes the status before the worker.     *)
(*                                                                         *)
(* One thread, the scheduler of WorkMgr, calls getWorkForChecking and what *)
(* follows it (checker below).  Any number of threads run assignWork: the  *)
(* works in TRYINGTOASSIGN are those some such thread holds, and the mark  *)
(* methods are only called with a work the caller holds.  Module WorkMgr   *)
(* shows that the callers keep to this.                                    *)
(***************************************************************************)
EXTENDS Naturals, Sequences, SequencesExt

CONSTANTS Work,         \* the works, by the UUID of their WorkItem
          Worker,       \* the workers, by their host:port
          NoWork,       \* no work (Java null)
          NoWorker,     \* no worker (Java null)
          NoStatus      \* no task status recorded (Java null)

ASSUME NoWorkAssumption   == NoWork \notin Work
ASSUME NoWorkerAssumption == NoWorker \notin Worker

\* BfConsts.TaskStatus, what a status check of a task can result in.
TaskStatus == {"Unscheduled", "InProgress", "TerminatedNormally",
               "TerminatedAbnormally", "Unknown", "UnreachableOrBadResponse"}

ASSUME NoStatusAssumption == NoStatus \notin TaskStatus

\* CoordConsts.WorkStatusCode.
EndCodes == {"ASSIGNMENTERROR", "TERMINATEDNORMALLY", "TERMINATEDABNORMALLY"}
WorkStatusCode ==
  EndCodes \cup {"UNASSIGNED", "TRYINGTOASSIGN", "ASSIGNED", "CHECKINGSTATUS"}

VARIABLES incomplete,       \* _queueIncompleteWork
          completed,        \* _queueCompletedWork
          status,           \* QueuedWork._status of each work
          assignedWorker,   \* QueuedWork._assignedWorker of each work
          lastChecked,      \* QueuedWork._lastTaskCheckedStatus of each work
          monitor,          \* the half-done setAssignment its owner is in
          checker           \* the scheduler thread, from getWorkForChecking on

queueVars == <<incomplete, completed, status, assignedWorker, lastChecked,
               monitor, checker>>
-----------------------------------------------------------------------------
(* The scheduler thread in checkTask: at rest; "next": in the loop, about  *)
(* to advance the list iterator to position pos (stale: the list was       *)
(* modified since the iterator was made); "take": about to write           *)
(* CHECKINGSTATUS to work; "got": about to read its worker; "check": asking *)
(* worker for the task's status; "drop": the worker it read was null.      *)

CheckerPc == {"rest", "next", "take", "got", "check", "drop"}

CheckerState == [pc : CheckerPc, pos : Nat \ {0}, stale : BOOLEAN,
                 work : Work \cup {NoWork}, worker : Worker \cup {NoWorker}]

Resting == [pc |-> "rest", pos |-> 1, stale |-> FALSE,
            work |-> NoWork, worker |-> NoWorker]

CheckerAt(pc) == checker.pc = pc

MonitorFree == monitor.work = NoWork

Unowned == [work |-> NoWork, worker |-> NoWorker]

TypeOK ==
  /\ incomplete \in Seq(Work)
  /\ completed \in Seq(Work)
  /\ status \in [Work -> WorkStatusCode]
  /\ assignedWorker \in [Work -> Worker \cup {NoWorker}]
  /\ lastChecked \in [Work -> TaskStatus \cup {NoStatus}]
  /\ monitor \in [work : Work \cup {NoWork}, worker : Worker \cup {NoWorker}]
  /\ checker \in CheckerState

\* A QueuedWork is UNASSIGNED from its constructor on, before it is queued.
Init ==
  /\ incomplete = <<>>
  /\ completed = <<>>
  /\ status = [w \in Work |-> "UNASSIGNED"]
  /\ assignedWorker = [w \in Work |-> NoWorker]
  /\ lastChecked = [w \in Work |-> NoStatus]
  /\ monitor = Unowned
  /\ checker = Resting

IsIn(w, queue) == \E i \in DOMAIN queue : queue[i] = w

SetStatus(w, code) == status' = [status EXCEPT ![w] = code]

\* An iterator in use notices that the list under it was modified.
Modified == checker' = [checker EXCEPT !.stale = CheckerAt("next")]

\* MemoryQueue.delete, then enque: LinkedList removes the first occurrence.
MoveToCompleted(w) ==
  \E i \in DOMAIN incomplete :
     /\ incomplete[i] = w
     /\ \A j \in 1 .. (i - 1) : incomplete[j] # w
     /\ incomplete' = RemoveAt(incomplete, i)
     /\ completed' = Append(completed, w)
-----------------------------------------------------------------------------
(* The synchronized methods that queue and assign works.                   *)

\* Mutant: only the incomplete queue is searched for the id.
RequeueCompletedWork(w) ==
  /\ MonitorFree
  /\ ~ IsIn(w, incomplete)
  /\ incomplete' = Append(incomplete, w)
  /\ Modified
  /\ UNCHANGED <<completed, status, assignedWorker, lastChecked, monitor>>

\* A work whose id is already queued or completed is refused by an exception.
QueueUnassignedWork(w) ==
  /\ MonitorFree
  /\ ~ IsIn(w, incomplete)
  /\ ~ IsIn(w, completed)
  /\ incomplete' = Append(incomplete, w)
  /\ Modified
  /\ UNCHANGED <<completed, status, assignedWorker, lastChecked, monitor>>

\* Mutant: a work that is not on offer is taken for one that is not assigned.
OfferAssignedWork(w) ==
  /\ MonitorFree
  /\ \E i \in DOMAIN incomplete :
        /\ incomplete[i] = w
        /\ status[w] \in {"UNASSIGNED", "ASSIGNED"}
        /\ \A j \in 1 .. (i - 1) : status[incomplete[j]] # "UNASSIGNED"
  /\ SetStatus(w, "TRYINGTOASSIGN")
  /\ UNCHANGED <<incomplete, completed, assignedWorker, lastChecked, monitor,
                 checker>>

\* The first UNASSIGNED work in queue order goes to the caller.
GetWorkForAssignment(w) ==
  /\ MonitorFree
  /\ \E i \in DOMAIN incomplete :
        /\ incomplete[i] = w
        /\ status[w] = "UNASSIGNED"
        /\ \A j \in 1 .. (i - 1) : status[incomplete[j]] # "UNASSIGNED"
  /\ SetStatus(w, "TRYINGTOASSIGN")
  /\ UNCHANGED <<incomplete, completed, assignedWorker, lastChecked, monitor,
                 checker>>

\* markAssignmentSuccess up to the first write of setAssignment.
BeginAssignment(w, x) ==
  /\ MonitorFree
  /\ status[w] = "TRYINGTOASSIGN"
  /\ SetStatus(w, "ASSIGNED")
  /\ monitor' = [work |-> w, worker |-> x]
  /\ UNCHANGED <<incomplete, completed, assignedWorker, lastChecked, checker>>

\* The second write of setAssignment, and the monitor is released.
EndAssignment ==
  /\ ~ MonitorFree
  /\ assignedWorker' = [assignedWorker EXCEPT ![monitor.work] = monitor.worker]
  /\ monitor' = Unowned
  /\ UNCHANGED <<incomplete, completed, status, lastChecked, checker>>

\* Mutant: a work that found no worker goes back to the end of the queue.
RequeueFailedWork(w) ==
  /\ MonitorFree
  /\ status[w] = "TRYINGTOASSIGN"
  /\ SetStatus(w, "UNASSIGNED")
  /\ \E i \in DOMAIN incomplete :
        /\ incomplete[i] = w
        /\ incomplete' = Append(RemoveAt(incomplete, i), w)
  /\ Modified
  /\ UNCHANGED <<completed, assignedWorker, lastChecked, monitor>>

\* The work can be tried again; what assignment it had is not cleared.
MarkAssignmentFailure(w) ==
  /\ MonitorFree
  /\ status[w] = "TRYINGTOASSIGN"
  /\ SetStatus(w, "UNASSIGNED")
  /\ UNCHANGED <<incomplete, completed, assignedWorker, lastChecked, monitor,
                 checker>>

\* Mutant: the work is marked, but left in the incomplete queue.
MarkErrorInPlace(w) ==
  /\ MonitorFree
  /\ status[w] = "TRYINGTOASSIGN"
  /\ SetStatus(w, "ASSIGNMENTERROR")
  /\ UNCHANGED <<incomplete, completed, assignedWorker, lastChecked, monitor,
                 checker>>

\* The worker refused the task: the work is not tried again.
MarkAssignmentError(w) ==
  /\ MonitorFree
  /\ status[w] = "TRYINGTOASSIGN"
  /\ MoveToCompleted(w)
  /\ SetStatus(w, "ASSIGNMENTERROR")
  /\ Modified
  /\ UNCHANGED <<assignedWorker, lastChecked, monitor>>
-----------------------------------------------------------------------------
(* getWorkForChecking, without the monitor, on the scheduler thread.       *)

\* The for loop makes an iterator of the list.
BeginScan ==
  /\ CheckerAt("rest")
  /\ checker' = [Resting EXCEPT !.pc = "next"]
  /\ UNCHANGED <<incomplete, completed, status, assignedWorker, lastChecked,
                 monitor>>

\* hasNext() is false: null is returned.
ScanEnds ==
  /\ CheckerAt("next")
  /\ checker.pos > Len(incomplete)
  /\ checker' = Resting
  /\ UNCHANGED <<incomplete, completed, status, assignedWorker, lastChecked,
                 monitor>>

\* next() throws ConcurrentModificationException, which checkTask catches.
ScanFails ==
  /\ CheckerAt("next")
  /\ checker.pos <= Len(incomplete)
  /\ checker.stale
  /\ checker' = Resting
  /\ UNCHANGED <<incomplete, completed, status, assignedWorker, lastChecked,
                 monitor>>

\* next() returns a work: pass over it, or stop at it when it is ASSIGNED.
ScanStep ==
  /\ CheckerAt("next")
  /\ checker.pos <= Len(incomplete)
  /\ ~ checker.stale
  /\ LET w == incomplete[checker.pos]
     IN  \/ /\ status[w] # "ASSIGNED"
            /\ checker' = [checker EXCEPT !.pos = @ + 1]
         \/ /\ status[w] = "ASSIGNED"
            /\ checker' = [Resting EXCEPT !.pc = "take", !.work = w]
  /\ UNCHANGED <<incomplete, completed, status, assignedWorker, lastChecked,
                 monitor>>

\* setStatus(CHECKINGSTATUS), and the work is returned.
TakeForChecking ==
  /\ CheckerAt("take")
  /\ SetStatus(checker.work, "CHECKINGSTATUS")
  /\ checker' = [checker EXCEPT !.pc = "got"]
  /\ UNCHANGED <<incomplete, completed, assignedWorker, lastChecked, monitor>>

\* WorkMgr.checkTask reads the worker of the work it got.
ReadAssignedWorker ==
  /\ CheckerAt("got")
  /\ LET x == assignedWorker[checker.work]
     IN  checker' = [checker EXCEPT !.pc = IF x = NoWorker THEN "drop" ELSE "check",
                                    !.worker = x]
  /\ UNCHANGED <<incomplete, completed, status, assignedWorker, lastChecked,
                 monitor>>
-----------------------------------------------------------------------------
(* The synchronized methods that end a check.                              *)

MakeWorkUnassigned ==
  /\ MonitorFree
  /\ CheckerAt("drop")
  /\ SetStatus(checker.work, "UNASSIGNED")
  /\ checker' = Resting
  /\ UNCHANGED <<incomplete, completed, assignedWorker, lastChecked, monitor>>

\* Mutant: the first missed check is recorded, but the status is not restored.
RecordOnly(w, s) ==
  /\ \/ s \in {"Unscheduled", "InProgress"} /\ SetStatus(w, "ASSIGNED")
     \/ s = "UnreachableOrBadResponse" /\ lastChecked[w] # s /\ UNCHANGED status
  /\ lastChecked' = [lastChecked EXCEPT ![w] = s]
  /\ UNCHANGED <<incomplete, completed, assignedWorker>>

\* The work stays with its worker.
KeepAssignment(w, s) ==
  /\ \/ s \in {"Unscheduled", "InProgress"}
     \/ s = "UnreachableOrBadResponse" /\ lastChecked[w] # s
  /\ SetStatus(w, "ASSIGNED")
  /\ lastChecked' = [lastChecked EXCEPT ![w] = s]
  /\ UNCHANGED <<incomplete, completed, assignedWorker>>

\* Mutant: the task's status is stored as the work's.
CompleteWithTaskStatus(w, s) ==
  /\ s \in {"TerminatedNormally", "TerminatedAbnormally"}
  /\ MoveToCompleted(w)
  /\ SetStatus(w, s)
  /\ lastChecked' = [lastChecked EXCEPT ![w] = s]
  /\ UNCHANGED assignedWorker

\* The task has ended, and the work with it.
CompleteWork(w, s) ==
  /\ s \in {"TerminatedNormally", "TerminatedAbnormally"}
  /\ MoveToCompleted(w)
  /\ SetStatus(w, IF s = "TerminatedNormally" THEN "TERMINATEDNORMALLY"
                                              ELSE "TERMINATEDABNORMALLY")
  /\ lastChecked' = [lastChecked EXCEPT ![w] = s]
  /\ UNCHANGED assignedWorker

\* Mutant: clearAssignment forgets the last check.
FreeWorkKeepStrike(w, s) ==
  /\ \/ s = "Unknown"
     \/ s = "UnreachableOrBadResponse" /\ lastChecked[w] = s
  /\ SetStatus(w, "UNASSIGNED")
  /\ assignedWorker' = [assignedWorker EXCEPT ![w] = NoWorker]
  /\ UNCHANGED <<incomplete, completed, lastChecked>>

\* The worker does not know the task, or did not answer twice in a row.
FreeWork(w, s) ==
  /\ \/ s = "Unknown"
     \/ s = "UnreachableOrBadResponse" /\ lastChecked[w] = s
  /\ SetStatus(w, "UNASSIGNED")
  /\ assignedWorker' = [assignedWorker EXCEPT ![w] = NoWorker]
  /\ lastChecked' = [lastChecked EXCEPT ![w] = NoStatus]
  /\ UNCHANGED <<incomplete, completed>>

ProcessStatusCheckResult(s) ==
  /\ MonitorFree
  /\ CheckerAt("check")
  /\ \/ KeepAssignment(checker.work, s)
     \/ CompleteWork(checker.work, s)
     \/ FreeWork(checker.work, s)
  /\ checker' = Resting
  /\ UNCHANGED monitor
-----------------------------------------------------------------------------
AssignerNext(w) ==
  \/ QueueUnassignedWork(w)
  \/ GetWorkForAssignment(w)
  \/ \E x \in Worker : BeginAssignment(w, x)
  \/ MarkAssignmentFailure(w)
  \/ MarkAssignmentError(w)

CheckerNext ==
  \/ BeginScan
  \/ ScanEnds
  \/ ScanFails
  \/ ScanStep
  \/ TakeForChecking
  \/ ReadAssignedWorker
  \/ MakeWorkUnassigned
  \/ \E s \in TaskStatus : ProcessStatusCheckResult(s)

Next ==
  \/ \E w \in Work : AssignerNext(w)
  \/ EndAssignment
  \/ CheckerNext

Spec == Init /\ [][Next]_queueVars
-----------------------------------------------------------------------------
(* What the queue manager guarantees.                                      *)

Held(w) == status[w] \in {"TRYINGTOASSIGN", "ASSIGNED", "CHECKINGSTATUS"}

\* The works the scheduler thread has taken and not yet given back.
CheckerHolds(w) == checker.pc \in {"got", "check", "drop"} /\ checker.work = w

\* A work is in the two queues at most once, so that no work is assigned or
\* completed twice over because a stale or double entry of it was left behind
\* by the pair delete and enque (markAssignmentError, processStatusCheckResult).
OnePlacePerWork ==
  /\ IsInjective(incomplete)
  /\ IsInjective(completed)
  /\ \A w \in Work : ~ (IsIn(w, incomplete) /\ IsIn(w, completed))

\* The status of a work and the queue it is in tell the same story: it is in
\* the completed queue exactly when its status is one of the three it ends
\* with, and any work handed to a thread or a worker is still incomplete.
StatusMatchesQueue == \A w \in Work :
  /\ status[w] \in EndCodes <=> IsIn(w, completed)
  /\ Held(w) => IsIn(w, incomplete)

\* CHECKINGSTATUS is a loan: the one work that has it is in the hands of the
\* scheduler thread, so that no work is left in it, which nothing would ever
\* pick up again (getWorkForAssignment and getWorkForChecking both skip it).
CheckedWorkIsHeld == \A w \in Work :
  status[w] = "CHECKINGSTATUS" <=> CheckerHolds(w)

\* A bad check counts against the assignment it was made for: a work that is
\* waiting, or on offer, or whose new assignment is being written, carries no
\* earlier bad check over, so that every assignment gets two checks of its own
\* before it is given up (makeWorkUnassigned and markAssignmentFailure do not
\* clear the last check, yet never need to).
FreshStrikes == \A w \in Work :
  status[w] \in {"UNASSIGNED", "TRYINGTOASSIGN"} \/ monitor.work = w
    => lastChecked[w] = NoStatus

\* Works keep their turn: whatever joins or leaves the incomplete queue, the
\* works ahead of one after a step were ahead of it before, so that no work is
\* overtaken in the order in which both methods that hand out works scan it.
NobodyOvertakes ==
  \A k, l \in DOMAIN incomplete', j \in DOMAIN incomplete :
     k < l /\ incomplete'[l] = incomplete[j]
       => \E i \in 1 .. (j - 1) : incomplete'[k] = incomplete[i]
KeepsTurn == [][NobodyOvertakes]_queueVars

\* What the locals of a method in progress say of the work it is about: the
\* half-done assignment is of a work that counts as assigned, the scheduler
\* thread asks about a work that has a worker, and gives one up for want of a
\* worker only if no check of it was ever recorded.
Bookkeeping ==
  /\ ~ MonitorFree => /\ monitor.worker \in Worker
                      /\ status[monitor.work] \in {"ASSIGNED", "CHECKINGSTATUS"}
  /\ checker.pc \in {"take", "got", "check", "drop"} => checker.work \in Work
  /\ CheckerAt("take") => status[checker.work] = "ASSIGNED"
  /\ CheckerAt("check") => assignedWorker[checker.work] # NoWorker
  /\ CheckerAt("drop") => lastChecked[checker.work] = NoStatus
  /\ \A w \in Work : lastChecked[w] # NoStatus => assignedWorker[w] # NoWorker

\* The inductive invariant of the proofs.
IInv == /\ TypeOK
        /\ OnePlacePerWork
        /\ StatusMatchesQueue
        /\ CheckedWorkIsHeld
        /\ FreshStrikes
        /\ Bookkeeping

\* The phase of a work in the abstract life cycle.
LifePhase(w) ==
  CASE status[w] = "TRYINGTOASSIGN"                   -> "offered"
    [] status[w] \in {"ASSIGNED", "CHECKINGSTATUS"}   -> "assigned"
    [] status[w] = "ASSIGNMENTERROR"                  -> "rejected"
    [] status[w] = "TERMINATEDNORMALLY"               -> "succeeded"
    [] status[w] = "TERMINATEDABNORMALLY"             -> "failed"
    [] status[w] = "UNASSIGNED" /\ IsIn(w, incomplete) -> "waiting"
    [] OTHER                                          -> "absent"

Life == INSTANCE WorkLifecycle WITH phase <- [w \in Work |-> LifePhase(w)]

\* Every step of the manager is a step of a work's life or none: no work ends
\* twice, leaves an end, is offered while it is assigned, or is assigned
\* without having been offered.
ImplementsLifecycle == Life!Spec

\* A work the scheduler found ASSIGNED has a worker to be asked.  Comment of
\* the class, WorkQueueMgr.java:15: "the design of this WorkQueueMgr is such
\* that all synchronization sits here".
NoTornAssignment == ~ CheckerAt("drop")
=============================================================================
