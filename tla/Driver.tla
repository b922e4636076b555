------------------------------- MODULE Driver -------------------------------
(***************************************************************************)
(* A batfish worker in service mode: Driver.RunBatfishThroughService on    *)
(* the HTTP threads, the thread of each accepted task, the inner thread    *)
(* that runs Batfish, and the deadline of the task.                        *)
(*                                                                         *)
(* claimIdle, logTask and getTaskkFromLog are synchronized on the class    *)
(* and one step each; makeIdle and getIdle are single accesses of _idle.   *)
(***************************************************************************)
EXTENDS Naturals, FiniteSets

CONSTANTS Work,         \* the works, by the id of the task that runs them
          NoWork,       \* no work
          NoStatus,     \* not in the task log (Java null)
          Handler,      \* bound: the HTTP threads that serve requests at a time
          MaxErrors,    \* bound: how many java.lang.Errors are thrown
          MaxRestarts   \* bound: how often the process dies and is restarted

ASSUME NoWorkAssumption      == NoWork \notin Work
ASSUME BoundsAssumption      == MaxErrors \in Nat /\ MaxRestarts \in Nat

\* BfConsts.TaskStatus, of a task in the log.
LoggedStatus == {"Unscheduled", "InProgress", "TerminatedNormally",
                 "TerminatedAbnormally"}

ASSUME NoStatusAssumption == NoStatus \notin LoggedStatus

VARIABLES idle,         \* _idle
          taskLog,      \* _taskLog: the status of each logged task
          handler,      \* the HTTP threads in RunBatfishThroughService
          job,          \* the thread of each task
          batfish,      \* the inner thread that runs Batfish for each task
          exceptional,  \* Batfish._terminatedWithException of each task
          hasDeadline,  \* an option: maxruntime is not 0 (0: join waits for ever)
          errors,       \* Errors thrown so far
          restarts      \* restarts so far

driverVars ==
  <<idle, taskLog, handler, job, batfish, exceptional, hasDeadline, errors,
    restarts>>
environment == <<hasDeadline, errors, restarts>>
-----------------------------------------------------------------------------
(* handler: "claim": about to claim the worker; "log": about to log the    *)
(* task; "undo": logTask threw; "start": about to start the task's thread. *)
(* job: "started"; "launch": in RunBatfish, before the inner thread runs;  *)
(* "join"; "mark": has stopped the inner thread for being late; "read":    *)
(* about to look at exceptional; "normal", "abnormal": what it will report; *)
(* "release": about to make the worker idle; "done".                       *)
(* batfish: "running"; "returned": run() returned, exceptional not yet     *)
(* written; "succeeded": written; "failed": run() threw an exception;      *)
(* late: Thread.stop was called.  "dead" is a thread that an Error, or     *)
(* Thread.stop, ended.                                                     *)

HandlerState == [pc : {"rest", "claim", "log", "undo", "start", "dead"},
                 work : Work \cup {NoWork}]
JobPc == {"none", "started", "launch", "join", "mark", "read", "normal",
          "abnormal", "release", "done", "dead"}
BatfishState ==
  [pc : {"none", "running", "returned", "succeeded", "failed", "dead"},
   late : BOOLEAN]

Serving == [pc |-> "rest", work |-> NoWork]
NotRun == [pc |-> "none", late |-> FALSE]

TypeOK ==
  /\ idle \in BOOLEAN
  /\ taskLog \in [Work -> LoggedStatus \cup {NoStatus}]
  /\ handler \in [Handler -> HandlerState]
  /\ job \in [Work -> JobPc]
  /\ batfish \in [Work -> BatfishState]
  /\ exceptional \in [Work -> BOOLEAN]
  /\ hasDeadline \in BOOLEAN
  /\ errors \in 0 .. MaxErrors
  /\ restarts \in 0 .. MaxRestarts

Init ==
  /\ idle = TRUE
  /\ taskLog = [w \in Work |-> NoStatus]
  /\ handler = [h \in Handler |-> Serving]
  /\ job = [w \in Work |-> "none"]
  /\ batfish = [w \in Work |-> NotRun]
  /\ exceptional = [w \in Work |-> FALSE]
  /\ hasDeadline \in BOOLEAN
  /\ errors = 0
  /\ restarts = 0

Step(h, from, to) ==
  /\ handler[h].pc = from
  /\ handler' = [handler EXCEPT ![h].pc = to]

Reply(h) == handler' = [handler EXCEPT ![h] = Serving]

Go(w, from, to) ==
  /\ job[w] = from
  /\ job' = [job EXCEPT ![w] = to]

Report(w, s) == taskLog' = [taskLog EXCEPT ![w] = s]

\* An Error, which no catch (Exception) stops.
Throw == errors < MaxErrors /\ errors' = errors + 1

Alive(w) == batfish[w].pc \in {"running", "returned"}
-----------------------------------------------------------------------------
(* RunBatfishThroughService.                                               *)

\* A request whose arguments can be parsed and executed; the others are
\* answered with a failure before anything is touched.
Request(h, w) ==
  /\ handler[h].pc = "rest"
  /\ handler' = [handler EXCEPT ![h] = [pc |-> "claim", work |-> w]]
  /\ UNCHANGED <<idle, taskLog, job, batfish, exceptional, environment>>

\* Mutant: the flag is tested before it is claimed, and not again with it.
ClaimUntested(h) ==
  /\ Step(h, "claim", "log")
  /\ idle' = FALSE
  /\ UNCHANGED <<taskLog, job, batfish, exceptional, environment>>

ClaimIdle(h) ==
  /\ idle
  /\ Step(h, "claim", "log")
  /\ idle' = FALSE
  /\ UNCHANGED <<taskLog, job, batfish, exceptional, environment>>

NotIdle(h) ==
  /\ ~ idle
  /\ handler[h].pc = "claim"
  /\ Reply(h)
  /\ UNCHANGED <<idle, taskLog, job, batfish, exceptional, environment>>

\* Mutant: the task is put into the log without looking for its id.
LogAnyTask(h) ==
  /\ Step(h, "log", "start")
  /\ Report(handler[h].work, "Unscheduled")
  /\ UNCHANGED <<idle, job, batfish, exceptional, environment>>

\* logTask: an id that is already in the log is a duplicate.
LogTask(h) ==
  LET w == handler[h].work
  IN  /\ \/ /\ Step(h, "log", "start")
            /\ taskLog[w] = NoStatus
            /\ Report(w, "Unscheduled")
         \/ /\ Step(h, "log", "undo")
            /\ taskLog[w] # NoStatus
            /\ UNCHANGED taskLog
      /\ UNCHANGED <<idle, job, batfish, exceptional, environment>>

\* The logger of the job cannot be made (its file cannot be opened).
LogFails(h) ==
  /\ Step(h, "log", "undo")
  /\ UNCHANGED <<idle, taskLog, job, batfish, exceptional, environment>>

\* Mutant: the catch returns the failure only.
ReturnFailureOnly(h) ==
  /\ handler[h].pc = "undo"
  /\ Reply(h)
  /\ UNCHANGED <<idle, taskLog, job, batfish, exceptional, environment>>

\* catch (Exception): makeIdle, and a failure is returned.
UndoClaim(h) ==
  /\ handler[h].pc = "undo"
  /\ idle' = TRUE
  /\ Reply(h)
  /\ UNCHANGED <<taskLog, job, batfish, exceptional, environment>>

\* Mutant: the request makes the worker idle once the thread is started.
StartAndMakeIdle(h) ==
  /\ handler[h].pc = "start"
  /\ Go(handler[h].work, "none", "started")
  /\ Reply(h)
  /\ idle' = TRUE
  /\ UNCHANGED <<taskLog, batfish, exceptional, environment>>

StartTask(h) ==
  /\ handler[h].pc = "start"
  /\ Go(handler[h].work, "none", "started")
  /\ Reply(h)
  /\ UNCHANGED <<idle, taskLog, batfish, exceptional, environment>>

\* The thread cannot be started (OutOfMemoryError): the request fails with the
\* worker claimed.
StartFails(h) ==
  /\ Throw
  /\ Step(h, "start", "dead")
  /\ UNCHANGED <<idle, taskLog, job, batfish, exceptional, hasDeadline, restarts>>
-----------------------------------------------------------------------------
(* The thread of a task: RunBatfish with a deadline.                       *)

BeginJob(w) ==
  /\ Go(w, "started", "launch")
  /\ Report(w, "InProgress")
  /\ UNCHANGED <<idle, handler, batfish, exceptional, environment>>

\* The inner thread is started, or an exception ends RunBatfish before it is.
Launch(w) ==
  /\ \/ /\ Go(w, "launch", "join")
        /\ batfish' = [batfish EXCEPT ![w].pc = "running"]
     \/ /\ Go(w, "launch", "abnormal")
        /\ UNCHANGED batfish
  /\ UNCHANGED <<idle, taskLog, handler, exceptional, environment>>

LaunchFails(w) ==
  /\ Throw
  /\ Go(w, "launch", "dead")
  /\ UNCHANGED <<idle, taskLog, handler, batfish, exceptional, hasDeadline,
                 restarts>>

Joined(w) ==
  /\ ~ Alive(w)
  /\ Go(w, "join", "read")
  /\ UNCHANGED <<idle, taskLog, handler, batfish, exceptional, environment>>

\* join times out and the thread is alive: Thread.stop, which only asks for
\* the ThreadDeath the inner thread is to throw.
Deadline(w) ==
  /\ hasDeadline
  /\ Alive(w)
  /\ Go(w, "join", "mark")
  /\ batfish' = [batfish EXCEPT ![w].late = TRUE]
  /\ UNCHANGED <<idle, taskLog, handler, exceptional, environment>>

\* Mutant: the thread is stopped, and the verdict left as it is.
StopOnly(w) ==
  /\ Go(w, "mark", "read")
  /\ UNCHANGED <<idle, taskLog, handler, batfish, exceptional, environment>>

MarkLate(w) ==
  /\ Go(w, "mark", "read")
  /\ exceptional' = [exceptional EXCEPT ![w] = TRUE]
  /\ UNCHANGED <<idle, taskLog, handler, batfish, environment>>

\* Batfish.close, before it, does nothing and so throws nothing (Batfish.java:853).
ReadVerdict(w) ==
  /\ Go(w, "read", IF exceptional[w] THEN "abnormal" ELSE "normal")
  /\ UNCHANGED <<idle, taskLog, handler, batfish, exceptional, environment>>

\* Mutant: the end is recorded with the code of a work, not of a task.
RecordWorkStatus(w) ==
  /\ \/ Go(w, "normal", "release") /\ Report(w, "TERMINATEDNORMALLY")
     \/ Go(w, "abnormal", "release") /\ Report(w, "TERMINATEDABNORMALLY")
  /\ UNCHANGED <<idle, handler, batfish, exceptional, environment>>

RecordEnd(w) ==
  /\ \/ Go(w, "normal", "release") /\ Report(w, "TerminatedNormally")
     \/ Go(w, "abnormal", "release") /\ Report(w, "TerminatedAbnormally")
  /\ UNCHANGED <<idle, handler, batfish, exceptional, environment>>

MakeIdle(w) ==
  /\ Go(w, "release", "done")
  /\ idle' = TRUE
  /\ UNCHANGED <<taskLog, handler, batfish, exceptional, environment>>
-----------------------------------------------------------------------------
(* The inner thread.                                                       *)

RunReturns(w) ==
  /\ batfish[w].pc = "running"
  /\ batfish' = [batfish EXCEPT ![w].pc = "returned"]
  /\ UNCHANGED <<idle, taskLog, handler, job, exceptional, environment>>

SetNotExceptional(w) ==
  /\ batfish[w].pc = "returned"
  /\ batfish' = [batfish EXCEPT ![w].pc = "succeeded"]
  /\ exceptional' = [exceptional EXCEPT ![w] = FALSE]
  /\ UNCHANGED <<idle, taskLog, handler, job, environment>>

RunThrows(w) ==
  /\ batfish[w].pc = "running"
  /\ batfish' = [batfish EXCEPT ![w].pc = "failed"]
  /\ exceptional' = [exceptional EXCEPT ![w] = TRUE]
  /\ UNCHANGED <<idle, taskLog, handler, job, environment>>

\* An Error ends the inner thread, and exceptional keeps the value it had.
RunFails(w) ==
  /\ Throw
  /\ batfish[w].pc = "running"
  /\ batfish' = [batfish EXCEPT ![w].pc = "dead"]
  /\ UNCHANGED <<idle, taskLog, handler, job, exceptional, hasDeadline, restarts>>

\* The ThreadDeath of Thread.stop arrives, sooner or later.
ThreadDies(w) ==
  /\ Alive(w)
  /\ batfish[w].late
  /\ batfish' = [batfish EXCEPT ![w].pc = "dead"]
  /\ UNCHANGED <<idle, taskLog, handler, job, exceptional, environment>>

\* The process dies and is started again.
Restart ==
  /\ restarts < MaxRestarts
  /\ restarts' = restarts + 1
  /\ idle' = TRUE
  /\ taskLog' = [w \in Work |-> NoStatus]
  /\ handler' = [h \in Handler |-> Serving]
  /\ job' = [w \in Work |-> "none"]
  /\ batfish' = [w \in Work |-> NotRun]
  /\ exceptional' = [w \in Work |-> FALSE]
  /\ UNCHANGED <<hasDeadline, errors>>
-----------------------------------------------------------------------------
HandlerNext(h) ==
  \/ ClaimIdle(h)
  \/ NotIdle(h)
  \/ LogTask(h)
  \/ LogFails(h)
  \/ UndoClaim(h)
  \/ StartTask(h)

JobNext(w) ==
  \/ BeginJob(w)
  \/ Launch(w)
  \/ Joined(w)
  \/ Deadline(w)
  \/ MarkLate(w)
  \/ ReadVerdict(w)
  \/ RecordEnd(w)
  \/ MakeIdle(w)

BatfishNext(w) ==
  \/ RunReturns(w)
  \/ SetNotExceptional(w)
  \/ RunThrows(w)
  \/ ThreadDies(w)

ErrorNext ==
  \/ \E h \in Handler : StartFails(h)
  \/ \E w \in Work : LaunchFails(w) \/ RunFails(w)

Next ==
  \/ \E h \in Handler, w \in Work : Request(h, w)
  \/ \E h \in Handler : HandlerNext(h)
  \/ \E w \in Work : JobNext(w) \/ BatfishNext(w)
  \/ ErrorNext
  \/ Restart

Spec == Init /\ [][Next]_driverVars

\* The threads run; the inner thread need not come to an end of its own, which
\* an analysis may take any time for.
Fairness ==
  /\ \A h \in Handler : WF_driverVars(HandlerNext(h))
  /\ \A w \in Work : WF_driverVars(JobNext(w))

FairSpec == Spec /\ Fairness
-----------------------------------------------------------------------------
(* What the worker guarantees.                                             *)

\* The request, or the task, that claimed the worker and is to release it.
Claiming == {h \in Handler : handler[h].pc \in {"log", "undo", "start"}}
Busy == {w \in Work : job[w] \notin {"none", "done", "dead"}}

\* Those whose thread an Error ended before they could.
DeadClaiming == {h \in Handler : handler[h].pc = "dead"}
DeadBusy == {w \in Work : job[w] = "dead"}

AtMostOne(S) == \A a, b \in S : a = b

\* However requests overlap, an idle worker is owned by nobody and a worker
\* that is not idle by one request or by one task, so that makeIdle never
\* releases a claim made by another.
OneOwner ==
  LET requests == Claiming \cup DeadClaiming
      tasks    == Busy \cup DeadBusy
  IN  /\ idle => requests = {} /\ tasks = {}
      /\ AtMostOne(requests)
      /\ AtMostOne(tasks)
      /\ requests = {} \/ tasks = {}

\* Two tasks never run Batfish at the same time in the one process, which is
\* not written to be entered twice; except that with a deadline, a thread that
\* was stopped may still run when the next task is accepted.
OneBatfish == AtMostOne({w \in Work : Alive(w) /\ ~ batfish[w].late})

\* A task is reported to have terminated normally only if its Batfish returned
\* from run(), whatever the order in which the inner thread and the thread
\* that stops it for being late write the flag.  (Where no Error is thrown: an
\* Error in run() leaves the flag at its initial FALSE.)
NormalMeansReturned == \A w \in Work :
  taskLog[w] = "TerminatedNormally" /\ errors = 0 => batfish[w].pc = "succeeded"

\* A claimed worker with a deadline becomes idle again, unless an Error is
\* thrown, even if its Batfish never comes to an end.
BecomesIdleAgain == hasDeadline /\ ~ idle ~> idle \/ errors > 0

\* A worker that is not idle is owned by a thread that will make it idle again.
\* Comment of RunBatfishThroughService, Driver.java:308: "lets put a try-catch
\* around all the code around claimIdle so that we never the worker non-idle
\* accidentally".
NonIdleIsOwned == ~ idle => Claiming \cup Busy # {}
-----------------------------------------------------------------------------
(* The promise to the coordinator.                                         *)

CONSTANT Self \* this worker

ClaimedFor ==
  {handler[h].work : h \in Claiming \cup DeadClaiming} \cup Busy \cup DeadBusy

ServiceClaim == IF idle THEN NoWork ELSE CHOOSE w \in ClaimedFor : TRUE

ServiceStage ==
  CASE idle -> "free"
    [] ~ idle /\ \E h \in Handler : handler[h].pc \in {"log", "undo"} -> "claimed"
    [] ~ idle /\ \E w \in Work : job[w] = "release" -> "ended"
    [] ~ idle /\ DeadClaiming \cup DeadBusy # {} -> "stuck"
    [] OTHER -> "running"

Promise == INSTANCE WorkerService WITH
  Worker  <- {Self},
  stage   <- [x \in {Self} |-> ServiceStage],
  claim   <- [x \in {Self} |-> ServiceClaim],
  taskLog <- [x \in {Self} |-> taskLog]

\* The worker keeps the promise of WorkerService: a task is logged once, and
\* its reported status moves forward only, by steps of the one task the
\* worker is claimed for.
ImplementsService == Promise!Spec
=============================================================================
