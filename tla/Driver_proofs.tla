--------------------------- MODULE Driver_proofs ---------------------------
(***************************************************************************)
(* Theorems about Driver, for any works, HTTP threads and bounds.          *)
(***************************************************************************)
EXTENDS Driver, TLAPS

USE DEF LoggedStatus, HandlerState, JobPc, BatfishState

\* The states of the types' constants: what an HTTP thread that serves nothing
\* and an inner thread that was not started look like.
LEMMA ConstantsTyped == Serving \in HandlerState /\ NotRun \in BatfishState
  BY DEF Serving, NotRun

\* Every step of a thread, an Error and a restart keep the types.
LEMMA TypeStep == ASSUME TypeOK, [Next]_driverVars PROVE TypeOK'
<1> USE ConstantsTyped, BoundsAssumption DEF TypeOK, environment
<1>1. CASE UNCHANGED driverVars
  BY <1>1 DEF driverVars
<1>2. ASSUME NEW h \in Handler, NEW w \in Work, Request(h, w) PROVE TypeOK'
  BY <1>2 DEF Request
<1>3. ASSUME NEW h \in Handler, HandlerNext(h) PROVE TypeOK'
  <2>1. CASE ClaimIdle(h)  BY <2>1 DEF ClaimIdle, Step
  <2>2. CASE NotIdle(h)    BY <2>2 DEF NotIdle, Reply
  <2>3. CASE LogTask(h)
    <3>1. handler' \in [Handler -> HandlerState]
      BY <2>3 DEF LogTask, Step
    <3>2. taskLog' \in [Work -> LoggedStatus \cup {NoStatus}]
      BY <2>3 DEF LogTask, Report
    <3> QED  BY <2>3, <3>1, <3>2 DEF LogTask
  <2>4. CASE LogFails(h)   BY <2>4 DEF LogFails, Step
  <2>5. CASE UndoClaim(h)  BY <2>5 DEF UndoClaim, Reply
  <2>6. CASE StartTask(h)  BY <2>6 DEF StartTask, Go, Reply
  <2> QED  BY <1>3, <2>1, <2>2, <2>3, <2>4, <2>5, <2>6 DEF HandlerNext
<1>4. ASSUME NEW w \in Work, JobNext(w) PROVE TypeOK'
  <2>1. CASE BeginJob(w)     BY <2>1 DEF BeginJob, Go, Report
  <2>2. CASE Launch(w)
    <3>1. job' \in [Work -> JobPc]
      BY <2>2 DEF Launch, Go
    <3>2. batfish' \in [Work -> BatfishState]
      BY <2>2 DEF Launch
    <3> QED  BY <2>2, <3>1, <3>2 DEF Launch
  <2>3. CASE Joined(w)       BY <2>3 DEF Joined, Go
  <2>4. CASE Deadline(w)     BY <2>4 DEF Deadline, Go
  <2>5. CASE MarkLate(w)     BY <2>5 DEF MarkLate, Go
  <2>6. CASE ReadVerdict(w)  BY <2>6 DEF ReadVerdict, Go
  <2>7. CASE RecordEnd(w)    BY <2>7 DEF RecordEnd, Go, Report
  <2>8. CASE MakeIdle(w)     BY <2>8 DEF MakeIdle, Go
  <2> QED  BY <1>4, <2>1, <2>2, <2>3, <2>4, <2>5, <2>6, <2>7, <2>8 DEF JobNext
<1>5. ASSUME NEW w \in Work, BatfishNext(w) PROVE TypeOK'
  <2>1. CASE RunReturns(w)         BY <2>1 DEF RunReturns
  <2>2. CASE SetNotExceptional(w)  BY <2>2 DEF SetNotExceptional
  <2>3. CASE RunThrows(w)          BY <2>3 DEF RunThrows
  <2>4. CASE ThreadDies(w)         BY <2>4 DEF ThreadDies
  <2> QED  BY <1>5, <2>1, <2>2, <2>3, <2>4 DEF BatfishNext
<1>6. CASE ErrorNext
  <2>1. ASSUME NEW h \in Handler, StartFails(h) PROVE TypeOK'
    BY <2>1 DEF StartFails, Throw, Step
  <2>2. ASSUME NEW w \in Work, LaunchFails(w) PROVE TypeOK'
    BY <2>2 DEF LaunchFails, Throw, Go
  <2>3. ASSUME NEW w \in Work, RunFails(w) PROVE TypeOK'
    BY <2>3 DEF RunFails, Throw
  <2> QED  BY <1>6, <2>1, <2>2, <2>3 DEF ErrorNext
<1>7. CASE Restart
  BY <1>7 DEF Restart
<1> QED  BY <1>1, <1>2, <1>3, <1>4, <1>5, <1>6, <1>7 DEF Next

\* The state of the worker has its types in every state.
THEOREM TypeCorrect == Spec => []TypeOK
<1>1. Init => TypeOK
  BY ConstantsTyped, BoundsAssumption DEF Init, TypeOK
<1>2. TypeOK /\ [Next]_driverVars => TypeOK'
  BY TypeStep
<1> QED  BY <1>1, <1>2, PTL DEF Spec
-----------------------------------------------------------------------------
(* One owner.  OneOwner is inductive with the types: a step changes who     *)
(* owns the worker only together with idle, or hands it from the request to *)
(* the task.  It is proved in terms of the threads, not of the sets.        *)

OwnsAsRequest(h) == handler[h].pc \in {"log", "undo", "start", "dead"}
OwnsAsTask(w) == job[w] \notin {"none", "done"}

Ownership ==
  /\ \A h \in Handler : OwnsAsRequest(h) => ~ idle
  /\ \A w \in Work : OwnsAsTask(w) => ~ idle
  /\ \A h, i \in Handler : OwnsAsRequest(h) /\ OwnsAsRequest(i) => h = i
  /\ \A v, w \in Work : OwnsAsTask(v) /\ OwnsAsTask(w) => v = w
  /\ \A h \in Handler, w \in Work : ~ (OwnsAsRequest(h) /\ OwnsAsTask(w))

\* Ownership says of the threads what OneOwner says of their sets.
LEMMA OwnershipIsOneOwner == OneOwner <=> Ownership
<1> DEFINE requests == Claiming \cup DeadClaiming
           tasks    == Busy \cup DeadBusy
<1>1. requests = {h \in Handler : OwnsAsRequest(h)}
  BY DEF Claiming, DeadClaiming, OwnsAsRequest
<1>2. tasks = {w \in Work : OwnsAsTask(w)}
  BY DEF Busy, DeadBusy, OwnsAsTask
<1> QED
  BY <1>1, <1>2 DEF OneOwner, Ownership, AtMostOne

\* A step that leaves idle alone and makes nobody an owner.
LEMMA NoNewOwner ==
  ASSUME Ownership, idle' = idle,
         \A h \in Handler : OwnsAsRequest(h)' => OwnsAsRequest(h),
         \A w \in Work : OwnsAsTask(w)' => OwnsAsTask(w)
  PROVE  Ownership'
  BY DEF Ownership

\* A request claims the worker: it was idle, so that nobody owned it.
LEMMA ClaimStep ==
  ASSUME TypeOK, Ownership, NEW h \in Handler, ClaimIdle(h)
  PROVE  Ownership'
<1>1. \A i \in Handler : OwnsAsRequest(i)' => i = h
  BY DEF TypeOK, Ownership, ClaimIdle, Step, OwnsAsRequest
<1>2. \A w \in Work : ~ OwnsAsTask(w)'
  BY DEF Ownership, ClaimIdle, OwnsAsTask
<1> QED  BY <1>1, <1>2 DEF Ownership, ClaimIdle

\* The catch clause undoes the claim of its own request, the one owner.
LEMMA UndoStep ==
  ASSUME TypeOK, Ownership, NEW h \in Handler, UndoClaim(h)
  PROVE  Ownership'
<1>1. OwnsAsRequest(h)
  BY DEF UndoClaim, OwnsAsRequest
<1>2. \A i \in Handler : ~ OwnsAsRequest(i)'
  BY <1>1 DEF TypeOK, Ownership, UndoClaim, Reply, Serving, OwnsAsRequest
<1>3. \A w \in Work : ~ OwnsAsTask(w)'
  BY <1>1 DEF Ownership, UndoClaim, OwnsAsTask
<1> QED  BY <1>2, <1>3 DEF Ownership

\* The claim passes from the request to the task it starts.
LEMMA StartStep ==
  ASSUME TypeOK, Ownership, NEW h \in Handler, StartTask(h)
  PROVE  Ownership'
<1>1. OwnsAsRequest(h)
  BY DEF StartTask, OwnsAsRequest
<1>2. \A i \in Handler : ~ OwnsAsRequest(i)'
  BY <1>1 DEF TypeOK, Ownership, StartTask, Reply, Serving, OwnsAsRequest
<1>3. \A w \in Work : OwnsAsTask(w)' => w = handler[h].work
  BY <1>1 DEF TypeOK, Ownership, StartTask, Go, OwnsAsTask
<1>4. ~ idle'
  BY <1>1 DEF Ownership, StartTask
<1> QED  BY <1>2, <1>3, <1>4 DEF Ownership

\* makeIdle is called by the task that is the one owner.
LEMMA ReleaseStep ==
  ASSUME TypeOK, Ownership, NEW w \in Work, MakeIdle(w)
  PROVE  Ownership'
<1>1. OwnsAsTask(w)
  BY DEF MakeIdle, Go, OwnsAsTask
<1>2. \A v \in Work : ~ OwnsAsTask(v)'
  BY <1>1 DEF TypeOK, Ownership, MakeIdle, Go, OwnsAsTask
<1>3. \A h \in Handler : ~ OwnsAsRequest(h)'
  BY <1>1 DEF Ownership, MakeIdle, OwnsAsRequest
<1> QED  BY <1>2, <1>3 DEF Ownership

LEMMA OwnershipStep ==
  ASSUME TypeOK, Ownership, [Next]_driverVars PROVE Ownership'
<1> USE NoNewOwner DEF OwnsAsRequest, OwnsAsTask
<1>1. CASE UNCHANGED driverVars
  BY <1>1 DEF driverVars
<1>2. ASSUME NEW h \in Handler, NEW w \in Work, Request(h, w) PROVE Ownership'
  BY <1>2 DEF Request, TypeOK
<1>3. ASSUME NEW h \in Handler, HandlerNext(h) PROVE Ownership'
  <2>1. CASE ClaimIdle(h)  BY <2>1, ClaimStep
  <2>2. CASE NotIdle(h)    BY <2>2 DEF NotIdle, Reply, Serving, TypeOK
  <2>3. CASE LogTask(h)    BY <2>3 DEF LogTask, Step, TypeOK
  <2>4. CASE LogFails(h)   BY <2>4 DEF LogFails, Step, TypeOK
  <2>5. CASE UndoClaim(h)  BY <2>5, UndoStep
  <2>6. CASE StartTask(h)  BY <2>6, StartStep
  <2> QED  BY <1>3, <2>1, <2>2, <2>3, <2>4, <2>5, <2>6 DEF HandlerNext
<1>4. ASSUME NEW w \in Work, JobNext(w) PROVE Ownership'
  <2> USE DEF TypeOK, Go
  <2>1. CASE BeginJob(w)     BY <2>1 DEF BeginJob
  <2>2. CASE Launch(w)       BY <2>2 DEF Launch
  <2>3. CASE Joined(w)       BY <2>3 DEF Joined
  <2>4. CASE Deadline(w)     BY <2>4 DEF Deadline
  <2>5. CASE MarkLate(w)     BY <2>5 DEF MarkLate
  <2>6. CASE ReadVerdict(w)  BY <2>6 DEF ReadVerdict
  <2>7. CASE RecordEnd(w)    BY <2>7 DEF RecordEnd
  <2>8. CASE MakeIdle(w)     BY <2>8, ReleaseStep
  <2> QED  BY <1>4, <2>1, <2>2, <2>3, <2>4, <2>5, <2>6, <2>7, <2>8 DEF JobNext
<1>5. ASSUME NEW w \in Work, BatfishNext(w) PROVE Ownership'
  BY <1>5 DEF BatfishNext, RunReturns, SetNotExceptional, RunThrows, ThreadDies
<1>6. CASE ErrorNext
  <2>1. ASSUME NEW h \in Handler, StartFails(h) PROVE Ownership'
    BY <2>1 DEF StartFails, Step, TypeOK
  <2>2. ASSUME NEW w \in Work, LaunchFails(w) PROVE Ownership'
    BY <2>2 DEF LaunchFails, Go, TypeOK
  <2>3. ASSUME NEW w \in Work, RunFails(w) PROVE Ownership'
    BY <2>3 DEF RunFails
  <2> QED  BY <1>6, <2>1, <2>2, <2>3 DEF ErrorNext
<1>7. CASE Restart
  BY <1>7 DEF Restart, Serving, Ownership
<1> QED  BY <1>1, <1>2, <1>3, <1>4, <1>5, <1>6, <1>7 DEF Next

\* However requests overlap, whatever Errors are thrown and whenever the
\* process restarts: an idle worker is owned by nobody, and one that is not idle
\* by at most one request or task, so that makeIdle releases no other's claim.
THEOREM OwnedByOne == Spec => []OneOwner
<1>1. Init => Ownership
  BY DEF Init, Serving, Ownership, OwnsAsRequest, OwnsAsTask
<1>2. TypeOK /\ Ownership /\ [Next]_driverVars => Ownership'
  BY OwnershipStep
<1>3. Ownership => OneOwner
  BY OwnershipIsOneOwner
<1> QED  BY <1>1, <1>2, <1>3, TypeCorrect, PTL DEF Spec
-----------------------------------------------------------------------------
(* The verdict.  What the thread of a task and its inner thread know of     *)
(* each other, whichever of them writes exceptional last.                   *)

Verdict(w) ==
  /\ job[w] \in {"none", "started", "launch"} => batfish[w].pc = "none"
  /\ batfish[w].pc = "none" => ~ batfish[w].late
  /\ job[w] = "join" => batfish[w].pc # "none" /\ ~ batfish[w].late
  /\ Alive(w) /\ ~ batfish[w].late => job[w] = "join"
  /\ batfish[w].pc = "failed" => exceptional[w]
  /\ errors = 0 =>
       /\ batfish[w].pc = "dead" => batfish[w].late
       /\ job[w] = "read" /\ ~ exceptional[w] => batfish[w].pc = "succeeded"
       /\ job[w] = "normal" => batfish[w].pc = "succeeded"
       /\ taskLog[w] = "TerminatedNormally" => batfish[w].pc = "succeeded"

\* A step that does not touch the threads of w, and reports no end of it.
LEMMA VerdictFrame ==
  ASSUME TypeOK, NEW w \in Work, Verdict(w), job'[w] = job[w],
         batfish'[w] = batfish[w], exceptional'[w] = exceptional[w],
         taskLog'[w] \in {taskLog[w], "Unscheduled", "InProgress", NoStatus},
         errors' = errors \/ errors' = errors + 1
  PROVE  Verdict(w)'
<1>1. errors' = 0 => errors = 0
  BY DEF TypeOK
<1>2. taskLog'[w] = "TerminatedNormally" => taskLog[w] = "TerminatedNormally"
  BY NoStatusAssumption
<1> QED  BY <1>1, <1>2 DEF Verdict, Alive

LEMMA VerdictStep ==
  ASSUME TypeOK, \A w \in Work : Verdict(w), [Next]_driverVars, NEW w \in Work
  PROVE  Verdict(w)'
<1> Verdict(w)
  OBVIOUS
<1>1. CASE UNCHANGED driverVars
  BY <1>1, VerdictFrame DEF driverVars
<1>2. ASSUME NEW h \in Handler, NEW v \in Work, Request(h, v) PROVE Verdict(w)'
  BY <1>2, VerdictFrame DEF Request, environment
<1>3. ASSUME NEW h \in Handler, HandlerNext(h) PROVE Verdict(w)'
  <2> USE VerdictFrame DEF environment
  <2>1. CASE ClaimIdle(h)  BY <2>1 DEF ClaimIdle
  <2>2. CASE NotIdle(h)    BY <2>2 DEF NotIdle
  <2>3. CASE LogTask(h)    BY <2>3 DEF LogTask, Report, TypeOK
  <2>4. CASE LogFails(h)   BY <2>4 DEF LogFails
  <2>5. CASE UndoClaim(h)  BY <2>5 DEF UndoClaim
  <2>6. CASE StartTask(h)
    <3>1. job'[w] \in {job[w], "started"} /\ (job'[w] = job[w] \/ job[w] = "none")
      BY <2>6 DEF StartTask, Go, TypeOK
    <3> QED  BY <2>6, <3>1 DEF StartTask, Verdict, Alive
  <2> QED  BY <1>3, <2>1, <2>2, <2>3, <2>4, <2>5, <2>6 DEF HandlerNext
<1>4. ASSUME NEW v \in Work, JobNext(v), v # w PROVE Verdict(w)'
  BY <1>4, VerdictFrame
  DEF JobNext, BeginJob, Launch, Joined, Deadline, MarkLate, ReadVerdict, RecordEnd,
      MakeIdle, Go, Report, TypeOK, environment
<1>5. CASE JobNext(w)
  <2> USE DEF environment, Go, TypeOK, Verdict, Alive
  <2>1. CASE BeginJob(w)     BY <2>1 DEF BeginJob, Report
  <2>2. CASE Launch(w)       BY <2>2 DEF Launch
  <2>3. CASE Joined(w)       BY <2>3 DEF Joined
  <2>4. CASE Deadline(w)     BY <2>4 DEF Deadline
  <2>5. CASE MarkLate(w)     BY <2>5 DEF MarkLate
  <2>6. CASE ReadVerdict(w)  BY <2>6 DEF ReadVerdict
  <2>7. CASE RecordEnd(w)    BY <2>7 DEF RecordEnd, Report
  <2>8. CASE MakeIdle(w)     BY <2>8 DEF MakeIdle
  <2> QED  BY <1>5, <2>1, <2>2, <2>3, <2>4, <2>5, <2>6, <2>7, <2>8 DEF JobNext
<1>6. ASSUME NEW v \in Work, BatfishNext(v), v # w PROVE Verdict(w)'
  BY <1>6, VerdictFrame
  DEF BatfishNext, RunReturns, SetNotExceptional, RunThrows, ThreadDies, TypeOK,
      environment
<1>7. CASE BatfishNext(w)
  <2> USE DEF environment, TypeOK, Verdict, Alive
  <2>1. CASE RunReturns(w)         BY <2>1 DEF RunReturns
  <2>2. CASE SetNotExceptional(w)  BY <2>2 DEF SetNotExceptional
  <2>3. CASE RunThrows(w)          BY <2>3 DEF RunThrows
  <2>4. CASE ThreadDies(w)         BY <2>4 DEF ThreadDies
  <2> QED  BY <1>7, <2>1, <2>2, <2>3, <2>4 DEF BatfishNext
<1>8. CASE ErrorNext
  <2> errors' # 0 /\ errors' = errors + 1
    BY <1>8 DEF ErrorNext, StartFails, LaunchFails, RunFails, Throw, TypeOK
  <2>1. ASSUME NEW h \in Handler, StartFails(h) PROVE Verdict(w)'
    BY <2>1, VerdictFrame DEF StartFails
  <2>2. ASSUME NEW v \in Work, LaunchFails(v) PROVE Verdict(w)'
    BY <2>2 DEF LaunchFails, Go, TypeOK, Verdict, Alive
  <2>3. ASSUME NEW v \in Work, RunFails(v) PROVE Verdict(w)'
    BY <2>3 DEF RunFails, TypeOK, Verdict, Alive
  <2> QED  BY <1>8, <2>1, <2>2, <2>3 DEF ErrorNext
<1>9. CASE Restart
  BY <1>9, NoStatusAssumption DEF Restart, NotRun, Verdict, Alive
<1> QED
  BY <1>1, <1>2, <1>3, <1>4, <1>5, <1>6, <1>7, <1>8, <1>9 DEF Next

LEMMA VerdictInvariant == Spec => [](\A w \in Work : Verdict(w))
<1> DEFINE V == \A w \in Work : Verdict(w)
<1>1. Init => V
  BY NoStatusAssumption DEF Init, NotRun, Verdict, Alive
<1>2. TypeOK /\ V /\ [Next]_driverVars => V'
  BY VerdictStep
<1> QED  BY <1>1, <1>2, TypeCorrect, PTL DEF Spec

\* Unless an Error is thrown, a task is reported to have terminated normally
\* only if its Batfish returned, however the deadline races its end.
THEOREM VerdictRight == Spec => []NormalMeansReturned
<1>1. (\A w \in Work : Verdict(w)) => NormalMeansReturned
  BY DEF Verdict, NormalMeansReturned
<1> QED  BY <1>1, VerdictInvariant, PTL

\* Batfish runs for one task at a time, stopped threads apart: a thread that
\* runs and was not stopped is waited for by its task, and that is the owner.
THEOREM BatfishAlone == Spec => []OneBatfish
<1>1. Ownership /\ (\A w \in Work : Verdict(w)) => OneBatfish
  BY DEF Ownership, OwnsAsTask, Verdict, OneBatfish, AtMostOne
<1>2. OneOwner => Ownership
  BY OwnershipIsOneOwner
<1> QED  BY <1>1, <1>2, OwnedByOne, VerdictInvariant, PTL
-----------------------------------------------------------------------------
(* The promise to the coordinator.  Each step of the worker is a step of    *)
(* WorkerService, or changes nothing of what the coordinator is promised.   *)

\* How far the owner has come, in the terms of WorkerService.
RequestPhase(h) == IF handler[h].pc = "dead" THEN "stuck"
                   ELSE IF handler[h].pc = "start" THEN "running" ELSE "claimed"
TaskPhase(w) == IF job[w] = "dead" THEN "stuck"
                ELSE IF job[w] = "release" THEN "ended" ELSE "running"

\* What the one owner of the worker knows of the task log.
RequestLog(h) ==
  /\ handler[h].pc # "rest" => handler[h].work \in Work
  /\ handler[h].pc = "start" => /\ taskLog[handler[h].work] = "Unscheduled"
                                /\ job[handler[h].work] = "none"

TaskLog(w) ==
  /\ taskLog[w] = NoStatus => job[w] = "none"
  /\ job[w] = "started" => taskLog[w] = "Unscheduled"
  /\ job[w] \in {"launch", "join", "mark", "read", "normal", "abnormal"} =>
       taskLog[w] = "InProgress"

Progress ==
  /\ ~ idle => \/ \E h \in Handler : OwnsAsRequest(h)
               \/ \E w \in Work : OwnsAsTask(w)
  /\ \A h \in Handler : RequestLog(h)
  /\ \A w \in Work : TaskLog(w)

\* The stage and the claim that the coordinator is promised are the owner's.
View ==
  /\ idle => ServiceStage = "free" /\ ServiceClaim = NoWork
  /\ \A h \in Handler : OwnsAsRequest(h) =>
       ServiceStage = RequestPhase(h) /\ ServiceClaim = handler[h].work
  /\ \A w \in Work : OwnsAsTask(w) =>
       ServiceStage = TaskPhase(w) /\ ServiceClaim = w

LEMMA ViewRight == Ownership => View
<1> SUFFICES ASSUME Ownership PROVE View
  OBVIOUS
<1>1. ASSUME idle PROVE ServiceStage = "free" /\ ServiceClaim = NoWork
  BY <1>1 DEF ServiceStage, ServiceClaim
<1>2. ASSUME NEW h \in Handler, OwnsAsRequest(h)
      PROVE  ServiceStage = RequestPhase(h) /\ ServiceClaim = handler[h].work
  <2>1. ~ idle /\ \A i \in Handler : OwnsAsRequest(i) => i = h
    BY <1>2 DEF Ownership
  <2>2. \A w \in Work : ~ OwnsAsTask(w)
    BY <1>2 DEF Ownership
  <2>3. Busy = {} /\ DeadBusy = {} /\ Claiming \cup DeadClaiming = {h}
    BY <1>2, <2>1, <2>2
    DEF Busy, DeadBusy, Claiming, DeadClaiming, OwnsAsRequest, OwnsAsTask
  <2>4. ClaimedFor = {handler[h].work}
    BY <2>3 DEF ClaimedFor
  <2>5. ServiceClaim = handler[h].work
    BY <2>1, <2>4 DEF ServiceClaim
  <2>6. (\E i \in Handler : handler[i].pc \in {"log", "undo"})
          <=> handler[h].pc \in {"log", "undo"}
    BY <2>1 DEF OwnsAsRequest
  <2>7. ~ \E w \in Work : job[w] = "release"
    BY <2>2 DEF OwnsAsTask
  <2>8. DeadClaiming \cup DeadBusy # {} <=> handler[h].pc = "dead"
    BY <2>1, <2>3 DEF DeadClaiming, OwnsAsRequest
  <2>9. CASE handler[h].pc \in {"log", "undo"}
    BY <2>1, <2>5, <2>6, <2>7, <2>8, <2>9 DEF ServiceStage, RequestPhase
  <2>10. CASE handler[h].pc \in {"start", "dead"}
    BY <2>1, <2>5, <2>6, <2>7, <2>8, <2>10 DEF ServiceStage, RequestPhase
  <2> QED  BY <1>2, <2>9, <2>10 DEF OwnsAsRequest
<1>3. ASSUME NEW w \in Work, OwnsAsTask(w)
      PROVE  ServiceStage = TaskPhase(w) /\ ServiceClaim = w
  <2>1. ~ idle /\ \A v \in Work : OwnsAsTask(v) => v = w
    BY <1>3 DEF Ownership
  <2>2. \A h \in Handler : ~ OwnsAsRequest(h)
    BY <1>3 DEF Ownership
  <2>3. Claiming = {} /\ DeadClaiming = {} /\ Busy \cup DeadBusy = {w}
    BY <1>3, <2>1, <2>2
    DEF Busy, DeadBusy, Claiming, DeadClaiming, OwnsAsRequest, OwnsAsTask
  <2>4. ClaimedFor = {w}
    BY <2>3 DEF ClaimedFor
  <2>5. ServiceClaim = w
    BY <2>1, <2>4 DEF ServiceClaim
  <2>6. ~ \E h \in Handler : handler[h].pc \in {"log", "undo"}
    BY <2>2 DEF OwnsAsRequest
  <2>7. (\E v \in Work : job[v] = "release") <=> job[w] = "release"
    BY <2>1 DEF OwnsAsTask
  <2>8. DeadClaiming \cup DeadBusy # {} <=> job[w] = "dead"
    BY <2>1, <2>3 DEF DeadBusy, OwnsAsTask
  <2> QED
    BY <2>1, <2>5, <2>6, <2>7, <2>8 DEF ServiceStage, TaskPhase
<1> QED  BY <1>1, <1>2, <1>3 DEF View

\* A step that touches neither the log, nor the tasks, nor idle, and leaves the
\* owner the owner.
LEMMA ProgressFrame ==
  ASSUME Progress, idle' = idle, taskLog' = taskLog, job' = job,
         \A h \in Handler :
           /\ OwnsAsRequest(h) => OwnsAsRequest(h)'
           /\ RequestLog(h)'
  PROVE  Progress'
<1>1. \A w \in Work : TaskLog(w)' /\ (OwnsAsTask(w) => OwnsAsTask(w)')
  BY DEF Progress, TaskLog, OwnsAsTask
<1> QED  BY <1>1 DEF Progress

\* The only owner starts its task: w had not run, and had just been logged.
LEMMA ProgressOfHandler ==
  ASSUME TypeOK, Ownership, Progress, NEW h \in Handler, HandlerNext(h)
  PROVE  Progress'
<1> USE DEF TypeOK, RequestLog
<1> DEFINE w == handler[h].work
<1>0. \A i \in Handler : RequestLog(i)
  BY DEF Progress
<1>1. CASE ClaimIdle(h)
  <2>1. \A i \in Handler : RequestLog(i)'
    BY <1>0, <1>1 DEF ClaimIdle, Step
  <2>2. OwnsAsRequest(h)'
    BY <1>1 DEF ClaimIdle, Step, OwnsAsRequest
  <2>3. \A v \in Work : TaskLog(v)'
    BY <1>1 DEF ClaimIdle, Progress, TaskLog
  <2> QED  BY <2>1, <2>2, <2>3 DEF Progress
<1>2. CASE NotIdle(h)
  BY <1>0, <1>2, ProgressFrame DEF NotIdle, Reply, Serving, OwnsAsRequest
<1>3. CASE LogTask(h)
  <2>1. /\ \A i \in Handler : i # h => handler'[i] = handler[i]
        /\ handler'[h].work = w
        /\ handler'[h].pc \in {"start", "undo"}
        /\ w \in Work /\ job' = job /\ idle' = idle
        /\ OwnsAsRequest(h)
    BY <1>0, <1>3 DEF LogTask, Step, OwnsAsRequest
  <2>2. \A i \in Handler : i # h => ~ OwnsAsRequest(i)
    BY <2>1 DEF Ownership
  <2>3. \A v \in Work : ~ OwnsAsTask(v)
    BY <2>1 DEF Ownership
  <2>4. TaskLog(w)
    BY <2>1 DEF Progress
  <2>5. handler'[h].pc = "start" =>
          taskLog'[w] = "Unscheduled" /\ job'[w] = "none"
    BY <1>3, <2>1, <2>4 DEF LogTask, Step, Report, TaskLog
  <2>6. \A i \in Handler : RequestLog(i)'
    BY <1>0, <2>1, <2>2, <2>5 DEF OwnsAsRequest
  <2>7. \A v \in Work : TaskLog(v)'
    <3> SUFFICES ASSUME NEW v \in Work PROVE TaskLog(v)'
      OBVIOUS
    <3>1. job'[v] \in {"none", "done"} /\ TaskLog(v)
      BY <2>1, <2>3 DEF OwnsAsTask, Progress
    <3>2. taskLog'[v] = NoStatus => taskLog[v] = NoStatus
      BY <1>3, <2>1, NoStatusAssumption DEF LogTask, Report
    <3> QED  BY <2>1, <3>1, <3>2 DEF TaskLog
  <2>8. OwnsAsRequest(h)'
    BY <2>1 DEF OwnsAsRequest
  <2> QED  BY <2>6, <2>7, <2>8 DEF Progress
<1>4. CASE LogFails(h)
  BY <1>0, <1>4, ProgressFrame DEF LogFails, Step, OwnsAsRequest
<1>5. CASE UndoClaim(h)
  <2>1. \A i \in Handler : RequestLog(i)'
    BY <1>0, <1>5 DEF UndoClaim, Reply, Serving
  <2>2. \A v \in Work : TaskLog(v)'
    BY <1>5 DEF UndoClaim, Progress, TaskLog
  <2> QED  BY <1>5, <2>1, <2>2 DEF Progress, UndoClaim
<1>6. CASE StartTask(h)
  <2>1. PICK v \in Work : v = w
    BY <1>0, <1>6 DEF StartTask
  <2>2. /\ \A i \in Handler : i # h => handler'[i] = handler[i]
        /\ handler'[h].pc = "rest"
        /\ taskLog' = taskLog /\ idle' = idle
        /\ taskLog[v] = "Unscheduled"
        /\ job' = [job EXCEPT ![v] = "started"]
        /\ OwnsAsRequest(h)
    BY <1>0, <1>6, <2>1 DEF StartTask, Go, Reply, Serving, OwnsAsRequest
  <2>3. \A i \in Handler : i # h => ~ OwnsAsRequest(i)
    BY <2>2 DEF Ownership
  <2>4. \A i \in Handler : RequestLog(i)'
    BY <1>0, <2>2, <2>3 DEF OwnsAsRequest
  <2>5. \A u \in Work : TaskLog(u)'
    BY <2>2, NoStatusAssumption DEF Progress, TaskLog
  <2>6. OwnsAsTask(v)'
    BY <2>2 DEF OwnsAsTask
  <2> QED  BY <2>2, <2>4, <2>5, <2>6 DEF Progress
<1> QED  BY <1>1, <1>2, <1>3, <1>4, <1>5, <1>6 DEF HandlerNext

\* A step of the task that owns the worker: no request waits to start it.
LEMMA ProgressOfJob ==
  ASSUME TypeOK, Ownership, Progress, NEW w \in Work, JobNext(w)
  PROVE  Progress'
<1>1. /\ handler' = handler
      /\ OwnsAsTask(w)
      /\ \A v \in Work : v # w => taskLog'[v] = taskLog[v] /\ job'[v] = job[v]
  BY DEF TypeOK, OwnsAsTask, JobNext, BeginJob, Launch, Joined, Deadline, MarkLate,
         ReadVerdict, RecordEnd, MakeIdle, Go, Report
<1>2. \A h \in Handler : ~ OwnsAsRequest(h)
  BY <1>1 DEF Ownership
<1>3. \A h \in Handler : RequestLog(h)'
  BY <1>1, <1>2 DEF Progress, RequestLog, OwnsAsRequest
<1>4. TaskLog(w)
  BY DEF Progress
<1>5. TaskLog(w)' /\ (~ idle' => OwnsAsTask(w)')
  <2> USE <1>4, NoStatusAssumption DEF TaskLog, TypeOK, Go, OwnsAsTask
  <2>1. CASE BeginJob(w)     BY <2>1 DEF BeginJob, Report
  <2>2. CASE Launch(w)       BY <2>2 DEF Launch
  <2>3. CASE Joined(w)       BY <2>3 DEF Joined
  <2>4. CASE Deadline(w)     BY <2>4 DEF Deadline
  <2>5. CASE MarkLate(w)     BY <2>5 DEF MarkLate
  <2>6. CASE ReadVerdict(w)  BY <2>6 DEF ReadVerdict
  <2>7. CASE RecordEnd(w)    BY <2>7 DEF RecordEnd, Report
  <2>8. CASE MakeIdle(w)     BY <2>8 DEF MakeIdle
  <2> QED  BY <2>1, <2>2, <2>3, <2>4, <2>5, <2>6, <2>7, <2>8 DEF JobNext
<1>6. \A v \in Work : TaskLog(v)'
  BY <1>1, <1>5 DEF Progress, TaskLog
<1> QED  BY <1>3, <1>5, <1>6 DEF Progress

LEMMA ProgressStep ==
  ASSUME TypeOK, Ownership, Progress, [Next]_driverVars PROVE Progress'
<1> USE DEF TypeOK
<1>1. CASE UNCHANGED driverVars
  BY <1>1, ProgressFrame DEF driverVars, Progress, OwnsAsRequest, RequestLog
<1>2. ASSUME NEW h \in Handler, NEW w \in Work, Request(h, w) PROVE Progress'
  BY <1>2, ProgressFrame DEF Request, Progress, OwnsAsRequest, RequestLog
<1>3. ASSUME NEW h \in Handler, HandlerNext(h) PROVE Progress'
  BY <1>3, ProgressOfHandler
<1>4. ASSUME NEW w \in Work, JobNext(w) PROVE Progress'
  BY <1>4, ProgressOfJob
<1>5. ASSUME NEW w \in Work, BatfishNext(w) PROVE Progress'
  <2>1. UNCHANGED <<idle, taskLog, handler, job>>
    BY <1>5 DEF BatfishNext, RunReturns, SetNotExceptional, RunThrows, ThreadDies
  <2> QED  BY <2>1, ProgressFrame DEF Progress, OwnsAsRequest, RequestLog
<1>6. CASE ErrorNext
  <2>1. ASSUME NEW h \in Handler, StartFails(h) PROVE Progress'
    BY <2>1, ProgressFrame DEF StartFails, Step, Progress, OwnsAsRequest, RequestLog
  <2>2. ASSUME NEW w \in Work, LaunchFails(w) PROVE Progress'
    <3>1. OwnsAsTask(w) /\ OwnsAsTask(w)' /\ handler' = handler /\ taskLog' = taskLog
      BY <2>2 DEF LaunchFails, Go, OwnsAsTask
    <3>2. \A h \in Handler : ~ OwnsAsRequest(h)
      BY <3>1 DEF Ownership
    <3>3. \A h \in Handler : RequestLog(h)'
      BY <3>1, <3>2 DEF Progress, RequestLog, OwnsAsRequest
    <3>4. \A v \in Work : TaskLog(v)'
      BY <2>2, NoStatusAssumption DEF LaunchFails, Go, Progress, TaskLog
    <3> QED  BY <3>1, <3>3, <3>4 DEF Progress
  <2>3. ASSUME NEW w \in Work, RunFails(w) PROVE Progress'
    BY <2>3, ProgressFrame DEF RunFails, Progress, OwnsAsRequest, RequestLog
  <2> QED  BY <1>6, <2>1, <2>2, <2>3 DEF ErrorNext
<1>7. CASE Restart
  BY <1>7 DEF Restart, Serving, Progress, RequestLog, TaskLog
<1> QED  BY <1>1, <1>2, <1>3, <1>4, <1>5, <1>6, <1>7 DEF Next

\* A step that leaves idle, the log and the owner with its work and phase alone
\* is none for the coordinator.
LEMMA StutterStep ==
  ASSUME View, View', Progress, idle' = idle, taskLog' = taskLog,
         \A h \in Handler : OwnsAsRequest(h) =>
           /\ OwnsAsRequest(h)'
           /\ handler'[h].work = handler[h].work
           /\ RequestPhase(h)' = RequestPhase(h),
         \A w \in Work : OwnsAsTask(w) =>
           /\ OwnsAsTask(w)'
           /\ TaskPhase(w)' = TaskPhase(w)
  PROVE  UNCHANGED Promise!serviceVars
<1>1. ServiceStage' = ServiceStage /\ ServiceClaim' = ServiceClaim
  <2>1. CASE idle
    BY <2>1 DEF View
  <2>2. ASSUME NEW h \in Handler, OwnsAsRequest(h)
        PROVE  ServiceStage' = ServiceStage /\ ServiceClaim' = ServiceClaim
    BY <2>2 DEF View
  <2>3. ASSUME NEW w \in Work, OwnsAsTask(w)
        PROVE  ServiceStage' = ServiceStage /\ ServiceClaim' = ServiceClaim
    BY <2>3 DEF View
  <2> QED  BY <2>1, <2>2, <2>3 DEF Progress
<1> QED  BY <1>1 DEF Promise!serviceVars

\* A step of a request is a step of the promise: it claims the worker, logs the
\* task, gives the claim back, or hands it to the task unseen.
LEMMA HandlerKeepsPromise ==
  ASSUME TypeOK, Ownership, Progress, View, View', NEW h \in Handler, HandlerNext(h)
  PROVE  [Promise!Next]_Promise!serviceVars
<1> USE DEF TypeOK
<1>0. \A i \in Handler : RequestLog(i)
  BY DEF Progress
<1>1. CASE ClaimIdle(h)
  <2>1. PICK w \in Work : w = handler[h].work
    BY <1>0, <1>1 DEF ClaimIdle, Step, RequestLog
  <2>2. ServiceStage = "free" /\ taskLog' = taskLog
    BY <1>1 DEF ClaimIdle, View
  <2>3. ServiceStage' = "claimed" /\ ServiceClaim' = w
    BY <1>1, <2>1 DEF ClaimIdle, Step, View, OwnsAsRequest, RequestPhase
  <2>4. Promise!Claim(Self, w)
    BY <2>2, <2>3 DEF Promise!Claim, Promise!Stage
  <2> QED  BY <2>4 DEF Promise!Next
<1>2. CASE NotIdle(h)
  BY <1>2, StutterStep
  DEF NotIdle, Reply, OwnsAsRequest, OwnsAsTask, RequestPhase, TaskPhase
<1>3. CASE LogTask(h)
  <2>1. PICK w \in Work : w = handler[h].work
    BY <1>0, <1>3 DEF LogTask, Step, RequestLog
  <2>2. ServiceStage = "claimed" /\ ServiceClaim = w
    BY <1>3, <2>1 DEF LogTask, Step, View, OwnsAsRequest, RequestPhase
  <2>3. ServiceClaim' = w
    BY <1>3, <2>1 DEF LogTask, Step, View, OwnsAsRequest
  <2>4. CASE handler'[h].pc = "start"
    <3>1. ServiceStage' = "running"
      BY <2>4 DEF View, OwnsAsRequest, RequestPhase
    <3>2. taskLog[w] = NoStatus /\ taskLog' = [taskLog EXCEPT ![w] = "Unscheduled"]
      BY <1>3, <2>1, <2>4 DEF LogTask, Step, Report
    <3>3. Promise!Log(Self)
      BY <2>2, <2>3, <3>1, <3>2 DEF Promise!Log, Promise!Stage, Promise!Report
    <3> QED  BY <3>3 DEF Promise!Next
  <2>5. CASE handler'[h].pc = "undo"
    <3>1. ServiceStage' = "claimed"
      BY <2>5 DEF View, OwnsAsRequest, RequestPhase
    <3>2. taskLog' = taskLog
      BY <1>3, <2>1, <2>5 DEF LogTask, Step
    <3> QED  BY <2>2, <2>3, <3>1, <3>2 DEF Promise!serviceVars
  <2> QED  BY <1>3, <2>4, <2>5 DEF LogTask, Step
<1>4. CASE LogFails(h)
  BY <1>4, StutterStep
  DEF LogFails, Step, OwnsAsRequest, OwnsAsTask, RequestPhase, TaskPhase
<1>5. CASE UndoClaim(h)
  <2>1. ServiceStage = "claimed" /\ taskLog' = taskLog
    BY <1>5 DEF UndoClaim, View, OwnsAsRequest, RequestPhase
  <2>2. ServiceStage' = "free" /\ ServiceClaim' = NoWork
    BY <1>5 DEF UndoClaim, View
  <2>3. Promise!Refuse(Self)
    BY <2>1, <2>2 DEF Promise!Refuse, Promise!Stage
  <2> QED  BY <2>3 DEF Promise!Next
<1>6. CASE StartTask(h)
  <2>1. PICK w \in Work : w = handler[h].work
    BY <1>0, <1>6 DEF StartTask, RequestLog
  <2>2. ServiceStage = "running" /\ ServiceClaim = w /\ taskLog' = taskLog
    BY <1>6, <2>1 DEF StartTask, View, OwnsAsRequest, RequestPhase
  <2>3. job'[w] = "started"
    BY <1>6, <2>1 DEF StartTask, Go
  <2>4. ServiceStage' = "running" /\ ServiceClaim' = w
    BY <2>3 DEF View, OwnsAsTask, TaskPhase
  <2> QED  BY <2>2, <2>4 DEF Promise!serviceVars
<1> QED  BY <1>1, <1>2, <1>3, <1>4, <1>5, <1>6 DEF HandlerNext

\* So is a step of the task: it begins, ends and makes the worker idle; what it
\* does with its inner thread in between is not seen.
LEMMA JobKeepsPromise ==
  ASSUME TypeOK, Ownership, Progress, View, View', NEW w \in Work, JobNext(w)
  PROVE  [Promise!Next]_Promise!serviceVars
<1> USE DEF TypeOK
<1>1. /\ OwnsAsTask(w) /\ ServiceClaim = w
      /\ ServiceStage = TaskPhase(w)
      /\ TaskLog(w)
      /\ \A h \in Handler : ~ OwnsAsRequest(h)
      /\ \A v \in Work : OwnsAsTask(v) => v = w
  <2>1. OwnsAsTask(w)
    BY DEF OwnsAsTask, JobNext, BeginJob, Launch, Joined, Deadline, MarkLate,
           ReadVerdict, RecordEnd, MakeIdle, Go
  <2> QED  BY <2>1 DEF Ownership, Progress, View
<1>2. CASE BeginJob(w)
  <2>1. job[w] = "started" /\ job'[w] = "launch"
    BY <1>2 DEF BeginJob, Go
  <2>2. ServiceStage = "running" /\ ServiceStage' = "running" /\ ServiceClaim' = w
    BY <1>1, <2>1 DEF View, OwnsAsTask, TaskPhase
  <2>3. taskLog[w] = "Unscheduled" /\ taskLog' = [taskLog EXCEPT ![w] = "InProgress"]
    BY <1>1, <1>2, <2>1 DEF TaskLog, BeginJob, Report
  <2>4. Promise!Begin(Self)
    BY <1>1, <2>2, <2>3 DEF Promise!Begin, Promise!Report
  <2> QED  BY <2>4 DEF Promise!Next
<1>3. CASE RecordEnd(w)
  <2>1. job[w] \in {"normal", "abnormal"} /\ job'[w] = "release"
    BY <1>3 DEF RecordEnd, Go
  <2>2. ServiceStage = "running" /\ ServiceStage' = "ended" /\ ServiceClaim' = w
    BY <1>1, <2>1 DEF View, OwnsAsTask, TaskPhase
  <2>3. taskLog[w] = "InProgress"
    BY <1>1, <2>1 DEF TaskLog
  <2>4. \E end \in {"TerminatedNormally", "TerminatedAbnormally"} :
          taskLog' = [taskLog EXCEPT ![w] = end]
    BY <1>3 DEF RecordEnd, Report
  <2>5. \E end \in {"TerminatedNormally", "TerminatedAbnormally"} :
          Promise!Finish(Self, end)
    BY <1>1, <2>2, <2>3, <2>4 DEF Promise!Finish, Promise!Stage, Promise!Report
  <2> QED  BY <2>5 DEF Promise!Next
<1>4. CASE MakeIdle(w)
  <2>1. ServiceStage = "ended" /\ taskLog' = taskLog
    BY <1>1, <1>4 DEF MakeIdle, Go, TaskPhase
  <2>2. ServiceStage' = "free" /\ ServiceClaim' = NoWork
    BY <1>4 DEF MakeIdle, View
  <2>3. Promise!BecomeIdle(Self)
    BY <2>1, <2>2 DEF Promise!BecomeIdle, Promise!Stage
  <2> QED  BY <2>3 DEF Promise!Next
<1>5. CASE ~ BeginJob(w) /\ ~ RecordEnd(w) /\ ~ MakeIdle(w)
  <2>1. /\ UNCHANGED <<idle, taskLog, handler>>
        /\ job[w] \in {"launch", "join", "mark", "read"}
        /\ job'[w] \in {"join", "mark", "read", "normal", "abnormal"}
    BY <1>5
    DEF JobNext, Launch, Joined, Deadline, MarkLate, ReadVerdict, Go
  <2>2. OwnsAsTask(w)' /\ TaskPhase(w)' = TaskPhase(w)
    BY <2>1 DEF OwnsAsTask, TaskPhase
  <2> QED  BY <1>1, <2>1, <2>2, StutterStep
<1> QED  BY <1>2, <1>3, <1>4, <1>5

LEMMA PromiseStep ==
  ASSUME TypeOK, Ownership, Progress, View, View', [Next]_driverVars
  PROVE  [Promise!Next]_Promise!serviceVars
<1> USE DEF OwnsAsRequest, OwnsAsTask, RequestPhase, TaskPhase
<1>1. CASE UNCHANGED driverVars
  BY <1>1, StutterStep DEF driverVars
<1>2. ASSUME NEW h \in Handler, NEW w \in Work, Request(h, w)
      PROVE  [Promise!Next]_Promise!serviceVars
  BY <1>2, StutterStep DEF Request, TypeOK
<1>3. ASSUME NEW h \in Handler, HandlerNext(h)
      PROVE  [Promise!Next]_Promise!serviceVars
  BY <1>3, HandlerKeepsPromise
<1>4. ASSUME NEW w \in Work, JobNext(w)
      PROVE  [Promise!Next]_Promise!serviceVars
  BY <1>4, JobKeepsPromise
<1>5. ASSUME NEW w \in Work, BatfishNext(w)
      PROVE  [Promise!Next]_Promise!serviceVars
  <2>1. UNCHANGED <<idle, taskLog, handler, job>>
    BY <1>5 DEF BatfishNext, RunReturns, SetNotExceptional, RunThrows, ThreadDies
  <2> QED  BY <2>1, StutterStep
<1>6. CASE ErrorNext
  <2>1. ASSUME NEW h \in Handler, StartFails(h)
        PROVE  [Promise!Next]_Promise!serviceVars
    <3>1. /\ handler[h].pc = "start" /\ handler'[h].pc = "dead"
          /\ handler'[h].work = handler[h].work /\ taskLog' = taskLog
      BY <2>1 DEF StartFails, Step, TypeOK
    <3>2. ServiceStage = "running" /\ ServiceStage' = "stuck"
      BY <3>1 DEF View
    <3>3. ServiceClaim' = ServiceClaim
      BY <3>1 DEF View
    <3>4. Promise!GetStuck(Self)
      BY <3>1, <3>2, <3>3 DEF Promise!GetStuck, Promise!Stage
    <3> QED  BY <3>4 DEF Promise!Next
  <2>2. ASSUME NEW w \in Work, LaunchFails(w)
        PROVE  [Promise!Next]_Promise!serviceVars
    <3>1. job[w] = "launch" /\ job'[w] = "dead" /\ taskLog' = taskLog
      BY <2>2 DEF LaunchFails, Go, TypeOK
    <3>2. ServiceStage = "running" /\ ServiceStage' = "stuck"
      BY <3>1 DEF View
    <3>3. ServiceClaim' = ServiceClaim
      BY <3>1 DEF View
    <3>4. Promise!GetStuck(Self)
      BY <3>1, <3>2, <3>3 DEF Promise!GetStuck, Promise!Stage
    <3> QED  BY <3>4 DEF Promise!Next
  <2>3. ASSUME NEW w \in Work, RunFails(w)
        PROVE  [Promise!Next]_Promise!serviceVars
    BY <2>3, StutterStep DEF RunFails
  <2> QED  BY <1>6, <2>1, <2>2, <2>3 DEF ErrorNext
<1>7. CASE Restart
  <2>1. idle' /\ taskLog' = [w \in Work |-> NoStatus]
    BY <1>7 DEF Restart
  <2>2. ServiceStage' = "free" /\ ServiceClaim' = NoWork
    BY <2>1 DEF View
  <2>3. Promise!Restart(Self)
    BY <2>1, <2>2 DEF Promise!Restart
  <2> QED  BY <2>3 DEF Promise!Next
<1> QED  BY <1>1, <1>2, <1>3, <1>4, <1>5, <1>6, <1>7 DEF Next

\* The worker implements WorkerService, whatever requests it gets and however
\* they overlap, with Errors and restarts: it logs a task once, is claimed for
\* one at a time, and reports for it statuses that only move forward.
THEOREM KeepsPromise == Spec => ImplementsService
<1>1. Init => Promise!Init
  BY DEF Init, Promise!Init, ServiceStage, ServiceClaim
<1>2. Init => Progress
  BY DEF Init, Serving, Progress, RequestLog, TaskLog
<1>3. TypeOK /\ Ownership /\ Progress /\ [Next]_driverVars => Progress'
  BY ProgressStep
<1>4. OneOwner => Ownership
  BY OwnershipIsOneOwner
<1>5. TypeOK /\ Ownership /\ Progress /\ View /\ View' /\ [Next]_driverVars
        => [Promise!Next]_Promise!serviceVars
  BY PromiseStep
<1> QED
  BY <1>1, <1>2, <1>3, <1>4, <1>5, ViewRight, TypeCorrect, OwnedByOne, PTL
  DEF Spec, ImplementsService, Promise!Spec
=============================================================================
