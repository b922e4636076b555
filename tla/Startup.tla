------------------------------ MODULE Startup ------------------------------
(***************************************************************************)
(* How the coordinator comes up: Main.mainRun makes the pool manager and   *)
(* then the work manager.  Each is a server that accepts requests from the *)
(* moment it is created, a constructor that schedules a periodic task      *)
(* without delay, and a static field that is assigned when the constructor *)
(* has returned, and that requests and task both go through.               *)
(***************************************************************************)
EXTENDS Naturals, Sequences

CONSTANT Worker \* the workers that register, again and again until they are in

Manager == {"pool", "work"}

\* initPoolManager and initWorkManager, step by step.
Steps ==
  << <<"pool", "server">>, <<"pool", "construct">>, <<"pool", "publish">>,
     <<"work", "server">>, <<"work", "construct">>, <<"work", "publish">> >>

VARIABLES main,         \* the step of Steps that is next
          serving,      \* the managers whose server is up
          published,    \* the managers whose static field is not null
          task,         \* the periodic task of each manager
          registration  \* each worker: "out", "asked" or "in"

vars == <<main, serving, published, task, registration>>

TypeOK ==
  /\ main \in 1 .. (Len(Steps) + 1)
  /\ serving \subseteq Manager
  /\ published \subseteq Manager
  /\ task \in [Manager -> {"none", "due", "running", "cancelled"}]
  /\ registration \in [Worker -> {"out", "asked", "in"}]

Init ==
  /\ main = 1
  /\ serving = {}
  /\ published = {}
  /\ task = [m \in Manager |-> "none"]
  /\ registration = [x \in Worker |-> "out"]

Main(m, step) ==
  /\ main <= Len(Steps)
  /\ Steps[main] = <<m, step>>
  /\ main' = main + 1

CreateHttpServer(m) ==
  /\ Main(m, "server")
  /\ serving' = serving \cup {m}
  /\ UNCHANGED <<published, task, registration>>

\* The constructor: scheduleAtFixedRate or scheduleWithFixedDelay, delay 0.
Construct(m) ==
  /\ Main(m, "construct")
  /\ task' = [task EXCEPT ![m] = "due"]
  /\ UNCHANGED <<serving, published, registration>>

Publish(m) ==
  /\ Main(m, "publish")
  /\ published' = published \cup {m}
  /\ UNCHANGED <<serving, task, registration>>

\* The run method gets its manager from the static field.  What it throws when
\* that is null is caught by nobody, and the executor, as it is documented to,
\* runs a task that has thrown no more.
RunTask(m) ==
  /\ task[m] = "due"
  /\ task' = [task EXCEPT ![m] = IF m \in published THEN "running" ELSE "cancelled"]
  /\ UNCHANGED <<main, serving, published, registration>>

\* Every exception of a run is caught within; the task is due again.
TaskReturns(m) ==
  /\ task[m] = "running"
  /\ task' = [task EXCEPT ![m] = "due"]
  /\ UNCHANGED <<main, serving, published, registration>>

\* registerWithCoordinator, on the worker's side.
AskToRegister(x) ==
  /\ registration[x] = "out"
  /\ registration' = [registration EXCEPT ![x] = "asked"]
  /\ UNCHANGED <<main, serving, published, task>>

\* updatePool: with no server there is no connection, and with no manager the
\* request fails; the worker sleeps and asks again.
AnswerRegistration(x) ==
  /\ registration[x] = "asked"
  /\ registration' =
       [registration EXCEPT ![x] =
          IF "pool" \in serving \cap published THEN "in" ELSE "out"]
  /\ UNCHANGED <<main, serving, published, task>>
-----------------------------------------------------------------------------
MainNext == \E m \in Manager : CreateHttpServer(m) \/ Construct(m) \/ Publish(m)
TaskNext(m) == RunTask(m) \/ TaskReturns(m)
RegistrationNext(x) == AskToRegister(x) \/ AnswerRegistration(x)

Next ==
  \/ MainNext
  \/ \E m \in Manager : TaskNext(m)
  \/ \E x \in Worker : RegistrationNext(x)

Spec == Init /\ [][Next]_vars

\* Every thread runs, and so does the executor of a task that is due.
Fairness ==
  /\ WF_vars(MainNext)
  /\ \A m \in Manager : WF_vars(TaskNext(m))
  /\ \A x \in Worker : WF_vars(RegistrationNext(x))

FairSpec == Spec /\ Fairness
-----------------------------------------------------------------------------
(* What the start of the coordinator guarantees.                           *)

\* Whoever has got hold of the work manager, a request or the task, finds the pool
\* manager too: assignWork goes through Main.getPoolMgr() with a work that it has
\* marked, and if that were null, the catch would only log it and leave the work so.
PoolIsThere ==
  "work" \in published \/ task["work"] = "running" => "pool" \in published

\* A worker that starts before or with the coordinator ends up registered.
RegistersInTheEnd == \A x \in Worker : <>(registration[x] = "in")

\* Works are assigned, and checked, periodically.  Description of the option
\* periodassignworkms, Settings.java:235: "period with which to assign work
\* (ms)".
AssignsPeriodically == []<>(task["work"] = "running")
=============================================================================
