------------------------------ MODULE MCParts ------------------------------
(***************************************************************************)
(* Parts of the servers that do not depend on each other, for TLC, in one  *)
(* run: the container store, the two authorizers, the start of the         *)
(* coordinator, the job executor of the analysis, and the Java client.  In *)
(* every behaviour part says which of them moves, and the others stay in   *)
(* one initial state.                                                      *)
(***************************************************************************)
EXTENDS ContainerStore, DbAuthorizer, FiniteSets

CONSTANTS Worker, Job, Threads, Name, Env, MaxContainers, MaxCommands

\* executeJobs is given a list of jobs.
ASSUME JobAssumption == IsFiniteSet(Job)
ASSUME BoundsAssumption == MaxContainers \in Nat /\ MaxCommands \in Nat

VARIABLES permsFile, torn, fileRequest, copy, lock
VARIABLES main, serving, published, task, registration
VARIABLES job, futures, current, applied, processingError, caller, pool,
          exitOnFirstError
VARIABLES currContainerName, currTestrigName, currDiffEnv, command, work, containers,
          testrigs, environments, parsed, restarted, made, given, trusted
VARIABLE part

fileVars  == <<permsFile, torn, fileRequest, copy, lock>>
startVars == <<main, serving, published, task, registration>>
jobVars   == <<job, futures, current, applied, processingError, caller, pool,
               exitOnFirstError>>
clientVars == <<currContainerName, currTestrigName, currDiffEnv, command, work,
                containers, testrigs, environments, parsed, restarted, made, given,
                trusted>>
allVars   == <<vars, dbVars, fileVars, startVars, jobVars, clientVars, part>>

File  == INSTANCE FileAuthorizer WITH request <- fileRequest
Start == INSTANCE Startup
Jobs  == INSTANCE JobExecutor
User  == INSTANCE Client

MCInit ==
  /\ part \in {"store", "db", "file", "start", "jobs", "client"}
  /\ Init /\ DbInit /\ File!Init /\ Start!Init /\ Jobs!Init /\ User!Init
  /\ part # "db" => permissions = {}
  /\ part # "jobs" => exitOnFirstError = FALSE

MCNext ==
  \/ part = "store" /\ Next
       /\ UNCHANGED <<dbVars, fileVars, startVars, jobVars, clientVars, part>>
  \/ part = "db" /\ DbNext
       /\ UNCHANGED <<vars, fileVars, startVars, jobVars, clientVars, part>>
  \/ part = "file" /\ File!Next
       /\ UNCHANGED <<vars, dbVars, startVars, jobVars, clientVars, part>>
  \/ part = "start" /\ Start!Next
       /\ UNCHANGED <<vars, dbVars, fileVars, jobVars, clientVars, part>>
  \/ part = "jobs" /\ Jobs!Next
       /\ UNCHANGED <<vars, dbVars, fileVars, startVars, clientVars, part>>
  \/ part = "client" /\ User!Next
       /\ UNCHANGED <<vars, dbVars, fileVars, startVars, jobVars, part>>

\* The fairness of Startup, of JobExecutor and of Client, when they are what moves.
MCFairness ==
  /\ WF_startVars(part = "start" /\ Start!MainNext)
  /\ \A m \in {"pool", "work"} : WF_startVars(part = "start" /\ Start!TaskNext(m))
  /\ \A x \in Worker : WF_startVars(part = "start" /\ Start!RegistrationNext(x))
  /\ WF_jobVars(part = "jobs" /\ Jobs!Caller)
  /\ \A j \in Job : /\ WF_jobVars(part = "jobs" /\ Jobs!StartJob(j))
                    /\ WF_jobVars(part = "jobs" /\ Jobs!EndJob(j))
  /\ WF_clientVars(part = "client" /\ User!Step)
  /\ WF_clientVars(part = "client" /\ User!EndWork)

MCSpec == MCInit /\ [][MCNext]_allVars /\ MCFairness

TypesOK == TypeOK /\ DbTypeOK /\ Start!TypeOK /\ Jobs!TypeOK /\ User!TypeOK
NoneRefused == File!NoneRefused
NamesAreGood == User!NamesAreGood
AllOrException == Jobs!AllOrException

\* Startup, JobExecutor and Client make progress.
Progress ==
  /\ part = "start" => Start!RegistersInTheEnd
  /\ part = "jobs" => Jobs!Ends
  /\ part = "client" => User!CommandsEnd
=============================================================================
