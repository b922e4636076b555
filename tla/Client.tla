------------------------------- MODULE Client -------------------------------
(***************************************************************************)
(* The Java client (Client.java): commands, one after another, that work   *)
(* on the container, the testrig and the environment whose names it keeps, *)
(* and change these names.  A command that needs a work hands it to the    *)
(* coordinator and asks for its status until it has ended (execute).       *)
(*                                                                         *)
(* A request may fail, with or without what it asks for being done.  What  *)
(* the coordinator keeps is reduced to the directories and to what was     *)
(* parsed; its queues are lost when it restarts.                           *)
(***************************************************************************)
EXTENDS Naturals, Sequences

CONSTANTS Name,         \* names of testrigs
          Env,          \* names of environments
          MaxContainers,        \* bound: the containers that are made
          MaxCommands,  \* bound: the commands that are given
          None          \* no name

VARIABLES currContainerName, currTestrigName, currDiffEnv,
          command,      \* the command that is carried out, and how far it is
          work,         \* the status of its work
          containers, testrigs, environments,   \* the directories
          parsed,       \* the testrigs whose parsing ended normally
          restarted,    \* bound: the coordinator restarts once
          made, given,  \* how many containers were made, commands given
          trusted       \* history: the names that init-commands have set

names == <<currContainerName, currTestrigName, currDiffEnv>>
dirVars == <<containers, testrigs, environments, parsed, made>>
vars == <<names, command, work, dirVars, restarted, given, trusted>>

Container == 1 .. MaxContainers

\* Those that take their time, and generate: what the first two end with.
Kind == {"none", "init-testrig", "init-diff-env", "answer", "generate"}

Idle == [kind |-> "none", arg |-> None, pc |-> "idle"]

TypeOK ==
  /\ currContainerName \in Container \cup {None}
  /\ currTestrigName \in Name \cup {None}
  /\ currDiffEnv \in Env \cup {None}
  /\ command \in [kind : Kind, arg : Name \cup Env \cup {None},
                  pc : {"idle", "container", "upload", "queue", "poll", "log"}]
  /\ work \in {"none", "pending", "normally", "abnormally", "forgotten"}
  /\ containers \subseteq Container
  /\ testrigs \subseteq Container \X Name
  /\ environments \subseteq Container \X Name \X Env
  /\ parsed \subseteq testrigs
  /\ restarted \in BOOLEAN
  /\ made \in 0 .. MaxContainers /\ given \in 0 .. MaxCommands
  /\ trusted \subseteq {"testrig", "diffEnv"}

Init ==
  /\ currContainerName = None /\ currTestrigName = None /\ currDiffEnv = None
  /\ command = Idle /\ work = "none"
  /\ containers = {} /\ testrigs = {} /\ environments = {} /\ parsed = {}
  /\ restarted = FALSE
  /\ made = 0 /\ given = 0
  /\ trusted = {}

IsSetContainer == currContainerName # None
IsSetTestrig   == currTestrigName # None
Here == <<currContainerName, currTestrigName>>

\* The testrig that the command under way is about.
Target == IF command.kind = "init-testrig" THEN <<currContainerName, command.arg>> ELSE Here

Give ==
  /\ command = Idle
  /\ given < MaxCommands
  /\ given' = given + 1
-----------------------------------------------------------------------------
(* Commands that are done at once.                                         *)

\* The request of initContainer.  When its reply is lost there is a container and
\* no name for it.
MakeContainer ==
  /\ \/ /\ made < MaxContainers
        /\ made' = made + 1
        /\ containers' = containers \cup {made + 1}
        /\ currContainerName' \in {made + 1, None}
     \/ currContainerName' = None /\ UNCHANGED <<made, containers>>
  /\ UNCHANGED <<currTestrigName, currDiffEnv, work, testrigs, environments, parsed,
                 restarted>>

\* init-container.  The names of testrig and environment stay.
InitContainer ==
  /\ Give
  /\ MakeContainer
  /\ trusted' = {}
  /\ UNCHANGED command

\* set-container, set-testrig and set-diff-environment do not ask the coordinator.
SetNames ==
  /\ Give
  /\ \/ /\ currContainerName' \in 1 .. made
        /\ trusted' = {}
        /\ UNCHANGED <<currTestrigName, currDiffEnv>>
     \/ /\ currTestrigName' \in Name
        /\ trusted' = {}
        /\ UNCHANGED <<currContainerName, currDiffEnv>>
     \/ /\ currDiffEnv' \in Env
        /\ trusted' = trusted \ {"diffEnv"}
        /\ UNCHANGED <<currContainerName, currTestrigName>>
  /\ UNCHANGED <<command, work, dirVars, restarted>>

\* del-container, del-testrig and del-environment leave the names as they are, also
\* when they name what is deleted.
Delete ==
  /\ Give
  /\ \/ \E c \in containers :
          /\ containers' = containers \ {c}
          /\ testrigs' = {t \in testrigs : t[1] # c}
          /\ environments' = {e \in environments : e[1] # c}
     \/ /\ IsSetContainer
        /\ \E n \in Name :
             /\ testrigs' = testrigs \ {<<currContainerName, n>>}
             /\ environments' = {e \in environments :
                                   <<e[1], e[2]>> # <<currContainerName, n>>}
        /\ UNCHANGED containers
     \/ /\ IsSetContainer /\ IsSetTestrig
        /\ \E e \in Env : environments' = environments \ {Here \o <<e>>}
        /\ UNCHANGED <<containers, testrigs>>
  /\ parsed' = parsed \cap testrigs'
  /\ trusted' = {}
  /\ UNCHANGED <<names, command, work, made, restarted>>
-----------------------------------------------------------------------------
(* Commands that need requests after each other.                           *)

GoOn(pc) == command' = [command EXCEPT !.pc = pc]

\* The command goes on with the data plane of what it has set.
ToGenerate == [kind |-> "generate", arg |-> command.arg, pc |-> "queue"]

Begin(kind, arg, pc) ==
  /\ Give
  /\ command' = [kind |-> kind, arg |-> arg, pc |-> pc]
  /\ UNCHANGED <<names, work, dirVars, restarted, trusted>>

BeginInitTestrig(n) == Begin("init-testrig", n, IF IsSetContainer THEN "upload" ELSE "container")
BeginInitDiffEnv(e) == IsSetTestrig /\ IsSetContainer /\ Begin("init-diff-env", e, "upload")
BeginAnswer         == IsSetTestrig /\ IsSetContainer /\ Begin("answer", None, "upload")
BeginGenerate       == IsSetTestrig /\ IsSetContainer /\ Begin("generate", None, "queue")

\* "initialize the container if it hasn't been init'd before", and go on with what
\* comes of that.
InitContainerFirst ==
  /\ command.pc = "container"
  /\ MakeContainer
  /\ GoOn("upload")
  /\ UNCHANGED <<given, trusted>>

\* There is a directory for what is to be uploaded, and nothing of that name.
CanUpload ==
  IF command.kind = "init-testrig"
  THEN currContainerName \in containers /\ Target \notin testrigs
  ELSE Here \in testrigs /\ Here \o <<command.arg>> \notin environments

\* What the coordinator does when it is asked to upload.
Uploads ==
  /\ CanUpload
  /\ testrigs' = IF command.kind = "init-testrig" THEN testrigs \cup {Target} ELSE testrigs
  /\ environments' = IF command.kind = "init-diff-env"
                     THEN environments \cup {Here \o <<command.arg>>} ELSE environments
  /\ UNCHANGED <<containers, parsed, made>>

\* The upload succeeds.  An environment is the current one from now on, whether or
\* not the data plane can be generated in it.
Uploaded ==
  /\ command.pc = "upload"
  /\ Uploads
  /\ IF command.kind = "init-diff-env"
     THEN /\ currDiffEnv' = command.arg
          /\ trusted' = trusted \cup {"diffEnv"}
          /\ command' \in {Idle, ToGenerate}
     ELSE GoOn("queue") /\ UNCHANGED <<currDiffEnv, trusted>>
  /\ UNCHANGED <<currContainerName, currTestrigName, work, restarted, given>>

\* Or it is refused, or fails, or its reply is lost: the command returns false.
UploadFails ==
  /\ command.pc = "upload"
  /\ command' = Idle
  /\ Uploads \/ UNCHANGED dirVars
  /\ UNCHANGED <<names, work, restarted, given, trusted>>

\* execute: the work is queued.
QueueWork ==
  /\ command.pc = "queue"
  /\ Target \in testrigs
  /\ work' = "pending"
  /\ GoOn("poll")
  /\ UNCHANGED <<names, dirVars, restarted, given, trusted>>

\* Or the command returns false, even if only the reply is lost and a worker does
\* parse the testrig.
QueueWorkFails ==
  /\ command.pc = "queue"
  /\ command' = Idle
  /\ \/ UNCHANGED parsed
     \/ /\ command.kind = "init-testrig" /\ Target \in testrigs
        /\ parsed' = parsed \cup {Target}
  /\ UNCHANGED <<names, work, containers, testrigs, environments, made, restarted, given,
                 trusted>>

\* getWorkStatus has one of the three answers that end the loop.  What it cannot get
\* is null, and the loop goes on.
GetWorkStatus ==
  /\ command.pc = "poll"
  /\ work \in {"normally", "abnormally"}
  /\ GoOn("log")
  /\ UNCHANGED <<names, work, dirVars, restarted, given, trusted>>

\* Mutant: the testrig is the current one, whatever came of its parsing.
GetAnyLog ==
  /\ command.pc = "log"
  /\ work' = "none"
  /\ IF command.kind = "init-testrig"
     THEN /\ currTestrigName' = command.arg
          /\ trusted' = {"testrig"}
          /\ command' \in {Idle, ToGenerate}
     ELSE command' = Idle /\ UNCHANGED <<currTestrigName, trusted>>
  /\ UNCHANGED <<currContainerName, currDiffEnv, dirVars, restarted, given>>

\* The log is there, and the work has ended normally.  A testrig is the current one
\* from now on, whether or not the data plane can be generated; the environment stays.
GetLog ==
  /\ command.pc = "log"
  /\ work = "normally"
  /\ work' = "none"
  /\ IF command.kind = "init-testrig"
     THEN /\ currTestrigName' = command.arg
          /\ trusted' = {"testrig"}
          /\ command' \in {Idle, ToGenerate}
     ELSE command' = Idle /\ UNCHANGED <<currTestrigName, trusted>>
  /\ UNCHANGED <<currContainerName, currDiffEnv, dirVars, restarted, given>>

\* Or it has not, or the log cannot be fetched: the command returns false.
GetLogFails ==
  /\ command.pc = "log"
  /\ work' = "none"
  /\ command' = Idle
  /\ UNCHANGED <<names, dirVars, restarted, given, trusted>>
-----------------------------------------------------------------------------
\* A worker is done with the work.
EndWork ==
  /\ work = "pending"
  /\ \/ work' = "normally" /\ parsed' = IF command.kind = "init-testrig"
                                        THEN parsed \cup {Target} ELSE parsed
     \/ work' = "abnormally" /\ UNCHANGED parsed
  /\ UNCHANGED <<names, command, containers, testrigs, environments, made, restarted,
                 given, trusted>>

\* The coordinator restarts, and knows of no work.
Restart ==
  /\ ~restarted
  /\ restarted' = TRUE
  /\ work' = IF command.pc = "poll" THEN "forgotten" ELSE work
  /\ UNCHANGED <<names, command, dirVars, given, trusted>>

\* What a command that was given goes on with.
Step ==
  \/ InitContainerFirst
  \/ Uploaded
  \/ UploadFails
  \/ QueueWork
  \/ QueueWorkFails
  \/ GetWorkStatus
  \/ GetLog
  \/ GetLogFails

Next ==
  \/ InitContainer
  \/ SetNames
  \/ Delete
  \/ \E n \in Name : BeginInitTestrig(n)
  \/ \E e \in Env : BeginInitDiffEnv(e)
  \/ BeginAnswer
  \/ BeginGenerate
  \/ Step
  \/ EndWork
  \/ Restart

Spec == Init /\ [][Next]_vars

\* Requests are answered or fail, and not each of those for a status fails.  A work
\* ends.  Nobody has to give a command.
Fairness == WF_vars(Step) /\ WF_vars(EndWork)

FairSpec == Spec /\ Fairness
-----------------------------------------------------------------------------
\* The names that init-testrig and init-diff-env have set are good for questions: the
\* testrig was parsed, the environment is one of this testrig, whatever failed before
\* and after, as long as nothing is deleted and no other command has changed the
\* names.  (A later init-testrig does change what the environment is taken to be in.)
NamesAreGood ==
  /\ "testrig" \in trusted => Here \in parsed
  /\ "diffEnv" \in trusted => Here \o <<currDiffEnv>> \in environments

\* Every command ends, unless the coordinator has forgotten its work.
CommandsEnd == command # Idle ~> command = Idle \/ work = "forgotten"
=============================================================================
