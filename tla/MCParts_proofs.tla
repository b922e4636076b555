--------------------------- MODULE MCParts_proofs ---------------------------
(***************************************************************************)
(* The safety of the parts that MCParts puts side by side and that have no *)
(* proof module of their own: the authorizer that keeps its permissions in *)
(* a file, the job executor of the analysis and the Java client, each for  *)
(* any requests, jobs, names and bounds.                                   *)
(***************************************************************************)
EXTENDS MCParts, ContainerStore_proofs, DbAuthorizer_proofs, FiniteSetTheorems,
        SequenceTheorems, TLAPS

-----------------------------------------------------------------------------
(* FileAuthorizer.                                                         *)

FileType ==
  /\ permsFile \subseteq Request /\ lock \subseteq Request
  /\ torn \in BOOLEAN
  /\ fileRequest \in [Request -> {"idle", "read", "empty", "write", "authorized",
                                  "let in", "failed", "refused"}]
  /\ copy \in [Request -> SUBSET Request]

\* The requests that authorizeContainer has returned to.
Authorized == {r \in Request :
                 fileRequest[r] \in {"authorized", "let in", "failed", "refused"}}

\* One request at a time is in authorizeContainer.
OneWriter ==
  /\ \A r \in Request : r \in lock <=> fileRequest[r] \in {"read", "empty", "write"}
  /\ \A r, s \in lock : r = s

\* The pair of everybody who was authorized is in the file, unless that is being
\* written, and in the copy of it that the writer has read.
NoneLost ==
  /\ torn <=> \E r \in Request : fileRequest[r] = "write"
  /\ ~torn => Authorized \subseteq permsFile
  /\ \A r \in Request : fileRequest[r] \in {"empty", "write"} =>
       Authorized \cup {r} \subseteq copy[r]

FileInv == FileType /\ OneWriter /\ NoneLost /\ NoneRefused

LEMMA FileInitHolds == File!Init => FileInv
  BY DEF File!Init, FileInv, FileType, OneWriter, NoneLost, Authorized, NoneRefused,
         File!NoneRefused

LEMMA FileNextHolds ==
  ASSUME FileInv, [File!Next]_fileVars
  PROVE  FileInv'
  <1> USE DEF FileInv, FileType, NoneRefused, File!NoneRefused, File!Step
  <1>1. ASSUME NEW r \in Request, File!Enter(r) PROVE FileInv'
    <2>1. Authorized' = Authorized
      BY <1>1 DEF File!Enter, Authorized
    <2>2. FileType' /\ OneWriter' /\ NoneRefused'
      BY <1>1 DEF File!Enter, OneWriter
    <2>3. NoneLost'
      BY <1>1, <2>1 DEF File!Enter, NoneLost
    <2>4. QED  BY <2>2, <2>3
  <1>2. ASSUME NEW r \in Request, File!Read(r) PROVE FileInv'
    <2>1. Authorized' = Authorized
      BY <1>2 DEF File!Read, Authorized
    <2>2. FileType' /\ OneWriter' /\ NoneRefused'
      BY <1>2 DEF File!Read, OneWriter
    <2>3. NoneLost'
      BY <1>2, <2>1, ZenonT(60) DEF File!Read, NoneLost
    <2>4. QED  BY <2>2, <2>3
  <1>3. ASSUME NEW r \in Request, File!Empty(r) PROVE FileInv'
    <2>1. Authorized' = Authorized
      BY <1>3 DEF File!Empty, Authorized
    <2>2. FileType' /\ OneWriter' /\ NoneRefused'
      BY <1>3 DEF File!Empty, OneWriter
    <2>3. NoneLost'
      BY <1>3, <2>1 DEF File!Empty, NoneLost
    <2>4. QED  BY <2>2, <2>3
  <1>4. ASSUME NEW r \in Request, File!Write(r) PROVE FileInv'
    <2>1. Authorized' = Authorized \cup {r}
      BY <1>4 DEF File!Write, Authorized
    <2>2. FileType' /\ OneWriter' /\ NoneRefused'
      BY <1>4 DEF File!Write, OneWriter
    <2>3. \A s \in Request : fileRequest'[s] \notin {"empty", "write"}
      BY <1>4 DEF File!Write, OneWriter
    <2>4. Authorized' \subseteq permsFile'
      BY <1>4, <2>1 DEF File!Write, NoneLost
    <2>5. NoneLost'
      BY <1>4, <2>3, <2>4 DEF File!Write, NoneLost
    <2>6. QED  BY <2>2, <2>5
  <1>5. ASSUME NEW r \in Request, File!IsAccessible(r) PROVE FileInv'
    <2>1. Authorized' = Authorized /\ r \in Authorized
      BY <1>5 DEF File!IsAccessible, Authorized
    <2>2. FileType' /\ OneWriter' /\ NoneRefused'
      BY <1>5, <2>1, ZenonT(60) DEF File!IsAccessible, OneWriter, NoneLost
    <2>3. NoneLost'
      BY <1>5, <2>1, ZenonT(60) DEF File!IsAccessible, NoneLost
    <2>4. QED  BY <2>2, <2>3
  <1>6. CASE UNCHANGED fileVars
    BY <1>6 DEF fileVars, OneWriter, NoneLost, Authorized
  <1>7. QED  BY <1>1, <1>2, <1>3, <1>4, <1>5, <1>6 DEF File!Next

\* Whoever authorizeContainer has returned to is never refused by
\* isAccessibleContainer, however many write the file of permissions meanwhile.
THEOREM AuthorizedIsLetIn == File!Spec => []NoneRefused
  <1>1. FileInv => NoneRefused
    BY DEF FileInv
  <1>2. FileInv /\ [File!Next]_(File!vars) => FileInv'
    BY FileNextHolds DEF File!vars, fileVars
  <1>3. QED  BY <1>1, <1>2, FileInitHolds, PTL DEF File!Spec

-----------------------------------------------------------------------------
(* JobExecutor.                                                            *)

\* A job whose end executeJobs has seen and noted.
Noted(j) == j \in applied \/ (job[j] = "failure" /\ processingError)

\* No job is forgotten, and none is collected twice.
Collected ==
  /\ current \subseteq futures /\ futures \cap applied = {}
  /\ caller # "threw" => \A j \in Job : j \in futures \/ Noted(j)
  /\ processingError => \E j \in Job : job[j] = "failure"
  /\ \A i, j \in applied : job[i] = "namesake" /\ job[j] = "namesake" => i = j
  /\ \A j \in applied : job[j] \in {"result", "namesake"}

\* What executeJobs ended with is justified.
Justified ==
  /\ caller = "returned" => futures = {} /\ ~processingError
  /\ caller = "threw" => \/ \E j \in Job : job[j] \in {"failure", "exception"}
                         \/ \E i, j \in Jobs!Namesakes : i # j

JobInv == Jobs!TypeOK /\ Collected /\ Justified

LEMMA JobInitHolds == Jobs!Init => JobInv
  BY DEF Jobs!Init, JobInv, Jobs!TypeOK, Collected, Justified, Noted

\* A job that has ended has ended so for good.
LEMMA EndsForGood ==
  ASSUME Jobs!TypeOK, NEW j \in Job, Jobs!StartJob(j) \/ Jobs!EndJob(j)
  PROVE  /\ job' \in [Job -> {"queued", "running"} \cup Jobs!End]
         /\ \A i \in Job : job[i] \in Jobs!End => job'[i] = job[i]
  BY DEF Jobs!TypeOK, Jobs!StartJob, Jobs!EndJob, Jobs!End

LEMMA JobNextHolds ==
  ASSUME JobInv, [Jobs!Next]_jobVars
  PROVE  JobInv'
  <1> USE DEF JobInv, Jobs!TypeOK, Jobs!Look
  <1>1. ASSUME NEW j \in Job, Jobs!StartJob(j) \/ Jobs!EndJob(j) PROVE JobInv'
    <2>1. /\ job' \in [Job -> {"queued", "running"} \cup Jobs!End]
          /\ \A i \in Job : job[i] \in Jobs!End => job'[i] = job[i]
      BY <1>1, EndsForGood
    <2>2. UNCHANGED <<futures, current, applied, processingError, caller, pool,
                      exitOnFirstError>>
      BY <1>1 DEF Jobs!StartJob, Jobs!EndJob
    <2>3. Collected'
      BY <2>1, <2>2 DEF Collected, Noted, Jobs!End
    <2>4. Justified'
      BY <2>1, <2>2 DEF Justified, Jobs!Namesakes, Jobs!End
    <2>5. QED  BY <2>1, <2>2, <2>3, <2>4
  <1>2. ASSUME NEW j \in Job, Jobs!NotDone(j) PROVE JobInv'
    BY <1>2 DEF Jobs!NotDone, Collected, Justified, Noted, Jobs!Namesakes
  <1>3. ASSUME NEW j \in Job, Jobs!ApplyResult(j) PROVE JobInv'
    <2>1. j \notin applied
      BY <1>3 DEF Jobs!ApplyResult, Collected
    <2>2. Collected'
      BY <1>3, <2>1 DEF Jobs!ApplyResult, Jobs!Duplicate, Collected, Noted
    <2>3. Justified'
      BY <1>3 DEF Jobs!ApplyResult, Justified
    <2>4. QED  BY <1>3, <2>2, <2>3 DEF Jobs!ApplyResult
  <1>4. ASSUME NEW j \in Job, Jobs!NoteFailure(j) PROVE JobInv'
    BY <1>4 DEF Jobs!NoteFailure, Jobs!Fatal, Collected, Justified, Noted
  <1>5. ASSUME NEW j \in Job, Jobs!ThrowAtOnce(j) PROVE JobInv'
    <2>1. j \notin applied
      BY <1>5 DEF Jobs!ThrowAtOnce, Collected
    <2>2. Collected'
      BY <1>5 DEF Jobs!ThrowAtOnce, Collected, Noted
    <2>3. CASE job[j] \in Jobs!Fatal
      BY <1>5, <2>2, <2>3 DEF Jobs!ThrowAtOnce, Jobs!Fatal, Justified
    <2>4. CASE Jobs!Duplicate(j)
      BY <1>5, <2>1, <2>2, <2>4 DEF Jobs!ThrowAtOnce, Jobs!Duplicate, Jobs!Namesakes,
                                    Justified
    <2>5. QED  BY <1>5, <2>3, <2>4 DEF Jobs!ThrowAtOnce
  <1>6. CASE Jobs!Sleep \/ Jobs!WakeUp
    BY <1>6 DEF Jobs!Sleep, Jobs!WakeUp, Collected, Justified, Noted, Jobs!Namesakes
  <1>7. CASE Jobs!Finish
    BY <1>7 DEF Jobs!Finish, Collected, Justified, Noted
  <1>8. CASE UNCHANGED jobVars
    BY <1>8 DEF jobVars, Collected, Justified, Noted, Jobs!Namesakes
  <1>9. QED
    BY <1>1, <1>2, <1>3, <1>4, <1>5, <1>6, <1>7, <1>8 DEF Jobs!Next, Jobs!Caller

\* Two different elements make a finite set larger than one.
LEMMA TwoAreMore ==
  ASSUME NEW S, IsFiniteSet(S), NEW x \in S, NEW y \in S, x # y
  PROVE  Cardinality(S) > 1
  <1>1. IsFiniteSet({x}) /\ Cardinality({x}) = 1
    BY FS_Singleton
  <1>2. {x} \cup {y} \subseteq S /\ y \notin {x}
    OBVIOUS
  <1>3. Cardinality({x} \cup {y}) = 2
    BY <1>1, <1>2, FS_AddElement
  <1>4. Cardinality({x} \cup {y}) <= Cardinality(S)
    BY <1>2, FS_Subset
  <1>5. Cardinality(S) \in Nat
    BY FS_CardinalityType
  <1>6. QED  BY <1>3, <1>4, <1>5

LEMMA AtMostOne ==
  ASSUME NEW S, \A x, y \in S : x = y
  PROVE  Cardinality(S) <= 1
  <1>1. CASE S = {}
    BY <1>1, FS_EmptySet
  <1>2. ASSUME NEW x \in S PROVE Cardinality(S) <= 1
    <2>1. S = {x}
      BY <1>2
    <2>2. QED  BY <2>1, FS_Singleton
  <1>3. QED  BY <1>1, <1>2

LEMMA SameCardinality == \A S : Jobs!Cardinality(S) = Cardinality(S)
  BY DEF Jobs!Cardinality, Cardinality

LEMMA JobInvImplies == JobInv => AllOrException
  <1> SUFFICES ASSUME JobInv PROVE AllOrException
    OBVIOUS
  <1> USE DEF JobInv, Jobs!TypeOK
  <1>1. ASSUME caller = "returned"
        PROVE  applied = Job /\ Cardinality(Jobs!Namesakes) <= 1
    <2>1. applied = Job
      BY <1>1 DEF Collected, Justified, Noted
    <2>2. \A i, j \in Jobs!Namesakes : i = j
      BY <2>1 DEF Collected, Jobs!Namesakes
    <2>3. QED  BY <2>1, <2>2, AtMostOne
  <1>2. ASSUME NEW i \in Jobs!Namesakes, NEW j \in Jobs!Namesakes, i # j
        PROVE  Cardinality(Jobs!Namesakes) > 1
    <2>1. IsFiniteSet(Jobs!Namesakes)
      BY JobAssumption, FS_Subset DEF Jobs!Namesakes
    <2>2. QED  BY <1>2, <2>1, TwoAreMore
  <1>3. QED
    BY <1>1, <1>2, SameCardinality
       DEF AllOrException, Jobs!AllOrException, Collected, Justified

\* executeJobs returns only with the results of all jobs, each host name once, and
\* throws only for a reason, in whatever order the jobs end and are collected.
THEOREM AllJobsOrException == Jobs!Spec => []AllOrException
  <1>1. JobInv /\ [Jobs!Next]_(Jobs!vars) => JobInv'
    BY JobNextHolds DEF Jobs!vars, jobVars
  <1>2. QED  BY <1>1, JobInitHolds, JobInvImplies, PTL DEF Jobs!Spec
-----------------------------------------------------------------------------
(* Client.                                                                 *)

LEMMA Triple ==
  ASSUME NEW a, NEW b, NEW c
  PROVE  <<a, b>> \o <<c>> = <<a, b, c>>
  <1> DEFINE S == {a, b, c}
             l == <<a, b>> \o <<c>>
             r == <<a, b, c>>
  <1>1. a \in S /\ b \in S /\ c \in S
    OBVIOUS
  <1> HIDE DEF S
  <1>2. /\ l \in Seq(S) /\ r \in Seq(S)
        /\ Len(l) = 3 /\ l[1] = a /\ l[2] = b /\ l[3] = c
    <2>1. <<a, b>> \in Seq(S) /\ <<c>> \in Seq(S) /\ <<a, b, c>> \in Seq(S)
      BY <1>1
    <2>2. QED  BY <1>1, <2>1
  <1>3. Len(r) = 3 /\ r[1] = a /\ r[2] = b /\ r[3] = c
    OBVIOUS
  <1> HIDE DEF l, r
  <1>4. \A i \in 1 .. 3 : l[i] = r[i]
    BY <1>2, <1>3
  <1>5. l = r
    BY <1>2, <1>3, <1>4, SeqEqual
  <1>6. QED  BY <1>5 DEF l, r

LEMMA InHere == \A e : User!Here \o <<e>> = <<currContainerName, currTestrigName, e>>
  BY Triple DEF User!Here

\* What a command that is carried out relies on: it is about the container whose name
\* is kept, its work is of a testrig that exists, and a work of init-testrig that has
\* ended normally has parsed the testrig.
CommandInv ==
  /\ command.pc = "idle" => command = User!Idle
  /\ command.kind = "init-testrig" => command.arg \in Name
  /\ command.kind = "init-diff-env" => command.arg \in Env
  /\ command.pc = "container" =>
       currContainerName = None /\ command.kind = "init-testrig"
  /\ work # "none" => command.pc \in {"poll", "log"}
  /\ work = "pending" => User!Target \in testrigs
  /\ work = "normally" /\ command.kind = "init-testrig" => User!Target \in parsed

\* The types of the variables of Client, in three parts.
NamesType ==
  /\ currContainerName \in User!Container \cup {None}
  /\ currTestrigName \in Name \cup {None}
  /\ currDiffEnv \in Env \cup {None}
  /\ command \in [kind : User!Kind, arg : Name \cup Env \cup {None},
                  pc : {"idle", "container", "upload", "queue", "poll", "log"}]
  /\ work \in {"none", "pending", "normally", "abnormally", "forgotten"}
DirsType ==
  /\ containers \subseteq User!Container
  /\ testrigs \subseteq User!Container \X Name
  /\ environments \subseteq User!Container \X Name \X Env
  /\ parsed \subseteq testrigs
CountsType ==
  /\ restarted \in BOOLEAN
  /\ made \in 0 .. MaxContainers
  /\ given \in 0 .. MaxCommands
  /\ trusted \subseteq {"testrig", "diffEnv"}

LEMMA UserTypes == User!TypeOK <=> NamesType /\ DirsType /\ CountsType
  BY DEF User!TypeOK, NamesType, DirsType, CountsType

UserInv == User!TypeOK /\ CommandInv /\ NamesAreGood

LEMMA UserInitHolds == User!Init => UserInv
  <1> SUFFICES ASSUME User!Init PROVE UserInv
    OBVIOUS
  <1> USE BoundsAssumption DEF User!Init, User!Idle
  <1>1. User!TypeOK
    <2>1. NamesType
      BY DEF NamesType, User!Kind
    <2>2. DirsType
      BY DEF DirsType
    <2>3. made \in 0 .. MaxContainers /\ given \in 0 .. MaxCommands
      OBVIOUS
    <2>4. CountsType
      BY <2>3 DEF CountsType
    <2>5. QED  BY <2>4, <2>1, <2>2, <2>3, UserTypes
  <1>2. CommandInv
    BY DEF CommandInv
  <1>3. NamesAreGood
    BY DEF NamesAreGood, User!NamesAreGood
  <1>4. QED  BY <1>1, <1>2, <1>3 DEF UserInv

\* What the coordinator does with an upload.
LEMMA UploadTypes ==
  ASSUME UserInv, User!Uploads
  PROVE  /\ DirsType'
         /\ testrigs \subseteq testrigs' /\ environments \subseteq environments'
         /\ command.kind = "init-diff-env" =>
              <<currContainerName, currTestrigName, command.arg>> \in environments'
  <1> USE DEF UserInv, User!TypeOK, User!Uploads, User!CanUpload, User!Container, DirsType
  <1>1. CASE command.kind = "init-testrig"
    <2>1. User!Target \in User!Container \X Name
      BY <1>1 DEF User!Target, CommandInv
    <2>2. QED  BY <1>1, <2>1
  <1>2. CASE command.kind = "init-diff-env"
    <2>1. <<currContainerName, currTestrigName, command.arg>>
            \in User!Container \X Name \X Env
      BY <1>2 DEF User!Here, CommandInv
    <2>2. QED  BY <1>2, <2>1, InHere
  <1>3. CASE command.kind \notin {"init-testrig", "init-diff-env"}
    BY <1>3
  <1>4. QED  BY <1>1, <1>2, <1>3

LEMMA NextNumber ==
  ASSUME NEW n \in 0 .. MaxContainers, n < MaxContainers
  PROVE  n + 1 \in 1 .. MaxContainers
  BY BoundsAssumption

LEMMA UserNextHolds ==
  ASSUME UserInv, [User!Next]_clientVars
  PROVE  UserInv'
  <1> USE BoundsAssumption, TimeAssumption
      DEF UserInv, User!TypeOK, User!Kind, User!Container, NamesAreGood,
          User!NamesAreGood, User!names, User!dirVars
  <1>1. ASSUME User!InitContainer PROVE UserInv'
    <2> USE <1>1 DEF User!InitContainer, User!Give, User!MakeContainer, User!Idle
    <2>1. User!TypeOK'
      <3>1. NamesType'
        BY DEF NamesType, CommandInv
      <3>2. DirsType'
        <4>1. containers' \subseteq 1 .. MaxContainers
          <5>1. made < MaxContainers => made + 1 \in 1 .. MaxContainers
            BY NextNumber
          <5>2. QED  BY <5>1
        <4>2. QED  BY <4>1 DEF DirsType
      <3>3. CountsType'
        BY DEF CountsType
      <3>4. QED  BY <3>1, <3>2, <3>3 DEF User!TypeOK, NamesType, DirsType, CountsType
    <2>2. CommandInv'
      BY InHere DEF CommandInv, User!Here, User!Target
    <2>3. NamesAreGood'
      BY InHere DEF CommandInv, User!Here, User!Target
    <2>4. QED  BY <2>1, <2>2, <2>3
  <1>2. ASSUME User!SetNames PROVE UserInv'
    <2> USE <1>2 DEF User!SetNames, User!Give, User!Idle
    <2>1. User!TypeOK'
      <3>1. NamesType'
        BY DEF NamesType, CommandInv
      <3>2. DirsType'
        BY InHere DEF DirsType, CommandInv, User!Here, User!Target
      <3>3. CountsType'
        <4>1. given' \in 0 .. MaxCommands
          OBVIOUS
        <4>2. trusted' \subseteq {"testrig", "diffEnv"}
          OBVIOUS
        <4>3. QED  BY <4>1, <4>2 DEF CountsType
      <3>4. QED  BY <3>1, <3>2, <3>3 DEF User!TypeOK, NamesType, DirsType, CountsType
    <2>2. CommandInv'
      BY InHere DEF CommandInv, User!Here, User!Target
    <2>3. NamesAreGood'
      BY InHere DEF CommandInv, User!Here, User!Target
    <2>4. QED  BY <2>1, <2>2, <2>3
  <1>3. ASSUME User!Delete PROVE UserInv'
    <2> USE <1>3 DEF User!Delete, User!Give, User!Idle
    <2>1. User!TypeOK'
      <3>1. NamesType'
        BY DEF NamesType, CommandInv
      <3>2. DirsType'
        BY InHere DEF DirsType, CommandInv, User!Here, User!Target
      <3>3. CountsType'
        BY DEF CountsType
      <3>4. QED  BY <3>1, <3>2, <3>3 DEF User!TypeOK, NamesType, DirsType, CountsType
    <2>2. CommandInv'
      BY InHere DEF CommandInv, User!Here, User!Target
    <2>3. NamesAreGood'
      BY InHere DEF CommandInv, User!Here, User!Target
    <2>4. QED  BY <2>1, <2>2, <2>3
  <1>4. ASSUME NEW kind \in User!Kind, NEW arg \in Name \cup Env \cup {None},
               NEW pc \in {"container", "upload", "queue"},
               User!Begin(kind, arg, pc),
               kind = "init-testrig" => arg \in Name,
               kind = "init-diff-env" => arg \in Env,
               pc = "container" => currContainerName = None /\ kind = "init-testrig"
        PROVE  UserInv'
    BY <1>4 DEF User!Begin, User!Give, CommandInv, User!Idle, User!Here, User!Target
  <1>5. ASSUME User!Uploaded PROVE UserInv'
    <2> USE <1>5 DEF User!Uploaded
    <2>1. /\ DirsType' /\ UNCHANGED <<containers, parsed, made>>
          /\ testrigs \subseteq testrigs' /\ environments \subseteq environments'
          /\ command.kind = "init-diff-env" =>
               <<currContainerName, currTestrigName, command.arg>> \in environments'
      BY UploadTypes DEF User!Uploads
    <2>2. User!TypeOK'
      <3>1. NamesType'
        BY DEF NamesType, CommandInv, User!GoOn, User!ToGenerate, User!Idle
      <3>2. CountsType'
        BY <2>1 DEF CountsType
      <3>3. QED
        BY <2>1, <3>1, <3>2 DEF User!TypeOK, NamesType, DirsType, CountsType
    <2>3. CommandInv'
      BY <2>1 DEF CommandInv, User!GoOn, User!ToGenerate, User!Idle
    <2>4. NamesAreGood'
      <3>1. CASE command.kind = "init-diff-env"
        <4>1. (User!Here \o <<currDiffEnv>>)' =
                <<currContainerName, currTestrigName, command.arg>>
          BY <3>1, Triple DEF User!Here
        <4>2. User!Here' = User!Here
          BY DEF User!Here
        <4>3. "testrig" \in trusted' => "testrig" \in trusted
          BY <3>1
        <4>4. QED  BY <2>1, <3>1, <4>1, <4>2, <4>3
      <3>2. CASE command.kind # "init-diff-env"
        BY <2>1, <3>2 DEF User!Here
      <3>3. QED  BY <3>1, <3>2
    <2>5. QED  BY <2>2, <2>3, <2>4
  <1>6. ASSUME User!InitContainerFirst PROVE UserInv'
    BY <1>6, InHere DEF User!InitContainerFirst, User!MakeContainer, User!GoOn, User!Idle, User!Here, User!Target, CommandInv
  <1>7. ASSUME User!UploadFails PROVE UserInv'
    <2> USE <1>7 DEF User!UploadFails
    <2>1. /\ DirsType' /\ UNCHANGED <<containers, parsed, made>>
          /\ testrigs \subseteq testrigs' /\ environments \subseteq environments'
      BY UploadTypes DEF User!Uploads, DirsType
    <2>2. User!TypeOK'
      <3>1. NamesType'
        BY DEF NamesType, User!Idle
      <3>2. CountsType'
        BY <2>1 DEF CountsType
      <3>3. QED
        BY <2>1, <3>1, <3>2 DEF User!TypeOK, NamesType, DirsType, CountsType
    <2>3. CommandInv'
      BY <2>1 DEF CommandInv, User!Idle
    <2>4. NamesAreGood'
      BY <2>1 DEF User!Here
    <2>5. QED  BY <2>2, <2>3, <2>4
  <1>8. ASSUME User!QueueWork PROVE UserInv'
    BY <1>8 DEF User!QueueWork, User!GoOn, User!Idle, User!Here, User!Target, CommandInv
  <1>9. ASSUME User!QueueWorkFails PROVE UserInv'
    BY <1>9 DEF User!QueueWorkFails, User!Idle, User!Here, User!Target, CommandInv
  <1>10. ASSUME User!GetWorkStatus PROVE UserInv'
    BY <1>10 DEF User!GetWorkStatus, User!GoOn, User!Idle, User!Here, User!Target, CommandInv
  <1>11. ASSUME User!GetLog PROVE UserInv'
    <2> USE <1>11 DEF User!GetLog, User!ToGenerate, User!Idle
    <2>1. User!TypeOK'
      <3>1. NamesType'
        BY DEF NamesType, CommandInv
      <3>2. DirsType'
        BY InHere DEF DirsType, CommandInv, User!Here, User!Target
      <3>3. CountsType'
        BY DEF CountsType
      <3>4. QED  BY <3>1, <3>2, <3>3 DEF User!TypeOK, NamesType, DirsType, CountsType
    <2>2. CommandInv'
      BY InHere DEF CommandInv, User!Here, User!Target
    <2>3. NamesAreGood'
      BY InHere DEF CommandInv, User!Here, User!Target
    <2>4. QED  BY <2>1, <2>2, <2>3
  <1>12. ASSUME User!GetLogFails PROVE UserInv'
    BY <1>12 DEF User!GetLogFails, User!Idle, User!Here, User!Target, CommandInv
  <1>13. ASSUME User!EndWork PROVE UserInv'
    BY <1>13 DEF User!EndWork, User!Idle, User!Here, User!Target, CommandInv
  <1>14. ASSUME User!Restart PROVE UserInv'
    BY <1>14 DEF User!Restart, User!Idle, User!Here, User!Target, CommandInv
  <1>15. ASSUME NEW n \in Name, User!BeginInitTestrig(n) PROVE UserInv'
    BY <1>4, <1>15 DEF User!BeginInitTestrig, User!IsSetContainer
  <1>16. ASSUME NEW e \in Env, User!BeginInitDiffEnv(e) PROVE UserInv'
    BY <1>4, <1>16 DEF User!BeginInitDiffEnv
  <1>17. CASE User!BeginAnswer \/ User!BeginGenerate
    BY <1>4, <1>17 DEF User!BeginAnswer, User!BeginGenerate
  <1>18. CASE UNCHANGED clientVars
    BY <1>18 DEF clientVars, CommandInv, User!Here, User!Target
  <1>19. QED
    BY <1>1, <1>2, <1>3, <1>5, <1>6, <1>7, <1>8, <1>9, <1>10, <1>11, <1>12, <1>13,
       <1>14, <1>15, <1>16, <1>17, <1>18 DEF User!Next, User!Step

\* After init-testrig and init-diff-env have succeeded, the names that Client keeps
\* name a testrig that was parsed and an environment of it, through whatever requests
\* fail and whatever restarts.
THEOREM NamesStayGood == User!Spec => []NamesAreGood
  <1>1. UserInv /\ [User!Next]_(User!vars) => UserInv'
    BY UserNextHolds DEF User!vars, User!names, User!dirVars, clientVars
  <1>2. UserInv => NamesAreGood
    BY DEF UserInv
  <1>3. QED  BY <1>1, <1>2, UserInitHolds, PTL DEF User!Spec
-----------------------------------------------------------------------------
(* Startup, and all parts side by side.                                    *)

\* The managers come one after the other, and a task runs only through its own.
StartInv ==
  /\ Start!TypeOK
  /\ "pool" \in published <=> main > 3
  /\ "work" \in published <=> main > 6
  /\ task["work"] = "running" => "work" \in published

LEMMA StartInitHolds == Start!Init => StartInv
  BY DEF Start!Init, StartInv, Start!TypeOK, Start!Steps, Start!Manager

LEMMA StartNextHolds ==
  ASSUME StartInv, [Start!Next]_startVars
  PROVE  StartInv'
  <1> USE DEF StartInv, Start!TypeOK
  <1>1. /\ Len(Start!Steps) = 6
        /\ Start!Steps[3] = <<"pool", "publish">>
        /\ Start!Steps[6] = <<"work", "publish">>
        /\ \A k \in {1, 2, 4, 5} : Start!Steps[k][2] # "publish"
    BY DEF Start!Steps
  <1>2. ASSUME NEW m \in Start!Manager, NEW step, Start!Main(m, step)
        PROVE  /\ main \in 1 .. 6 /\ main' = main + 1
               /\ step = "publish" =>
                    (m = "pool" /\ main = 3) \/ (m = "work" /\ main = 6)
               /\ step # "publish" => main # 3 /\ main # 6
    <2>1. main \in 1 .. 6 /\ main' = main + 1
      BY <1>1, <1>2 DEF Start!Main
    <2>2. Start!Steps[main] = <<m, step>>
      BY <1>2 DEF Start!Main
    <2>3. Start!Steps[main][1] = m /\ Start!Steps[main][2] = step
      BY <2>2
    <2>4. CASE main = 3
      BY <1>1, <2>1, <2>3, <2>4
    <2>5. CASE main = 6
      BY <1>1, <2>1, <2>3, <2>5
    <2>6. CASE main \in {1, 2, 4, 5}
      <3>1. step # "publish"
        BY <1>1, <2>3, <2>6
      <3>2. QED  BY <2>1, <2>6, <3>1
    <2>7. QED  BY <2>1, <2>4, <2>5, <2>6
  <1>3. ASSUME NEW m \in Start!Manager, Start!CreateHttpServer(m) \/ Start!Construct(m)
        PROVE  StartInv'
    <2>1. main \in 1 .. 6 /\ main' = main + 1 /\ main # 3 /\ main # 6
      BY <1>2, <1>3 DEF Start!CreateHttpServer, Start!Construct
    <2>2. published' = published /\ (task'["work"] = "running" => task["work"] = "running")
      BY <1>3 DEF Start!CreateHttpServer, Start!Construct, Start!Manager
    <2>3. Start!TypeOK'
      BY <1>1, <1>3, <2>1 DEF Start!CreateHttpServer, Start!Construct
    <2>4. QED  BY <2>1, <2>2, <2>3
  <1>4. ASSUME NEW m \in Start!Manager, Start!Publish(m) PROVE StartInv'
    <2>1. /\ main \in 1 .. 6
          /\ main' = main + 1
          /\ (m = "pool" /\ main = 3) \/ (m = "work" /\ main = 6)
      BY <1>2, <1>4 DEF Start!Publish
    <2>2. /\ published' = published \cup {m}
          /\ serving' = serving /\ task' = task /\ registration' = registration
      BY <1>4 DEF Start!Publish
    <2>3. Start!TypeOK'
      <3>1. main' \in 1 .. (Len(Start!Steps) + 1)
        BY <1>1, <2>1
      <3>2. published' \subseteq Start!Manager
        BY <1>4, <2>2
      <3>3. QED  BY <2>2, <3>1, <3>2
    <2>4. QED  BY <2>1, <2>2, <2>3
  <1>5. ASSUME NEW m \in Start!Manager, Start!TaskNext(m) PROVE StartInv'
    BY <1>5 DEF Start!TaskNext, Start!RunTask, Start!TaskReturns, Start!Manager
  <1>6. ASSUME NEW x \in Worker, Start!RegistrationNext(x) PROVE StartInv'
    BY <1>6 DEF Start!RegistrationNext, Start!AskToRegister, Start!AnswerRegistration
  <1>7. CASE UNCHANGED startVars
    BY <1>7 DEF startVars
  <1>8. QED  BY <1>3, <1>4, <1>5, <1>6, <1>7 DEF Start!Next, Start!MainNext

LEMMA StartInvImplies == StartInv => Start!TypeOK /\ Start!PoolIsThere
  <1> SUFFICES ASSUME StartInv PROVE Start!PoolIsThere
    BY DEF StartInv
  <1>1. main \in Nat
    BY DEF StartInv, Start!TypeOK, Start!Steps
  <1>2. QED  BY <1>1 DEF StartInv, Start!PoolIsThere

\* Whoever has got hold of the work manager, to queue, check or assign works, finds the
\* pool manager too: the field through which assignWork asks for a worker is not null.
THEOREM WorkManagerFindsPool == Start!Spec => []Start!PoolIsThere
  <1>1. StartInv /\ [Start!Next]_(Start!vars) => StartInv'
    BY StartNextHolds DEF Start!vars, startVars
  <1>2. QED  BY <1>1, StartInitHolds, StartInvImplies, PTL DEF Start!Spec

PartsInv == IInv /\ DbInv /\ FileInv /\ StartInv /\ JobInv /\ UserInv

\* The variables of all parts hold values of their types, and the promises of the
\* authorizer, the executor and the client, and of the start, hold of the parts side
\* by side.
THEOREM PartsSafe ==
  MCSpec => [](TypesOK /\ NoneRefused /\ NamesAreGood /\ AllOrException /\ Start!PoolIsThere)
  <1>1. MCInit => PartsInv
    BY InitHolds, DbInitHolds, FileInitHolds, StartInitHolds, JobInitHolds, UserInitHolds
       DEF MCInit, PartsInv
  <1>2. PartsInv /\ [MCNext]_allVars => PartsInv'
    <2> SUFFICES ASSUME PartsInv, [MCNext]_allVars PROVE PartsInv'
      OBVIOUS
    <2>1. /\ [Next]_vars /\ [DbNext]_dbVars /\ [File!Next]_fileVars
          /\ [Start!Next]_startVars /\ [Jobs!Next]_jobVars /\ [User!Next]_clientVars
      BY DEF MCNext, allVars
    <2>2. QED
      BY <2>1, NextHolds, DbNextHolds, FileNextHolds, StartNextHolds, JobNextHolds,
         UserNextHolds DEF PartsInv
  <1>3. PartsInv =>
          TypesOK /\ NoneRefused /\ NamesAreGood /\ AllOrException /\ Start!PoolIsThere
    BY JobInvImplies, StartInvImplies
       DEF PartsInv, IInv, DbInv, FileInv, JobInv, UserInv, TypesOK
  <1>4. QED  BY <1>1, <1>2, <1>3, PTL DEF MCSpec
=============================================================================
