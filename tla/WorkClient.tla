----------------------------- MODULE WorkClient ----------------------------
(***************************************************************************)
(* The web page's client (workclient.js): every click starts an entry      *)
(* point, a chain of calls in which each call is made when the reply to    *)
(* the one before it has arrived and, for a work, when polling has found   *)
(* that it terminated and its log has been fetched.                        *)
(*                                                                         *)
(* The script runs to completion: turn is the entry point for which        *)
(* makeNextCall is running, and no reply, timer or click is handled until  *)
(* it is done.  Entry points share the page's globals (containerName,      *)
(* diffEnvName), the buttons and the spinner.  What the coordinator and    *)
(* its workers do with the requests is at the end: TestrigLife for the     *)
(* testrigs, and works that are pending until they end in some way.        *)
(***************************************************************************)
EXTENDS Naturals, Sequences, FiniteSets

CONSTANTS MaxStarts,    \* bound: the entry points that are started
          None          \* no entry point, empty name, or not in a map

ASSUME BoundsAssumption == MaxStarts \in Nat

Ep  == 1 .. MaxStarts   \* the entry points, in the order of their start
Old == 0                \* the testrig of an earlier session, its environment
Testrig == Ep \cup {Old}        \* a new testrig is named by who uploads it

WorkType == {"parsevendorspecific", "parsevendorindependent", "drawtopology",
             "answerquestion", "answerdiffquestion"}
Answering == {"answerquestion", "answerdiffquestion"}

Status == {"PENDING", "TERMINATEDNORMALLY", "TERMINATEDABNORMALLY",
           "ASSIGNMENTERROR", "FORGOTTEN"}

\* What each button, or the selection of an old testrig, has startCalls do.
Chain == [
  btnLogin  |-> <<"checkAPIKey", "getTestrigs", "login">>,
  btnGuest  |-> <<"login">>,
  btnUpload |-> <<"initcontainer", "uploadtestrigsmart", "parsevendorspecific",
                  "parsevendorindependent", "drawtopology", "posttestriginit">>,
  prevTestrigs |-> <<"showOldTestrig", "drawtopology", "posttestriginit">>,
  btnUploadDiffEnv |-> <<"uploaddiffenvsmart", "postdiffenvinit">>,
  btnAnswer     |-> <<"uploadquestiontext", "answerquestion">>,
  btnAnswerDiff |-> <<"uploadquestiontext", "answerdiffquestion">> ]
Button == DOMAIN Chain

Call == WorkType \cup {"start", "checkAPIKey", "getTestrigs", "login", "initcontainer",
                       "uploadtestrigsmart", "posttestriginit", "showOldTestrig",
                       "uploaddiffenvsmart", "postdiffenvinit", "uploadquestiontext"}

VARIABLES turn, calls,                          \* the script
          epOutput, epWorkGuid, epQuestionName, \* its maps
          timers,                               \* entry points about to poll
          containerName, diffEnvName,           \* the page's globals
          enabled, spinning,                    \* its buttons and spinner
          requests,                             \* on their way or being served
          stage, environments, works,           \* the coordinator
          restarted,                            \* bound: it restarts once
          started, ended, overlapped            \* history

epVars     == <<epOutput, epWorkGuid, epQuestionName>>
pageVars   == <<containerName, diffEnvName, enabled>>
serverVars == <<stage, environments, works, restarted>>
vars == <<turn, calls, epVars, timers, pageVars, spinning, requests, serverVars,
          started, ended, overlapped>>

Store == INSTANCE TestrigLife

Work == [type : WorkType, place : Testrig, status : Status]

\* What is not there is no testrig, no work, and nothing that a map or a request holds.
ASSUME NoneAssumption ==
  None \notin Nat \cup WorkType \cup Work
             \cup {"text", "undefined", "question", "content", "nothing", "serving", "lost"}

Request ==
       [ep : Ep, rsc : {"checkapikey", "listtestrigs", "initcontainer"},
        place : Testrig \cup {None}, body : {None}]
  \cup [ep : Ep, rsc : {"uploadtestrig"}, place : Testrig,
        body : {"content", "nothing", "serving", "lost"}]
  \cup [ep : Ep, rsc : {"uploadenvironment"}, place : Testrig,
        body : {"content", "nothing"}]
  \cup [ep : Ep, rsc : {"uploadquestion"}, place : Testrig, body : {"content"}]
  \cup [ep : Ep, rsc : {"queuework", "getworkstatus", "log", "answer"},
        place : Testrig, body : WorkType]

TypeOK ==
  /\ turn \in Ep \cup {None}
  /\ calls \in [Ep -> Seq(Call)]
  /\ epOutput \in [Ep -> {None, "text", "undefined"}]
  /\ epWorkGuid \in [Ep -> WorkType \cup {None}]
  /\ epQuestionName \in [Ep -> {None, "question"}]
  /\ timers \subseteq Ep
  /\ containerName \in Testrig \cup {None}
  /\ diffEnvName \in Testrig \cup {None}
  /\ enabled \subseteq Button
  /\ spinning \in BOOLEAN
  /\ requests \subseteq Request
  /\ stage \in [Testrig -> Store!Stages]
  /\ environments \subseteq Testrig
  /\ works \in [Ep -> Work \cup {None}]
  /\ restarted \in BOOLEAN
  /\ started \in 0 .. MaxStarts
  /\ ended \subseteq Ep
  /\ overlapped \subseteq Ep

NotInMap == [e \in Ep |-> None]

\* A session that has come this far: the buttons it has enabled, the stage of the
\* testrig of the earlier session, and what was made of that testrig.
Session(buttons, stages, container, made) ==
  /\ enabled = buttons
  /\ \E old \in stages : stage = [t \in Testrig |-> IF t = Old THEN old ELSE "absent"]
  /\ containerName = container
  /\ environments = made
  /\ diffEnvName = IF made = {} THEN None ELSE Old

\* The page as it is loaded; after a login; with the old testrig selected; and
\* with an environment to compare it with.
Init ==
  /\ turn = None
  /\ calls = [e \in Ep |-> <<>>]
  /\ epOutput = NotInMap /\ epWorkGuid = NotInMap /\ epQuestionName = NotInMap
  /\ timers = {} /\ requests = {}
  /\ spinning = FALSE
  /\ LET loggedIn == {"btnGuest", "prevTestrigs"}
         selected == loggedIn \cup {"btnAnswer", "btnUploadDiffEnv"}
         done     == {"independent"}
     IN  \/ Session({"btnLogin", "btnGuest"}, done \cup {"partial"}, None, {})
         \/ Session(loggedIn \cup {"btnUpload"}, done \cup {"uploaded"}, None, {})
         \/ Session(selected, done, Old, {})
         \/ Session(selected \cup {"btnAnswerDiff"}, done, Old, {Old})
  /\ works = NotInMap
  /\ restarted = FALSE
  /\ started = 0
  /\ ended = {} /\ overlapped = {}
-----------------------------------------------------------------------------
(* Entry points: their start, their end and what continues them.           *)

Live == {e \in Ep : e <= started /\ e \notin ended}

\* startCalls.  Whoever is under way at the same time is overlapped.
StartCalls(button) ==
  LET e == started + 1
  IN  /\ turn = None
      /\ started < MaxStarts
      /\ button \in enabled
      /\ started' = e
      /\ turn' = e
      /\ calls' = [calls EXCEPT ![e] = <<"start">> \o Chain[button]]
      /\ epOutput' = [epOutput EXCEPT ![e] = "text"]
      /\ spinning' = TRUE
      /\ overlapped' = IF Live = {} THEN overlapped ELSE overlapped \cup Live \cup {e}
      /\ UNCHANGED <<epWorkGuid, epQuestionName, timers, pageVars, requests,
                     serverVars, ended>>

\* finishEntryPoint.
Finish(e) ==
  /\ spinning' = FALSE
  /\ epOutput' = [epOutput EXCEPT ![e] = None]
  /\ epWorkGuid' = [epWorkGuid EXCEPT ![e] = None]
  /\ epQuestionName' = [epQuestionName EXCEPT ![e] = None]
  /\ ended' = ended \cup {e}

\* makeNextCall when only the call that was just finished is left.  (What is
\* left in the list is not looked at again, and is dropped.)
Done(e) ==
  /\ turn = e
  /\ Len(calls[e]) <= 1
  /\ Finish(e)
  /\ turn' = None
  /\ calls' = [calls EXCEPT ![e] = <<>>]
  /\ UNCHANGED <<timers, pageVars, requests, serverVars, started, overlapped>>

\* makeNextCall when there is a next call.
Shift(e, call) ==
  /\ turn = e
  /\ Len(calls[e]) > 1
  /\ calls[e][2] = call
  /\ calls' = [calls EXCEPT ![e] = Tail(@)]

\* Mutant: the name of the environment goes where the container's belongs.
SendEnvironment(e, rsc, body) ==
  /\ requests' = requests \cup
       {[ep |-> e, rsc |-> rsc, place |-> diffEnvName, body |-> body]}
  /\ turn' = None
  /\ UNCHANGED <<timers, started, overlapped>>

\* bfPostData and bfGetObject, after which the script waits.
Send(e, rsc, body) ==
  /\ requests' = requests \cup
       {[ep |-> e, rsc |-> rsc, place |-> containerName, body |-> body]}
  /\ turn' = None
  /\ UNCHANGED <<timers, started, overlapped>>
-----------------------------------------------------------------------------
(* The calls, up to the request that each one sends.                       *)

CheckAPIKey(e) ==
  /\ Shift(e, "checkAPIKey")
  /\ Send(e, "checkapikey", None)
  /\ UNCHANGED <<epVars, pageVars, spinning, serverVars, ended>>

GetTestrigs(e) ==
  /\ Shift(e, "getTestrigs")
  /\ Send(e, "listtestrigs", None)
  /\ UNCHANGED <<epVars, pageVars, spinning, serverVars, ended>>

\* Mutant: questions can be asked from the login on.
LoginToAll(e) ==
  /\ Shift(e, "login")
  /\ enabled' = (enabled \ {"btnLogin"}) \cup {"btnUpload", "btnAnswer"}
  /\ Finish(e)
  /\ turn' = None
  /\ UNCHANGED <<timers, containerName, diffEnvName, requests, serverVars, started,
                 overlapped>>

\* login ends the entry point itself.
Login(e) ==
  /\ Shift(e, "login")
  /\ enabled' = (enabled \ {"btnLogin"}) \cup {"btnUpload"}
  /\ Finish(e)
  /\ turn' = None
  /\ UNCHANGED <<timers, containerName, diffEnvName, requests, serverVars, started,
                 overlapped>>

InitContainer(e) ==
  /\ Shift(e, "initcontainer")
  /\ Send(e, "initcontainer", None)
  /\ UNCHANGED <<epVars, pageVars, spinning, serverVars, ended>>

\* Without a config text there is an alert and the entry point is finished, but
\* txtToConfigBlob returns to its caller, which uploads what it got: nothing.
Upload(e, rsc) ==
  \/ /\ Send(e, rsc, "content")
     /\ UNCHANGED <<epVars, spinning, ended>>
  \/ /\ Send(e, rsc, "nothing")
     /\ Finish(e)

UploadTestrigSmart(e) ==
  /\ Shift(e, "uploadtestrigsmart")
  /\ Upload(e, "uploadtestrig")
  /\ UNCHANGED <<pageVars, serverVars>>

\* The environment has its name before it is uploaded.
UploadDiffEnvSmart(e) ==
  /\ Shift(e, "uploaddiffenvsmart")
  /\ diffEnvName' = e
  /\ Upload(e, "uploadenvironment")
  /\ UNCHANGED <<containerName, enabled, serverVars>>

\* Without a question there is an alert and that is all.
UploadQuestionText(e) ==
  /\ Shift(e, "uploadquestiontext")
  /\ \/ /\ epQuestionName' = [epQuestionName EXCEPT ![e] = "question"]
        /\ Send(e, "uploadquestion", "content")
        /\ UNCHANGED <<epOutput, epWorkGuid, spinning, ended>>
     \/ /\ Finish(e)
        /\ turn' = None
        /\ UNCHANGED <<timers, requests, started, overlapped>>
  /\ UNCHANGED <<pageVars, serverVars>>

\* Its other effect, on the text of the base box, is in ConfigInput.
ShowOldTestrig(e) ==
  /\ Shift(e, "showOldTestrig")
  /\ containerName' = Old
  /\ UNCHANGED <<turn, epVars, timers, diffEnvName, enabled, spinning, requests,
                 serverVars, started, ended, overlapped>>

PostTestrigInit(e) ==
  /\ Shift(e, "posttestriginit")
  /\ enabled' = (enabled \ {"btnUpload"}) \cup {"btnAnswer", "btnUploadDiffEnv"}
  /\ UNCHANGED <<turn, epVars, timers, containerName, diffEnvName, spinning,
                 requests, serverVars, started, ended, overlapped>>

PostDiffEnvInit(e) ==
  /\ Shift(e, "postdiffenvinit")
  /\ enabled' = enabled \cup {"btnAnswerDiff"}
  /\ UNCHANGED <<turn, epVars, timers, containerName, diffEnvName, spinning,
                 requests, serverVars, started, ended, overlapped>>

\* The work gets a new GUID, here its type, and goes to the testrig that the
\* page is at now.
QueueWork(e, type) ==
  /\ Shift(e, type)
  /\ epWorkGuid' = [epWorkGuid EXCEPT ![e] = type]
  /\ Send(e, "queuework", type)
  /\ UNCHANGED <<epOutput, epQuestionName, pageVars, spinning, serverVars, ended>>

MakeNextCall(e) ==
  \/ Done(e)
  \/ CheckAPIKey(e)
  \/ GetTestrigs(e)
  \/ Login(e)
  \/ InitContainer(e)
  \/ UploadTestrigSmart(e)
  \/ UploadDiffEnvSmart(e)
  \/ UploadQuestionText(e)
  \/ ShowOldTestrig(e)
  \/ PostTestrigInit(e)
  \/ PostDiffEnvInit(e)
  \/ \E type \in WorkType : QueueWork(e, type)
-----------------------------------------------------------------------------
(* The callbacks.  A request that is answered goes to its callback, which in   *)
(* most cases makes the next call.                                             *)

\* The reply to r arrives, and sends the requests of more.
Reply(r, more) ==
  /\ turn = None
  /\ r \in requests
  /\ requests' = (requests \ {r}) \cup more
  /\ UNCHANGED <<started, overlapped>>

Resume(r) ==
  /\ Reply(r, {})
  /\ turn' = r.ep

\* The reply ends the entry point.
Stop(r) ==
  /\ Reply(r, {})
  /\ Finish(r.ep)
  /\ UNCHANGED <<turn, timers, pageVars>>

CheckApiKey_cb(r) ==
  /\ r.rsc = "checkapikey"
  /\ \/ Resume(r) /\ UNCHANGED <<epVars, timers, pageVars, spinning, ended>>
     \/ Stop(r)
  /\ UNCHANGED <<calls, serverVars>>

\* The coordinator lists no testrig when one of them has no files to show.
GetTestrigs_cb(r) ==
  /\ r.rsc = "listtestrigs"
  /\ stage[Old] # "partial"
  /\ Resume(r)
  /\ enabled' = enabled \cup {"prevTestrigs"}
  /\ UNCHANGED <<calls, epVars, timers, containerName, diffEnvName, spinning,
                 serverVars, ended>>

InitContainer_cb(r) ==
  /\ r.rsc = "initcontainer"
  /\ Store!InitContainer(r.ep)
  /\ Resume(r)
  /\ containerName' = r.ep
  /\ UNCHANGED <<calls, epVars, timers, diffEnvName, enabled, spinning, environments,
                 works, restarted, ended>>

\* The coordinator has made the directory and works on the zip file.
ServeUpload(r) ==
  /\ r.rsc = "uploadtestrig" /\ r.body = "content"
  /\ Store!Begin(r.place)
  /\ Reply(r, {[r EXCEPT !.body = "serving"]})
  /\ UNCHANGED <<turn, calls, epVars, timers, pageVars, spinning, environments, works,
                 restarted, ended>>

UploadTestrig_cb(r) ==
  /\ r.rsc = "uploadtestrig" /\ r.body = "serving"
  /\ Store!Complete(r.place)
  /\ Resume(r)
  /\ UNCHANGED <<calls, epVars, timers, pageVars, spinning, environments, works,
                 restarted, ended>>

UploadDifEnv_cb(r) ==
  /\ r.rsc = "uploadenvironment" /\ r.body = "content"
  /\ stage[r.place] \in Store!WithDirectory
  /\ Resume(r)
  /\ environments' = environments \cup {r.ep}
  /\ UNCHANGED <<calls, epVars, timers, pageVars, spinning, stage, works, restarted,
                 ended>>

UploadQuestion_cb(r) ==
  /\ r.rsc = "uploadquestion"
  /\ stage[r.place] \in Store!WithDirectory
  /\ Resume(r)
  /\ UNCHANGED <<calls, epVars, timers, pageVars, spinning, serverVars, ended>>

\* Mutant: the testrig is taken from the entry point and not from the request.
TakeWorkOf(r) ==
  /\ r.rsc = "queuework"
  /\ stage[r.place] \in Store!WithDirectory
  /\ works' = [works EXCEPT ![r.ep] =
                 [type |-> r.body, place |-> r.ep, status |-> "PENDING"]]
  /\ UNCHANGED <<stage, environments, restarted>>

\* The coordinator takes a work for every testrig that has a directory.
TakeWork(r) ==
  /\ r.rsc = "queuework"
  /\ stage[r.place] \in Store!WithDirectory
  /\ works' = [works EXCEPT ![r.ep] =
                 [type |-> r.body, place |-> r.place, status |-> "PENDING"]]
  /\ UNCHANGED <<stage, environments, restarted>>

\* A request about the current work of an entry point.
About(e, rsc) ==
  [ep |-> e, rsc |-> rsc, place |-> containerName, body |-> epWorkGuid[e]]

QueueWork_cb(r) ==
  /\ TakeWork(r)
  /\ Reply(r, {About(r.ep, "getworkstatus")})
  /\ UNCHANGED <<turn, calls, epVars, timers, pageVars, spinning, ended>>

\* The timer fires.
CheckWork(e) ==
  /\ turn = None
  /\ e \in timers
  /\ timers' = timers \ {e}
  /\ requests' = requests \cup {About(e, "getworkstatus")}
  /\ UNCHANGED <<turn, calls, epVars, pageVars, spinning, serverVars, started, ended,
                 overlapped>>

\* Mutant: poll again at once, and later.
CheckTwice(r) ==
  /\ works[r.ep].status = "PENDING"
  /\ Reply(r, {r})
  /\ timers' = timers \cup {r.ep}
  /\ UNCHANGED <<calls, epWorkGuid>>

\* The work is still under way: poll again later.
CheckAgain(r) ==
  /\ works[r.ep].status = "PENDING"
  /\ Reply(r, {})
  /\ timers' = timers \cup {r.ep}
  /\ UNCHANGED <<calls, epWorkGuid>>

\* The work terminated: fetch its log, and its answer if it is a question.
FetchResults(r) ==
  /\ works[r.ep].status = "TERMINATEDNORMALLY"
  /\ Reply(r, {About(r.ep, "log")} \cup
              (IF r.body \in Answering THEN {About(r.ep, "answer")} ELSE {}))
  /\ epWorkGuid' = [epWorkGuid EXCEPT ![r.ep] = None]
  /\ UNCHANGED <<calls, timers>>

\* Mutant: the remaining calls are made whatever became of the work.
FetchLogAndGoOn(r) ==
  /\ works[r.ep].status \in {"TERMINATEDABNORMALLY", "ASSIGNMENTERROR"}
  /\ Reply(r, {About(r.ep, "log")})
  /\ epWorkGuid' = [epWorkGuid EXCEPT ![r.ep] = None]
  /\ UNCHANGED <<calls, timers>>

\* It did not: fetch its log, and ignore the remaining calls.
FetchLogOnly(r) ==
  /\ works[r.ep].status \in {"TERMINATEDABNORMALLY", "ASSIGNMENTERROR"}
  /\ Reply(r, {About(r.ep, "log")})
  /\ calls' = [calls EXCEPT ![r.ep] = <<>>]
  /\ epWorkGuid' = [epWorkGuid EXCEPT ![r.ep] = None]
  /\ UNCHANGED timers

\* Mutant: a status that means that no worker could be assigned is unknown.
CheckKnown_cb(r) ==
  /\ r.rsc = "getworkstatus"
  /\ \/ CheckAgain(r)
     \/ FetchResults(r)
     \/ works[r.ep].status = "TERMINATEDABNORMALLY" /\ FetchLogOnly(r)
     \/ /\ works[r.ep].status = "ASSIGNMENTERROR"
        /\ Reply(r, {})
        /\ UNCHANGED <<calls, epWorkGuid, timers>>
  /\ UNCHANGED <<turn, epOutput, epQuestionName, pageVars, spinning, serverVars, ended>>

CheckWork_cb(r) ==
  /\ r.rsc = "getworkstatus"
  /\ CheckAgain(r) \/ FetchResults(r) \/ FetchLogOnly(r)
  /\ UNCHANGED <<turn, epOutput, epQuestionName, pageVars, spinning, serverVars, ended>>

\* A log, or an answer, is in the testrig where the work was done.
Fetched(r, rsc) ==
  /\ r.rsc = rsc
  /\ works[r.ep].place = r.place

Draws(r) == calls[r.ep] # <<>> /\ Head(calls[r.ep]) = "drawtopology"

\* += on an entry that is not in the map gives "undefined" and the log.
GetLog_cb(r) ==
  /\ Fetched(r, "log")
  /\ ~Draws(r)
  /\ Resume(r)
  /\ epOutput' = [epOutput EXCEPT ![r.ep] = IF @ = None THEN "undefined" ELSE @]
  /\ UNCHANGED <<calls, epWorkGuid, epQuestionName, timers, pageVars, spinning,
                 serverVars, ended>>

\* The log is the topology.  One that cannot be drawn finishes the entry point,
\* and then the next call is made.
GetTopology_cb(r) ==
  /\ Fetched(r, "log")
  /\ Draws(r)
  /\ Resume(r)
  /\ Finish(r.ep) \/ UNCHANGED <<epVars, spinning, ended>>
  /\ UNCHANGED <<calls, timers, pageVars, serverVars>>

\* An answer whose highlights cannot be shown finishes the entry point.
GetAnsJson_cb(r) ==
  /\ Fetched(r, "answer")
  /\ \/ Reply(r, {}) /\ UNCHANGED <<turn, epVars, timers, pageVars, spinning, ended>>
     \/ Stop(r)
  /\ UNCHANGED <<calls, serverVars>>

\* What the coordinator may have done about a request whose reply is a failure
\* or is lost: something is left of an upload, or all was done.
DoneInVain(r) ==
  \/ r.rsc = "uploadtestrig" /\ r.body = "serving" /\
       (Store!Complete(r.place) \/ Store!Discard(r.place))
     /\ UNCHANGED <<environments, works, restarted>>
  \/ r.rsc = "uploadtestrig" /\ r.body = "nothing" /\ Store!Begin(r.place)
     /\ UNCHANGED <<environments, works, restarted>>
  \/ r.rsc = "uploadenvironment" /\ r.body = "content"
     /\ stage[r.place] \in Store!WithDirectory
     /\ environments' = environments \cup {r.ep}
     /\ UNCHANGED <<stage, works, restarted>>
  \/ TakeWork(r)

\* Mutant: the next call is made after a failure too.
CarryOn_cb(r) ==
  /\ Resume(r)
  /\ UNCHANGED <<calls, epVars, timers, pageVars, spinning, ended>>
  /\ DoneInVain(r) \/ UNCHANGED serverVars

\* genericFailure_cb.
GenericFailure_cb(r) ==
  /\ Stop(r)
  /\ calls' = [calls EXCEPT ![r.ep] = <<>>]
  /\ DoneInVain(r) \/ UNCHANGED serverVars

Callback(r) ==
  \/ CheckApiKey_cb(r)
  \/ GetTestrigs_cb(r)
  \/ InitContainer_cb(r)
  \/ ServeUpload(r)
  \/ UploadTestrig_cb(r)
  \/ UploadDifEnv_cb(r)
  \/ UploadQuestion_cb(r)
  \/ QueueWork_cb(r)
  \/ CheckWork_cb(r)
  \/ GetLog_cb(r)
  \/ GetTopology_cb(r)
  \/ GetAnsJson_cb(r)
  \/ GenericFailure_cb(r)
-----------------------------------------------------------------------------
(* The workers: a work ends, and one that ends normally has done its part.  *)

EndWork(e) ==
  /\ turn = None
  /\ works[e] # None
  /\ works[e].status = "PENDING"
  /\ \E end \in Status \ {"PENDING", "FORGOTTEN"} :
       /\ works' = [works EXCEPT ![e].status = end]
       /\ IF end # "TERMINATEDNORMALLY" THEN UNCHANGED stage
          ELSE CASE works[e].type = "parsevendorspecific" ->
                      Store!ParseVendor(works[e].place)
                 [] works[e].type = "parsevendorindependent" ->
                      Store!ParseIndependent(works[e].place)
                 [] OTHER -> /\ stage[works[e].place] = "independent"
                             /\ UNCHANGED stage
  /\ UNCHANGED <<turn, calls, epVars, timers, pageVars, spinning, requests,
                 environments, restarted, started, ended, overlapped>>

\* The coordinator restarts: its queues are in memory only, so it knows no work
\* any more that somebody may still ask about, and an upload that was served
\* stays as far as it got.  (Of other works the record is kept as history.)
Restart ==
  /\ ~restarted
  /\ turn = None
  /\ LET asked(e) == works[e] # None /\ epWorkGuid[e] = works[e].type
     IN  works' = [e \in Ep |-> IF asked(e)
                               THEN [works[e] EXCEPT !.status = "FORGOTTEN"]
                               ELSE works[e]]
  /\ requests' = {IF r.body = "serving" THEN [r EXCEPT !.body = "lost"] ELSE r :
                     r \in requests}
  /\ restarted' = TRUE
  /\ UNCHANGED <<turn, calls, epVars, timers, pageVars, spinning, stage, environments,
                 started, ended, overlapped>>

Next ==
  \/ \E button \in Button : StartCalls(button)
  \/ \E e \in Ep : MakeNextCall(e) \/ CheckWork(e) \/ EndWork(e)
  \/ \E r \in requests : Callback(r)
  \/ Restart

Spec == Init /\ [][Next]_vars

\* The script runs, timers fire, requests are answered or fail, works end.
\* Nobody has to click.
Fairness == \A e \in Ep :
  /\ WF_vars(MakeNextCall(e)) /\ WF_vars(CheckWork(e)) /\ WF_vars(EndWork(e))
  /\ WF_vars(\E r \in requests : r.ep = e /\ Callback(r))

FairSpec == Spec /\ Fairness
-----------------------------------------------------------------------------
(* What the page can rely on.                                              *)

NextCall(e) ==
  IF turn = e /\ Len(calls[e]) > 1 THEN calls[e][2] ELSE "none"

\* A chain neither forks nor gets stuck: while an entry point is under way one
\* thing and no more will continue it, the script, a timer or the reply to a
\* request; beside it there is at most a request for an answer.  Of one that is
\* finished no timer is left, nothing that would send another request, and, once
\* the script has run, nothing in the maps ("display any output and delete
\* everything"), whatever of it is called after that.
OneThread == \A e \in Ep :
  LET waits == {r \in requests : r.ep = e /\ r.rsc # "answer"}
      polls == timers \cap {e}
  IN  /\ e \in Live => Cardinality(waits) + Cardinality(polls)
                         = (IF turn = e THEN 0 ELSE 1)
      /\ e \notin Live =>
           /\ polls = {}
           /\ \A r \in waits : r.rsc = "log" \/ r.body = "nothing"
           /\ NextCall(e) \in {"none", "posttestriginit"}
      /\ turn = None /\ e \in ended =>
           epOutput[e] = None /\ epWorkGuid[e] = None /\ epQuestionName[e] = None

\* What errorCheck and checkWork test before they go on always holds on this
\* page, whatever is clicked when: a work is queued with a testrig, a question
\* and, to compare, an environment that have a name, and the work that is polled,
\* or fetched from, is the current one.
ChecksHold == \A e \in Ep :
  /\ NextCall(e) \in WorkType \cup {"uploadquestiontext", "uploaddiffenvsmart"} =>
       containerName # None
  /\ NextCall(e) \in Answering => epQuestionName[e] # None
  /\ NextCall(e) = "answerdiffquestion" => diffEnvName # None
  /\ e \in timers => epWorkGuid[e] # None
  /\ \A r \in requests : r.ep = e /\ r.rsc = "getworkstatus" =>
       r.body = epWorkGuid[e] /\ works[e].type = r.body

\* A work is handed to the coordinator only when the work that comes before it in
\* the chain of its entry point terminated normally, whatever failed meanwhile.
InOrder == [][\A e \in Ep :
  works'[e] # None /\ works'[e].status = "PENDING" /\ works[e] # works'[e]
    /\ works[e] # None =>
      /\ works[e].status = "TERMINATEDNORMALLY"
      /\ <<works[e].type, works'[e].type>> \in
           {<<"parsevendorspecific", "parsevendorindependent">>,
            <<"parsevendorindependent", "drawtopology">>}]_vars

\* When a chain that no other chain overlapped gets to enable the buttons for
\* questions, what a question needs is there: the parsed testrig, and, to compare
\* with, the environment.
ReadyWhenEnabled == \A e \in Ep \ overlapped :
  /\ NextCall(e) = "posttestriginit" => stage[containerName] = "independent"
  /\ NextCall(e) = "postdiffenvinit" => diffEnvName \in environments

\* Unless another chain overlapped, results are fetched from the testrig in which
\* the work was done: containerName is read again for every request.
FetchedWhereDone == \A r \in requests :
  r.rsc \in {"log", "answer"} /\ r.ep \notin overlapped =>
    r.place = works[r.ep].place

\* Every entry point that is started is finished, though replies get lost, works
\* fail and the coordinator restarts and forgets them.
EveryChainEnds == \A e \in Ep : e <= started ~> e \in ended

\* "we are done with this entrypoint": one that is finished asks for nothing more.
DoneIsDone == [][\A r \in requests' \ requests : r.ep \notin ended']_vars
=============================================================================
