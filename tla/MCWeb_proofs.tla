---------------------------- MODULE MCWeb_proofs ----------------------------
(***************************************************************************)
(* The safety of the web page, for any number of entry points, clicks,     *)
(* replies that get lost and works that fail: the chains of calls of       *)
(* WorkClient, what the upload buttons of ConfigInput send, and how        *)
(* Topology shows a view.                                                  *)
(***************************************************************************)
EXTENDS MCWeb, FiniteSetTheorems, SequenceTheorems, WellFoundedInduction, TLAPS

-----------------------------------------------------------------------------
(* The invariant of the chains.  First what is so of each entry point.     *)

\* The call that was made last.
Now(e) == IF calls[e] = <<>> THEN "none" ELSE calls[e][1]

Of(e)    == {r \in requests : r.ep = e}
Waits(e) == {r \in Of(e) : r.rsc # "answer"}

\* Which call follows which in the chains of the page.
Follows == {
  <<"start", "checkAPIKey">>, <<"checkAPIKey", "getTestrigs">>,
  <<"getTestrigs", "login">>, <<"start", "login">>,
  <<"start", "initcontainer">>, <<"initcontainer", "uploadtestrigsmart">>,
  <<"uploadtestrigsmart", "parsevendorspecific">>,
  <<"parsevendorspecific", "parsevendorindependent">>,
  <<"parsevendorindependent", "drawtopology">>,
  <<"drawtopology", "posttestriginit">>,
  <<"start", "showOldTestrig">>, <<"showOldTestrig", "drawtopology">>,
  <<"start", "uploaddiffenvsmart">>, <<"uploaddiffenvsmart", "postdiffenvinit">>,
  <<"start", "uploadquestiontext">>, <<"uploadquestiontext", "answerquestion">>,
  <<"uploadquestiontext", "answerdiffquestion">> }

\* What is left of the list of calls is a part of a chain.
Chained(e) == \A k \in 1 .. Len(calls[e]) - 1 : <<calls[e][k], calls[e][k + 1]>> \in Follows

\* The calls before the first work of a chain, or of a chain without works.
Preparing == {"start", "checkAPIKey", "getTestrigs", "login", "initcontainer",
              "uploadtestrigsmart", "showOldTestrig", "uploaddiffenvsmart",
              "postdiffenvinit", "uploadquestiontext"}

\* Nothing is there of an entry point before it starts, and no work before its
\* first work.
Fresh(e) ==
  /\ e > started => calls[e] = <<>> /\ e \notin ended /\ e \notin timers /\ Of(e) = {}
  /\ e > started \/ Now(e) \in Preparing => works[e] = None

Worked(e, status) == works[e] # None /\ works[e].type = Now(e) /\ works[e].status = status

\* Polling: the current work of e is the one of its current call.
Polls(e) ==
  /\ Now(e) \in WorkType /\ epWorkGuid[e] = Now(e)
  /\ works[e] # None /\ works[e].type = Now(e)

Successive == {<<"parsevendorspecific", "parsevendorindependent">>,
               <<"parsevendorindependent", "drawtopology">>}

\* The call of each request, and what was done before it is sent.
Asked(e) == \A r \in Of(e) :
  /\ r.rsc = "checkapikey" => Now(e) = "checkAPIKey"
  /\ r.rsc = "listtestrigs" => Now(e) = "getTestrigs"
  /\ r.rsc = "initcontainer" => Now(e) = "initcontainer"
  /\ r.rsc = "uploadtestrig" => Now(e) = "uploadtestrigsmart"
  /\ r.rsc = "uploadenvironment" => Now(e) = "uploaddiffenvsmart"
  /\ r.rsc = "uploadquestion" => Now(e) = "uploadquestiontext" /\ epQuestionName[e] # None
  /\ r.rsc = "queuework" =>
       /\ Now(e) = r.body /\ epWorkGuid[e] = r.body
       /\ works[e] # None => /\ works[e].status = "TERMINATEDNORMALLY"
                             /\ <<works[e].type, r.body>> \in Successive
  /\ r.rsc = "getworkstatus" => Polls(e) /\ r.body = Now(e)
  /\ r.rsc \in {"log", "answer"} =>
       /\ works[e] # None /\ epWorkGuid[e] = None
       /\ calls[e] = <<>> \/ Worked(e, "TERMINATEDNORMALLY")
  /\ r.rsc = "answer" => calls[e] = <<>> \/ Now(e) \in Answering
  /\ e \in Live \/ r.rsc \in {"log", "answer"} \/ r.body = "nothing"
  /\ e \notin Live /\ r.rsc = "log" => calls[e] = <<>> \/ Now(e) \in Answering

\* One thing at a time continues an entry point, and one does as long as it is live.
Single(e) ==
  /\ \A r, s \in Waits(e) : r = s
  /\ Waits(e) # {} => turn # e /\ e \notin timers
  /\ e \in timers => e \in Live /\ turn # e /\ Polls(e)
  /\ e \in Live => turn = e \/ e \in timers \/ Waits(e) # {}

\* What has been done when the script runs.
Running(e) == turn = e =>
  /\ e <= started
  /\ Now(e) \in WorkType => Worked(e, "TERMINATEDNORMALLY") /\ epWorkGuid[e] = None
  /\ Now(e) = "uploadquestiontext" => epQuestionName[e] # None
  /\ Now(e) = "uploaddiffenvsmart" => e \in environments
  /\ e \notin Live =>
       calls[e] = <<>> \/ Now(e) \in Answering \cup {"drawtopology", "posttestriginit"}

\* Of an ended entry point nothing is left in the maps once the script has run.
Cleaned(e) == e \in ended /\ turn # e =>
  epOutput[e] = None /\ epWorkGuid[e] = None /\ epQuestionName[e] = None

Own(e) == /\ Chained(e)
          /\ Fresh(e)
          /\ Asked(e)
          /\ Single(e)
          /\ Running(e)
          /\ Cleaned(e)

\* The names that the calls of an entry point need.
Named(e) ==
  /\ \A k \in DOMAIN calls[e] :
       /\ calls[e][k] \in {"uploadquestiontext", "uploaddiffenvsmart", "postdiffenvinit"}
                             \cup Answering => containerName # None
       /\ calls[e][k] = "answerdiffquestion" => diffEnvName # None
  /\ Now(e) \in {"uploadtestrigsmart", "showOldTestrig", "posttestriginit"} \cup WorkType =>
       containerName # None
  /\ Now(e) \in {"uploaddiffenvsmart", "postdiffenvinit"} => diffEnvName # None
  /\ turn = e /\ Now(e) = "initcontainer" => containerName # None

\* The buttons that need names.
ButtonsNamed ==
  /\ enabled \cap {"btnAnswer", "btnAnswerDiff", "btnUploadDiffEnv"} # {} =>
       containerName # None
  /\ "btnAnswerDiff" \in enabled => diffEnvName # None

\* The entry points that may still change the page, but for the buttons.
Runs(e) == e \in Live \/ (turn = e /\ Now(e) = "drawtopology")

\* What an entry point that no other overlapped finds where it left it.
Alone(e) == Runs(e) =>
  /\ Live \subseteq {e}
  /\ \A r \in Of(e) : r.rsc = "queuework" => r.place = containerName
  /\ Now(e) \in WorkType /\ (\A r \in Of(e) : r.rsc # "queuework") =>
       works[e].place = containerName
  /\ Now(e) = "uploaddiffenvsmart" => diffEnvName = e
  /\ works[e] # None /\ works[e].type = "drawtopology"
       /\ works[e].status = "TERMINATEDNORMALLY" => stage[works[e].place] = "independent"

IInv == /\ TypeOK
        /\ \A e \in Ep : Own(e)
        /\ \A e \in Ep : Named(e)
        /\ ButtonsNamed
        /\ \A e \in Ep \ overlapped : Alone(e)
        /\ FetchedWhereDone


-----------------------------------------------------------------------------
(* The lists of calls.                                                     *)

\* What makeNextCall does to the list of an entry point.
LEMMA Shifted ==
  ASSUME TypeOK, NEW e \in Ep, NEW call, Shift(e, call)
  PROVE  /\ calls' \in [Ep -> Seq(Call)]
         /\ calls[e] # <<>> /\ calls'[e] # <<>>
         /\ Len(calls'[e]) = Len(calls[e]) - 1
         /\ \A k \in 1 .. Len(calls'[e]) : calls'[e][k] = calls[e][k + 1]
         /\ \A f \in Ep \ {e} : calls'[f] = calls[f]
         /\ Now(e)' = call
         /\ NextCall(e) = call
  <1>1. calls[e] \in Seq(Call) /\ Len(calls[e]) > 1 /\ calls[e][2] = call
    BY DEF TypeOK, Shift
  <1>2. calls[e] # <<>>
    BY <1>1
  <1>3. /\ Tail(calls[e]) \in Seq(Call)
        /\ Len(Tail(calls[e])) = Len(calls[e]) - 1
        /\ \A k \in 1 .. Len(Tail(calls[e])) : Tail(calls[e])[k] = calls[e][k + 1]
    BY <1>1, <1>2, HeadTailProperties
  <1>4. calls' = [calls EXCEPT ![e] = Tail(calls[e])]
    BY DEF Shift
  <1>5. calls'[e] = Tail(calls[e])
    BY <1>4 DEF TypeOK
  <1>6. calls'[e] # <<>> /\ calls'[e][1] = call
    <2>1. Len(Tail(calls[e])) >= 1
      BY <1>1, <1>3
    <2>2. Tail(calls[e])[1] = calls[e][2]
      BY <1>3, <2>1
    <2>3. Tail(calls[e]) # <<>>
      <3>1. Len(Tail(calls[e])) # 0
        BY <1>1, <1>3
      <3>2. QED  BY <3>1, EmptySeq, Zenon
    <2>4. QED  BY <1>1, <1>5, <2>2, <2>3
  <1>7. Now(e)' = call
    BY <1>6 DEF Now
  <1>8. NextCall(e) = call
    BY <1>1 DEF NextCall, Shift
  <1>9. QED  BY <1>2, <1>3, <1>4, <1>5, <1>6, <1>7, <1>8 DEF TypeOK

LEMMA ShiftFollows ==
  ASSUME TypeOK, NEW e \in Ep, NEW call, Shift(e, call), Chained(e)
  PROVE  <<Now(e), call>> \in Follows /\ Chained(e)'
  <1>1. calls[e] \in Seq(Call) /\ Len(calls[e]) > 1 /\ calls[e][2] = call
    BY DEF TypeOK, Shift
  <1>2. <<calls[e][1], calls[e][2]>> \in Follows
    BY <1>1 DEF Chained
  <1>3. Now(e) = calls[e][1]
    BY <1>1 DEF Now
  <1>4. ASSUME NEW k \in 1 .. Len(calls'[e]) - 1
        PROVE  <<calls'[e][k], calls'[e][k + 1]>> \in Follows
    <2>1. Len(calls'[e]) = Len(calls[e]) - 1
      BY Shifted
    <2>2. k \in 1 .. Len(calls'[e]) /\ k + 1 \in 1 .. Len(calls'[e])
          /\ k + 1 \in 1 .. Len(calls[e]) - 1
      BY <1>1, <2>1
    <2>3. calls'[e][k] = calls[e][k + 1] /\ calls'[e][k + 1] = calls[e][(k + 1) + 1]
      BY <2>2, Shifted
    <2>4. QED  BY <2>2, <2>3 DEF Chained
  <1>5. QED  BY <1>1, <1>2, <1>3, <1>4 DEF Chained

\* What startCalls puts into the list, for each button.
LEMMA ChainsFollow ==
  ASSUME NEW b \in Button
  PROVE  /\ Chain[b] \in Seq(Call) /\ Chain[b] # <<>>
         /\ <<"start", Chain[b][1]>> \in Follows
         /\ \A k \in 1 .. Len(Chain[b]) - 1 : <<Chain[b][k], Chain[b][k + 1]>> \in Follows
  <1>1. CASE b = "btnLogin"
    <2>1. Chain[b] = <<"checkAPIKey", "getTestrigs", "login">>
      BY <1>1 DEF Chain
    <2>2. QED  BY <2>1 DEF Follows, Call, WorkType
  <1>2. CASE b = "btnGuest"
    <2>1. Chain[b] = <<"login">>
      BY <1>2 DEF Chain
    <2>2. QED  BY <2>1 DEF Follows, Call, WorkType
  <1>3. CASE b = "btnUpload"
    <2>1. Chain[b] = <<"initcontainer", "uploadtestrigsmart", "parsevendorspecific",
                       "parsevendorindependent", "drawtopology", "posttestriginit">>
      BY <1>3 DEF Chain
    <2>2. QED  BY <2>1 DEF Follows, Call, WorkType
  <1>4. CASE b = "prevTestrigs"
    <2>1. Chain[b] = <<"showOldTestrig", "drawtopology", "posttestriginit">>
      BY <1>4 DEF Chain
    <2>2. QED  BY <2>1 DEF Follows, Call, WorkType
  <1>5. CASE b = "btnUploadDiffEnv"
    <2>1. Chain[b] = <<"uploaddiffenvsmart", "postdiffenvinit">>
      BY <1>5 DEF Chain
    <2>2. QED  BY <2>1 DEF Follows, Call, WorkType
  <1>6. CASE b = "btnAnswer"
    <2>1. Chain[b] = <<"uploadquestiontext", "answerquestion">>
      BY <1>6 DEF Chain
    <2>2. QED  BY <2>1 DEF Follows, Call, WorkType
  <1>7. CASE b = "btnAnswerDiff"
    <2>1. Chain[b] = <<"uploadquestiontext", "answerdiffquestion">>
      BY <1>7 DEF Chain
    <2>2. QED  BY <2>1 DEF Follows, Call, WorkType
  <1>8. QED
    BY <1>1, <1>2, <1>3, <1>4, <1>5, <1>6, <1>7 DEF Button, Chain

LEMMA StartedList ==
  ASSUME NEW b \in Button, NEW s, s = <<"start">> \o Chain[b]
  PROVE  /\ s \in Seq(Call) /\ s # <<>> /\ s[1] = "start"
         /\ \A k \in 1 .. Len(s) - 1 : <<s[k], s[k + 1]>> \in Follows
         /\ \A k \in 2 .. Len(s) : k - 1 \in 1 .. Len(Chain[b]) /\ s[k] = Chain[b][k - 1]
  <1> DEFINE first == <<"start">>
  <1>1. Chain[b] \in Seq(Call)
    BY ChainsFollow
  <1>0. first \in Seq(Call) /\ Len(first) = 1 /\ first[1] = "start"
    BY DEF Call
  <1>2. /\ s \in Seq(Call)
        /\ Len(s) = 1 + Len(Chain[b])
        /\ \A k \in 1 .. Len(s) : s[k] = IF k <= 1 THEN first[k] ELSE Chain[b][k - 1]
    <2> HIDE DEF first
    <2>1. s = first \o Chain[b]
      BY DEF first
    <2>2. QED  BY <1>0, <1>1, <2>1, ConcatProperties
  <1>3. s # <<>> /\ s[1] = "start"
    BY <1>0, <1>1, <1>2
  <1>4. \A k \in 2 .. Len(s) : k - 1 \in 1 .. Len(Chain[b]) /\ s[k] = Chain[b][k - 1]
    BY <1>1, <1>2
  <1>5. ASSUME NEW k \in 1 .. Len(s) - 1 PROVE <<s[k], s[k + 1]>> \in Follows
    <2>1. CASE k = 1
      <3>1. s[2] = Chain[b][1]
        BY <1>1, <1>2, <2>1
      <3>2. QED  BY <1>3, <2>1, <3>1, ChainsFollow
    <2>2. CASE k > 1
      <3>1. k \in 2 .. Len(s) /\ k + 1 \in 2 .. Len(s) /\ k - 1 \in 1 .. Len(Chain[b]) - 1
        BY <1>1, <1>2, <2>2
      <3>2. s[k] = Chain[b][k - 1] /\ s[k + 1] = Chain[b][(k - 1) + 1]
        BY <1>4, <3>1
      <3>3. QED  BY <3>1, <3>2, ChainsFollow
    <2>3. k = 1 \/ k > 1
      BY <1>1, <1>2
    <2>4. QED  BY <2>1, <2>2, <2>3
  <1>6. QED  BY <1>2, <1>3, <1>4, <1>5
-----------------------------------------------------------------------------
(* The types.                                                              *)

\* A call that sends a request has a name for its place.
LEMMA PlaceNamed ==
  ASSUME TypeOK, NEW e \in Ep, NEW call, Shift(e, call), Chained(e), Named(e),
         call \in {"uploadtestrigsmart", "uploaddiffenvsmart", "uploadquestiontext"}
                    \cup WorkType
  PROVE  containerName # None /\ containerName \in Testrig
  <1>1. <<Now(e), call>> \in Follows
    BY ShiftFollows
  <1>2. calls[e] \in Seq(Call) /\ Len(calls[e]) > 1 /\ turn = e /\ calls[e][2] = call
    BY DEF TypeOK, Shift
  <1>3. 2 \in DOMAIN calls[e]
    BY <1>2
  <1>4. call \in {"uploaddiffenvsmart", "uploadquestiontext"} \cup Answering =>
          containerName # None
    BY <1>2, <1>3 DEF Named
  <1>5. call \in {"uploadtestrigsmart", "parsevendorspecific", "parsevendorindependent",
                  "drawtopology"} => containerName # None
    BY <1>1, <1>2 DEF Named, Follows, WorkType
  <1>6. containerName # None
    BY <1>4, <1>5 DEF WorkType, Answering
  <1>7. QED  BY <1>6 DEF TypeOK

LEMMA EndsType ==
  ASSUME TypeOK, NEW e \in Ep, Finish(e)
  PROVE  /\ spinning' \in BOOLEAN
         /\ epOutput' \in [Ep -> {None, "text", "undefined"}]
         /\ epWorkGuid' \in [Ep -> WorkType \cup {None}]
         /\ epQuestionName' \in [Ep -> {None, "question"}]
         /\ ended' \subseteq Ep
  BY DEF TypeOK, Finish

LEMMA CallType ==
  ASSUME IInv, NEW e \in Ep, MakeNextCall(e)
  PROVE  TypeOK'
  <1>0. TypeOK /\ Chained(e) /\ Named(e)
    BY DEF IInv, Own
  <1>1. CASE Done(e)
    <2>1. calls' \in [Ep -> Seq(Call)]
      BY <1>0, <1>1 DEF Done, TypeOK
    <2>2. QED  BY <1>0, <1>1, <2>1, EndsType DEF Done, TypeOK, pageVars, serverVars
  <1>2. CASE CheckAPIKey(e) \/ GetTestrigs(e) \/ InitContainer(e)
    <2>1. PICK rsc \in {"checkapikey", "listtestrigs", "initcontainer"} :
            Send(e, rsc, None)
      BY <1>2 DEF CheckAPIKey, GetTestrigs, InitContainer
    <2>2. [ep |-> e, rsc |-> rsc, place |-> containerName, body |-> None] \in Request
      BY <1>0 DEF TypeOK, Request
    <2>3. calls' \in [Ep -> Seq(Call)]
      BY <1>0, <1>2, Shifted DEF CheckAPIKey, GetTestrigs, InitContainer
    <2>4. UNCHANGED <<epVars, pageVars, spinning, serverVars, ended>>
      BY <1>2 DEF CheckAPIKey, GetTestrigs, InitContainer
    <2>5. QED
      BY <1>0, <2>1, <2>2, <2>3, <2>4 DEF TypeOK, Send, epVars, pageVars, serverVars
  <1>3. CASE Login(e)
    <2>1. calls' \in [Ep -> Seq(Call)]
      BY <1>0, <1>3, Shifted DEF Login
    <2>2. enabled' \subseteq Button
      BY <1>0, <1>3 DEF Login, TypeOK, Button, Chain
    <2>3. QED  BY <1>0, <1>3, <2>1, <2>2, EndsType DEF Login, TypeOK, serverVars
  <1>4. CASE UploadTestrigSmart(e)
    <2>1. calls' \in [Ep -> Seq(Call)] /\ containerName \in Testrig
      BY <1>0, <1>4, Shifted, PlaceNamed DEF UploadTestrigSmart
    <2>2. PICK body \in {"content", "nothing"} :
            /\ Send(e, "uploadtestrig", body)
            /\ Finish(e) \/ UNCHANGED <<epVars, spinning, ended>>
      BY <1>4 DEF UploadTestrigSmart, Upload
    <2>3. [ep |-> e, rsc |-> "uploadtestrig", place |-> containerName, body |-> body]
            \in Request
      BY <2>1 DEF Request
    <2>4. UNCHANGED <<pageVars, serverVars>>
      BY <1>4 DEF UploadTestrigSmart
    <2>5. QED
      BY <1>0, <2>1, <2>2, <2>3, <2>4, EndsType
         DEF TypeOK, Send, epVars, pageVars, serverVars
  <1>5. CASE UploadDiffEnvSmart(e)
    <2>1. calls' \in [Ep -> Seq(Call)] /\ containerName \in Testrig
      BY <1>0, <1>5, Shifted, PlaceNamed DEF UploadDiffEnvSmart
    <2>2. PICK body \in {"content", "nothing"} :
            /\ Send(e, "uploadenvironment", body)
            /\ Finish(e) \/ UNCHANGED <<epVars, spinning, ended>>
      BY <1>5 DEF UploadDiffEnvSmart, Upload
    <2>3. [ep |-> e, rsc |-> "uploadenvironment", place |-> containerName, body |-> body]
            \in Request
      BY <2>1 DEF Request
    <2>4. diffEnvName' \in Testrig \cup {None}
          /\ UNCHANGED <<containerName, enabled, serverVars>>
      BY <1>5 DEF UploadDiffEnvSmart, Testrig
    <2>5. QED
      BY <1>0, <2>1, <2>2, <2>3, <2>4, EndsType DEF TypeOK, Send, epVars, serverVars
  <1>6. CASE UploadQuestionText(e)
    <2>1. calls' \in [Ep -> Seq(Call)] /\ containerName \in Testrig
      BY <1>0, <1>6, Shifted, PlaceNamed DEF UploadQuestionText
    <2>2. UNCHANGED <<pageVars, serverVars>>
      BY <1>6 DEF UploadQuestionText
    <2>3. [ep |-> e, rsc |-> "uploadquestion", place |-> containerName, body |-> "content"]
            \in Request
      BY <2>1 DEF Request
    <2>4. CASE Send(e, "uploadquestion", "content")
               /\ epQuestionName' = [epQuestionName EXCEPT ![e] = "question"]
               /\ UNCHANGED <<epOutput, epWorkGuid, spinning, ended>>
      BY <1>0, <2>1, <2>2, <2>3, <2>4 DEF TypeOK, Send, pageVars, serverVars
    <2>5. CASE Finish(e) /\ turn' = None /\ UNCHANGED <<timers, requests, started, overlapped>>
      BY <1>0, <2>1, <2>2, <2>5, EndsType DEF TypeOK, pageVars, serverVars
    <2>6. QED  BY <1>6, <2>4, <2>5 DEF UploadQuestionText
  <1>7. CASE ShowOldTestrig(e) \/ PostTestrigInit(e) \/ PostDiffEnvInit(e)
    <2>1. calls' \in [Ep -> Seq(Call)]
      BY <1>0, <1>7, Shifted DEF ShowOldTestrig, PostTestrigInit, PostDiffEnvInit
    <2>2. enabled' \subseteq Button /\ containerName' \in Testrig \cup {None}
      BY <1>0, <1>7 DEF ShowOldTestrig, PostTestrigInit, PostDiffEnvInit, TypeOK, Button,
                        Chain, Testrig
    <2>3. QED
      BY <1>0, <1>7, <2>1, <2>2
         DEF ShowOldTestrig, PostTestrigInit, PostDiffEnvInit, TypeOK, epVars, serverVars
  <1>8. ASSUME NEW type \in WorkType, QueueWork(e, type) PROVE TypeOK'
    <2>1. calls' \in [Ep -> Seq(Call)] /\ containerName \in Testrig
      BY <1>0, <1>8, Shifted, PlaceNamed DEF QueueWork
    <2>2. [ep |-> e, rsc |-> "queuework", place |-> containerName, body |-> type] \in Request
      BY <2>1 DEF Request
    <2>3. QED
      BY <1>0, <1>8, <2>1, <2>2 DEF QueueWork, TypeOK, Send, pageVars, serverVars
  <1>9. QED
    BY <1>1, <1>2, <1>3, <1>4, <1>5, <1>6, <1>7, <1>8 DEF MakeNextCall

\* The work that a request is about, and the request that asks for it.
LEMMA AboutType ==
  ASSUME TypeOK, NEW e \in Ep, NEW rsc \in {"getworkstatus", "log", "answer"},
         epWorkGuid[e] # None, containerName # None
  PROVE  About(e, rsc) \in Request
  BY DEF TypeOK, Request, About

LEMMA CallbackType ==
  ASSUME IInv, NEW r \in requests, Callback(r)
  PROVE  TypeOK'
  <1>0. TypeOK /\ r \in Request /\ r.ep \in Ep
    BY DEF IInv, TypeOK, Request
  <1>1. ASSUME Resume(r) PROVE turn' \in Ep \cup {None} /\ requests' \subseteq Request
                              /\ UNCHANGED <<started, overlapped>>
    BY <1>0, <1>1 DEF Resume, Reply, TypeOK
  <1>2. ASSUME Stop(r)
        PROVE  /\ requests' \subseteq Request
               /\ UNCHANGED <<turn, timers, pageVars, started, overlapped>>
    BY <1>0, <1>2 DEF Stop, Reply, TypeOK
  <1>3. Stop(r) => Finish(r.ep)
    BY DEF Stop
  <1>4. CASE CheckApiKey_cb(r)
    <2>1. CASE Resume(r) /\ UNCHANGED <<epVars, timers, pageVars, spinning, ended>>
      BY <1>0, <1>1, <1>4, <2>1 DEF CheckApiKey_cb, TypeOK, epVars, pageVars, serverVars
    <2>2. CASE Stop(r)
      BY <1>0, <1>2, <1>3, <1>4, <2>2, EndsType
         DEF CheckApiKey_cb, TypeOK, pageVars, serverVars
    <2>3. QED  BY <1>4, <2>1, <2>2 DEF CheckApiKey_cb
  <1>5. CASE GetTestrigs_cb(r)
    <2>1. enabled' \subseteq Button
      BY <1>0, <1>5 DEF GetTestrigs_cb, TypeOK, Button, Chain
    <2>2. QED  BY <1>0, <1>1, <1>5, <2>1 DEF GetTestrigs_cb, TypeOK, epVars, serverVars
  <1>6. CASE InitContainer_cb(r)
    <2>1. stage' \in [Testrig -> Store!Stages]
      BY <1>0, <1>6
         DEF InitContainer_cb, TypeOK, Store!InitContainer, Store!Move, Store!Becomes,
             Store!Stages
    <2>2. containerName' \in Testrig
      BY <1>0, <1>6 DEF InitContainer_cb, Testrig
    <2>3. QED  BY <1>0, <1>1, <1>6, <2>1, <2>2 DEF InitContainer_cb, TypeOK, epVars
  <1>7. CASE ServeUpload(r)
    <2>1. stage' \in [Testrig -> Store!Stages]
      BY <1>0, <1>7
         DEF ServeUpload, TypeOK, Store!Begin, Store!Move, Store!Becomes, Store!Stages
    <2>2. [r EXCEPT !.body = "serving"] \in Request
      BY <1>0, <1>7 DEF ServeUpload, Request
    <2>3. QED  BY <1>0, <1>7, <2>1, <2>2 DEF ServeUpload, Reply, TypeOK, epVars, pageVars
  <1>8. CASE UploadTestrig_cb(r)
    <2>1. stage' \in [Testrig -> Store!Stages]
      BY <1>0, <1>8
         DEF UploadTestrig_cb, TypeOK, Store!Complete, Store!Move, Store!Becomes,
             Store!Stages
    <2>2. QED  BY <1>0, <1>1, <1>8, <2>1 DEF UploadTestrig_cb, TypeOK, epVars, pageVars
  <1>9. CASE UploadDifEnv_cb(r)
    BY <1>0, <1>1, <1>9 DEF UploadDifEnv_cb, TypeOK, epVars, pageVars, Testrig
  <1>10. CASE UploadQuestion_cb(r)
    BY <1>0, <1>1, <1>10 DEF UploadQuestion_cb, TypeOK, epVars, pageVars, serverVars
  <1>11. ASSUME TakeWork(r) PROVE works' \in [Ep -> Work \cup {None}]
    BY <1>0, <1>11 DEF TakeWork, TypeOK, Request, Work, Status
  <1>12. CASE QueueWork_cb(r)
    <2>1. About(r.ep, "getworkstatus") \in Request
      <3>1. r \in Of(r.ep) /\ r.rsc = "queuework"
        BY <1>12 DEF Of, QueueWork_cb, TakeWork
      <3>2. epWorkGuid[r.ep] = r.body /\ Now(r.ep) = r.body
        BY <1>0, <3>1 DEF IInv, Own, Asked
      <3>3. r.body \in WorkType
        BY <1>0, <3>1 DEF Request
      <3>4. containerName # None /\ epWorkGuid[r.ep] # None
        BY <1>0, <3>2, <3>3, NoneAssumption DEF IInv, Named
      <3>5. QED  BY <1>0, <3>4, AboutType
    <2>2. QED
      BY <1>0, <1>11, <1>12, <2>1 DEF QueueWork_cb, TakeWork, Reply, TypeOK, epVars, pageVars
  <1>13. CASE CheckWork_cb(r)
    <2>1. epWorkGuid[r.ep] # None /\ containerName # None
      <3>1. Polls(r.ep)
        BY <1>0, <1>13 DEF CheckWork_cb, Of, IInv, Own, Asked
      <3>2. QED  BY <1>0, <3>1, NoneAssumption DEF IInv, Named, Polls
    <2>2. CASE CheckAgain(r)
      BY <1>0, <1>13, <2>2
         DEF CheckWork_cb, CheckAgain, Reply, TypeOK, pageVars, serverVars
    <2>3. CASE FetchResults(r)
      <3>1. About(r.ep, "log") \in Request /\ About(r.ep, "answer") \in Request
        BY <1>0, <2>1, AboutType
      <3>2. QED
        BY <1>0, <1>13, <2>3, <3>1
           DEF CheckWork_cb, FetchResults, Reply, TypeOK, pageVars, serverVars
    <2>4. CASE FetchLogOnly(r)
      <3>1. About(r.ep, "log") \in Request
        BY <1>0, <2>1, AboutType
      <3>2. calls' \in [Ep -> Seq(Call)]
        BY <1>0, <2>4 DEF FetchLogOnly, TypeOK
      <3>3. QED
        BY <1>0, <1>13, <2>4, <3>1, <3>2
           DEF CheckWork_cb, FetchLogOnly, Reply, TypeOK, pageVars, serverVars
    <2>5. QED  BY <1>13, <2>2, <2>3, <2>4 DEF CheckWork_cb
  <1>14. CASE GetLog_cb(r)
    BY <1>0, <1>1, <1>14 DEF GetLog_cb, TypeOK, pageVars, serverVars
  <1>15. CASE GetTopology_cb(r)
    <2>1. CASE Finish(r.ep)
      BY <1>0, <1>1, <1>15, <2>1, EndsType DEF GetTopology_cb, TypeOK, pageVars, serverVars
    <2>2. CASE UNCHANGED <<epVars, spinning, ended>>
      BY <1>0, <1>1, <1>15, <2>2 DEF GetTopology_cb, TypeOK, epVars, pageVars, serverVars
    <2>3. QED  BY <1>15, <2>1, <2>2 DEF GetTopology_cb
  <1>16. CASE GetAnsJson_cb(r)
    <2>1. CASE Stop(r)
      BY <1>0, <1>2, <1>3, <1>16, <2>1, EndsType
         DEF GetAnsJson_cb, TypeOK, pageVars, serverVars
    <2>2. CASE Reply(r, {}) /\ UNCHANGED <<turn, epVars, timers, pageVars, spinning, ended>>
      BY <1>0, <1>16, <2>2
         DEF GetAnsJson_cb, Reply, TypeOK, epVars, pageVars, serverVars
    <2>3. QED  BY <1>16, <2>1, <2>2 DEF GetAnsJson_cb
  <1>17. CASE GenericFailure_cb(r)
    <2>1. calls' \in [Ep -> Seq(Call)]
      BY <1>0, <1>17 DEF GenericFailure_cb, TypeOK
    <2>2. /\ stage' \in [Testrig -> Store!Stages] /\ environments' \subseteq Testrig
          /\ works' \in [Ep -> Work \cup {None}] /\ restarted' \in BOOLEAN
      <3>1. CASE DoneInVain(r)
        <4>1. CASE TakeWork(r)
          BY <1>0, <1>11, <4>1 DEF TakeWork, TypeOK
        <4>2. CASE environments' = environments \cup {r.ep}
                   /\ UNCHANGED <<stage, works, restarted>>
          BY <1>0, <4>2 DEF TypeOK, Testrig
        <4>3. CASE UNCHANGED <<environments, works, restarted>>
                   /\ \/ Store!Complete(r.place)
                      \/ Store!Discard(r.place)
                      \/ Store!Begin(r.place)
          BY <1>0, <4>3
             DEF TypeOK, Store!Complete, Store!Discard, Store!Begin, Store!Move,
                 Store!Becomes, Store!Stages
        <4>4. QED  BY <3>1, <4>1, <4>2, <4>3 DEF DoneInVain
      <3>2. CASE UNCHANGED serverVars
        BY <1>0, <3>2 DEF TypeOK, serverVars
      <3>3. QED  BY <1>17, <3>1, <3>2 DEF GenericFailure_cb
    <2>3. QED
      BY <1>0, <1>2, <1>3, <1>17, <2>1, <2>2, EndsType
         DEF GenericFailure_cb, TypeOK, pageVars
  <1>18. QED
    BY <1>4, <1>5, <1>6, <1>7, <1>8, <1>9, <1>10, <1>12, <1>13, <1>14, <1>15, <1>16,
       <1>17 DEF Callback

LEMMA TypeNext ==
  ASSUME IInv, [Next]_vars
  PROVE  TypeOK'
  <1>0. TypeOK
    BY DEF IInv
  <1>1. ASSUME NEW b \in Button, StartCalls(b) PROVE TypeOK'
    <2>1. started + 1 \in Ep /\ started + 1 \in 0 .. MaxStarts
      BY <1>0, <1>1, BoundsAssumption DEF StartCalls, TypeOK, Ep
    <2>2. <<"start">> \o Chain[b] \in Seq(Call)
      BY StartedList
    <2>3. overlapped' \subseteq Ep
      BY <1>0, <1>1, <2>1 DEF StartCalls, TypeOK, Live
    <2>4. QED
      BY <1>0, <1>1, <2>1, <2>2, <2>3 DEF StartCalls, TypeOK, pageVars, serverVars
  <1>2. ASSUME NEW e \in Ep, CheckWork(e) PROVE TypeOK'
    <2>1. About(e, "getworkstatus") \in Request
      <3>1. Polls(e)
        BY <1>2 DEF CheckWork, IInv, Own, Single
      <3>2. epWorkGuid[e] # None /\ containerName # None
        BY <3>1, NoneAssumption DEF Polls, IInv, Named
      <3>3. QED  BY <1>0, <3>2, AboutType
    <2>2. QED
      BY <1>0, <1>2, <2>1 DEF CheckWork, TypeOK, epVars, pageVars, serverVars
  <1>3. ASSUME NEW e \in Ep, EndWork(e) PROVE TypeOK'
    <2>1. works[e] \in Work
      BY <1>0, <1>3 DEF EndWork, TypeOK
    <2>2. PICK end \in Status :
            /\ works' = [works EXCEPT ![e].status = end]
            /\ \/ UNCHANGED stage
               \/ Store!ParseVendor(works[e].place)
               \/ Store!ParseIndependent(works[e].place)
      BY <1>3 DEF EndWork
    <2>3. works' \in [Ep -> Work \cup {None}]
      BY <1>0, <2>1, <2>2 DEF TypeOK, Work
    <2>4. stage' \in [Testrig -> Store!Stages]
      BY <1>0, <2>2
         DEF TypeOK, Store!ParseVendor, Store!ParseIndependent, Store!Becomes, Store!Stages
    <2>5. QED  BY <1>0, <1>3, <2>3, <2>4 DEF EndWork, TypeOK, epVars, pageVars
  <1>4. CASE Restart
    <2>1. works' \in [Ep -> Work \cup {None}]
      BY <1>0, <1>4 DEF Restart, TypeOK, Work, Status
    <2>2. ASSUME NEW r \in requests, r.body = "serving"
          PROVE  [r EXCEPT !.body = "lost"] \in Request
      <3>1. r \in Request /\ r.rsc = "uploadtestrig"
        BY <1>0, <2>2, NoneAssumption DEF TypeOK, Request, WorkType
      <3>2. QED  BY <3>1 DEF Request
    <2>3. requests' \subseteq Request
      BY <1>0, <1>4, <2>2 DEF Restart, TypeOK
    <2>4. QED  BY <1>0, <1>4, <2>1, <2>3 DEF Restart, TypeOK, epVars, pageVars
  <1>5. CASE UNCHANGED vars
    BY <1>0, <1>5 DEF TypeOK, vars, epVars, pageVars, serverVars
  <1>6. QED  BY <1>1, <1>2, <1>3, <1>4, <1>5, CallType, CallbackType DEF Next
-----------------------------------------------------------------------------
(* What a step leaves of an entry point that it is not about.              *)

Keeps(e) ==
  /\ calls'[e] = calls[e]
  /\ epOutput'[e] = epOutput[e]
  /\ epWorkGuid'[e] = epWorkGuid[e]
  /\ epQuestionName'[e] = epQuestionName[e]
  /\ e \in timers' <=> e \in timers
  /\ turn' = e <=> turn = e
  /\ Of(e)' = Of(e)
  /\ works'[e] = works[e]
  /\ e \in ended' <=> e \in ended
  /\ e <= started' <=> e <= started
  /\ environments \subseteq environments'

LEMMA OwnKept ==
  ASSUME TypeOK, TypeOK', NEW e \in Ep, Own(e), Keeps(e)
  PROVE  Own(e)'
  <1>1. /\ Now(e)' = Now(e)
        /\ Waits(e)' = Waits(e)
        /\ (e \in Live)' <=> e \in Live
        /\ (e > started)' <=> e > started
    BY DEF Keeps, Now, Waits, Live, TypeOK, Ep
  <1>2. Chained(e)'
    BY DEF Own, Chained, Keeps
  <1>3. Fresh(e)'
    BY <1>1 DEF Own, Fresh, Keeps
  <1>4. Polls(e)' <=> Polls(e)
    BY <1>1 DEF Polls, Keeps
  <1>5. (Worked(e, "TERMINATEDNORMALLY"))' <=> Worked(e, "TERMINATEDNORMALLY")
    BY <1>1 DEF Worked, Keeps
  <1>6. Asked(e)'
    BY <1>1, <1>4, <1>5 DEF Own, Asked, Keeps
  <1>7. Single(e)'
    BY <1>1, <1>4 DEF Own, Single, Keeps
  <1>8. Running(e)'
    BY <1>1, <1>5 DEF Own, Running, Keeps
  <1>9. Cleaned(e)'
    BY DEF Own, Cleaned, Keeps
  <1>10. QED  BY <1>2, <1>3, <1>6, <1>7, <1>8, <1>9 DEF Own

LEMMA OneMoves ==
  ASSUME IInv, TypeOK', NEW e \in Ep, Own(e)', \A f \in Ep \ {e} : Keeps(f)
  PROVE  \A f \in Ep : Own(f)'
  BY OwnKept DEF IInv

LEMMA Sent ==
  ASSUME NEW e, NEW rsc, NEW body, Send(e, rsc, body)
  PROVE  /\ Of(e)' = Of(e) \cup
              {[ep |-> e, rsc |-> rsc, place |-> containerName, body |-> body]}
         /\ \A f \in Ep \ {e} : Of(f)' = Of(f)
  BY DEF Send, Of

LEMMA Replied ==
  ASSUME NEW r \in requests, NEW more, \A q \in more : q.ep = r.ep, Reply(r, more)
  PROVE  /\ Of(r.ep)' = (Of(r.ep) \ {r}) \cup more
         /\ \A f \in Ep \ {r.ep} : Of(f)' = Of(f)
  BY DEF Reply, Of
-----------------------------------------------------------------------------
(* Each entry point keeps to itself: the calls.                            *)

LEMMA Called ==
  ASSUME IInv, NEW e \in Ep, NEW call, Shift(e, call)
  PROVE  /\ turn = e /\ e <= started /\ e \notin timers
         /\ Of(e) = {}
         /\ <<Now(e), call>> \in Follows
         /\ Now(e)' = call /\ calls'[e] # <<>> /\ Chained(e)'
         /\ e \in Live \/ call \in {"posttestriginit"}
         /\ \A f \in Ep \ {e} : calls'[f] = calls[f]
  <1>1. TypeOK /\ Own(e)
    BY DEF IInv
  <1>2. turn = e
    BY DEF Shift
  <1>3. <<Now(e), call>> \in Follows /\ Chained(e)'
    BY <1>1, ShiftFollows DEF Own
  <1>4. calls[e] # <<>> /\ Now(e)' = call /\ calls'[e] # <<>>
        /\ \A f \in Ep \ {e} : calls'[f] = calls[f]
    BY <1>1, Shifted
  <1>5. Now(e) \notin Answering
    BY <1>3 DEF Follows, Answering
  <1>6. Of(e) = {}
    <2>1. Waits(e) = {}
      BY <1>1, <1>2 DEF Own, Single
    <2>2. \A r \in Of(e) : r.rsc # "answer"
      BY <1>1, <1>4, <1>5 DEF Own, Asked
    <2>3. QED  BY <2>1, <2>2 DEF Waits
  <1>7. e <= started /\ e \notin timers
    BY <1>1, <1>2 DEF Own, Single, Running
  <1>8. e \notin Live => Now(e) = "drawtopology" \/ Now(e) = "posttestriginit"
    BY <1>1, <1>2, <1>4, <1>5 DEF Own, Running
  <1>9. e \in Live \/ call = "posttestriginit"
    BY <1>3, <1>8 DEF Follows
  <1>10. QED  BY <1>2, <1>3, <1>4, <1>6, <1>7, <1>9

LEMMA CalledLive ==
  ASSUME IInv, NEW e \in Ep, NEW call \in Call \ {"posttestriginit"}, Shift(e, call)
  PROVE  e \notin ended
  <1>1. e \in Live \/ call \in {"posttestriginit"}
    BY Called
  <1>2. QED  BY <1>1 DEF Live

\* A call that sends a request which fits it.
LEMMA Sending ==
  ASSUME IInv, TypeOK', NEW e \in Ep, NEW call \in Call \ {"posttestriginit"},
         NEW rsc, rsc # "answer", NEW body,
         Shift(e, call), Send(e, rsc, body), works' = works, Asked(e)', Cleaned(e)'
  PROVE  Own(e)'
  <1> DEFINE q == [ep |-> e, rsc |-> rsc, place |-> containerName, body |-> body]
  <1>0. Of(e) = {} /\ turn = e /\ e <= started /\ e \notin timers /\ e \notin ended
    BY Called, CalledLive
  <1>1. Of(e)' = {q}
    BY <1>0, Sent
  <1>2. /\ turn' # e /\ e \notin timers' /\ started' = started /\ e <= started
        /\ e \notin ended
    BY <1>0, NoneAssumption DEF Send, Ep
  <1>3. Waits(e)' = {q}
    BY <1>1 DEF Waits
  <1>4. Chained(e)'
    BY Called
  <1>5. Fresh(e)'
    <2>1. ~(e > started)
      BY <1>2 DEF IInv, TypeOK, Ep
    <2>2. call \in Preparing => Now(e) \in Preparing
      BY Called DEF Follows, Preparing
    <2>3. call \in Preparing => works[e] = None
      BY <2>2 DEF IInv, Own, Fresh
    <2>4. Now(e)' = call
      BY Called
    <2>5. QED  BY <1>2, <2>1, <2>3, <2>4 DEF Fresh
  <1>6. Single(e)' /\ Running(e)'
    BY <1>2, <1>3 DEF Single, Running
  <1>7. QED  BY <1>4, <1>5, <1>6 DEF Own

\* Each call leaves its entry point with one request, with the turn, or at its end.
LEMMA CallOwn ==
  ASSUME IInv, TypeOK', NEW e \in Ep, MakeNextCall(e)
  PROVE  \A f \in Ep : Own(f)'
  <1>00. turn = e
    BY DEF MakeNextCall, Done, Shift, CheckAPIKey, GetTestrigs, Login, InitContainer,
           UploadTestrigSmart, UploadDiffEnvSmart, UploadQuestionText, ShowOldTestrig,
           PostTestrigInit, PostDiffEnvInit, QueueWork
  <1>01. TypeOK /\ Own(e)
    BY DEF IInv
  <1>02. started \in Nat
    BY <1>01, BoundsAssumption DEF TypeOK
  <1>0. TypeOK /\ Own(e) /\ turn # None /\ started \in Nat
    BY <1>00, <1>01, <1>02, NoneAssumption DEF Ep
  <1>f. ASSUME Finish(e)
        PROVE  /\ \A f \in Ep \ {e} : /\ epOutput'[f] = epOutput[f]
                                      /\ epWorkGuid'[f] = epWorkGuid[f]
                                      /\ epQuestionName'[f] = epQuestionName[f]
                                      /\ f \in ended' <=> f \in ended
               /\ epOutput'[e] = None /\ epWorkGuid'[e] = None /\ epQuestionName'[e] = None
               /\ e \in ended'
    BY <1>0, <1>f DEF Finish, TypeOK
  <1>1. CASE Done(e)
    <2>1. \A f \in Ep \ {e} : Keeps(f)
      BY <1>0, <1>1, <1>f, NoneAssumption DEF Done, Keeps, TypeOK, Of, serverVars, Ep
    <2>2. calls'[e] = <<>> /\ turn' = None /\ UNCHANGED <<timers, requests, works, started>>
      BY <1>0, <1>1 DEF Done, TypeOK, serverVars
    <2>3. e \notin timers /\ Waits(e) = {} /\ e <= started
      BY <1>0, <1>1 DEF Own, Single, Done, Running
    <2>4. Of(e)' = Of(e)
      BY <2>2 DEF Of
    <2>5. \A r \in Of(e) : r.rsc = "answer"
      BY <2>3 DEF Waits
    <2>6. Own(e)'
      <3>1. Chained(e)' /\ Now(e)' = "none"
        BY <2>2 DEF Chained, Now
      <3>2. Fresh(e)'
        BY <1>0, <2>2, <2>3, <3>1 DEF Fresh, Preparing, Ep
      <3>3. Asked(e)'
        BY <1>0, <1>1, <1>f, <2>2, <2>4, <2>5 DEF Own, Asked, Done
      <3>4. Single(e)'
        BY <1>0, <1>1, <1>f, <2>2, <2>3, <2>4, <2>5 DEF Single, Waits, Done, Live
      <3>5. Running(e)' /\ Cleaned(e)'
        BY <1>1, <1>0, <1>f, <2>2 DEF Running, Cleaned, Done
      <3>6. QED  BY <3>1, <3>2, <3>3, <3>4, <3>5 DEF Own
    <2>7. QED  BY <2>1, <2>6, OneMoves
  <1>2. CASE CheckAPIKey(e) \/ GetTestrigs(e) \/ InitContainer(e)
    <2>1. PICK rsc, call :
            /\ Shift(e, call) /\ Send(e, rsc, None)
            /\ <<rsc, call>> \in {<<"checkapikey", "checkAPIKey">>,
                                  <<"listtestrigs", "getTestrigs">>,
                                  <<"initcontainer", "initcontainer">>}
      BY <1>2 DEF CheckAPIKey, GetTestrigs, InitContainer
    <2>2. UNCHANGED <<epVars, pageVars, serverVars, ended>>
      BY <1>2 DEF CheckAPIKey, GetTestrigs, InitContainer
    <2>c. turn = e /\ e \notin timers /\ e <= started /\ Of(e) = {}
          /\ \A f \in Ep \ {e} : calls'[f] = calls[f]
      BY <2>1, Called
    <2>s. /\ Of(e)' = Of(e) \cup
                {[ep |-> e, rsc |-> rsc, place |-> containerName, body |-> None]}
          /\ \A f \in Ep \ {e} : Of(f)' = Of(f)
      BY <2>1, Sent
    <2>3. \A f \in Ep \ {e} : Keeps(f)
      BY <2>1, <2>2, <2>c, <2>s, NoneAssumption DEF Keeps, Send, epVars, serverVars, Ep
    <2>4. Asked(e)'
      <3>1. Of(e)' = {[ep |-> e, rsc |-> rsc, place |-> containerName, body |-> None]}
        BY <2>c, <2>s
      <3>2. Now(e)' = call /\ (e \in Live)'
        BY <2>1, <2>2, Called DEF Live, Send
      <3>3. QED  BY <2>1, <3>1, <3>2 DEF Asked
    <2>5. call \in Call \ {"posttestriginit"}
      BY <2>1 DEF Call
    <2>6. Cleaned(e)'
      BY <2>1, <2>2, <2>5, CalledLive DEF Cleaned
    <2>7. QED
      BY <2>1, <2>2, <2>3, <2>4, <2>5, <2>6, Sending, OneMoves DEF serverVars
  <1>3. CASE Login(e)
    <2>c. turn = e /\ e \notin timers /\ e <= started /\ Of(e) = {}
          /\ \A f \in Ep \ {e} : calls'[f] = calls[f]
      BY <1>3, Called DEF Login
    <2>1. \A f \in Ep \ {e} : Keeps(f)
      BY <1>3, <1>f, <2>c, NoneAssumption DEF Login, Keeps, Of, serverVars, Ep
    <2>2. /\ turn' = None /\ UNCHANGED <<timers, requests, works, started>>
          /\ Now(e)' = "login" /\ Chained(e)'
      BY <1>3, Called DEF Login, serverVars
    <2>3. Of(e)' = {} /\ Waits(e)' = {} /\ e \notin timers /\ e <= started
      BY <1>3, <2>2, Called DEF Login, Of, Waits
    <2>4. Fresh(e)'
      <3>1. Now(e) \in Preparing
        BY <1>3, Called DEF Login, Follows, Preparing
      <3>2. QED  BY <1>0, <2>2, <2>3, <3>1 DEF Own, Fresh, Ep
    <2>5. Asked(e)' /\ Single(e)' /\ Running(e)' /\ Cleaned(e)'
      BY <1>0, <1>3, <1>f, <2>2, <2>3, NoneAssumption
         DEF Asked, Single, Running, Cleaned, Login, Live, Ep
    <2>6. QED  BY <2>1, <2>2, <2>4, <2>5, OneMoves DEF Own
  <1>4. CASE UploadTestrigSmart(e) \/ UploadDiffEnvSmart(e)
    <2>1. PICK rsc \in {"uploadtestrig", "uploadenvironment"},
               call \in {"uploadtestrigsmart", "uploaddiffenvsmart"},
               body \in {"content", "nothing"} :
            /\ Shift(e, call) /\ Send(e, rsc, body)
            /\ <<rsc, call>> \in {<<"uploadtestrig", "uploadtestrigsmart">>,
                                  <<"uploadenvironment", "uploaddiffenvsmart">>}
            /\ \/ UNCHANGED <<epVars, ended>>
               \/ body = "nothing" /\ Finish(e)
      <3>1. CASE UploadTestrigSmart(e)
        <4>1. Upload(e, "uploadtestrig") /\ Shift(e, "uploadtestrigsmart")
          BY <3>1 DEF UploadTestrigSmart
        <4>2. \E body \in {"content", "nothing"} :
                /\ Send(e, "uploadtestrig", body)
                /\ UNCHANGED <<epVars, ended>> \/ (body = "nothing" /\ Finish(e))
          BY <4>1 DEF Upload
        <4>3. QED  BY <4>1, <4>2
      <3>2. CASE UploadDiffEnvSmart(e)
        <4>1. Upload(e, "uploadenvironment") /\ Shift(e, "uploaddiffenvsmart")
          BY <3>2 DEF UploadDiffEnvSmart
        <4>2. \E body \in {"content", "nothing"} :
                /\ Send(e, "uploadenvironment", body)
                /\ UNCHANGED <<epVars, ended>> \/ (body = "nothing" /\ Finish(e))
          BY <4>1 DEF Upload
        <4>3. QED  BY <4>1, <4>2
      <3>3. QED  BY <1>4, <3>1, <3>2
    <2>2. UNCHANGED serverVars
      BY <1>4 DEF UploadTestrigSmart, UploadDiffEnvSmart
    <2>c. turn = e /\ e \notin timers /\ e <= started /\ Of(e) = {}
          /\ \A f \in Ep \ {e} : calls'[f] = calls[f]
      BY <2>1, Called
    <2>s. /\ Of(e)' = Of(e) \cup
                {[ep |-> e, rsc |-> rsc, place |-> containerName, body |-> body]}
          /\ \A f \in Ep \ {e} : Of(f)' = Of(f)
      BY <2>1, Sent
    <2>3. \A f \in Ep \ {e} : Keeps(f)
      BY <1>f, <2>1, <2>2, <2>c, <2>s, NoneAssumption
         DEF Keeps, Send, epVars, serverVars, Ep
    <2>4. Asked(e)'
      <3>1. Of(e)' = {[ep |-> e, rsc |-> rsc, place |-> containerName, body |-> body]}
        BY <2>c, <2>s
      <3>2. Now(e)' = call /\ ((e \in Live)' \/ body = "nothing")
        BY <2>1, Called DEF Live, Send
      <3>3. QED  BY <2>1, <3>1, <3>2 DEF Asked
    <2>5. call \in Call \ {"posttestriginit"}
      BY <2>1 DEF Call
    <2>6. Cleaned(e)'
      BY <1>f, <2>1, <2>5, CalledLive DEF Cleaned
    <2>7. QED
      BY <2>1, <2>2, <2>3, <2>4, <2>5, <2>6, Sending, OneMoves DEF serverVars
  <1>5. CASE UploadQuestionText(e)
    <2>0. Shift(e, "uploadquestiontext") /\ UNCHANGED serverVars
      BY <1>5 DEF UploadQuestionText
    <2>c. turn = e /\ e \notin timers /\ e <= started /\ Of(e) = {}
          /\ \A f \in Ep \ {e} : calls'[f] = calls[f]
      BY <2>0, Called
    <2>1. CASE /\ epQuestionName' = [epQuestionName EXCEPT ![e] = "question"]
               /\ Send(e, "uploadquestion", "content")
               /\ UNCHANGED <<epOutput, epWorkGuid, spinning, ended>>
      <3>s. /\ Of(e)' = Of(e) \cup
                  {[ep |-> e, rsc |-> "uploadquestion", place |-> containerName,
                    body |-> "content"]}
            /\ \A f \in Ep \ {e} : Of(f)' = Of(f)
        BY <2>1, Sent
      <3>1. \A f \in Ep \ {e} : Keeps(f)
        BY <1>0, <2>0, <2>1, <2>c, <3>s, NoneAssumption
           DEF Keeps, Send, serverVars, Ep, TypeOK
      <3>2. epQuestionName'[e] # None
        BY <1>0, <2>1, NoneAssumption DEF TypeOK
      <3>3. Asked(e)'
        <4>1. Of(e)' = {[ep |-> e, rsc |-> "uploadquestion", place |-> containerName,
                         body |-> "content"]}
          BY <2>c, <3>s
        <4>2. Now(e)' = "uploadquestiontext" /\ (e \in Live)'
          BY <2>0, <2>1, Called DEF Live, Send
        <4>3. QED  BY <3>2, <4>1, <4>2 DEF Asked
      <3>4. Cleaned(e)'
        <4>1. e \notin ended
          BY <2>0, CalledLive DEF Call
        <4>2. QED  BY <2>1, <4>1 DEF Cleaned
      <3>5. QED
        BY <2>0, <2>1, <3>1, <3>3, <3>4, Sending, OneMoves DEF serverVars, Call
    <2>2. CASE Finish(e) /\ turn' = None /\ UNCHANGED <<timers, requests, started, overlapped>>
      <3>1. \A f \in Ep \ {e} : Keeps(f)
        BY <1>f, <2>0, <2>2, <2>c, NoneAssumption DEF Keeps, Of, serverVars, Ep
      <3>2. /\ Of(e)' = {} /\ Waits(e)' = {} /\ e \notin timers /\ e <= started
            /\ Now(e)' = "uploadquestiontext" /\ Chained(e)'
        BY <2>0, <2>2, Called DEF Of, Waits
      <3>3. Fresh(e)'
        <4>1. Now(e) \in Preparing
          BY <2>0, Called DEF Follows, Preparing
        <4>2. QED  BY <1>0, <2>0, <2>2, <3>2, <4>1 DEF Own, Fresh, Ep, serverVars
      <3>4. Asked(e)' /\ Single(e)' /\ Running(e)' /\ Cleaned(e)'
        BY <1>0, <1>f, <2>2, <3>2, NoneAssumption
           DEF Asked, Single, Running, Cleaned, Live, Ep
      <3>5. QED  BY <3>1, <3>2, <3>3, <3>4, OneMoves DEF Own
    <2>3. QED  BY <1>5, <2>1, <2>2 DEF UploadQuestionText
  <1>6. CASE ShowOldTestrig(e) \/ PostTestrigInit(e) \/ PostDiffEnvInit(e)
    <2>1. PICK call \in {"showOldTestrig", "posttestriginit", "postdiffenvinit"} :
            Shift(e, call)
      BY <1>6 DEF ShowOldTestrig, PostTestrigInit, PostDiffEnvInit
    <2>2. UNCHANGED <<turn, epVars, timers, requests, serverVars, started, ended>>
      BY <1>6 DEF ShowOldTestrig, PostTestrigInit, PostDiffEnvInit
    <2>3. \A f \in Ep \ {e} : Keeps(f)
      BY <2>1, <2>2, Called DEF Keeps, Of, epVars, serverVars
    <2>4. /\ Of(e)' = {} /\ Waits(e)' = {} /\ turn' = e /\ e \notin timers' /\ e <= started'
          /\ Now(e)' = call /\ Chained(e)'
      BY <2>1, <2>2, Called DEF Of, Waits
    <2>5. Fresh(e)'
      <3>1. call \in Preparing => Now(e) \in Preparing
        BY <2>1, Called DEF Follows, Preparing
      <3>2. QED  BY <1>0, <2>2, <2>4, <3>1 DEF Own, Fresh, Ep, serverVars
    <2>6. Running(e)'
      <3>1. call \notin WorkType /\ call \notin {"uploadquestiontext", "uploaddiffenvsmart"}
        BY <2>1 DEF WorkType
      <3>2. (e \notin Live)' => call = "posttestriginit"
        BY <2>1, <2>2, Called DEF Live
      <3>3. QED  BY <2>4, <3>1, <3>2 DEF Running
    <2>7. Asked(e)' /\ Single(e)' /\ Cleaned(e)'
      BY <2>4 DEF Asked, Single, Cleaned
    <2>8. QED  BY <2>3, <2>4, <2>5, <2>6, <2>7, OneMoves DEF Own
  <1>7. ASSUME NEW type \in WorkType, QueueWork(e, type) PROVE \A f \in Ep : Own(f)'
    <2>1. /\ Shift(e, type) /\ Send(e, "queuework", type)
          /\ epWorkGuid' = [epWorkGuid EXCEPT ![e] = type]
          /\ UNCHANGED <<epOutput, epQuestionName, serverVars, ended>>
          /\ type \in Call \ {"posttestriginit"}
      BY <1>7 DEF QueueWork, WorkType, Call
    <2>c. turn = e /\ e \notin timers /\ e <= started /\ Of(e) = {}
          /\ \A f \in Ep \ {e} : calls'[f] = calls[f]
      BY <2>1, Called
    <2>n. e \notin ended /\ Now(e)' = type
      <3>1. Now(e)' = type
        BY <2>1, Called
      <3>2. e \notin ended
        BY <2>1, CalledLive
      <3>3. QED  BY <3>1, <3>2
    <2>s. /\ Of(e)' = Of(e) \cup
                {[ep |-> e, rsc |-> "queuework", place |-> containerName, body |-> type]}
          /\ \A f \in Ep \ {e} : Of(f)' = Of(f)
      BY <2>1, Sent
    <2>2. \A f \in Ep \ {e} : Keeps(f)
      BY <1>0, <2>1, <2>c, <2>s, NoneAssumption DEF Keeps, Send, serverVars, Ep, TypeOK
    <2>3. epWorkGuid'[e] = type
      BY <1>0, <2>1 DEF TypeOK
    <2>4. works[e] # None => /\ works[e].status = "TERMINATEDNORMALLY"
                             /\ <<works[e].type, type>> \in Successive
      <3>1. <<Now(e), type>> \in Follows /\ turn = e
        BY <2>1, Called
      <3>2. CASE Now(e) \in Preparing
        BY <1>0, <3>2 DEF Own, Fresh
      <3>3. CASE Now(e) \in {"parsevendorspecific", "parsevendorindependent"}
        <4>1. Worked(e, "TERMINATEDNORMALLY")
          BY <1>0, <3>1, <3>3 DEF Own, Running, WorkType
        <4>2. <<Now(e), type>> \in Successive
          BY <1>7, <3>1, <3>3 DEF Follows, Successive, WorkType
        <4>3. QED  BY <4>1, <4>2 DEF Worked
      <3>4. QED
        BY <1>7, <3>1, <3>2, <3>3 DEF Follows, Preparing, WorkType
    <2>5. Asked(e)'
      <3>1. Of(e)' = {[ep |-> e, rsc |-> "queuework", place |-> containerName,
                       body |-> type]}
        BY <2>c, <2>s
      <3>2. Now(e)' = type /\ (e \in Live)' /\ works' = works
        BY <2>1, <2>c, <2>n DEF Live, Send, serverVars
      <3>3. QED  BY <2>3, <2>4, <3>1, <3>2 DEF Asked
    <2>6. Cleaned(e)'
      BY <2>1, <2>n DEF Cleaned
    <2>7. QED
      BY <2>1, <2>2, <2>5, <2>6, Sending, OneMoves DEF serverVars
  <1>8. QED
    BY <1>1, <1>2, <1>3, <1>4, <1>5, <1>6, <1>7 DEF MakeNextCall
-----------------------------------------------------------------------------
(* Each entry point keeps to itself: the callbacks.                        *)

\* What is so when the reply to a request arrives.
LEMMA Answered ==
  ASSUME IInv, NEW r \in requests, turn = None
  PROVE  /\ r \in Request /\ r.ep \in Ep /\ r \in Of(r.ep)
         /\ turn # r.ep /\ r.ep <= started /\ ~(r.ep > started)
         /\ r.ep \notin timers
         /\ r.rsc # "answer" => \A q \in Of(r.ep) \ {r} : q.rsc = "answer"
         /\ r.rsc \in {"queuework", "getworkstatus"} => Of(r.ep) = {r}
         /\ r.rsc \notin {"log", "answer"} /\ r.body # "nothing" => r.ep \in Live
  <1> DEFINE e == r.ep
  <1>1. r \in Request /\ e \in Ep /\ r \in Of(e) /\ TypeOK
    BY DEF IInv, TypeOK, Request, Of
  <1>2. Own(e)
    BY <1>1 DEF IInv
  <1>3. turn # e
    BY <1>1, NoneAssumption DEF Ep
  <1>4. ~(e > started)
    BY <1>1, <1>2 DEF Own, Fresh
  <1>5. e <= started
    BY <1>1, <1>4 DEF TypeOK, Ep
  <1>6. r.rsc # "answer" => \A q \in Of(e) \ {r} : q.rsc = "answer"
    BY <1>1, <1>2 DEF Own, Single, Waits
  <1>7. \A type \in WorkType : type # None
    BY NoneAssumption
  <1>8. e \notin timers
    <2>1. CASE r.rsc = "answer"
      <3>1. epWorkGuid[e] = None
        BY <1>1, <1>2, <2>1 DEF Own, Asked
      <3>2. QED  BY <1>2, <1>7, <3>1 DEF Own, Single, Polls
    <2>2. CASE r.rsc # "answer"
      BY <1>1, <1>2, <2>2 DEF Own, Single, Waits
    <2>3. QED  BY <2>1, <2>2
  <1>9. ASSUME r.rsc \in {"queuework", "getworkstatus"} PROVE Of(e) = {r}
    <2>1. epWorkGuid[e] # None
      <3>1. r.body \in WorkType
        BY <1>1, <1>9 DEF Request
      <3>2. r.rsc = "queuework" => epWorkGuid[e] = r.body
        BY <1>1, <1>2 DEF Own, Asked
      <3>3. r.rsc = "getworkstatus" => epWorkGuid[e] = r.body
        BY <1>1, <1>2 DEF Own, Asked, Polls
      <3>4. QED  BY <1>7, <1>9, <3>1, <3>2, <3>3
    <2>2. \A q \in Of(e) : q.rsc # "answer"
      BY <1>2, <2>1 DEF Own, Asked
    <2>3. QED  BY <1>1, <1>6, <1>9, <2>2
  <1>10. r.rsc \notin {"log", "answer"} /\ r.body # "nothing" => e \in Live
    BY <1>1, <1>2 DEF Own, Asked
  <1>11. QED  BY <1>1, <1>3, <1>4, <1>5, <1>6, <1>8, <1>9, <1>10

\* The callbacks that make the next call and change nothing of the entry point.
LEMMA Resuming ==
  ASSUME IInv, TypeOK', NEW r \in requests, Resume(r),
         UNCHANGED <<calls, epVars, timers, works, started, ended>>,
         environments \subseteq environments',
         r.rsc \in {"checkapikey", "listtestrigs", "initcontainer", "uploadtestrig",
                    "uploadenvironment", "uploadquestion"},
         r.body # "nothing",
         r.rsc = "uploadenvironment" => r.ep \in environments'
  PROVE  \A f \in Ep : Own(f)'
  <1> DEFINE e == r.ep
  <1>1. /\ turn = None /\ turn' = e /\ Reply(r, {})
        /\ UNCHANGED <<calls, epOutput, epWorkGuid, epQuestionName>>
    BY DEF Resume, Reply, epVars
  <1>2. /\ r \in Request /\ e \in Ep /\ r \in Of(e) /\ e <= started /\ ~(e > started)
        /\ e \notin timers /\ e \in Live
        /\ \A q \in Of(e) \ {r} : q.rsc = "answer"
    BY <1>1, Answered
  <1>3. Of(e)' = Of(e) \ {r} /\ \A f \in Ep \ {e} : Of(f)' = Of(f)
    BY <1>1, Replied
  <1>4. TypeOK /\ Own(e) /\ Ep \subseteq Nat
    BY <1>2 DEF IInv, Ep
  <1>5. \A f \in Ep \ {e} : Keeps(f)
    BY <1>1, <1>2, <1>3, <1>4, NoneAssumption DEF Keeps
  <1>6. Now(e)' = Now(e) /\ (e \in Live)' /\ Waits(e)' = {}
    BY <1>1, <1>2, <1>3 DEF Now, Live, Waits
  <1>7. Chained(e)' /\ Fresh(e)' /\ Cleaned(e)'
    BY <1>1, <1>2, <1>4, <1>6 DEF Own, Chained, Fresh, Cleaned
  <1>8. Now(e) \notin Answering \cup {"none"}
    BY <1>2, <1>4 DEF Own, Asked, Answering
  <1>9. Of(e) \ {r} = {}
    BY <1>2, <1>4, <1>8 DEF Own, Asked, Now
  <1>10. Asked(e)' /\ Single(e)'
    BY <1>1, <1>2, <1>3, <1>6, <1>9 DEF Asked, Single
  <1>11. Running(e)'
    <2>1. Now(e) \notin WorkType
      BY <1>2, <1>4 DEF Own, Asked, WorkType
    <2>2. Now(e) = "uploadquestiontext" => epQuestionName[e] # None
      BY <1>2, <1>4 DEF Own, Asked
    <2>3. Now(e) = "uploaddiffenvsmart" => e \in environments'
      BY <1>2, <1>4 DEF Own, Asked
    <2>4. QED  BY <1>1, <1>2, <1>6, <2>1, <2>2, <2>3 DEF Running
  <1>12. QED  BY <1>2, <1>5, <1>7, <1>10, <1>11, OneMoves DEF Own

\* The callbacks that end the entry point.
LEMMA Stopping ==
  ASSUME IInv, TypeOK', NEW r \in requests, Stop(r),
         environments \subseteq environments',
         \A f \in Ep \ {r.ep} : works'[f] = works[f],
         \/ UNCHANGED <<calls, works>> /\ r.rsc \in {"checkapikey", "answer"}
         \/ /\ calls' = [calls EXCEPT ![r.ep] = <<>>]
            /\ works'[r.ep] = works[r.ep] \/ works'[r.ep] # None
  PROVE  \A f \in Ep : Own(f)'
  <1> DEFINE e == r.ep
  <1>1. /\ turn = None /\ turn' = None /\ Reply(r, {}) /\ Finish(e)
        /\ UNCHANGED <<timers, started>>
    BY DEF Stop, Reply
  <1>2. /\ r \in Request /\ e \in Ep /\ r \in Of(e) /\ e <= started /\ ~(e > started)
        /\ e \notin timers /\ turn # e
        /\ r.rsc # "answer" => \A q \in Of(e) \ {r} : q.rsc = "answer"
    BY <1>1, Answered
  <1>3. Of(e)' = Of(e) \ {r} /\ \A f \in Ep \ {e} : Of(f)' = Of(f)
    BY <1>1, Replied
  <1>4. TypeOK /\ Own(e) /\ Ep \subseteq Nat
    BY <1>2 DEF IInv, Ep
  <1>5. /\ \A f \in Ep \ {e} : /\ epOutput'[f] = epOutput[f]
                               /\ epWorkGuid'[f] = epWorkGuid[f]
                               /\ epQuestionName'[f] = epQuestionName[f]
                               /\ f \in ended' <=> f \in ended
                               /\ calls'[f] = calls[f] /\ works'[f] = works[f]
        /\ epOutput'[e] = None /\ epWorkGuid'[e] = None /\ epQuestionName'[e] = None
        /\ e \in ended'
    BY <1>1, <1>2, <1>4 DEF Finish, TypeOK
  <1>6. \A f \in Ep \ {e} : Keeps(f)
    BY <1>1, <1>2, <1>3, <1>5 DEF Keeps
  <1>7. ASSUME NEW q \in Of(e) \ {r}
        PROVE  /\ q.rsc \in {"log", "answer"} /\ works[e] # None
               /\ calls[e] = <<>> \/ Worked(e, "TERMINATEDNORMALLY")
               /\ calls'[e] = <<>> \/ calls[e] = <<>> \/ Now(e) \in Answering
    <2>1. \/ calls'[e] = <<>>
          \/ r.rsc \in {"checkapikey", "answer"}
      BY <1>2, <1>4 DEF TypeOK
    <2>2. CASE r.rsc # "answer"
      <3>1. q.rsc = "answer"
        BY <1>2, <2>2
      <3>2. QED  BY <1>4, <3>1 DEF Own, Asked
    <2>3. CASE r.rsc = "answer"
      <3>1. /\ works[e] # None /\ epWorkGuid[e] = None
            /\ calls[e] = <<>> \/ Now(e) \in Answering
        BY <1>2, <1>4, <2>3 DEF Own, Asked
      <3>2. q \in Request /\ q \in Of(e)
        BY <1>4 DEF Of, TypeOK
      <3>3. Now(e) \in {"none"} \cup Answering
        BY <3>1 DEF Now
      <3>4. q.rsc \notin {"queuework", "getworkstatus"}
        <4>1. q.rsc \in {"queuework", "getworkstatus"} => q.body \in WorkType
          BY <3>2 DEF Request
        <4>2. None \notin WorkType
          BY NoneAssumption
        <4>3. q.rsc = "queuework" => epWorkGuid[e] = q.body
          BY <1>4, <3>2 DEF Own, Asked
        <4>4. q.rsc = "getworkstatus" => epWorkGuid[e] = Now(e) /\ q.body = Now(e)
          BY <1>4, <3>2 DEF Own, Asked, Polls
        <4>5. QED  BY <3>1, <4>1, <4>2, <4>3, <4>4
      <3>5. q.rsc \notin {"checkapikey", "listtestrigs", "initcontainer", "uploadtestrig",
                         "uploadenvironment", "uploadquestion"}
        BY <1>4, <3>2, <3>3 DEF Own, Asked, Answering
      <3>6. q.rsc \in {"log", "answer"}
        BY <3>2, <3>4, <3>5 DEF Request
      <3>7. QED  BY <1>4, <3>1, <3>2, <3>6 DEF Own, Asked
    <2>4. QED  BY <2>2, <2>3
  <1>8. \/ UNCHANGED <<calls, works>> /\ Now(e)' = Now(e)
        \/ /\ calls'[e] = <<>> /\ Now(e)' = "none"
           /\ works'[e] = works[e] \/ works'[e] # None
    BY <1>2, <1>4 DEF Now, TypeOK
  <1>9. Chained(e)'
    BY <1>4, <1>8 DEF Own, Chained
  <1>10. Fresh(e)'
    BY <1>1, <1>2, <1>4, <1>8 DEF Own, Fresh, Preparing
  <1>11. Asked(e)'
    BY <1>3, <1>5, <1>7, <1>8 DEF Asked, Worked, Answering
  <1>12. Single(e)' /\ Running(e)' /\ Cleaned(e)'
    <2>1. Waits(e)' \subseteq Waits(e) /\ turn' # e /\ e \notin timers' /\ (e \notin Live)'
      BY <1>1, <1>2, <1>3, <1>5 DEF Waits, Live
    <2>2. QED  BY <1>4, <1>5, <2>1 DEF Own, Single, Running, Cleaned
  <1>13. QED  BY <1>2, <1>6, <1>9, <1>10, <1>11, <1>12, OneMoves DEF Own

\* The coordinator works on the zip file of an upload.
LEMMA ServingOwn ==
  ASSUME IInv, TypeOK', NEW r \in requests, ServeUpload(r)
  PROVE  \A f \in Ep : Own(f)'
  <1> DEFINE e == r.ep
             q == [r EXCEPT !.body = "serving"]
  <1>1. /\ turn = None /\ Reply(r, {q}) /\ r.rsc = "uploadtestrig" /\ r.body = "content"
        /\ UNCHANGED <<turn, calls, epOutput, epWorkGuid, epQuestionName, timers,
                       environments, works, started, ended>>
    BY DEF ServeUpload, Reply, epVars
  <1>2. /\ r \in Request /\ e \in Ep /\ r \in Of(e) /\ e \in Live /\ ~(e > started)
        /\ e \notin timers /\ turn # e
        /\ \A s \in Of(e) \ {r} : s.rsc = "answer"
    BY <1>1, Answered
  <1>3. q.ep = e /\ q.rsc = "uploadtestrig" /\ q.body = "serving"
    BY <1>1, <1>2 DEF Request
  <1>4. Of(e)' = (Of(e) \ {r}) \cup {q} /\ \A f \in Ep \ {e} : Of(f)' = Of(f)
    <2> HIDE DEF q
    <2>1. \A s \in {q} : s.ep = r.ep
      BY <1>3
    <2>2. QED  BY <1>1, <2>1, Replied
  <1>5. TypeOK /\ Own(e)
    BY <1>2 DEF IInv
  <1>6. \A f \in Ep \ {e} : Keeps(f)
    BY <1>1, <1>4 DEF Keeps
  <1>7. Now(e)' = Now(e) /\ (e \in Live)' /\ Waits(e)' = {q} /\ Now(e) = "uploadtestrigsmart"
    BY <1>1, <1>2, <1>3, <1>4, <1>5 DEF Now, Live, Waits, Own, Asked
  <1>8. Of(e)' = {q}
    BY <1>2, <1>4, <1>5, <1>7 DEF Own, Asked, Now, Answering
  <1>9. Chained(e)' /\ Fresh(e)' /\ Cleaned(e)'
    BY <1>1, <1>2, <1>5, <1>7 DEF Own, Chained, Fresh, Cleaned
  <1>10. Asked(e)'
    BY <1>3, <1>7, <1>8 DEF Asked
  <1>11. Single(e)' /\ Running(e)'
    BY <1>1, <1>2, <1>7 DEF Single, Running
  <1>12. QED  BY <1>2, <1>6, <1>9, <1>10, <1>11, OneMoves DEF Own

\* The coordinator has taken a work, and is asked for its status.
LEMMA QueuedOwn ==
  ASSUME IInv, TypeOK', NEW r \in requests, QueueWork_cb(r)
  PROVE  \A f \in Ep : Own(f)'
  <1> DEFINE e == r.ep
             q == About(e, "getworkstatus")
  <1>1. /\ turn = None /\ Reply(r, {q}) /\ r.rsc = "queuework"
        /\ works' = [works EXCEPT ![e] =
                       [type |-> r.body, place |-> r.place, status |-> "PENDING"]]
        /\ UNCHANGED <<turn, calls, epOutput, epWorkGuid, epQuestionName, timers,
                       environments, started, ended>>
    BY DEF QueueWork_cb, TakeWork, Reply, epVars
  <1>2. /\ r \in Request /\ e \in Ep /\ r \in Of(e) /\ ~(e > started)
        /\ e \notin timers /\ turn # e /\ Of(e) = {r}
        /\ r.body # "nothing" => e \in Live
    BY <1>1, Answered
  <1>3. q.ep = e /\ q.rsc = "getworkstatus" /\ q.body = epWorkGuid[e]
    BY DEF About
  <1>4. Of(e)' = {q} /\ \A f \in Ep \ {e} : Of(f)' = Of(f)
    <2> HIDE DEF q
    <2>1. \A s \in {q} : s.ep = r.ep
      BY <1>3
    <2>2. Of(r.ep)' = (Of(r.ep) \ {r}) \cup {q} /\ \A f \in Ep \ {r.ep} : Of(f)' = Of(f)
      BY <1>1, <2>1, Replied
    <2>3. QED  BY <1>2, <2>2
  <1>5. TypeOK /\ Own(e) /\ r.body \in WorkType
    BY <1>1, <1>2 DEF IInv, Request
  <1>6. Now(e) = r.body /\ epWorkGuid[e] = r.body
    BY <1>1, <1>2, <1>5 DEF Own, Asked
  <1>7. works'[e] # None /\ works'[e].type = r.body /\ \A f \in Ep \ {e} : works'[f] = works[f]
    <2>1. works'[e] \in Work
      BY <1>1, <1>2, <1>5 DEF TypeOK, Request, Work, Status
    <2>2. QED  BY <1>1, <1>2, <1>5, <2>1, NoneAssumption DEF TypeOK
  <1>8. \A f \in Ep \ {e} : Keeps(f)
    BY <1>1, <1>4, <1>7 DEF Keeps
  <1>9. e \in Live
    BY <1>2, <1>5 DEF WorkType
  <1>10. Now(e)' = r.body /\ (e \in Live)' /\ Waits(e)' = {q} /\ Polls(e)'
    <2>1. Now(e)' = r.body /\ (e \in Live)' /\ Waits(e)' = {q}
      BY <1>1, <1>3, <1>4, <1>6, <1>9 DEF Now, Live, Waits
    <2>2. QED  BY <1>1, <1>5, <1>6, <1>7, <2>1 DEF Polls
  <1>11. Chained(e)' /\ Fresh(e)' /\ Cleaned(e)'
    BY <1>1, <1>2, <1>5, <1>10 DEF Own, Chained, Fresh, Cleaned, Preparing, WorkType
  <1>12. Asked(e)'
    BY <1>3, <1>4, <1>6, <1>10 DEF Asked
  <1>13. Single(e)' /\ Running(e)'
    BY <1>1, <1>2, <1>10 DEF Single, Running
  <1>14. QED  BY <1>2, <1>8, <1>11, <1>12, <1>13, OneMoves DEF Own

\* The status of a work has arrived.
LEMMA CheckedOwn ==
  ASSUME IInv, TypeOK', NEW r \in requests, CheckWork_cb(r)
  PROVE  \A f \in Ep : Own(f)'
  <1> DEFINE e == r.ep
  <1>1. /\ turn = None /\ r.rsc = "getworkstatus"
        /\ UNCHANGED <<turn, epOutput, epQuestionName, environments, works, started, ended>>
    BY DEF CheckWork_cb, CheckAgain, FetchResults, FetchLogOnly, Reply, serverVars
  <1>2. /\ r \in Request /\ e \in Ep /\ r \in Of(e) /\ ~(e > started)
        /\ e \notin timers /\ turn # e /\ Of(e) = {r}
        /\ r.body # "nothing" => e \in Live
    BY <1>1, Answered
  <1>3. TypeOK /\ Own(e) /\ r.body \in WorkType /\ Polls(e) /\ r.body = Now(e)
    <2>1. TypeOK /\ Own(e) /\ r.body \in WorkType
      BY <1>1, <1>2 DEF IInv, Request
    <2>2. QED  BY <1>1, <1>2, <2>1 DEF Own, Asked
  <1>4. e \in Live /\ (e \in Live)'
    BY <1>1, <1>2, <1>3 DEF WorkType, Live
  <1>5. CASE CheckAgain(r)
    <2>1. Reply(r, {}) /\ timers' = timers \cup {e} /\ UNCHANGED <<calls, epWorkGuid>>
      BY <1>5 DEF CheckAgain
    <2>2. Of(e)' = {} /\ \A f \in Ep \ {e} : Of(f)' = Of(f)
      <3>1. Of(r.ep)' = (Of(r.ep) \ {r}) \cup {} /\ \A f \in Ep \ {r.ep} : Of(f)' = Of(f)
        BY <2>1, Replied
      <3>2. QED  BY <1>2, <3>1
    <2>3. \A f \in Ep \ {e} : Keeps(f)
      BY <1>1, <2>1, <2>2 DEF Keeps
    <2>4. Now(e)' = Now(e) /\ Waits(e)' = {} /\ Polls(e)'
      BY <1>1, <1>3, <2>1, <2>2 DEF Now, Waits, Polls
    <2>5. Chained(e)' /\ Fresh(e)' /\ Cleaned(e)'
      BY <1>1, <1>2, <1>3, <2>1, <2>4 DEF Own, Chained, Fresh, Cleaned
    <2>6. Asked(e)' /\ Single(e)' /\ Running(e)'
      BY <1>1, <1>2, <1>4, <2>1, <2>2, <2>4 DEF Asked, Single, Running
    <2>7. QED  BY <1>2, <2>3, <2>5, <2>6, OneMoves DEF Own
  <1>6. CASE FetchResults(r)
    <2> DEFINE more == {About(e, "log")} \cup
                         (IF r.body \in Answering THEN {About(e, "answer")} ELSE {})
    <2>1. /\ Reply(r, more) /\ UNCHANGED <<calls, timers>>
          /\ epWorkGuid' = [epWorkGuid EXCEPT ![e] = None]
          /\ works[e].status = "TERMINATEDNORMALLY"
      BY <1>6 DEF FetchResults
    <2>2. \A q \in more : /\ q.ep = e /\ q.rsc \in {"log", "answer"}
                          /\ q.rsc = "answer" => r.body \in Answering
      BY DEF About
    <2>3. Of(e)' = more /\ \A f \in Ep \ {e} : Of(f)' = Of(f)
      <3> HIDE DEF more
      <3>1. Of(r.ep)' = (Of(r.ep) \ {r}) \cup more /\ \A f \in Ep \ {r.ep} : Of(f)' = Of(f)
        BY <2>1, <2>2, Replied
      <3>2. QED  BY <1>2, <3>1
    <2>4. epWorkGuid'[e] = None /\ \A f \in Ep \ {e} : epWorkGuid'[f] = epWorkGuid[f]
      BY <1>2, <1>3, <2>1 DEF TypeOK
    <2>5. \A f \in Ep \ {e} : Keeps(f)
      BY <1>1, <2>1, <2>3, <2>4 DEF Keeps
    <2>6. Now(e)' = Now(e) /\ Waits(e)' = {About(e, "log")}
      <3>1. Now(e)' = Now(e)
        BY <2>1 DEF Now
      <3>2. About(e, "log").rsc = "log" /\ About(e, "answer").rsc = "answer"
        BY DEF About
      <3>3. QED  BY <2>3, <3>1, <3>2 DEF Waits
    <2>7. (Worked(e, "TERMINATEDNORMALLY"))'
      BY <1>1, <1>3, <2>1, <2>6 DEF Worked, Polls
    <2>8. Chained(e)' /\ Fresh(e)' /\ Cleaned(e)'
      BY <1>1, <1>2, <1>3, <1>4, <2>1, <2>6 DEF Own, Chained, Fresh, Cleaned, Live
    <2>9. Asked(e)'
      BY <1>3, <1>4, <2>2, <2>3, <2>4, <2>6, <2>7 DEF Asked, Worked
    <2>10. Single(e)' /\ Running(e)'
      BY <1>1, <1>2, <2>1, <2>6 DEF Single, Running
    <2>11. QED  BY <1>2, <2>5, <2>8, <2>9, <2>10, OneMoves DEF Own
  <1>7. CASE FetchLogOnly(r)
    <2> DEFINE q == About(e, "log")
    <2>1. /\ Reply(r, {q}) /\ UNCHANGED timers
          /\ calls' = [calls EXCEPT ![e] = <<>>]
          /\ epWorkGuid' = [epWorkGuid EXCEPT ![e] = None]
      BY <1>7 DEF FetchLogOnly
    <2>2. q.ep = e /\ q.rsc = "log"
      BY DEF About
    <2>3. Of(e)' = {q} /\ \A f \in Ep \ {e} : Of(f)' = Of(f)
      <3> HIDE DEF q
      <3>1. Of(r.ep)' = (Of(r.ep) \ {r}) \cup {q} /\ \A f \in Ep \ {r.ep} : Of(f)' = Of(f)
        BY <2>1, <2>2, Replied
      <3>2. QED  BY <1>2, <3>1
    <2>4. /\ epWorkGuid'[e] = None /\ calls'[e] = <<>>
          /\ \A f \in Ep \ {e} : epWorkGuid'[f] = epWorkGuid[f] /\ calls'[f] = calls[f]
      BY <1>2, <1>3, <2>1 DEF TypeOK
    <2>5. \A f \in Ep \ {e} : Keeps(f)
      BY <1>1, <2>1, <2>3, <2>4 DEF Keeps
    <2>6. Now(e)' = "none" /\ Waits(e)' = {q}
      BY <2>2, <2>3, <2>4 DEF Now, Waits
    <2>7. Chained(e)' /\ Fresh(e)' /\ Cleaned(e)'
      BY <1>1, <1>2, <1>3, <1>4, <2>4, <2>6
         DEF Chained, Fresh, Cleaned, Live, Preparing
    <2>8. Asked(e)'
      BY <1>1, <1>3, <1>4, <2>2, <2>3, <2>4 DEF Asked, Polls
    <2>9. Single(e)' /\ Running(e)'
      BY <1>1, <1>2, <2>1, <2>6 DEF Single, Running
    <2>10. QED  BY <1>2, <2>5, <2>7, <2>8, <2>9, OneMoves DEF Own
  <1>8. QED  BY <1>5, <1>6, <1>7 DEF CheckWork_cb

\* A log has arrived.
LEMMA LoggedOwn ==
  ASSUME IInv, TypeOK', NEW r \in requests, GetLog_cb(r) \/ GetTopology_cb(r)
  PROVE  \A f \in Ep : Own(f)'
  <1> DEFINE e == r.ep
  <1>1. /\ turn = None /\ turn' = e /\ Reply(r, {}) /\ r.rsc = "log"
        /\ UNCHANGED <<calls, timers, environments, works, started>>
    BY DEF GetLog_cb, GetTopology_cb, Resume, Reply, Fetched, serverVars
  <1>2. /\ r \in Request /\ e \in Ep /\ r \in Of(e) /\ e <= started /\ ~(e > started)
        /\ e \notin timers /\ turn # e
        /\ \A s \in Of(e) \ {r} : s.rsc = "answer"
    BY <1>1, Answered
  <1>3. Of(e)' = Of(e) \ {r} /\ \A f \in Ep \ {e} : Of(f)' = Of(f)
    BY <1>1, Replied
  <1>4. TypeOK /\ Own(e) /\ Ep \subseteq Nat
    BY <1>2 DEF IInv, Ep
  <1>5. /\ works[e] # None /\ epWorkGuid[e] = None
        /\ calls[e] = <<>> \/ Worked(e, "TERMINATEDNORMALLY")
    BY <1>1, <1>2, <1>4 DEF Own, Asked
  <1>6. /\ \A f \in Ep \ {e} : /\ epOutput'[f] = epOutput[f]
                               /\ epWorkGuid'[f] = epWorkGuid[f]
                               /\ epQuestionName'[f] = epQuestionName[f]
                               /\ f \in ended' <=> f \in ended
        /\ epWorkGuid'[e] = None
        /\ e \notin ended => (e \in ended' => Draws(r))
    <2>1. CASE GetLog_cb(r)
      BY <1>2, <1>4, <1>5, <2>1 DEF GetLog_cb, TypeOK
    <2>2. CASE GetTopology_cb(r)
      <3>1. Finish(e) \/ UNCHANGED <<epOutput, epWorkGuid, epQuestionName, ended>>
        BY <2>2 DEF GetTopology_cb, epVars
      <3>2. Draws(r)
        BY <2>2 DEF GetTopology_cb
      <3>3. CASE Finish(e)
        BY <1>2, <1>4, <1>5, <3>2, <3>3 DEF Finish, TypeOK
      <3>4. CASE UNCHANGED <<epOutput, epWorkGuid, epQuestionName, ended>>
        BY <1>5, <3>4
      <3>5. QED  BY <3>1, <3>3, <3>4
    <2>3. QED  BY <2>1, <2>2
  <1>7. \A f \in Ep \ {e} : Keeps(f)
    BY <1>1, <1>2, <1>3, <1>4, <1>6, NoneAssumption DEF Keeps
  <1>8. Now(e)' = Now(e) /\ Waits(e)' = {}
    BY <1>1, <1>2, <1>3 DEF Now, Waits
  <1>9. Draws(r) => Now(e) = "drawtopology"
    BY DEF Draws, Now
  <1>10. \A s \in Of(e) \ {r} : calls[e] = <<>> \/ Now(e) \in Answering
    BY <1>2, <1>4 DEF Own, Asked
  <1>11. e \notin Live => calls[e] = <<>> \/ Now(e) \in Answering
    BY <1>1, <1>2, <1>4 DEF Own, Asked
  <1>12. e \notin ended /\ e \notin ended' => (e \in Live)' /\ e \in Live
    BY <1>1, <1>2 DEF Live
  <1>13. Chained(e)' /\ Fresh(e)' /\ Cleaned(e)'
    BY <1>1, <1>2, <1>4, <1>8 DEF Own, Chained, Fresh, Cleaned
  <1>14. (Worked(e, "TERMINATEDNORMALLY"))' <=> Worked(e, "TERMINATEDNORMALLY")
    BY <1>1, <1>8 DEF Worked
  <1>15. Asked(e)'
    BY <1>1, <1>2, <1>3, <1>5, <1>6, <1>8, <1>10, <1>14 DEF Asked
  <1>16. Single(e)'
    BY <1>1, <1>2, <1>8 DEF Single
  <1>17. Running(e)'
    <2>1. Now(e) \in WorkType => Worked(e, "TERMINATEDNORMALLY")
      BY <1>5 DEF Now, WorkType
    <2>2. Now(e) \in WorkType \cup {"none"}
      <3>1. CASE calls[e] = <<>>
        BY <3>1 DEF Now
      <3>2. CASE Worked(e, "TERMINATEDNORMALLY")
        <4>1. works[e] \in Work
          BY <1>2, <1>4, <3>2 DEF Worked, TypeOK
        <4>2. works[e].type \in WorkType
          BY <4>1 DEF Work
        <4>3. QED  BY <3>2, <4>2 DEF Worked
      <3>3. QED  BY <1>5, <3>1, <3>2
    <2>3. (e \notin Live)' => calls[e] = <<>> \/ Now(e) \in Answering \cup {"drawtopology"}
      BY <1>6, <1>9, <1>11, <1>12 DEF Live
    <2>4. QED  BY <1>1, <1>2, <1>6, <1>8, <1>14, <2>1, <2>2, <2>3 DEF Running, WorkType
  <1>18. QED  BY <1>2, <1>7, <1>13, <1>15, <1>16, <1>17, OneMoves DEF Own

\* An answer has arrived, which continues nothing.
LEMMA AnswerOwn ==
  ASSUME IInv, TypeOK', NEW r \in requests, r.rsc = "answer", Reply(r, {}),
         UNCHANGED <<turn, calls, epVars, timers, works, environments, ended>>
  PROVE  \A f \in Ep : Own(f)'
  <1> DEFINE e == r.ep
  <1>1. /\ turn = None
        /\ UNCHANGED <<epOutput, epWorkGuid, epQuestionName, started>>
    BY DEF Reply, epVars
  <1>2. r \in Request /\ e \in Ep /\ r \in Of(e) /\ ~(e > started)
    BY <1>1, Answered
  <1>3. Of(e)' = Of(e) \ {r} /\ \A f \in Ep \ {e} : Of(f)' = Of(f)
    BY Replied
  <1>4. TypeOK /\ Own(e)
    BY <1>2 DEF IInv
  <1>5. \A f \in Ep \ {e} : Keeps(f)
    BY <1>1, <1>3 DEF Keeps
  <1>6. /\ Now(e)' = Now(e) /\ Waits(e)' = Waits(e)
        /\ (e \in Live)' <=> e \in Live
        /\ Polls(e)' <=> Polls(e)
        /\ (Worked(e, "TERMINATEDNORMALLY"))' <=> Worked(e, "TERMINATEDNORMALLY")
    BY <1>1, <1>3 DEF Now, Waits, Live, Polls, Worked
  <1>7. Chained(e)' /\ Fresh(e)' /\ Cleaned(e)'
    BY <1>1, <1>2, <1>4, <1>6 DEF Own, Chained, Fresh, Cleaned
  <1>8. Asked(e)'
    BY <1>1, <1>3, <1>4, <1>6 DEF Own, Asked
  <1>9. Single(e)' /\ Running(e)'
    BY <1>1, <1>4, <1>6 DEF Own, Single, Running
  <1>10. QED  BY <1>2, <1>5, <1>7, <1>8, <1>9, OneMoves DEF Own

LEMMA CallbackOwn ==
  ASSUME IInv, TypeOK', NEW r \in requests, Callback(r)
  PROVE  \A f \in Ep : Own(f)'
  <1>0. TypeOK /\ r \in Request /\ r.ep \in Ep
    BY DEF IInv, TypeOK, Request
  <1>1. r.rsc \in {"checkapikey", "listtestrigs", "initcontainer"} => r.body # "nothing"
    BY <1>0, NoneAssumption DEF Request
  <1>2. CASE CheckApiKey_cb(r)
    <2>1. r.rsc = "checkapikey" /\ UNCHANGED <<calls, works, environments>>
      BY <1>2 DEF CheckApiKey_cb, serverVars
    <2>2. CASE Resume(r) /\ UNCHANGED <<epVars, timers, ended>>
      <3>1. started' = started
        BY <2>2 DEF Resume, Reply
      <3>2. QED  BY <1>1, <2>1, <2>2, <3>1, Resuming
    <2>3. CASE Stop(r)
      BY <2>1, <2>3, Stopping
    <2>4. QED  BY <1>2, <2>2, <2>3 DEF CheckApiKey_cb
  <1>3. CASE GetTestrigs_cb(r) \/ InitContainer_cb(r) \/ UploadTestrig_cb(r)
             \/ UploadDifEnv_cb(r) \/ UploadQuestion_cb(r)
    <2>1. /\ Resume(r)
          /\ UNCHANGED <<calls, epVars, timers, works, ended>>
          /\ environments \subseteq environments'
          /\ r.rsc \in {"checkapikey", "listtestrigs", "initcontainer", "uploadtestrig",
                        "uploadenvironment", "uploadquestion"}
          /\ r.rsc = "uploadenvironment" => r.ep \in environments'
      BY <1>3
         DEF GetTestrigs_cb, InitContainer_cb, UploadTestrig_cb, UploadDifEnv_cb,
             UploadQuestion_cb, serverVars
    <2>2. r.body # "nothing"
      <3>1. UploadTestrig_cb(r) \/ UploadDifEnv_cb(r) => r.body # "nothing"
        BY DEF UploadTestrig_cb, UploadDifEnv_cb
      <3>2. UploadQuestion_cb(r) => r.body # "nothing"
        BY <1>0 DEF UploadQuestion_cb, Request
      <3>3. QED  BY <1>1, <1>3, <3>1, <3>2 DEF GetTestrigs_cb, InitContainer_cb
    <2>3. started' = started
      BY <2>1 DEF Resume, Reply
    <2>4. QED  BY <2>1, <2>2, <2>3, Resuming
  <1>4. CASE GetAnsJson_cb(r)
    <2>1. r.rsc = "answer" /\ UNCHANGED <<calls, works, environments>>
      BY <1>4 DEF GetAnsJson_cb, Fetched, serverVars
    <2>2. CASE Reply(r, {}) /\ UNCHANGED <<turn, epVars, timers, pageVars, spinning, ended>>
      BY <2>1, <2>2, AnswerOwn
    <2>3. CASE Stop(r)
      BY <2>1, <2>3, Stopping
    <2>4. QED  BY <1>4, <2>2, <2>3 DEF GetAnsJson_cb
  <1>5. CASE GenericFailure_cb(r)
    <2>1. Stop(r) /\ calls' = [calls EXCEPT ![r.ep] = <<>>]
      BY <1>5 DEF GenericFailure_cb
    <2>2. ASSUME TakeWork(r)
          PROVE  /\ \A f \in Ep \ {r.ep} : works'[f] = works[f]
                 /\ works'[r.ep] # None /\ environments' = environments
      <3>1. r.body \in WorkType
        BY <1>0, <2>2 DEF TakeWork, Request
      <3>2. works'[r.ep] \in Work
        BY <1>0, <2>2, <3>1 DEF TakeWork, TypeOK, Request, Work, Status
      <3>3. QED  BY <1>0, <2>2, <3>2, NoneAssumption DEF TakeWork, TypeOK
    <2>3. /\ \A f \in Ep \ {r.ep} : works'[f] = works[f]
          /\ works'[r.ep] = works[r.ep] \/ works'[r.ep] # None
          /\ environments \subseteq environments'
      BY <1>5, <2>2 DEF GenericFailure_cb, DoneInVain, serverVars
    <2>4. QED  BY <2>1, <2>3, Stopping
  <1>6. QED
    BY <1>2, <1>3, <1>4, <1>5, ServingOwn, QueuedOwn, CheckedOwn, LoggedOwn DEF Callback
-----------------------------------------------------------------------------
(* Each entry point keeps to itself: every step.                           *)

LEMMA StartOwn ==
  ASSUME IInv, TypeOK', NEW b \in Button, StartCalls(b)
  PROVE  \A f \in Ep : Own(f)'
  <1>0. TypeOK /\ started + 1 \in Ep /\ started \in Nat /\ Ep \subseteq Nat
    BY BoundsAssumption DEF IInv, StartCalls, TypeOK, Ep
  <1>1. PICK e \in Ep : e = started + 1
    BY <1>0
  <1>2. e > started /\ \A f \in Ep \ {e} : (f <= e) <=> (f <= started)
    BY <1>0, <1>1
  <1>3. calls[e] = <<>> /\ e \notin ended /\ e \notin timers /\ Of(e) = {} /\ works[e] = None
    BY <1>0, <1>1, <1>2 DEF IInv, Own, Fresh
  <1>4. /\ turn = None /\ turn' = e /\ started' = e
        /\ calls' = [calls EXCEPT ![e] = <<"start">> \o Chain[b]]
        /\ epOutput' = [epOutput EXCEPT ![e] = "text"]
        /\ UNCHANGED <<epWorkGuid, epQuestionName, timers, requests, works, environments,
                       ended>>
    BY <1>1 DEF StartCalls, serverVars
  <1>5. Of(e)' = {} /\ Waits(e)' = {} /\ \A f \in Ep : Of(f)' = Of(f)
    BY <1>1, <1>3, <1>4 DEF Of, Waits
  <1>6. \A f \in Ep \ {e} : Keeps(f)
    BY <1>0, <1>1, <1>2, <1>4, <1>5, NoneAssumption DEF Keeps, TypeOK
  <1>7. /\ calls'[e] # <<>> /\ Now(e)' = "start"
        /\ \A k \in 1 .. Len(calls'[e]) - 1 : <<calls'[e][k], calls'[e][k + 1]>> \in Follows
    <2>1. calls'[e] = <<"start">> \o Chain[b]
      BY <1>0, <1>1, <1>4 DEF TypeOK
    <2>2. /\ calls'[e] # <<>> /\ calls'[e][1] = "start"
          /\ \A k \in 1 .. Len(calls'[e]) - 1 :
               <<calls'[e][k], calls'[e][k + 1]>> \in Follows
      BY <1>1, <2>1, StartedList
    <2>3. QED  BY <2>2 DEF Now
  <1>8. Chained(e)'
    BY <1>7 DEF Chained
  <1>9. Fresh(e)' /\ Asked(e)' /\ Single(e)' /\ Cleaned(e)'
    BY <1>0, <1>1, <1>3, <1>4, <1>5, <1>7 DEF Fresh, Asked, Single, Cleaned
  <1>10. Running(e)'
    BY <1>0, <1>1, <1>3, <1>4, <1>7 DEF Running, Live, WorkType
  <1>11. QED  BY <1>0, <1>1, <1>6, <1>8, <1>9, <1>10, OneMoves DEF Own

LEMMA PollOwn ==
  ASSUME IInv, TypeOK', NEW e \in Ep, CheckWork(e)
  PROVE  \A f \in Ep : Own(f)'
  <1> DEFINE q == About(e, "getworkstatus")
  <1>1. /\ turn = None /\ e \in timers /\ timers' = timers \ {e}
        /\ requests' = requests \cup {q}
        /\ UNCHANGED <<turn, calls, epOutput, epWorkGuid, epQuestionName, works,
                       environments, started, ended>>
    BY DEF CheckWork, epVars, serverVars
  <1>2. q.ep = e /\ q.rsc = "getworkstatus" /\ q.body = epWorkGuid[e]
    BY DEF About
  <1>3. TypeOK /\ Own(e)
    BY DEF IInv
  <1>4. e \in Live /\ turn # e /\ Polls(e) /\ Waits(e) = {}
    BY <1>1, <1>3 DEF Own, Single
  <1>5. Of(e) = {}
    <2>1. epWorkGuid[e] # None
      BY <1>4, NoneAssumption DEF Polls
    <2>2. QED  BY <1>3, <1>4, <2>1 DEF Own, Asked, Waits
  <1>6. Of(e)' = {q} /\ \A f \in Ep \ {e} : Of(f)' = Of(f)
    BY <1>1, <1>2, <1>5 DEF Of
  <1>7. \A f \in Ep \ {e} : Keeps(f)
    BY <1>1, <1>6 DEF Keeps
  <1>8. Now(e)' = Now(e) /\ Waits(e)' = {q} /\ (e \in Live)' /\ Polls(e)'
    BY <1>1, <1>2, <1>4, <1>6 DEF Now, Waits, Live, Polls
  <1>9. Chained(e)' /\ Fresh(e)' /\ Cleaned(e)'
    BY <1>1, <1>3, <1>4, <1>8 DEF Own, Chained, Fresh, Cleaned, Live, TypeOK, Ep
  <1>10. Asked(e)'
    BY <1>2, <1>4, <1>6, <1>8 DEF Asked, Polls
  <1>11. Single(e)' /\ Running(e)'
    BY <1>1, <1>4, <1>8 DEF Single, Running
  <1>12. QED  BY <1>7, <1>9, <1>10, <1>11, OneMoves DEF Own

LEMMA EndWorkOwn ==
  ASSUME IInv, TypeOK', NEW e \in Ep, EndWork(e)
  PROVE  \A f \in Ep : Own(f)'
  <1>1. /\ turn = None /\ works[e] # None /\ works[e].status = "PENDING"
        /\ UNCHANGED <<turn, calls, epOutput, epWorkGuid, epQuestionName, timers, requests,
                       environments, started, ended>>
    BY DEF EndWork, epVars
  <1>2. TypeOK /\ Own(e)
    BY DEF IInv
  <1>3. PICK end \in Status : works' = [works EXCEPT ![e].status = end]
    BY DEF EndWork
  <1>4. works[e] \in Work
    BY <1>1, <1>2 DEF TypeOK
  <1>5. /\ works'[e] # None /\ works'[e].type = works[e].type
        /\ \A f \in Ep \ {e} : works'[f] = works[f]
    <2>1. works'[e] = [works[e] EXCEPT !.status = end]
      BY <1>2, <1>3 DEF TypeOK
    <2>2. works'[e] \in Work /\ works'[e].type = works[e].type
      BY <1>4, <2>1 DEF Work
    <2>3. QED  BY <1>2, <1>3, <2>2, NoneAssumption DEF TypeOK
  <1>6. \A f \in Ep : Of(f)' = Of(f) /\ Waits(f)' = Waits(f) /\ Now(f)' = Now(f)
    BY <1>1 DEF Of, Waits, Now
  <1>7. \A f \in Ep \ {e} : Keeps(f)
    BY <1>1, <1>5, <1>6 DEF Keeps
  <1>8. Polls(e)' <=> Polls(e)
    BY <1>1, <1>5, <1>6 DEF Polls
  <1>9. Chained(e)' /\ Fresh(e)' /\ Cleaned(e)'
    BY <1>1, <1>2, <1>6 DEF Own, Chained, Fresh, Cleaned
  <1>10. Asked(e)'
    <2>1. ~Worked(e, "TERMINATEDNORMALLY")
      BY <1>1 DEF Worked
    <2>2. \A r \in Of(e) : r.rsc # "queuework"
      BY <1>1, <1>2 DEF Own, Asked
    <2>3. \A r \in Of(e) : r.rsc \in {"log", "answer"} => calls[e] = <<>>
      BY <1>2, <2>1 DEF Own, Asked
    <2>4. (e \in Live)' <=> e \in Live
      BY <1>1 DEF Live
    <2>5. QED  BY <1>1, <1>2, <1>5, <1>6, <1>8, <2>2, <2>3, <2>4 DEF Own, Asked
  <1>11. Single(e)' /\ Running(e)'
    BY <1>1, <1>2, <1>6, <1>8, NoneAssumption DEF Own, Single, Running, Live, Ep
  <1>12. QED  BY <1>7, <1>9, <1>10, <1>11, OneMoves DEF Own

\* What a restart does to the works and to the requests of an entry point.
LEMMA Restarted ==
  ASSUME IInv, Restart, NEW e \in Ep
  PROVE  /\ works'[e] = None <=> works[e] = None
         /\ works[e] # None => works'[e].type = works[e].type
                               /\ works'[e].place = works[e].place
         /\ epWorkGuid[e] = None => works'[e] = works[e]
         /\ works[e] # None /\ epWorkGuid[e] # works[e].type => works'[e] = works[e]
         /\ works'[e] = works[e] \/ works'[e].status = "FORGOTTEN"
         /\ \A q \in Of(e)' : \E r \in Of(e) :
              /\ q = r \/ (r.body = "serving" /\ q = [r EXCEPT !.body = "lost"])
              /\ q.ep = r.ep /\ q.rsc = r.rsc /\ q.place = r.place
              /\ r.rsc # "uploadtestrig" => q = r
              /\ r.body = "nothing" => q.body = "nothing"
         /\ Of(e) # {} => Of(e)' # {}
  <1>1. TypeOK
    BY DEF IInv
  <1>2. /\ works' = [f \in Ep |-> IF works[f] # None /\ epWorkGuid[f] = works[f].type
                                 THEN [works[f] EXCEPT !.status = "FORGOTTEN"]
                                 ELSE works[f]]
        /\ requests' = {IF r.body = "serving" THEN [r EXCEPT !.body = "lost"] ELSE r :
                          r \in requests}
    BY DEF Restart
  <1>3. ASSUME works[e] # None, epWorkGuid[e] = works[e].type
        PROVE  /\ works'[e] # None /\ works'[e].type = works[e].type
               /\ works'[e].place = works[e].place /\ epWorkGuid[e] # None
               /\ works'[e].status = "FORGOTTEN"
    <2>1. works[e] \in Work
      BY <1>1, <1>3 DEF TypeOK
    <2>2. works'[e] = [works[e] EXCEPT !.status = "FORGOTTEN"]
      BY <1>2, <1>3
    <2>3. /\ works'[e] \in Work /\ works'[e].type = works[e].type
          /\ works'[e].place = works[e].place /\ works'[e].status = "FORGOTTEN"
      BY <2>1, <2>2 DEF Work, Status
    <2>4. works[e].type \in WorkType
      BY <2>1 DEF Work
    <2>5. QED  BY <1>3, <2>3, <2>4, NoneAssumption
  <1>4. ~(works[e] # None /\ epWorkGuid[e] = works[e].type) => works'[e] = works[e]
    BY <1>2
  <1>5. ASSUME NEW r \in requests
        PROVE  LET q == IF r.body = "serving" THEN [r EXCEPT !.body = "lost"] ELSE r
               IN  /\ q = r \/ (r.body = "serving" /\ q = [r EXCEPT !.body = "lost"])
                   /\ q.ep = r.ep /\ q.rsc = r.rsc /\ q.place = r.place
                   /\ r.rsc # "uploadtestrig" => q = r
                   /\ r.body = "nothing" => q.body = "nothing"
    <2>1. r \in Request
      BY <1>1 DEF TypeOK
    <2>2. CASE r.body = "serving"
      <3>1. r.rsc = "uploadtestrig"
        BY <2>1, <2>2, NoneAssumption DEF Request, WorkType
      <3>2. /\ [r EXCEPT !.body = "lost"].ep = r.ep
            /\ [r EXCEPT !.body = "lost"].rsc = r.rsc
            /\ [r EXCEPT !.body = "lost"].place = r.place
        BY <2>1 DEF Request
      <3>3. QED  BY <2>2, <3>1, <3>2
    <2>3. CASE r.body # "serving"
      BY <2>3
    <2>4. QED  BY <2>2, <2>3
  <1>6. ASSUME NEW q \in Of(e)'
        PROVE  \E r \in Of(e) :
                 /\ q = r \/ (r.body = "serving" /\ q = [r EXCEPT !.body = "lost"])
                 /\ q.ep = r.ep /\ q.rsc = r.rsc /\ q.place = r.place
                 /\ r.rsc # "uploadtestrig" => q = r
                 /\ r.body = "nothing" => q.body = "nothing"
    <2>1. q \in requests' /\ q.ep = e
      BY DEF Of
    <2>2. PICK r \in requests :
            q = IF r.body = "serving" THEN [r EXCEPT !.body = "lost"] ELSE r
      BY <1>2, <2>1
    <2>3. /\ q = r \/ (r.body = "serving" /\ q = [r EXCEPT !.body = "lost"])
          /\ q.ep = r.ep /\ q.rsc = r.rsc /\ q.place = r.place
          /\ r.rsc # "uploadtestrig" => q = r
          /\ r.body = "nothing" => q.body = "nothing"
      BY <1>5, <2>2
    <2>4. r \in Of(e)
      BY <2>1, <2>3 DEF Of
    <2>5. QED  BY <2>3, <2>4
  <1>7. ASSUME NEW r \in Of(e) PROVE Of(e)' # {}
    <2> DEFINE q == IF r.body = "serving" THEN [r EXCEPT !.body = "lost"] ELSE r
    <2>1. r \in requests /\ r.ep = e
      BY DEF Of
    <2>2. q.ep = e /\ q \in requests'
      BY <1>2, <1>5, <2>1
    <2>3. QED  BY <2>2 DEF Of
  <1>8. QED  BY <1>3, <1>4, <1>6, <1>7

LEMMA RestartOwn ==
  ASSUME IInv, TypeOK', Restart
  PROVE  \A f \in Ep : Own(f)'
  <1> SUFFICES ASSUME NEW e \in Ep PROVE Own(e)'
    OBVIOUS
  <1>1. /\ turn = None
        /\ UNCHANGED <<turn, calls, epOutput, epWorkGuid, epQuestionName, timers,
                       environments, started, ended>>
    BY DEF Restart, epVars
  <1>2. TypeOK /\ Own(e) /\ turn # e
    BY <1>1, NoneAssumption DEF IInv, Ep
  <1>3. Now(e)' = Now(e) /\ ((e \in Live)' <=> e \in Live)
    BY <1>1 DEF Now, Live
  <1>4. Polls(e) => Polls(e)'
    BY <1>1, <1>3, Restarted DEF Polls
  <1>5. \A q \in Of(e)' : \E r \in Of(e) :
          /\ q.rsc = r.rsc
          /\ r.rsc # "uploadtestrig" => q = r
          /\ r.body = "nothing" => q.body = "nothing"
    BY Restarted
  <1>6. Chained(e)' /\ Cleaned(e)'
    BY <1>1, <1>2 DEF Own, Chained, Cleaned
  <1>7. Fresh(e)'
    <2>1. Of(e) = {} => Of(e)' = {}
      BY <1>5
    <2>2. works[e] = None => works'[e] = None
      BY Restarted
    <2>3. QED  BY <1>1, <1>2, <1>3, <2>1, <2>2 DEF Own, Fresh
  <1>8. epWorkGuid[e] = None => works'[e] = works[e]
    BY Restarted
  <1>9. ASSUME NEW r \in Of(e), r.rsc = "queuework" PROVE works'[e] = works[e]
    <2>1. CASE works[e] = None
      BY <2>1, Restarted
    <2>2. CASE works[e] # None
      <3>1. <<works[e].type, epWorkGuid[e]>> \in Successive
        BY <1>2, <1>9, <2>2 DEF Own, Asked
      <3>2. epWorkGuid[e] # works[e].type
        BY <3>1 DEF Successive
      <3>3. QED  BY <2>2, <3>2, Restarted
    <2>3. QED  BY <2>1, <2>2
  <1>10. Asked(e)'
    <2> SUFFICES ASSUME NEW q \in Of(e)'
                 PROVE  /\ q.rsc = "checkapikey" => Now(e) = "checkAPIKey"
                        /\ q.rsc = "listtestrigs" => Now(e) = "getTestrigs"
                        /\ q.rsc = "initcontainer" => Now(e) = "initcontainer"
                        /\ q.rsc = "uploadtestrig" => Now(e) = "uploadtestrigsmart"
                        /\ q.rsc = "uploadenvironment" => Now(e) = "uploaddiffenvsmart"
                        /\ q.rsc = "uploadquestion" =>
                             Now(e) = "uploadquestiontext" /\ epQuestionName[e] # None
                        /\ q.rsc = "queuework" =>
                             /\ Now(e) = q.body /\ epWorkGuid[e] = q.body
                             /\ works'[e] # None =>
                                  /\ works'[e].status = "TERMINATEDNORMALLY"
                                  /\ <<works'[e].type, q.body>> \in Successive
                        /\ q.rsc = "getworkstatus" => Polls(e) /\ q.body = Now(e)
                        /\ q.rsc \in {"log", "answer"} =>
                             /\ works'[e] # None /\ epWorkGuid[e] = None
                             /\ \/ calls[e] = <<>>
                                \/ works'[e].type = Now(e)
                                   /\ works'[e].status = "TERMINATEDNORMALLY"
                        /\ q.rsc = "answer" => calls[e] = <<>> \/ Now(e) \in Answering
                        /\ e \in Live \/ q.rsc \in {"log", "answer"} \/ q.body = "nothing"
                        /\ e \notin Live /\ q.rsc = "log" =>
                             calls[e] = <<>> \/ Now(e) \in Answering
      BY <1>1, <1>3, <1>4 DEF Asked, Worked
    <2>1. PICK r \in Of(e) :
            /\ q.rsc = r.rsc
            /\ r.rsc # "uploadtestrig" => q = r
            /\ r.body = "nothing" => q.body = "nothing"
      BY <1>5
    <2>2. Asked(e)
      BY <1>2 DEF Own
    <2>3. CASE q.rsc = "queuework"
      BY <1>9, <2>1, <2>2, <2>3 DEF Asked
    <2>4. CASE q.rsc \in {"log", "answer"}
      <3>1. works'[e] = works[e]
        BY <1>8, <2>1, <2>2, <2>4 DEF Asked
      <3>2. QED  BY <2>1, <2>2, <2>4, <3>1 DEF Asked, Worked
    <2>5. CASE q.rsc \notin {"queuework", "log", "answer"}
      BY <2>1, <2>2, <2>5 DEF Asked
    <2>6. QED  BY <2>3, <2>4, <2>5
  <1>11. Single(e)'
    <2>1. Waits(e) = {} => Waits(e)' = {}
      BY <1>5 DEF Waits
    <2>2. ASSUME NEW r \in Waits(e) PROVE Waits(e)' # {}
      <3>1. r \in requests /\ r.ep = e /\ r.rsc # "answer"
        BY DEF Waits, Of
      <3>2. CASE r.body # "serving"
        <4>1. r \in requests'
          BY <3>1, <3>2 DEF Restart
        <4>2. QED  BY <3>1, <4>1 DEF Waits, Of
      <3>3. CASE r.body = "serving"
        <4>1. [r EXCEPT !.body = "lost"] \in requests'
          BY <3>1, <3>3 DEF Restart
        <4>2. r \in Request
          BY <1>2, <3>1 DEF TypeOK
        <4>3. /\ [r EXCEPT !.body = "lost"].ep = e
              /\ [r EXCEPT !.body = "lost"].rsc # "answer"
          BY <3>1, <4>2 DEF Request
        <4>4. QED  BY <4>1, <4>3 DEF Waits, Of
      <3>4. QED  BY <3>2, <3>3
    <2>3. ASSUME NEW p \in Waits(e)', NEW q \in Waits(e)' PROVE p = q
      <3>1. p \in Of(e)' /\ q \in Of(e)' /\ p.rsc # "answer" /\ q.rsc # "answer"
        BY DEF Waits
      <3>2. PICK r \in Of(e) : /\ p = r \/ (r.body = "serving" /\ p = [r EXCEPT !.body = "lost"])
                               /\ p.rsc = r.rsc
                               /\ p \in requests'
        BY <3>1, Restarted DEF Of
      <3>3. PICK s \in Of(e) : /\ q = s \/ (s.body = "serving" /\ q = [s EXCEPT !.body = "lost"])
                               /\ q.rsc = s.rsc
                               /\ q \in requests'
        BY <3>1, Restarted DEF Of
      <3>4. r = s
        BY <1>2, <3>1, <3>2, <3>3 DEF Own, Single, Waits
      <3>5. ASSUME NEW t \in requests' PROVE t.body # "serving"
        <4>1. PICK u \in requests :
                t = IF u.body = "serving" THEN [u EXCEPT !.body = "lost"] ELSE u
          BY <3>5 DEF Restart
        <4>2. u \in Request
          BY <1>2 DEF TypeOK
        <4>3. [u EXCEPT !.body = "lost"].body = "lost"
          BY <4>2 DEF Request
        <4>4. QED  BY <4>1, <4>3
      <3>6. QED  BY <3>2, <3>3, <3>4, <3>5
    <2>4. QED  BY <1>1, <1>2, <1>3, <1>4, <2>1, <2>2, <2>3 DEF Own, Single
  <1>12. Running(e)'
    BY <1>1, <1>2 DEF Running
  <1>13. QED  BY <1>6, <1>7, <1>10, <1>11, <1>12 DEF Own

LEMMA OwnNext ==
  ASSUME IInv, [Next]_vars
  PROVE  \A f \in Ep : Own(f)'
  <1>1. TypeOK'
    BY TypeNext
  <1>2. CASE UNCHANGED vars
    <2>1. \A f \in Ep : Keeps(f)
      BY <1>2 DEF Keeps, vars, epVars, serverVars, Of
    <2>2. QED  BY <1>1, <2>1, OwnKept DEF IInv
  <1>3. QED
    BY <1>1, <1>2, StartOwn, CallOwn, PollOwn, EndWorkOwn, CallbackOwn, RestartOwn DEF Next
-----------------------------------------------------------------------------
(* The names that are needed are there.                                    *)

LEMMA ChainNames ==
  ASSUME NEW b \in Button, NEW j \in 1 .. Len(Chain[b])
  PROVE  /\ Chain[b][j] \in {"uploadquestiontext", "uploaddiffenvsmart", "postdiffenvinit"}
                              \cup Answering =>
              b \in {"btnAnswer", "btnAnswerDiff", "btnUploadDiffEnv"}
         /\ Chain[b][j] = "answerdiffquestion" => b = "btnAnswerDiff"
  <1>1. CASE b = "btnLogin"
    <2>1. Chain[b] = <<"checkAPIKey", "getTestrigs", "login">>
      BY <1>1 DEF Chain
    <2>2. QED  BY <2>1 DEF Answering
  <1>2. CASE b = "btnGuest"
    <2>1. Chain[b] = <<"login">>
      BY <1>2 DEF Chain
    <2>2. QED  BY <2>1 DEF Answering
  <1>3. CASE b = "btnUpload"
    <2>1. Chain[b] = <<"initcontainer", "uploadtestrigsmart", "parsevendorspecific",
                       "parsevendorindependent", "drawtopology", "posttestriginit">>
      BY <1>3 DEF Chain
    <2>2. QED  BY <2>1 DEF Answering
  <1>4. CASE b = "prevTestrigs"
    <2>1. Chain[b] = <<"showOldTestrig", "drawtopology", "posttestriginit">>
      BY <1>4 DEF Chain
    <2>2. QED  BY <2>1 DEF Answering
  <1>5. CASE b = "btnUploadDiffEnv"
    <2>1. Chain[b] = <<"uploaddiffenvsmart", "postdiffenvinit">>
      BY <1>5 DEF Chain
    <2>2. QED  BY <1>5, <2>1 DEF Answering
  <1>6. CASE b = "btnAnswer"
    <2>1. Chain[b] = <<"uploadquestiontext", "answerquestion">>
      BY <1>6 DEF Chain
    <2>2. QED  BY <1>6, <2>1 DEF Answering
  <1>7. CASE b = "btnAnswerDiff"
    BY <1>7
  <1>8. QED
    BY <1>1, <1>2, <1>3, <1>4, <1>5, <1>6, <1>7 DEF Button, Chain

\* What the calls do to the page.
LEMMA CallPage ==
  ASSUME NEW e \in Ep, MakeNextCall(e), ~Done(e)
  PROVE  \E call \in Call :
           /\ Shift(e, call)
           /\ call # "showOldTestrig" => containerName' = containerName
           /\ call = "showOldTestrig" => containerName' = Old
           /\ call # "uploaddiffenvsmart" => diffEnvName' = diffEnvName
           /\ call = "uploaddiffenvsmart" => diffEnvName' = e
           /\ call \notin {"showOldTestrig", "posttestriginit", "postdiffenvinit"} =>
                turn' = None
           /\ \A b \in {"btnAnswer", "btnUploadDiffEnv"} :
                b \in enabled' => b \in enabled \/ call = "posttestriginit"
           /\ "btnAnswerDiff" \in enabled' =>
                "btnAnswerDiff" \in enabled \/ call = "postdiffenvinit"
  <1>1. CASE CheckAPIKey(e) \/ GetTestrigs(e) \/ InitContainer(e)
    BY <1>1 DEF CheckAPIKey, GetTestrigs, InitContainer, Send, pageVars, Call
  <1>2. CASE Login(e)
    BY <1>2 DEF Login, Call
  <1>3. CASE UploadTestrigSmart(e)
    BY <1>3 DEF UploadTestrigSmart, Upload, Send, pageVars, Call
  <1>4. CASE UploadDiffEnvSmart(e)
    BY <1>4 DEF UploadDiffEnvSmart, Upload, Send, Call
  <1>5. CASE UploadQuestionText(e)
    BY <1>5 DEF UploadQuestionText, Send, pageVars, Call
  <1>6. CASE ShowOldTestrig(e)
    BY <1>6 DEF ShowOldTestrig, Call
  <1>7. CASE PostTestrigInit(e)
    BY <1>7 DEF PostTestrigInit, Call
  <1>8. CASE PostDiffEnvInit(e)
    BY <1>8 DEF PostDiffEnvInit, Call
  <1>9. ASSUME NEW type \in WorkType, QueueWork(e, type)
        PROVE  \E call \in Call :
                 /\ Shift(e, call) /\ call \in WorkType
                 /\ turn' = None /\ UNCHANGED pageVars
    BY <1>9 DEF QueueWork, Send, Call
  <1>10. QED
    BY <1>1, <1>2, <1>3, <1>4, <1>5, <1>6, <1>7, <1>8, <1>9
       DEF MakeNextCall, WorkType, pageVars

\* What the calls leave alone, and what they ask for.
LEMMA CallSends ==
  ASSUME NEW e \in Ep, NEW call, Shift(e, call), MakeNextCall(e)
  PROVE  /\ UNCHANGED <<stage, environments, works, started, overlapped>>
         /\ ended \subseteq ended'
         /\ requests \subseteq requests'
         /\ \A q \in requests' \ requests :
              /\ q.ep = e /\ q.place = containerName' /\ containerName' = containerName
              /\ q.rsc \notin {"log", "answer"}
         /\ call \in WorkType => \E q \in requests' : q.ep = e /\ q.rsc = "queuework"
  <1> DEFINE Asks(rsc, body) ==
               [ep |-> e, rsc |-> rsc, place |-> containerName, body |-> body]
  <1>0. calls[e][2] = call /\ Len(calls[e]) > 1
    BY DEF Shift
  <1>1. ~Done(e)
    BY <1>0 DEF Done
  <1>2. UNCHANGED <<stage, environments, works, started, overlapped>>
    BY <1>1
       DEF MakeNextCall, CheckAPIKey, GetTestrigs, Login, InitContainer,
           UploadTestrigSmart, UploadDiffEnvSmart, UploadQuestionText, ShowOldTestrig,
           PostTestrigInit, PostDiffEnvInit, QueueWork, Upload, Send, serverVars
  <1>3. ended \subseteq ended'
    BY <1>1
       DEF MakeNextCall, CheckAPIKey, GetTestrigs, Login, InitContainer,
           UploadTestrigSmart, UploadDiffEnvSmart, UploadQuestionText, ShowOldTestrig,
           PostTestrigInit, PostDiffEnvInit, QueueWork, Upload, Finish
  <1>4. \/ requests' = requests /\ call \notin WorkType
        \/ /\ containerName' = containerName
           /\ \E rsc, body :
                /\ requests' = requests \cup {Asks(rsc, body)}
                /\ rsc \notin {"log", "answer"}
                /\ call \in WorkType => rsc = "queuework"
    <2> HIDE DEF Asks
    <2>1. ASSUME NEW rsc, NEW body, Send(e, rsc, body)
          PROVE  requests' = requests \cup {Asks(rsc, body)}
      BY <2>1 DEF Send, Asks
    <2>2. CASE CheckAPIKey(e) \/ GetTestrigs(e) \/ InitContainer(e)
      <3>1. call \notin WorkType /\ containerName' = containerName
        BY <1>0, <2>2 DEF CheckAPIKey, GetTestrigs, InitContainer, Shift, WorkType, pageVars
      <3>2. \E rsc \in {"checkapikey", "listtestrigs", "initcontainer"} : Send(e, rsc, None)
        BY <2>2 DEF CheckAPIKey, GetTestrigs, InitContainer
      <3>3. QED  BY <2>1, <3>1, <3>2
    <2>3. CASE Login(e) \/ ShowOldTestrig(e) \/ PostTestrigInit(e) \/ PostDiffEnvInit(e)
      BY <1>0, <2>3
         DEF Login, ShowOldTestrig, PostTestrigInit, PostDiffEnvInit, Shift, WorkType
    <2>4. CASE UploadTestrigSmart(e) \/ UploadDiffEnvSmart(e)
      <3>1. call \notin WorkType /\ containerName' = containerName
        BY <1>0, <2>4 DEF UploadTestrigSmart, UploadDiffEnvSmart, Shift, WorkType, pageVars
      <3>2. \E rsc \in {"uploadtestrig", "uploadenvironment"}, body \in {"content", "nothing"} :
              Send(e, rsc, body)
        BY <2>4 DEF UploadTestrigSmart, UploadDiffEnvSmart, Upload
      <3>3. QED  BY <2>1, <3>1, <3>2
    <2>5. CASE UploadQuestionText(e)
      <3>1. call \notin WorkType /\ containerName' = containerName
        BY <1>0, <2>5 DEF UploadQuestionText, Shift, WorkType, pageVars
      <3>2. Send(e, "uploadquestion", "content") \/ requests' = requests
        BY <2>5 DEF UploadQuestionText
      <3>3. QED  BY <2>1, <3>1, <3>2
    <2>6. ASSUME NEW type \in WorkType, QueueWork(e, type)
          PROVE  Send(e, "queuework", type) /\ containerName' = containerName
      BY <2>6 DEF QueueWork, pageVars
    <2>7. QED  BY <1>1, <2>1, <2>2, <2>3, <2>4, <2>5, <2>6 DEF MakeNextCall
  <1>5. CASE requests' = requests /\ call \notin WorkType
    BY <1>2, <1>3, <1>5
  <1>6. ASSUME NEW rsc, NEW body,
               requests' = requests \cup {Asks(rsc, body)}, containerName' = containerName,
               rsc \notin {"log", "answer"}, call \in WorkType => rsc \in {"queuework"}
        PROVE  /\ requests \subseteq requests'
               /\ \A q \in requests' \ requests :
                    /\ q.ep = e /\ q.place = containerName'
                    /\ q.rsc \notin {"log", "answer"}
               /\ call \in WorkType => \E q \in requests' : q.ep = e /\ q.rsc = "queuework"
    <2>1. /\ Asks(rsc, body).ep = e /\ Asks(rsc, body).rsc = rsc
          /\ Asks(rsc, body).place = containerName
      OBVIOUS
    <2> HIDE DEF Asks
    <2>2. Asks(rsc, body) \in requests'
      BY <1>6
    <2>3. \A q \in requests' \ requests : q = Asks(rsc, body)
      BY <1>6
    <2>4. call \in WorkType => Asks(rsc, body).rsc = "queuework"
      BY <1>6, <2>1
    <2>5. QED  BY <1>6, <2>1, <2>2, <2>3, <2>4
  <1>7. QED  BY <1>2, <1>3, <1>4, <1>5, <1>6

\* What the callbacks do to the page and to the script.
LEMMA CallbackPage ==
  ASSUME IInv, NEW r \in requests, Callback(r)
  PROVE  /\ diffEnvName' = diffEnvName
         /\ containerName' = containerName \/ (InitContainer_cb(r) /\ containerName' = r.ep)
         /\ \A b \in {"btnAnswer", "btnUploadDiffEnv", "btnAnswerDiff"} :
              b \in enabled' => b \in enabled
         /\ turn = None
         /\ turn' = None \/ (turn' = r.ep /\ calls' = calls)
         /\ calls' = calls \/ calls' = [calls EXCEPT ![r.ep] = <<>>]
         /\ turn' = None \/ containerName' # None \/ Now(r.ep) # "initcontainer"
  <1>0. TypeOK /\ r.ep \in Ep /\ r \in Of(r.ep) /\ r \in Request
    BY DEF IInv, TypeOK, Request, Of
  <1>1. Own(r.ep) /\ r.ep # None
    BY <1>0, NoneAssumption DEF IInv, Ep
  <1>2. ASSUME NEW rsc, rsc \in {"checkapikey", "listtestrigs", "uploadtestrig",
                                 "uploadenvironment", "uploadquestion", "log"},
               r.rsc \in {rsc}
        PROVE  Now(r.ep) # "initcontainer"
    <2>1. CASE r.rsc = "log"
      <3>1. works[r.ep] # None
            /\ (calls[r.ep] = <<>> \/ Worked(r.ep, "TERMINATEDNORMALLY"))
        BY <1>0, <1>1, <2>1 DEF Own, Asked
      <3>2. works[r.ep] \in Work
        BY <1>0, <3>1 DEF TypeOK
      <3>3. works[r.ep].type \in WorkType
        BY <3>2 DEF Work
      <3>4. QED  BY <3>1, <3>3 DEF Worked, WorkType, Now
    <2>2. CASE r.rsc # "log"
      BY <1>0, <1>1, <1>2, <2>2 DEF Own, Asked
    <2>3. QED  BY <2>1, <2>2
  <1>3. CASE CheckApiKey_cb(r) \/ GetTestrigs_cb(r) \/ UploadTestrig_cb(r)
             \/ UploadDifEnv_cb(r) \/ UploadQuestion_cb(r) \/ GetLog_cb(r)
             \/ GetTopology_cb(r)
    <2>1. r.rsc \in {"checkapikey", "listtestrigs", "uploadtestrig",
                     "uploadenvironment", "uploadquestion", "log"}
      BY <1>3
         DEF CheckApiKey_cb, GetTestrigs_cb, UploadTestrig_cb, UploadDifEnv_cb,
             UploadQuestion_cb, GetLog_cb, GetTopology_cb, Fetched
    <2>2. Now(r.ep) # "initcontainer"
      BY <1>2, <2>1
    <2>3. turn = None /\ (turn' = None \/ turn' = r.ep) /\ calls' = calls
      BY <1>3
         DEF CheckApiKey_cb, GetTestrigs_cb, UploadTestrig_cb, UploadDifEnv_cb,
             UploadQuestion_cb, GetLog_cb, GetTopology_cb, Resume, Stop, Reply
    <2>4. /\ UNCHANGED <<containerName, diffEnvName>>
          /\ enabled' = enabled \/ enabled' = enabled \cup {"prevTestrigs"}
      BY <1>3
         DEF CheckApiKey_cb, GetTestrigs_cb, UploadTestrig_cb, UploadDifEnv_cb,
             UploadQuestion_cb, GetLog_cb, GetTopology_cb, Stop, pageVars
    <2>5. QED  BY <2>2, <2>3, <2>4
  <1>4. CASE InitContainer_cb(r)
    BY <1>1, <1>4 DEF InitContainer_cb, Resume, Reply
  <1>5. CASE ServeUpload(r) \/ QueueWork_cb(r)
    BY <1>5 DEF ServeUpload, QueueWork_cb, Reply, pageVars
  <1>6. CASE CheckWork_cb(r)
    BY <1>6 DEF CheckWork_cb, CheckAgain, FetchResults, FetchLogOnly, Reply, pageVars
  <1>7. CASE GetAnsJson_cb(r) \/ GenericFailure_cb(r)
    BY <1>7 DEF GetAnsJson_cb, GenericFailure_cb, Stop, Reply, pageVars
  <1>8. QED
    BY <1>3, <1>4, <1>5, <1>6, <1>7 DEF Callback

\* A name that was given is never taken back.
NamesStay == /\ containerName # None => containerName' # None
             /\ diffEnvName # None => diffEnvName' # None

LEMMA NamedKept ==
  ASSUME TypeOK, NamesStay, NEW f \in Ep, Named(f),
         calls'[f] = calls[f] \/ calls'[f] = <<>>,
         turn' = f => turn = f \/ containerName' # None \/ Now(f) # "initcontainer"
  PROVE  Named(f)'
  <1>1. CASE calls'[f] = calls[f]
    <2>1. Now(f)' = Now(f)
      BY <1>1 DEF Now
    <2>2. QED  BY <1>1, <2>1 DEF Named, NamesStay
  <1>2. CASE calls'[f] = <<>>
    <2>1. Now(f)' = "none" /\ DOMAIN calls'[f] = {}
      BY <1>2 DEF Now
    <2>2. QED  BY <2>1 DEF Named, WorkType
  <1>3. QED  BY <1>1, <1>2

LEMMA NamedNext ==
  ASSUME IInv, [Next]_vars
  PROVE  /\ NamesStay
         /\ \A f \in Ep : Named(f)'
         /\ ButtonsNamed'
  <1>0. TypeOK /\ \A f \in Ep : Named(f) /\ Own(f) /\ f # None
    BY NoneAssumption DEF IInv, Ep
  <1>1. ASSUME NEW b \in Button, StartCalls(b)
        PROVE  NamesStay /\ (\A f \in Ep : Named(f)') /\ ButtonsNamed'
    <2>1. PICK e \in Ep : e = started + 1
      BY <1>0, <1>1, BoundsAssumption DEF StartCalls, TypeOK, Ep
    <2>2. /\ turn' = e /\ calls' = [calls EXCEPT ![e] = <<"start">> \o Chain[b]]
          /\ UNCHANGED <<containerName, diffEnvName, enabled>> /\ b \in enabled
      BY <1>1, <2>1 DEF StartCalls, pageVars
    <2>3. NamesStay /\ ButtonsNamed'
      BY <2>2 DEF NamesStay, IInv, ButtonsNamed
    <2>4. \A f \in Ep \ {e} : Named(f)'
      BY <1>0, <2>2, <2>3, NamedKept DEF TypeOK
    <2>5. Named(e)'
      <3>1. calls'[e] = <<"start">> \o Chain[b]
        BY <1>0, <2>2 DEF TypeOK
      <3>2. /\ calls'[e] \in Seq(Call) /\ calls'[e] # <<>> /\ calls'[e][1] = "start"
            /\ \A k \in 2 .. Len(calls'[e]) :
                 k - 1 \in 1 .. Len(Chain[b]) /\ calls'[e][k] = Chain[b][k - 1]
        BY <3>1, StartedList
      <3>3. Now(e)' = "start"
        BY <3>2 DEF Now
      <3>4. /\ b \in {"btnAnswer", "btnAnswerDiff", "btnUploadDiffEnv"} =>
                 containerName' # None
            /\ b = "btnAnswerDiff" => diffEnvName' # None
        BY <2>2 DEF IInv, ButtonsNamed
      <3>5. ASSUME NEW k \in DOMAIN calls'[e]
            PROVE  /\ calls'[e][k] \in {"uploadquestiontext", "uploaddiffenvsmart",
                                        "postdiffenvinit"} \cup Answering =>
                        containerName' # None
                   /\ calls'[e][k] = "answerdiffquestion" => diffEnvName' # None
        <4>1. CASE k = 1
          BY <3>2, <4>1 DEF Answering
        <4>2. CASE k # 1
          <5>1. k \in 2 .. Len(calls'[e])
            BY <3>2, <3>5, <4>2
          <5>2. k - 1 \in 1 .. Len(Chain[b]) /\ calls'[e][k] = Chain[b][k - 1]
            BY <3>2, <5>1
          <5>3. QED  BY <3>4, <5>2, ChainNames
        <4>3. QED  BY <4>1, <4>2
      <3>6. QED  BY <3>3, <3>5 DEF Named, WorkType
    <2>6. QED  BY <2>3, <2>4, <2>5
  <1>2. ASSUME NEW e \in Ep, MakeNextCall(e), ~Done(e)
        PROVE  NamesStay /\ (\A f \in Ep : Named(f)') /\ ButtonsNamed'
    <2>1. PICK call \in Call :
            /\ Shift(e, call)
            /\ call # "showOldTestrig" => containerName' = containerName
            /\ call = "showOldTestrig" => containerName' = Old
            /\ call # "uploaddiffenvsmart" => diffEnvName' = diffEnvName
            /\ call = "uploaddiffenvsmart" => diffEnvName' = e
            /\ call \notin {"showOldTestrig", "posttestriginit", "postdiffenvinit"} =>
                 turn' = None
            /\ \A b \in {"btnAnswer", "btnUploadDiffEnv"} :
                 b \in enabled' => b \in enabled \/ call = "posttestriginit"
            /\ "btnAnswerDiff" \in enabled' =>
                 "btnAnswerDiff" \in enabled \/ call = "postdiffenvinit"
      BY <1>2, CallPage
    <2>2. NamesStay
      BY <1>0, <2>1, NoneAssumption DEF NamesStay, Old
    <2>3. <<Now(e), call>> \in Follows /\ turn = e /\ Now(e)' = call
          /\ \A f \in Ep \ {e} : calls'[f] = calls[f]
      BY <2>1, Called
    <2>4. turn' = None \/ turn' = turn
      BY <1>2 DEF MakeNextCall, CheckAPIKey, GetTestrigs, Login, InitContainer,
                  UploadTestrigSmart, UploadDiffEnvSmart, UploadQuestionText,
                  ShowOldTestrig, PostTestrigInit, PostDiffEnvInit, QueueWork, Upload, Send
    <2>5. \A f \in Ep \ {e} : Named(f)'
      BY <1>0, <2>2, <2>3, <2>4, NamedKept
    <2>6. calls[e] \in Seq(Call) /\ 2 \in DOMAIN calls[e] /\ calls[e][2] = call
      BY <1>0, <2>1 DEF Shift, TypeOK
    <2>7. /\ call \in {"uploadquestiontext", "uploaddiffenvsmart", "postdiffenvinit"}
                        \cup Answering => containerName # None
          /\ call = "answerdiffquestion" => diffEnvName # None
      BY <1>0, <2>6 DEF Named
    <2>8. call \in {"uploadtestrigsmart", "posttestriginit"} \cup WorkType =>
            containerName # None
      <3>1. call = "uploadtestrigsmart" => containerName # None
        BY <1>0, <2>3 DEF Named, Follows
      <3>2. call = "posttestriginit" => containerName # None
        BY <1>0, <2>3 DEF Named, Follows, WorkType
      <3>3. call \in WorkType => containerName # None
        BY <1>0, <2>3, <2>7 DEF Named, Follows, WorkType, Answering
      <3>4. QED  BY <3>1, <3>2, <3>3
    <2>9. call = "postdiffenvinit" => diffEnvName # None
      BY <1>0, <2>3 DEF Named, Follows
    <2>10. Named(e)'
      <3>1. ASSUME NEW k \in DOMAIN calls'[e]
            PROVE  /\ calls'[e][k] \in {"uploadquestiontext", "uploaddiffenvsmart",
                                        "postdiffenvinit"} \cup Answering =>
                        containerName' # None
                   /\ calls'[e][k] = "answerdiffquestion" => diffEnvName' # None
        <4>1. /\ calls' \in [Ep -> Seq(Call)]
              /\ Len(calls'[e]) = Len(calls[e]) - 1
              /\ \A j \in 1 .. Len(calls'[e]) : calls'[e][j] = calls[e][j + 1]
          BY <1>0, <2>1, Shifted
        <4>2. k \in 1 .. Len(calls'[e])
          BY <4>1
        <4>3. k + 1 \in DOMAIN calls[e] /\ calls'[e][k] = calls[e][k + 1]
          BY <2>6, <4>1, <4>2
        <4>4. QED  BY <1>0, <2>2, <4>3 DEF Named, NamesStay
      <3>2. call \in {"uploadtestrigsmart", "showOldTestrig", "posttestriginit"}
                       \cup WorkType => containerName' # None
        BY <2>1, <2>2, <2>8, NoneAssumption DEF NamesStay, Old
      <3>3. call \in {"uploaddiffenvsmart", "postdiffenvinit"} => diffEnvName' # None
        BY <1>0, <2>1, <2>2, <2>9 DEF NamesStay
      <3>4. ~(turn' = e /\ call = "initcontainer")
        BY <1>0, <2>1
      <3>5. QED  BY <2>3, <3>1, <3>2, <3>3, <3>4 DEF Named
    <2>11. ButtonsNamed'
      <3>1. enabled' \cap {"btnAnswer", "btnAnswerDiff", "btnUploadDiffEnv"} # {} =>
              containerName # None
        BY <2>1, <2>7, <2>8 DEF IInv, ButtonsNamed
      <3>2. "btnAnswerDiff" \in enabled' => diffEnvName # None
        BY <2>1, <2>9 DEF IInv, ButtonsNamed
      <3>3. QED  BY <2>2, <3>1, <3>2 DEF ButtonsNamed, NamesStay
    <2>12. QED  BY <2>2, <2>5, <2>10, <2>11
  <1>3. ASSUME NEW r \in requests, Callback(r)
        PROVE  NamesStay /\ (\A f \in Ep : Named(f)') /\ ButtonsNamed'
    <2>1. /\ diffEnvName' = diffEnvName
          /\ containerName' = containerName
             \/ (InitContainer_cb(r) /\ containerName' = r.ep)
          /\ \A b \in {"btnAnswer", "btnUploadDiffEnv", "btnAnswerDiff"} :
               b \in enabled' => b \in enabled
          /\ turn' = None \/ turn' = r.ep
          /\ calls' = calls \/ calls' = [calls EXCEPT ![r.ep] = <<>>]
          /\ turn' = None \/ containerName' # None \/ Now(r.ep) # "initcontainer"
      BY <1>3, CallbackPage
    <2>2. r.ep \in Ep
      BY <1>0 DEF TypeOK, Request
    <2>3. NamesStay
      BY <1>0, <2>1, <2>2 DEF NamesStay
    <2>4. ButtonsNamed'
      BY <2>1, <2>3 DEF IInv, ButtonsNamed, NamesStay
    <2>5. ASSUME NEW f \in Ep PROVE Named(f)'
      <3>1. calls'[f] = calls[f] \/ calls'[f] = <<>>
        BY <1>0, <2>1, <2>2 DEF TypeOK
      <3>2. turn' = f => containerName' # None \/ Now(f) # "initcontainer"
        BY <1>0, <2>1
      <3>3. QED  BY <1>0, <2>3, <3>1, <3>2, NamedKept
    <2>6. QED  BY <2>3, <2>4, <2>5
  <1>4. CASE \/ \E e \in Ep : Done(e) \/ CheckWork(e) \/ EndWork(e)
             \/ Restart \/ UNCHANGED vars
    <2>1. /\ UNCHANGED <<containerName, diffEnvName, enabled>>
          /\ turn' = turn \/ turn' = None
          /\ \A f \in Ep : calls'[f] = calls[f] \/ calls'[f] = <<>>
      <3>1. ASSUME NEW e \in Ep, Done(e)
            PROVE  /\ UNCHANGED <<containerName, diffEnvName, enabled>> /\ turn' = None
                   /\ \A f \in Ep : calls'[f] = calls[f] \/ calls'[f] = <<>>
        BY <1>0, <3>1 DEF Done, pageVars, TypeOK
      <3>2. CASE (\E e \in Ep : CheckWork(e) \/ EndWork(e)) \/ Restart \/ UNCHANGED vars
        BY <3>2 DEF CheckWork, EndWork, Restart, vars, pageVars
      <3>3. QED  BY <1>4, <3>1, <3>2
    <2>2. NamesStay /\ ButtonsNamed'
      BY <2>1 DEF NamesStay, IInv, ButtonsNamed
    <2>3. \A f \in Ep : Named(f)'
      BY <1>0, <2>1, <2>2, NamedKept
    <2>4. QED  BY <2>2, <2>3
  <1>5. QED  BY <1>1, <1>2, <1>3, <1>4 DEF Next
-----------------------------------------------------------------------------
(* An entry point that no other overlapped.                                *)

\* Only an upload that is given up while it is served takes away what was parsed.
LEMMA StageStays ==
  ASSUME IInv, [Next]_vars, NEW t \in Testrig, stage[t] = "independent"
  PROVE  \/ stage'[t] = "independent"
         \/ \E r \in requests : /\ GenericFailure_cb(r)
                                /\ r.rsc = "uploadtestrig" /\ r.body = "serving"
  <1>0. TypeOK
    BY DEF IInv
  <1>1. CASE UNCHANGED stage
    BY <1>1
  <1>2. ASSUME NEW p, Store!InitContainer(p) \/ Store!Begin(p) \/ Store!Complete(p)
        PROVE  stage'[t] = "independent"
    BY <1>0, <1>2
       DEF TypeOK, Store!InitContainer, Store!Begin, Store!Complete, Store!Move,
           Store!Becomes
  <1>3. ASSUME NEW p \in Testrig, Store!ParseVendor(p) \/ Store!ParseIndependent(p)
        PROVE  stage'[t] = "independent"
    BY <1>0, <1>3 DEF TypeOK, Store!ParseVendor, Store!ParseIndependent, Store!Becomes
  <1>4. ASSUME NEW b \in Button, StartCalls(b) PROVE UNCHANGED stage
    BY <1>4 DEF StartCalls, serverVars
  <1>5. ASSUME NEW e \in Ep, MakeNextCall(e) PROVE UNCHANGED stage
    <2>1. CASE Done(e)
      BY <2>1 DEF Done, serverVars
    <2>2. CASE ~Done(e)
      <3>1. PICK call \in Call : Shift(e, call)
        BY <1>5, <2>2, CallPage
      <3>2. QED  BY <1>5, <3>1, CallSends
    <2>3. QED  BY <2>1, <2>2
  <1>6. ASSUME NEW e \in Ep, CheckWork(e) PROVE UNCHANGED stage
    BY <1>6 DEF CheckWork, serverVars
  <1>7. ASSUME NEW e \in Ep, EndWork(e)
        PROVE  \/ UNCHANGED stage
               \/ \E p \in Testrig : Store!ParseVendor(p) \/ Store!ParseIndependent(p)
    <2>1. works[e] \in Work
      BY <1>0, <1>7 DEF EndWork, TypeOK
    <2>2. works[e].place \in Testrig
      BY <2>1 DEF Work
    <2>3. \/ UNCHANGED stage
          \/ Store!ParseVendor(works[e].place)
          \/ Store!ParseIndependent(works[e].place)
      BY <1>7 DEF EndWork
    <2>4. QED  BY <2>2, <2>3
  <1>8. CASE Restart
    BY <1>1, <1>8 DEF Restart
  <1>9. ASSUME NEW r \in requests, Callback(r), ~GenericFailure_cb(r)
        PROVE  \/ UNCHANGED stage
               \/ \E p \in Testrig : Store!InitContainer(p) \/ Store!Begin(p)
                                     \/ Store!Complete(p)
    <2>1. r.ep \in Testrig
      BY <1>0 DEF TypeOK, Request, Testrig
    <2>2. r.rsc = "uploadtestrig" => r.place \in Testrig
      BY <1>0 DEF TypeOK, Request
    <2>3. CASE InitContainer_cb(r) \/ ServeUpload(r) \/ UploadTestrig_cb(r)
      BY <2>1, <2>2, <2>3 DEF InitContainer_cb, ServeUpload, UploadTestrig_cb
    <2>4. CASE \/ CheckApiKey_cb(r) \/ GetTestrigs_cb(r) \/ UploadDifEnv_cb(r)
               \/ UploadQuestion_cb(r) \/ QueueWork_cb(r) \/ CheckWork_cb(r)
               \/ GetLog_cb(r) \/ GetTopology_cb(r) \/ GetAnsJson_cb(r)
      BY <2>4
         DEF CheckApiKey_cb, GetTestrigs_cb, UploadDifEnv_cb, UploadQuestion_cb,
             QueueWork_cb, TakeWork, CheckWork_cb, GetLog_cb, GetTopology_cb,
             GetAnsJson_cb, serverVars
    <2>5. QED  BY <1>9, <2>3, <2>4 DEF Callback
  <1>10. ASSUME NEW r \in requests, GenericFailure_cb(r)
         PROVE  \/ UNCHANGED stage
                \/ \E p \in Testrig : Store!InitContainer(p) \/ Store!Begin(p)
                                      \/ Store!Complete(p)
                \/ r.rsc = "uploadtestrig" /\ r.body = "serving"
    <2>1. r.rsc = "uploadtestrig" => r.place \in Testrig
      BY <1>0 DEF TypeOK, Request
    <2>2. QED  BY <1>10, <2>1 DEF GenericFailure_cb, DoneInVain, TakeWork, serverVars
  <1>11. CASE UNCHANGED vars
    BY <1>1, <1>11 DEF vars, serverVars
  <1>12. QED
    BY <1>1, <1>2, <1>3, <1>4, <1>5, <1>6, <1>7, <1>8, <1>9, <1>10, <1>11 DEF Next

\* What the callbacks do to the works and to the requests.
LEMMA CallbackWorks ==
  ASSUME IInv, NEW r \in requests, Callback(r)
  PROVE  /\ UNCHANGED <<started, overlapped>> /\ ended \subseteq ended'
         /\ \A f \in Ep \ {r.ep} : works'[f] = works[f]
         /\ r.rsc # "queuework" => works' = works
         /\ \/ works' = works
            \/ /\ works'[r.ep].place = r.place /\ works'[r.ep].status = "PENDING"
               /\ GenericFailure_cb(r) \/ QueueWork_cb(r)
         /\ \A q \in requests' \ requests :
              /\ q.ep = r.ep /\ q.rsc # "queuework"
              /\ q.rsc \in {"log", "answer"} =>
                   q.place = containerName /\ r.rsc = "getworkstatus"
         /\ requests \ {r} \subseteq requests'
         /\ GenericFailure_cb(r) => r.ep \in ended' /\ turn' = None
  <1>0. TypeOK /\ r \in Request /\ r.ep \in Ep
    BY DEF IInv, TypeOK, Request
  <1>1. ASSUME TakeWork(r)
        PROVE  /\ \A f \in Ep \ {r.ep} : works'[f] = works[f]
               /\ works'[r.ep].place = r.place /\ works'[r.ep].status = "PENDING"
               /\ r.rsc = "queuework"
    BY <1>0, <1>1 DEF TakeWork, TypeOK
  <1>2. CASE CheckApiKey_cb(r) \/ GetTestrigs_cb(r) \/ InitContainer_cb(r)
             \/ UploadTestrig_cb(r) \/ UploadDifEnv_cb(r) \/ UploadQuestion_cb(r)
             \/ GetLog_cb(r) \/ GetTopology_cb(r) \/ GetAnsJson_cb(r)
    <2>1. Reply(r, {}) /\ works' = works
          /\ (Finish(r.ep) \/ ended' = ended)
      BY <1>2
         DEF CheckApiKey_cb, GetTestrigs_cb, InitContainer_cb, UploadTestrig_cb,
             UploadDifEnv_cb, UploadQuestion_cb, GetLog_cb, GetTopology_cb, GetAnsJson_cb,
             Resume, Stop, serverVars
    <2>2. ~GenericFailure_cb(r) \/ (Finish(r.ep) /\ turn' = None)
      BY DEF GenericFailure_cb, Stop, Reply
    <2>3. QED  BY <2>1, <2>2 DEF Reply, Finish
  <1>3. ASSUME GenericFailure_cb(r) PROVE Finish(r.ep) /\ turn' = None /\ Reply(r, {})
    BY <1>3 DEF GenericFailure_cb, Stop, Reply
  <1>4. CASE GenericFailure_cb(r)
    <2>1. works' = works \/ TakeWork(r)
      BY <1>4 DEF GenericFailure_cb, DoneInVain, serverVars
    <2>2. QED  BY <1>1, <1>3, <1>4, <2>1 DEF Reply, Finish
  <1>5. CASE ServeUpload(r)
    <2>1. [r EXCEPT !.body = "serving"].ep = r.ep
          /\ [r EXCEPT !.body = "serving"].rsc = "uploadtestrig"
      BY <1>0, <1>5 DEF ServeUpload, Request
    <2>2. QED  BY <1>3, <1>5, <2>1 DEF ServeUpload, Reply, Finish
  <1>6. CASE QueueWork_cb(r)
    <2>1. /\ TakeWork(r) /\ Reply(r, {About(r.ep, "getworkstatus")}) /\ ended' = ended
      BY <1>6 DEF QueueWork_cb
    <2>2. About(r.ep, "getworkstatus").ep = r.ep
          /\ About(r.ep, "getworkstatus").rsc = "getworkstatus"
      BY DEF About
    <2>3. QED  BY <1>1, <1>3, <1>6, <2>1, <2>2 DEF Reply, Finish
  <1>7. CASE CheckWork_cb(r)
    <2>1. \A rsc \in {"log", "answer"} :
            /\ About(r.ep, rsc).ep = r.ep /\ About(r.ep, rsc).rsc = rsc
            /\ About(r.ep, rsc).place = containerName
      BY DEF About
    <2>2. r.rsc = "getworkstatus" /\ works' = works /\ ended' = ended
      BY <1>7 DEF CheckWork_cb, serverVars
    <2>3. \E more \in SUBSET {About(r.ep, rsc) : rsc \in {"log", "answer"}} : Reply(r, more)
      BY <1>7 DEF CheckWork_cb, CheckAgain, FetchResults, FetchLogOnly
    <2>4. QED  BY <1>3, <2>1, <2>2, <2>3 DEF Reply, Finish
  <1>8. QED  BY <1>2, <1>4, <1>5, <1>6, <1>7 DEF Callback

LEMMA AloneStart ==
  ASSUME IInv, NEW b \in Button, StartCalls(b), NEW e \in Ep \ overlapped', Runs(e)',
         Own(e)'
  PROVE  Alone(e)'
  <1>1. TypeOK /\ started \in Nat /\ e \notin overlapped /\ Ep \subseteq Nat
    BY DEF IInv, TypeOK, StartCalls, Ep
  <1>2. PICK n \in Ep : n = started + 1
    BY <1>1, BoundsAssumption DEF StartCalls, Ep
  <1>3. /\ turn = None /\ turn' = n /\ started' = n
        /\ calls' = [calls EXCEPT ![n] = <<"start">> \o Chain[b]]
        /\ UNCHANGED <<requests, works, ended>>
        /\ Live # {} => overlapped' = overlapped \cup Live \cup {n}
    BY <1>2 DEF StartCalls, serverVars
  <1>4. n \notin ended /\ works[n] = None /\ Of(n) = {} /\ n > started
    BY <1>1, <1>2 DEF IInv, Own, Fresh
  <1>5. Live' \subseteq Live \cup {n} /\ n \notin Live
    <2>1. /\ \A g \in Ep \ {n} : g <= n => g <= started
          /\ ~(n <= started)
      BY <1>1, <1>2
    <2>2. QED  BY <1>3, <2>1 DEF Live
  <1>6. e = n
    <2>1. ASSUME e # n PROVE e \in Live
      <3>1. e \in Live'
        BY <1>3, <2>1 DEF Runs
      <3>2. QED  BY <1>5, <2>1, <3>1
    <2>2. QED  BY <1>3, <2>1
  <1>7. Live = {}
    BY <1>3, <1>6
  <1>8. Now(e)' = "start"
    <2>1. calls'[e] = <<"start">> \o Chain[b]
      BY <1>1, <1>3, <1>6 DEF TypeOK
    <2>2. calls'[e] # <<>> /\ calls'[e][1] = "start"
      BY <2>1, StartedList
    <2>3. QED  BY <2>2 DEF Now
  <1>9. Of(e)' = {} /\ works'[e] = None
    BY <1>3, <1>4, <1>6 DEF Of
  <1>10. QED  BY <1>5, <1>6, <1>7, <1>8, <1>9 DEF Alone, WorkType

LEMMA AloneCall ==
  ASSUME IInv, NEW f \in Ep, MakeNextCall(f), NEW e \in Ep \ overlapped', Runs(e)'
  PROVE  Alone(e)'
  <1>0. TypeOK /\ e # None /\ f # None
    BY NoneAssumption DEF IInv, Ep
  <1>1. CASE Done(f)
    <2>1. /\ turn = f /\ turn' = None /\ f \in ended' /\ Live' \subseteq Live \ {f}
          /\ UNCHANGED <<containerName, diffEnvName, requests, stage, works, overlapped>>
          /\ \A g \in Ep \ {f} : calls'[g] = calls[g]
      BY <1>0, <1>1 DEF Done, Finish, pageVars, serverVars, Live, TypeOK
    <2>2. e \in Live /\ e # f
      BY <1>0, <2>1 DEF Runs
    <2>3. Alone(e) /\ Now(e)' = Now(e)
      BY <2>1, <2>2 DEF IInv, Now
    <2>4. QED  BY <2>1, <2>2, <2>3 DEF Alone, Runs, Of
  <1>2. CASE ~Done(f)
    <2>1. PICK call \in Call :
            /\ Shift(f, call)
            /\ call # "showOldTestrig" => containerName' = containerName
            /\ call # "uploaddiffenvsmart" => diffEnvName' = diffEnvName
            /\ call = "uploaddiffenvsmart" => diffEnvName' = f
            /\ call \notin {"showOldTestrig", "posttestriginit", "postdiffenvinit"} =>
                 turn' = None
      BY <1>2, CallPage
    <2>2. /\ UNCHANGED <<stage, works, started, overlapped>>
          /\ ended \subseteq ended'
          /\ requests \subseteq requests'
          /\ \A q \in requests' \ requests :
               q.ep = f /\ q.place = containerName' /\ containerName' = containerName
          /\ call \in WorkType => \E q \in requests' : q.ep = f /\ q.rsc = "queuework"
      BY <2>1, CallSends
    <2>3. /\ turn = f /\ Of(f) = {} /\ <<Now(f), call>> \in Follows /\ Now(f)' = call
          /\ f \in Live \/ call \in {"posttestriginit"}
          /\ \A g \in Ep \ {f} : calls'[g] = calls[g]
      BY <2>1, Called
    <2>4. Live' \subseteq Live
      BY <2>2 DEF Live
    <2>5. CASE e = f
      <3>1. e \in Live
        <4>1. e \notin Live => call = "posttestriginit"
          BY <2>3, <2>5
        <4>2. QED  BY <2>3, <2>4, <2>5, <4>1 DEF Runs
      <3>2. Alone(e) /\ Runs(e)
        BY <2>2, <3>1 DEF IInv, Runs
      <3>3. ASSUME NEW q \in Of(e)' PROVE q.place = containerName'
        BY <2>2, <2>3, <2>5, <3>3 DEF Of
      <3>4. Now(e)' \in WorkType => \E q \in Of(e)' : q.rsc = "queuework"
        BY <2>2, <2>3, <2>5 DEF Of
      <3>5. QED  BY <2>1, <2>2, <2>3, <2>4, <2>5, <3>2, <3>3, <3>4 DEF Alone
    <2>6. CASE e # f
      <3>1. e \in Live
        <4>1. turn' = None \/ turn' = f
          BY <1>2, <2>3 DEF MakeNextCall, CheckAPIKey, GetTestrigs, Login, InitContainer,
             UploadTestrigSmart, UploadDiffEnvSmart, UploadQuestionText, ShowOldTestrig,
             PostTestrigInit, PostDiffEnvInit, QueueWork, Upload, Send
        <4>2. QED  BY <1>0, <2>4, <2>6, <4>1 DEF Runs
      <3>2. Alone(e) /\ Runs(e) /\ f \notin Live
        BY <2>2, <2>6, <3>1 DEF IInv, Runs, Alone
      <3>3. call = "posttestriginit"
        BY <2>3, <3>2
      <3>4. UNCHANGED <<containerName, diffEnvName>>
        BY <2>1, <3>3
      <3>5. Of(e)' = Of(e) /\ Now(e)' = Now(e)
        BY <2>2, <2>3, <2>6 DEF Of, Now
      <3>6. QED  BY <2>2, <2>4, <3>2, <3>4, <3>5 DEF Alone
    <2>7. QED  BY <2>5, <2>6
  <1>3. QED  BY <1>1, <1>2

LEMMA AloneCallback ==
  ASSUME IInv, NEW r \in requests, Callback(r), NEW e \in Ep \ overlapped', Runs(e)',
         Own(e)', [Next]_vars
  PROVE  Alone(e)'
  <1> DEFINE f == r.ep
  <1>0. TypeOK /\ e # None /\ f \in Ep /\ f # None /\ r \in Request /\ r \in Of(f)
    BY NoneAssumption DEF IInv, Ep, TypeOK, Request, Of
  <1>1. /\ diffEnvName' = diffEnvName
        /\ containerName' = containerName \/ (InitContainer_cb(r) /\ containerName' = f)
        /\ turn = None
        /\ turn' = None \/ (turn' = f /\ calls' = calls)
        /\ calls' = calls \/ calls' = [calls EXCEPT ![f] = <<>>]
    BY CallbackPage
  <1>2. /\ UNCHANGED <<started, overlapped>> /\ ended \subseteq ended'
        /\ \A g \in Ep \ {f} : works'[g] = works[g]
        /\ r.rsc # "queuework" => works' = works
        /\ \/ works' = works
           \/ /\ works'[f].place = r.place /\ works'[f].status = "PENDING"
              /\ GenericFailure_cb(r) \/ QueueWork_cb(r)
        /\ \A q \in requests' \ requests : q.ep = f /\ q.rsc # "queuework"
        /\ requests \ {r} \subseteq requests'
        /\ GenericFailure_cb(r) => f \in ended' /\ turn' = None
    BY CallbackWorks
  <1>3. Live' \subseteq Live
    BY <1>2 DEF Live
  <1>4. /\ r.rsc \notin {"log", "answer"} /\ r.body # "nothing" => f \in Live
        /\ \A q \in Of(f) : q.rsc = "queuework" => Of(f) = {q}
    <2>1. ASSUME NEW q \in Of(f), q.rsc = "queuework" PROVE Of(f) = {q}
      <3>1. q \in requests /\ q.ep = f
        BY DEF Of
      <3>2. Of(q.ep) = {q}
        BY <1>1, <2>1, <3>1, Answered
      <3>3. QED  BY <3>1, <3>2
    <2>2. r.rsc \notin {"log", "answer"} /\ r.body # "nothing" => f \in Live
      BY <1>1, Answered
    <2>3. QED  BY <2>1, <2>2
  <1>5. GenericFailure_cb(r) => e # f
    BY <1>0, <1>2 DEF Runs, Live
  <1>6. e \in Live
    <2>1. CASE e \in Live'
      BY <1>3, <2>1
    <2>2. CASE turn' = e /\ Now(e)' = "drawtopology"
      <3>1. e = f /\ Now(e) = "drawtopology"
        BY <1>0, <1>1, <2>2 DEF Now
      <3>2. Own(e)
        BY DEF IInv
      <3>3. calls[e] # <<>> /\ Now(e) \notin Answering
        BY <3>1 DEF Now, Answering
      <3>4. r.body \notin {"nothing"} \/ r.rsc \in {"uploadtestrig", "uploadenvironment"}
        BY <1>0, NoneAssumption DEF Request, WorkType
      <3>5. QED  BY <1>0, <3>1, <3>2, <3>3, <3>4 DEF Own, Asked
    <2>3. QED  BY <2>1, <2>2 DEF Runs
  <1>7. Alone(e) /\ Runs(e) /\ Live \subseteq {e}
    BY <1>2, <1>6 DEF IInv, Runs, Alone
  <1>8. calls'[e] = calls[e] \/ calls'[e] = <<>>
    BY <1>0, <1>1 DEF TypeOK
  <1>9. Now(e)' = Now(e) \/ Now(e)' = "none"
    BY <1>8 DEF Now
  <1>10. works[e] # None /\ works[e].type = "drawtopology"
           /\ works[e].status = "TERMINATEDNORMALLY" => stage'[works[e].place] = "independent"
    <2>1. works[e] # None => works[e].place \in Testrig
      <3>1. works[e] # None => works[e] \in Work
        BY <1>0 DEF TypeOK
      <3>2. QED  BY <3>1 DEF Work
    <2>2. ASSUME NEW q \in requests, GenericFailure_cb(q), q.rsc = "uploadtestrig",
                 q.body = "serving"
          PROVE  FALSE
      <3>1. q.ep \in Live
        BY <1>1, <2>2, Answered
      <3>2. q.ep = e
        BY <1>7, <3>1
      <3>3. e \in ended' /\ turn' = None
        BY <2>2, <3>2 DEF GenericFailure_cb, Stop, Reply, Finish
      <3>4. QED  BY <1>0, <3>3 DEF Runs, Live
    <2>3. QED  BY <1>7, <2>1, <2>2, StageStays DEF Alone
  <1>11. CASE e # f
    <2>1. r.rsc \in {"log", "answer"} \/ r.body = "nothing"
      BY <1>4, <1>7, <1>11
    <2>2. containerName' = containerName
      <3>1. InitContainer_cb(r) => r.body # "nothing" /\ r.rsc = "initcontainer"
        BY <1>0, NoneAssumption DEF InitContainer_cb, Request
      <3>2. QED  BY <1>1, <2>1, <3>1
    <2>3. Of(e)' = Of(e)
      <3>1. Of(e)' \subseteq Of(e)
        BY <1>2, <1>11 DEF Of
      <3>2. Of(e) \subseteq Of(e)'
        BY <1>2, <1>11 DEF Of
      <3>3. QED  BY <3>1, <3>2
    <2>4. works'[e] = works[e]
      BY <1>2, <1>11
    <2>5. QED
      BY <1>1, <1>3, <1>7, <1>9, <1>10, <2>2, <2>3, <2>4 DEF Alone, WorkType
  <1>12. CASE e = f
    <2>1. ~GenericFailure_cb(r)
      BY <1>5, <1>12
    <2>2. \A q \in Of(e)' : q.rsc = "queuework" => q \in Of(e)
      BY <1>2 DEF Of
    <2>3. \A q \in Of(e)' : q.rsc = "queuework" => q.place = containerName'
      <3>1. CASE containerName' = containerName
        BY <1>7, <2>2, <3>1 DEF Alone
      <3>2. CASE InitContainer_cb(r)
        <4>1. r.rsc = "initcontainer"
          BY <3>2 DEF InitContainer_cb
        <4>2. \A q \in Of(e) : q.rsc # "queuework"
          <5>1. ASSUME NEW q \in Of(e), q.rsc = "queuework" PROVE FALSE
            <6>1. Of(f) = {q}
              BY <1>4, <1>12, <5>1
            <6>2. r = q
              BY <1>0, <6>1
            <6>3. QED  BY <4>1, <5>1, <6>2
          <5>2. QED  BY <5>1
        <4>3. QED  BY <2>2, <4>2
      <3>3. QED  BY <1>1, <3>1, <3>2
    <2>4. ASSUME Now(e)' \in WorkType, \A q \in Of(e)' : q.rsc # "queuework"
          PROVE  works'[e].place = containerName'
      <3>1. Now(e) \in WorkType
        BY <1>9, <2>4 DEF WorkType
      <3>2. containerName' = containerName
        <4>1. InitContainer_cb(r) => Now(e) = "initcontainer"
          BY <1>0, <1>12 DEF InitContainer_cb, IInv, Own, Asked
        <4>2. QED  BY <1>1, <3>1, <4>1 DEF WorkType
      <3>3. CASE r.rsc = "queuework"
        <4>1. QueueWork_cb(r)
          BY <2>1, <3>3
             DEF Callback, CheckApiKey_cb, GetTestrigs_cb, InitContainer_cb, ServeUpload,
                 UploadTestrig_cb, UploadDifEnv_cb, UploadQuestion_cb, CheckWork_cb,
                 GetLog_cb, GetTopology_cb, GetAnsJson_cb, Fetched
        <4>2. works'[e].place = r.place
          BY <1>0, <1>12, <4>1 DEF QueueWork_cb, TakeWork, TypeOK
        <4>3. r.place = containerName
          BY <1>0, <1>7, <1>12, <3>3 DEF Alone
        <4>4. QED  BY <3>2, <4>2, <4>3
      <3>4. CASE r.rsc # "queuework"
        <4>1. \A q \in Of(e) : q.rsc # "queuework"
          <5>1. ASSUME NEW q \in Of(e), q.rsc = "queuework" PROVE FALSE
            <6>1. Of(f) = {q}
              BY <1>4, <1>12, <5>1
            <6>2. r = q
              BY <1>0, <6>1
            <6>3. QED  BY <3>4, <5>1, <6>2
          <5>2. QED  BY <5>1
        <4>2. works[e].place = containerName
          BY <1>7, <3>1, <4>1 DEF Alone
        <4>3. QED  BY <1>2, <3>2, <3>4, <4>2
      <3>5. QED  BY <3>3, <3>4
    <2>5. Now(e)' = "uploaddiffenvsmart" => diffEnvName' = e
      BY <1>1, <1>7, <1>9 DEF Alone
    <2>6. works'[e] # None /\ works'[e].type = "drawtopology"
            /\ works'[e].status = "TERMINATEDNORMALLY" =>
               stage'[works'[e].place] = "independent"
      BY <1>2, <1>10, <1>12
    <2>7. QED  BY <1>3, <1>7, <2>3, <2>4, <2>5, <2>6 DEF Alone
  <1>13. QED  BY <1>11, <1>12

LEMMA AloneNext ==
  ASSUME IInv, [Next]_vars, \A f \in Ep : Own(f)', NEW e \in Ep \ overlapped'
  PROVE  Alone(e)'
  <1> SUFFICES ASSUME Runs(e)' PROVE Alone(e)'
    BY DEF Alone
  <1>0. TypeOK /\ e # None
    BY NoneAssumption DEF IInv, Ep
  <1>q. ASSUME UNCHANGED <<turn, calls, containerName, diffEnvName, started, ended, overlapped>>
        PROVE  /\ Runs(e) /\ Alone(e) /\ Now(e)' = Now(e) /\ Live' = Live
    <2>1. Now(e)' = Now(e) /\ Live' = Live
      BY <1>q DEF Now, Live
    <2>2. Runs(e) /\ e \notin overlapped
      BY <1>q, <2>1 DEF Runs
    <2>3. QED  BY <2>1, <2>2 DEF IInv
  <1>1. ASSUME NEW f \in Ep, CheckWork(f) PROVE Alone(e)'
    <2>1. /\ UNCHANGED <<turn, calls, containerName, diffEnvName, started, ended, overlapped,
                         stage, works>>
          /\ requests' = requests \cup {About(f, "getworkstatus")}
      BY <1>1 DEF CheckWork, pageVars, serverVars
    <2>2. About(f, "getworkstatus").rsc = "getworkstatus"
      BY DEF About
    <2>3. /\ \A q \in Of(e)' : q.rsc = "queuework" => q \in Of(e)
          /\ Of(e) \subseteq Of(e)'
      BY <2>1, <2>2 DEF Of
    <2>4. Runs(e) /\ Alone(e) /\ Now(e)' = Now(e) /\ Live' = Live
      BY <1>q, <2>1
    <2>5. QED  BY <2>1, <2>3, <2>4 DEF Alone
  <1>2. ASSUME NEW f \in Ep, EndWork(f) PROVE Alone(e)'
    <2>1. /\ UNCHANGED <<turn, calls, containerName, diffEnvName, started, ended, overlapped,
                         requests>>
          /\ works[f] # None
      BY <1>2 DEF EndWork, pageVars
    <2>2. Runs(e) /\ Alone(e) /\ Now(e)' = Now(e) /\ Live' = Live /\ Of(e)' = Of(e)
      BY <1>q, <2>1 DEF Of
    <2>3. works[f] \in Work /\ (works[e] # None => works[e] \in Work)
      BY <1>0, <2>1 DEF TypeOK
    <2>4. works[f].place \in Testrig /\ (works[e] # None => works[e].place \in Testrig)
      BY <2>3 DEF Work
    <2>5. PICK end \in Status :
            /\ works' = [works EXCEPT ![f].status = end]
            /\ end = "TERMINATEDNORMALLY" /\ works[f].type = "drawtopology" =>
                 stage[works[f].place] = "independent"
      BY <1>2 DEF EndWork
    <2>6. /\ works'[f].place = works[f].place /\ works'[f].type = works[f].type
          /\ works'[f].status = end
          /\ \A g \in Ep \ {f} : works'[g] = works[g]
      <3>1. works'[f] = [works[f] EXCEPT !.status = end]
        BY <1>0, <2>5 DEF TypeOK
      <3>2. /\ works'[f].place = works[f].place /\ works'[f].type = works[f].type
            /\ works'[f].status = end
        BY <2>3, <3>1 DEF Work
      <3>3. QED  BY <1>0, <2>5, <3>2 DEF TypeOK
    <2>7. ASSUME NEW t \in Testrig, stage[t] = "independent"
          PROVE  stage'[t] = "independent"
      BY <1>0, <1>2, <2>4, <2>7
         DEF EndWork, TypeOK, Store!ParseVendor, Store!ParseIndependent, Store!Becomes
    <2>8. works'[e] # None => works[e] # None
      BY <2>1, <2>6
    <2>9. works'[e].place = works[e].place
      BY <2>6
    <2>10. works'[e] # None /\ works'[e].type = "drawtopology"
             /\ works'[e].status = "TERMINATEDNORMALLY" => stage[works[e].place] = "independent"
      BY <2>2, <2>5, <2>6, <2>8 DEF Alone
    <2>11. works'[e] # None /\ works'[e].type = "drawtopology"
             /\ works'[e].status = "TERMINATEDNORMALLY" =>
               stage'[works'[e].place] = "independent"
      BY <2>4, <2>7, <2>8, <2>9, <2>10
    <2>12. QED  BY <2>1, <2>2, <2>9, <2>11 DEF Alone
  <1>3. CASE Restart
    <2>1. UNCHANGED <<turn, calls, containerName, diffEnvName, started, ended, overlapped,
                      stage>>
      BY <1>3 DEF Restart, pageVars
    <2>2. Runs(e) /\ Alone(e) /\ Now(e)' = Now(e) /\ Live' = Live
      BY <1>q, <2>1
    <2>3. \A q \in Of(e)' : q.rsc = "queuework" => q \in Of(e)
      <3>1. \A q \in Of(e)' : \E r \in Of(e) : q.rsc = r.rsc /\ (r.rsc # "uploadtestrig" => q = r)
        BY <1>3, Restarted
      <3>2. QED  BY <3>1
    <2>4. ASSUME NEW q \in Of(e), q.rsc = "queuework" PROVE q \in Of(e)'
      <3>1. q \in Request /\ q \in requests /\ q.ep = e
        BY <1>0 DEF TypeOK, Of
      <3>2. q.body # "serving"
        BY <2>4, <3>1 DEF Request, WorkType
      <3>3. q \in requests'
        BY <1>3, <3>1, <3>2 DEF Restart
      <3>4. QED  BY <3>1, <3>3 DEF Of
    <2>5. /\ works'[e] = None <=> works[e] = None
          /\ works[e] # None => works'[e].type = works[e].type
                                /\ works'[e].place = works[e].place
          /\ works'[e] = works[e] \/ works'[e].status = "FORGOTTEN"
      BY <1>3, Restarted
    <2>6. Now(e) \in WorkType /\ (\A q \in Of(e) : q.rsc # "queuework") => works[e] # None
      <3>1. Live = {e} \/ turn = e
        BY <2>2 DEF Runs, Alone
      <3>2. turn # e
        BY <1>0, <1>3 DEF Restart
      <3>3. e \in Live /\ Own(e)
        BY <3>1, <3>2 DEF IInv
      <3>4. e \in timers \/ \E q \in Of(e) : q.rsc # "answer"
        BY <3>2, <3>3 DEF Own, Single, Waits
      <3>5. CASE e \in timers
        BY <3>3, <3>5 DEF Own, Single, Polls
      <3>6. ASSUME NEW q \in Of(e), q.rsc # "answer", Now(e) \in WorkType,
                   q.rsc # "queuework"
            PROVE  works[e] # None
        <4>1. q \in Request
          BY <1>0 DEF TypeOK, Of
        <4>2. q.rsc \in {"getworkstatus", "log"}
          BY <3>3, <3>6, <4>1 DEF Request, Own, Asked, WorkType
        <4>3. QED  BY <3>3, <4>2 DEF Own, Asked, Polls
      <3>7. QED  BY <3>4, <3>5, <3>6
    <2>7. QED  BY <2>1, <2>2, <2>3, <2>4, <2>5, <2>6 DEF Alone
  <1>4. CASE UNCHANGED vars
    <2>1. UNCHANGED <<turn, calls, containerName, diffEnvName, started, ended, overlapped,
                      stage, works, requests>>
      BY <1>4 DEF vars, pageVars, serverVars
    <2>2. Runs(e) /\ Alone(e) /\ Now(e)' = Now(e) /\ Live' = Live /\ Of(e)' = Of(e)
      BY <1>q, <2>1 DEF Of
    <2>3. QED  BY <2>1, <2>2 DEF Alone
  <1>5. QED
    BY <1>1, <1>2, <1>3, <1>4, AloneStart, AloneCall, AloneCallback DEF Next

\* Results are asked for where the work was done.
LEMMA FetchedNext ==
  ASSUME IInv, [Next]_vars
  PROVE  FetchedWhereDone'
  <1>0. TypeOK /\ FetchedWhereDone /\ \A f \in Ep : f # None
    BY NoneAssumption DEF IInv, Ep
  <1>1. ASSUME NEW q \in requests', q.rsc \in {"log", "answer"}, q.ep \notin overlapped',
               q \in requests, overlapped \subseteq overlapped',
               works'[q.ep].place = works[q.ep].place
        PROVE  q.place = works'[q.ep].place
    BY <1>0, <1>1 DEF FetchedWhereDone
  <1>2. ASSUME NEW b \in Button, StartCalls(b) PROVE FetchedWhereDone'
    <2>1. requests' = requests /\ works' = works /\ overlapped \subseteq overlapped'
      BY <1>2 DEF StartCalls, serverVars
    <2>2. QED  BY <1>1, <2>1 DEF FetchedWhereDone
  <1>3. ASSUME NEW e \in Ep, MakeNextCall(e) PROVE FetchedWhereDone'
    <2>1. CASE Done(e)
      <3>1. requests' = requests /\ works' = works /\ overlapped' = overlapped
        BY <2>1 DEF Done, serverVars
      <3>2. QED  BY <1>1, <3>1 DEF FetchedWhereDone
    <2>2. CASE ~Done(e)
      <3>1. PICK call \in Call : Shift(e, call)
        BY <1>3, <2>2, CallPage
      <3>2. /\ works' = works /\ overlapped' = overlapped
            /\ \A q \in requests' \ requests : q.rsc \notin {"log", "answer"}
        BY <1>3, <3>1, CallSends
      <3>3. QED  BY <1>1, <3>2 DEF FetchedWhereDone
    <2>3. QED  BY <2>1, <2>2
  <1>4. ASSUME NEW e \in Ep, CheckWork(e) PROVE FetchedWhereDone'
    <2>1. /\ requests' = requests \cup {About(e, "getworkstatus")}
          /\ works' = works /\ overlapped' = overlapped
      BY <1>4 DEF CheckWork, serverVars
    <2>2. About(e, "getworkstatus").rsc = "getworkstatus"
      BY DEF About
    <2>3. QED  BY <1>1, <2>1, <2>2 DEF FetchedWhereDone
  <1>5. ASSUME NEW e \in Ep, EndWork(e) PROVE FetchedWhereDone'
    <2>1. requests' = requests /\ overlapped' = overlapped /\ works[e] # None
      BY <1>5 DEF EndWork
    <2>2. PICK end \in Status : works' = [works EXCEPT ![e].status = end]
      BY <1>5 DEF EndWork
    <2>3. works'[e].place = works[e].place /\ \A f \in Ep \ {e} : works'[f] = works[f]
      <3>1. works[e] \in Work
        BY <1>0, <2>1 DEF TypeOK
      <3>2. works'[e] = [works[e] EXCEPT !.status = end]
        BY <1>0, <2>2 DEF TypeOK
      <3>3. works'[e].place = works[e].place
        BY <3>1, <3>2 DEF Work
      <3>4. QED  BY <1>0, <2>2, <3>3 DEF TypeOK
    <2>4. ASSUME NEW q \in requests, q.rsc \in {"log", "answer"}, q.ep \notin overlapped
          PROVE  q.place = works'[q.ep].place
      <3>1. q.ep \in Ep
        BY <1>0 DEF TypeOK, Request
      <3>2. works'[q.ep].place = works[q.ep].place
        BY <2>3, <3>1
      <3>3. QED  BY <1>0, <2>4, <3>2 DEF FetchedWhereDone
    <2>5. QED  BY <2>1, <2>4 DEF FetchedWhereDone
  <1>6. CASE Restart
    <2>1. overlapped' = overlapped
      BY <1>6 DEF Restart
    <2>2. ASSUME NEW q \in requests', q.rsc \in {"log", "answer"}, q.ep \notin overlapped
          PROVE  q.place = works'[q.ep].place
      <3>1. PICK r \in requests :
              q = IF r.body = "serving" THEN [r EXCEPT !.body = "lost"] ELSE r
        BY <1>6 DEF Restart
      <3>2. r \in Request /\ r.ep \in Ep
        BY <1>0 DEF TypeOK, Request
      <3>3. q = r
        <4>1. r.body = "serving" => r.rsc = "uploadtestrig"
          BY <3>2, NoneAssumption DEF Request, WorkType
        <4>2. [r EXCEPT !.body = "lost"].rsc = r.rsc
          BY <3>2 DEF Request
        <4>3. QED  BY <2>2, <3>1, <4>1, <4>2
      <3>4. r \in Of(r.ep)
        BY DEF Of
      <3>5. works[r.ep] # None
        BY <2>2, <3>2, <3>3, <3>4 DEF IInv, Own, Asked
      <3>6. works'[r.ep].place = works[r.ep].place
        BY <1>6, <3>2, <3>5, Restarted
      <3>7. QED  BY <1>0, <2>2, <3>3, <3>6 DEF FetchedWhereDone
    <2>3. QED  BY <2>1, <2>2 DEF FetchedWhereDone
  <1>7. ASSUME NEW r \in requests, Callback(r) PROVE FetchedWhereDone'
    <2>0. r \in Request /\ r.ep \in Ep /\ r \in Of(r.ep) /\ turn = None
      BY <1>0, <1>7, CallbackPage DEF TypeOK, Request, Of
    <2>1. /\ overlapped' = overlapped
          /\ \A f \in Ep \ {r.ep} : works'[f] = works[f]
          /\ r.rsc # "queuework" => works' = works
          /\ \A q \in requests' \ requests :
               /\ q.ep = r.ep
               /\ q.rsc \in {"log", "answer"} =>
                    q.place = containerName /\ r.rsc = "getworkstatus"
      BY <1>7, CallbackWorks
    <2>2. ASSUME NEW q \in requests' \ requests, q.rsc \in {"log", "answer"},
                 q.ep \notin overlapped
          PROVE  q.place = works'[q.ep].place
      <3>1. q.ep = r.ep /\ r.rsc = "getworkstatus" /\ q.place = containerName /\ works' = works
        BY <2>1, <2>2
      <3>2. Of(r.ep) = {r} /\ (r.body # "nothing" => r.ep \in Live)
        BY <2>0, <3>1, Answered
      <3>3. r.body \in WorkType /\ Own(r.ep)
        BY <2>0, <3>1 DEF Request, IInv
      <3>4. r.ep \in Live /\ Now(r.ep) \in WorkType
        BY <2>0, <3>1, <3>2, <3>3 DEF Own, Asked, WorkType
      <3>5. Alone(r.ep) /\ Runs(r.ep)
        BY <2>0, <2>2, <3>1, <3>4 DEF IInv, Runs
      <3>6. \A p \in Of(r.ep) : p.rsc # "queuework"
        BY <3>1, <3>2
      <3>7. QED  BY <3>1, <3>4, <3>5, <3>6 DEF Alone
    <2>3. ASSUME NEW q \in requests' \cap requests, q.rsc \in {"log", "answer"},
                 q.ep \notin overlapped
          PROVE  q.place = works'[q.ep].place
      <3>1. q.ep \in Ep /\ q \in Of(q.ep)
        BY <1>0 DEF TypeOK, Request, Of
      <3>2. works'[q.ep] = works[q.ep]
        <4>1. CASE r.rsc = "queuework"
          <5>1. Of(r.ep) = {r}
            BY <2>0, <4>1, Answered
          <5>2. q.ep # r.ep
            BY <2>3, <3>1, <4>1, <5>1
          <5>3. QED  BY <2>1, <3>1, <5>2
        <4>2. CASE r.rsc # "queuework"
          BY <2>1, <4>2
        <4>3. QED  BY <4>1, <4>2
      <3>3. QED  BY <1>0, <2>3, <3>2 DEF FetchedWhereDone
    <2>4. QED  BY <2>1, <2>2, <2>3 DEF FetchedWhereDone
  <1>8. CASE UNCHANGED vars
    BY <1>0, <1>8 DEF vars, serverVars, FetchedWhereDone
  <1>9. QED  BY <1>2, <1>3, <1>4, <1>5, <1>6, <1>7, <1>8 DEF Next
-----------------------------------------------------------------------------
(* The invariant.                                                          *)

LEMMA InitHolds == Init => IInv
  <1> SUFFICES ASSUME Init PROVE IInv
    OBVIOUS
  <1>1. /\ \A e \in Ep : /\ calls[e] = <<>> /\ epOutput[e] = None /\ epWorkGuid[e] = None
                         /\ epQuestionName[e] = None /\ works[e] = None /\ e # None
                         /\ e \in Nat /\ e > started /\ ~(e <= started)
        /\ turn = None /\ timers = {} /\ requests = {} /\ ended = {} /\ overlapped = {}
    BY NoneAssumption DEF Init, NotInMap, Ep
  <1>2. \A e \in Ep : Now(e) = "none" /\ Of(e) = {} /\ Waits(e) = {} /\ e \notin Live
    BY <1>1 DEF Now, Of, Waits, Live
  <1>3. PICK buttons, stages, container, made :
          /\ Session(buttons, stages, container, made)
          /\ buttons \subseteq Button
          /\ stages \subseteq {"independent", "partial", "uploaded"}
          /\ container \in {None, Old} /\ made \in {{}, {Old}}
          /\ buttons \cap {"btnAnswer", "btnAnswerDiff", "btnUploadDiffEnv"} # {} =>
               container = Old
          /\ "btnAnswerDiff" \in buttons => made = {Old}
    BY DEF Init, Button, Chain
  <1>4. /\ enabled = buttons /\ containerName = container /\ environments = made
        /\ diffEnvName = IF made = {} THEN None ELSE Old
        /\ stage \in [Testrig -> Store!Stages]
    BY <1>3 DEF Session, Store!Stages
  <1>5. TypeOK
    <2>1. /\ calls \in [Ep -> Seq(Call)] /\ epOutput \in [Ep -> {None, "text", "undefined"}]
          /\ epWorkGuid \in [Ep -> WorkType \cup {None}]
          /\ epQuestionName \in [Ep -> {None, "question"}]
          /\ works \in [Ep -> Work \cup {None}]
      BY DEF Init, NotInMap
    <2>2. /\ containerName \in Testrig \cup {None} /\ diffEnvName \in Testrig \cup {None}
          /\ environments \subseteq Testrig /\ enabled \subseteq Button
      BY <1>3, <1>4 DEF Testrig
    <2>3. spinning \in BOOLEAN /\ restarted \in BOOLEAN /\ started \in 0 .. MaxStarts
      <3>1. spinning = FALSE /\ restarted = FALSE /\ started = 0
        BY DEF Init
      <3>2. 0 \in 0 .. MaxStarts
        BY BoundsAssumption
      <3>3. QED  BY <3>1, <3>2, Zenon
    <2>4. QED  BY <1>1, <1>4, <2>1, <2>2, <2>3 DEF TypeOK
  <1>6. ASSUME NEW e \in Ep PROVE Own(e)
    <2>1. Chained(e) /\ Fresh(e)
      BY <1>1, <1>2 DEF Chained, Fresh
    <2>2. Asked(e) /\ Single(e) /\ Running(e) /\ Cleaned(e)
      BY <1>1, <1>2 DEF Asked, Single, Running, Cleaned
    <2>3. QED  BY <2>1, <2>2 DEF Own
  <1>7. ASSUME NEW e \in Ep PROVE Named(e)
    <2>1. DOMAIN calls[e] = {}
      BY <1>1
    <2>2. QED  BY <1>2, <2>1 DEF Named, WorkType
  <1>8. Old # None
    BY NoneAssumption DEF Old
  <1>9. ButtonsNamed
    BY <1>3, <1>4, <1>8 DEF ButtonsNamed
  <1>10. ASSUME NEW e \in Ep PROVE Alone(e)
    BY <1>1, <1>2 DEF Alone, Runs
  <1>11. FetchedWhereDone
    BY <1>1 DEF FetchedWhereDone
  <1>12. QED  BY <1>5, <1>6, <1>7, <1>9, <1>10, <1>11 DEF IInv

LEMMA NextHolds ==
  ASSUME IInv, [Next]_vars
  PROVE  IInv'
  <1>1. TypeOK' /\ (\A e \in Ep : Own(e)')
    BY TypeNext, OwnNext
  <1>2. (\A e \in Ep : Named(e)') /\ ButtonsNamed'
    BY NamedNext
  <1>3. \A e \in Ep \ overlapped' : Alone(e)'
    BY <1>1, AloneNext
  <1>4. FetchedWhereDone'
    BY FetchedNext
  <1>5. QED  BY <1>1, <1>2, <1>3, <1>4 DEF IInv

LEMMA Invariance == Spec => []IInv
  BY InitHolds, NextHolds, PTL DEF Spec
-----------------------------------------------------------------------------
(* What follows from it.                                                   *)

\* The variables of the page's client hold values of their types: above all, that a
\* request always has a testrig with a name where the coordinator needs one.
THEOREM TypeCorrect == Spec => []TypeOK
  BY Invariance, PTL DEF IInv

\* The call that comes next follows, in one of the chains, the one made last.
LEMMA NextFollows ==
  ASSUME IInv, NEW e \in Ep, NextCall(e) # "none"
  PROVE  /\ turn = e /\ calls[e] # <<>> /\ 2 \in DOMAIN calls[e]
         /\ calls[e][2] = NextCall(e)
         /\ <<Now(e), NextCall(e)>> \in Follows
  <1>1. turn = e /\ Len(calls[e]) > 1 /\ NextCall(e) = calls[e][2]
    BY DEF NextCall
  <1>2. calls[e] \in Seq(Call) /\ Chained(e)
    BY DEF IInv, TypeOK, Own
  <1>3. calls[e] # <<>> /\ 1 \in 1 .. Len(calls[e]) - 1 /\ 2 \in DOMAIN calls[e]
    BY <1>1, <1>2
  <1>4. <<calls[e][1], calls[e][1 + 1]>> \in Follows
    BY <1>2, <1>3 DEF Chained
  <1>5. QED  BY <1>1, <1>3, <1>4 DEF Now

\* A chain of calls neither forks nor gets stuck: one thing continues an entry point
\* as long as it is under way, nothing but a last log, an upload of nothing or the
\* buttons after a topology that cannot be drawn comes after its end, and nothing is
\* left of it in the maps, whatever replies get lost and works fail.
THEOREM ChainsAreThreads == Spec => []OneThread
  <1>1. IInv => OneThread
    <2> SUFFICES ASSUME IInv, NEW e \in Ep
                 PROVE  /\ e \in Live => Cardinality(Waits(e)) + Cardinality(timers \cap {e})
                                           = (IF turn = e THEN 0 ELSE 1)
                        /\ e \notin Live =>
                             /\ timers \cap {e} = {}
                             /\ \A r \in Waits(e) : r.rsc = "log" \/ r.body = "nothing"
                             /\ NextCall(e) \in {"none", "posttestriginit"}
                        /\ turn = None /\ e \in ended =>
                             /\ epOutput[e] = None /\ epWorkGuid[e] = None
                             /\ epQuestionName[e] = None
      <3>1. \A e \in Ep : {r \in requests : r.ep = e /\ r.rsc # "answer"} = Waits(e)
        BY DEF Waits, Of
      <3>2. QED  BY <3>1 DEF OneThread
    <2>1. Own(e) /\ e # None
      BY NoneAssumption DEF IInv, Ep
    <2>2. Cardinality({}) = 0 /\ \A x : Cardinality({x}) = 1
      BY FS_EmptySet, FS_Singleton
    <2>3. /\ Waits(e) = {} \/ \E r : Waits(e) = {r}
          /\ timers \cap {e} = {} \/ timers \cap {e} = {e}
      BY <2>1 DEF Own, Single
    <2>4. ASSUME e \in Live
          PROVE  Cardinality(Waits(e)) + Cardinality(timers \cap {e})
                   = (IF turn = e THEN 0 ELSE 1)
      <3>1. CASE turn = e
        <4>1. Waits(e) = {} /\ timers \cap {e} = {}
          BY <2>1, <3>1 DEF Own, Single
        <4>2. QED  BY <2>2, <3>1, <4>1
      <3>2. CASE turn # e /\ e \in timers
        <4>1. Waits(e) = {} /\ timers \cap {e} = {e}
          BY <2>1, <3>2 DEF Own, Single
        <4>2. Cardinality(Waits(e)) = 0 /\ Cardinality(timers \cap {e}) = 1
          BY <2>2, <4>1, Zenon
        <4>3. QED  BY <3>2, <4>2
      <3>3. CASE turn # e /\ e \notin timers
        <4>1. timers \cap {e} = {} /\ \E r : Waits(e) = {r}
          BY <2>1, <2>3, <2>4, <3>3 DEF Own, Single
        <4>2. Cardinality(Waits(e)) = 1 /\ Cardinality(timers \cap {e}) = 0
          BY <2>2, <4>1, Zenon
        <4>3. QED  BY <3>3, <4>2
      <3>4. QED  BY <3>1, <3>2, <3>3
    <2>5. ASSUME e \notin Live
          PROVE  /\ timers \cap {e} = {}
                 /\ \A r \in Waits(e) : r.rsc = "log" \/ r.body = "nothing"
      BY <2>1, <2>5 DEF Own, Single, Asked, Waits
    <2>6. ASSUME e \notin Live, NextCall(e) # "none" PROVE NextCall(e) = "posttestriginit"
      <3>1. /\ turn = e /\ calls[e] # <<>> /\ <<Now(e), NextCall(e)>> \in Follows
        BY <2>6, NextFollows
      <3>2. Now(e) \in Answering \cup {"drawtopology", "posttestriginit"}
        BY <2>1, <2>6, <3>1 DEF Own, Running
      <3>3. QED  BY <3>1, <3>2 DEF Follows, Answering
    <2>7. turn = None /\ e \in ended =>
            epOutput[e] = None /\ epWorkGuid[e] = None /\ epQuestionName[e] = None
      BY <2>1 DEF Own, Cleaned
    <2>8. QED  BY <2>4, <2>5, <2>6, <2>7
  <1>2. QED  BY <1>1, Invariance, PTL

\* What errorCheck and checkWork test always holds, whatever is clicked when: the
\* names that a request needs are set, and the work that is polled is the current one.
THEOREM ChecksNeverFail == Spec => []ChecksHold
  <1>1. IInv => ChecksHold
    <2> SUFFICES ASSUME IInv, NEW e \in Ep
                 PROVE  /\ NextCall(e) \in WorkType
                                  \cup {"uploadquestiontext", "uploaddiffenvsmart"} =>
                             containerName # None
                        /\ NextCall(e) \in Answering => epQuestionName[e] # None
                        /\ NextCall(e) = "answerdiffquestion" => diffEnvName # None
                        /\ e \in timers => epWorkGuid[e] # None
                        /\ \A r \in requests : r.ep = e /\ r.rsc = "getworkstatus" =>
                             r.body = epWorkGuid[e] /\ works[e].type = r.body
      BY DEF ChecksHold
    <2>1. Own(e) /\ Named(e) /\ \A type \in WorkType : type # None
      BY NoneAssumption DEF IInv
    <2>2. ASSUME NextCall(e) # "none"
          PROVE  /\ NextCall(e) \in WorkType
                                  \cup {"uploadquestiontext", "uploaddiffenvsmart"} =>
                             containerName # None
                 /\ NextCall(e) \in Answering => epQuestionName[e] # None
                 /\ NextCall(e) = "answerdiffquestion" => diffEnvName # None
      <3>1. /\ turn = e /\ 2 \in DOMAIN calls[e] /\ calls[e][2] = NextCall(e)
            /\ <<Now(e), NextCall(e)>> \in Follows
        BY <2>2, NextFollows
      <3>2. /\ NextCall(e) \in {"uploadquestiontext", "uploaddiffenvsmart"} \cup Answering =>
                 containerName # None
            /\ NextCall(e) = "answerdiffquestion" => diffEnvName # None
        BY <2>1, <3>1 DEF Named
      <3>3. NextCall(e) \in {"parsevendorspecific", "parsevendorindependent",
                             "drawtopology"} => containerName # None
        BY <2>1, <3>1 DEF Named, Follows, WorkType
      <3>4. NextCall(e) \in Answering => Now(e) = "uploadquestiontext"
        BY <3>1 DEF Follows, Answering
      <3>5. QED  BY <2>1, <3>1, <3>2, <3>3, <3>4 DEF Own, Running, WorkType, Answering
    <2>3. e \in timers => epWorkGuid[e] # None
      BY <2>1 DEF Own, Single, Polls
    <2>4. ASSUME NEW r \in requests, r.ep = e, r.rsc = "getworkstatus"
          PROVE  r.body = epWorkGuid[e] /\ works[e].type = r.body
      <3>1. r \in Of(e)
        BY <2>4 DEF Of
      <3>2. QED  BY <2>1, <2>4, <3>1 DEF Own, Asked, Polls
    <2>5. QED  BY <2>2, <2>3, <2>4 DEF WorkType, Answering
  <1>2. QED  BY <1>1, Invariance, PTL

\* In a chain that no other overlapped, the buttons for questions are enabled only
\* when the testrig is parsed, and the environment to compare with is there.
THEOREM ButtonsKeepTheirPromise == Spec => []ReadyWhenEnabled
  <1>1. IInv => ReadyWhenEnabled
    <2> SUFFICES ASSUME IInv, NEW e \in Ep \ overlapped, NextCall(e) # "none"
                 PROVE  /\ NextCall(e) = "posttestriginit" =>
                             stage[containerName] = "independent"
                        /\ NextCall(e) = "postdiffenvinit" => diffEnvName \in environments
      BY DEF ReadyWhenEnabled
    <2>1. /\ turn = e /\ calls[e] # <<>> /\ <<Now(e), NextCall(e)>> \in Follows
      BY NextFollows
    <2>2. Own(e) /\ Alone(e)
      BY DEF IInv
    <2>3. ASSUME NextCall(e) = "posttestriginit" PROVE stage[containerName] = "independent"
      <3>1. Now(e) = "drawtopology"
        BY <2>1, <2>3 DEF Follows
      <3>2. Worked(e, "TERMINATEDNORMALLY")
        BY <2>1, <2>2, <3>1 DEF Own, Running, WorkType
      <3>3. Waits(e) = {}
        BY <2>1, <2>2 DEF Own, Single
      <3>4. \A r \in Of(e) : r.rsc # "queuework"
        BY <3>3 DEF Waits
      <3>5. QED  BY <2>1, <2>2, <3>1, <3>2, <3>4 DEF Alone, Runs, Worked, WorkType
    <2>4. ASSUME NextCall(e) = "postdiffenvinit" PROVE diffEnvName \in environments
      <3>1. Now(e) = "uploaddiffenvsmart"
        BY <2>1, <2>4 DEF Follows
      <3>2. e \in environments /\ e \in Live
        BY <2>1, <2>2, <3>1 DEF Own, Running, Answering
      <3>3. QED  BY <2>2, <3>1, <3>2 DEF Alone, Runs
    <2>5. QED  BY <2>3, <2>4
  <1>2. QED  BY <1>1, Invariance, PTL

\* Logs and answers are fetched from the testrig in which their work was done, unless
\* another chain overlapped.
THEOREM ResultsAreFound == Spec => []FetchedWhereDone
  BY Invariance, PTL DEF IInv

\* A work is queued only after the one before it in its chain terminated normally.
THEOREM WorksInOrder == Spec => InOrder
  <1> DEFINE Order ==
        \A e \in Ep :
          works'[e] # None /\ works'[e].status = "PENDING" /\ works[e] # works'[e]
            /\ works[e] # None =>
              /\ works[e].status = "TERMINATEDNORMALLY"
              /\ <<works[e].type, works'[e].type>> \in Successive
  <1>1. IInv /\ [Next]_vars => [Order]_vars
    <2> SUFFICES ASSUME IInv, Next, NEW e \in Ep,
                        works'[e] # None, works'[e].status = "PENDING",
                        works[e] # works'[e], works[e] # None
                 PROVE  /\ works[e].status = "TERMINATEDNORMALLY"
                        /\ <<works[e].type, works'[e].type>> \in Successive
      OBVIOUS
    <2>0. TypeOK
      BY DEF IInv
    <2>1. ASSUME NEW b \in Button, StartCalls(b) PROVE FALSE
      BY <2>1 DEF StartCalls, serverVars
    <2>2. ASSUME NEW f \in Ep, MakeNextCall(f) PROVE FALSE
      <3>1. CASE Done(f)
        BY <3>1 DEF Done, serverVars
      <3>2. CASE ~Done(f)
        <4>1. PICK call \in Call : Shift(f, call)
          BY <2>2, <3>2, CallPage
        <4>2. works' = works
          BY <2>2, <4>1, CallSends
        <4>3. QED  BY <4>2
      <3>3. QED  BY <3>1, <3>2
    <2>3. ASSUME NEW f \in Ep, CheckWork(f) PROVE FALSE
      BY <2>3 DEF CheckWork, serverVars
    <2>4. ASSUME NEW f \in Ep, EndWork(f) PROVE FALSE
      <3>1. PICK end \in Status \ {"PENDING", "FORGOTTEN"} :
              works' = [works EXCEPT ![f].status = end]
        BY <2>4 DEF EndWork
      <3>2. f = e
        BY <2>0, <3>1 DEF TypeOK
      <3>3. works'[e] = [works[e] EXCEPT !.status = end] /\ works[e] \in Work
        BY <2>0, <3>1, <3>2 DEF TypeOK
      <3>4. works'[e].status = end
        BY <3>3 DEF Work
      <3>5. QED  BY <3>1, <3>4
    <2>5. CASE Restart
      <3>1. works'[e].status = "FORGOTTEN"
        BY <2>5, Restarted
      <3>2. QED  BY <3>1
    <2>6. ASSUME NEW r \in requests, Callback(r)
          PROVE  /\ works[e].status = "TERMINATEDNORMALLY"
                 /\ <<works[e].type, works'[e].type>> \in Successive
      <3>1. r.ep = e /\ r.rsc = "queuework" /\ (GenericFailure_cb(r) \/ QueueWork_cb(r))
        BY <2>6, CallbackWorks
      <3>2. TakeWork(r)
        BY <3>1
           DEF QueueWork_cb, GenericFailure_cb, DoneInVain, serverVars
      <3>3. works'[e].type = r.body
        BY <2>0, <3>1, <3>2 DEF TakeWork, TypeOK
      <3>4. r \in Of(e)
        BY <3>1 DEF Of
      <3>5. QED  BY <3>1, <3>3, <3>4 DEF IInv, Own, Asked
    <2>7. QED  BY <2>1, <2>2, <2>3, <2>4, <2>5, <2>6 DEF Next
  <1>2. [Order]_vars => [\A e \in Ep :
          works'[e] # None /\ works'[e].status = "PENDING" /\ works[e] # works'[e]
            /\ works[e] # None =>
              /\ works[e].status = "TERMINATEDNORMALLY"
              /\ <<works[e].type, works'[e].type>> \in
                   {<<"parsevendorspecific", "parsevendorindependent">>,
                    <<"parsevendorindependent", "drawtopology">>}]_vars
    BY DEF Successive
  <1>3. QED  BY <1>1, <1>2, Invariance, PTL DEF Spec, InOrder
-----------------------------------------------------------------------------
(* ConfigInput.                                                            *)

\* While the last entry is plain, nothing that is still loading can come in its way: no
\* earlier zip file, and no earlier text of the base box unless a zip file is, or will
\* be, what is sent.
InputInv ==
  /\ Input!TypeOK
  /\ \A l \in loads : l.entry <= entries
  /\ \A k, l \in loads : k.entry = l.entry => k = l
  /\ plain =>
       /\ \A l \in loads : l.entry = entries => l.zip \/ (l.box = "base" /\ testrigZip = Empty)
       /\ \A l \in loads : l.entry # entries => ~l.zip
       /\ \A k, l \in loads :
            l.entry = entries /\ ~l.zip /\ k.entry # entries => k.box # "base"
       /\ (\A l \in loads : l.entry # entries) =>
            /\ Input!Sent = entries
            /\ testrigZip = Empty => \A l \in loads : l.box # "base"

LEMMA InputInitHolds == Input!Init => InputInv
  <1> SUFFICES ASSUME Input!Init PROVE InputInv
    OBVIOUS
  <1>1. 0 \in 0 .. MaxInputs
    BY InputAssumption
  <1>2. Input!TypeOK
    BY <1>1 DEF Input!Init, Input!TypeOK
  <1>3. plain = FALSE
    BY DEF Input!Init
  <1>4. QED  BY <1>2, <1>3 DEF Input!Init, InputInv

LEMMA InputNextHolds ==
  ASSUME InputInv, [Input!Next]_inputVars
  PROVE  InputInv'
  <1>0. /\ Input!TypeOK /\ entries \in Nat /\ Empty \notin Nat
        /\ \A l \in loads : /\ l.entry \in Nat /\ l.entry \in Input!Entry
                            /\ l.zip \in BOOLEAN /\ l.box \in Input!Box
    BY InputAssumption DEF InputInv, Input!TypeOK, Input!Load, Input!Entry
  <1>1. ASSUME NEW b \in Input!Box, NEW from \in {"select", "file"}, NEW zip \in BOOLEAN,
               Input!Ask(b, from, zip),
               testrigZip' \in {testrigZip, Empty}, ~zip /\ b = "base" => testrigZip' = Empty,
               selected' \subseteq Input!Box, chosen' \subseteq Input!Box
        PROVE  InputInv'
    <2> DEFINE l == [entry |-> entries + 1, box |-> b, from |-> from, zip |-> zip]
    <2>1. /\ entries' = entries + 1 /\ entries + 1 \in Input!Entry
          /\ entries + 1 \in 0 .. MaxInputs
          /\ loads' = loads \cup {l} /\ text' = text
          /\ plain' = ((zip \/ b = "base") /\ ~ Input!Overtakes(zip))
      BY <1>0, <1>1, InputAssumption DEF Input!Ask, Input!TypeOK, Input!Entry
    <2>2. l \in Input!Load
      BY <1>1, <2>1 DEF Input!Load
    <2>3. Input!TypeOK'
      BY <1>0, <1>1, <2>1, <2>2 DEF Input!TypeOK
    <2>4. l.entry = entries + 1 /\ l.zip = zip /\ l.box = b
      OBVIOUS
    <2> HIDE DEF l
    <2>5. \A k \in loads : k.entry # entries'
      BY <1>0, <2>1 DEF InputInv
    <2>6. \A k \in loads' : k = l \/ k \in loads
      BY <2>1
    <2>7. /\ \A k \in loads' : k.entry <= entries'
          /\ \A j, k \in loads' : j.entry = k.entry => j = k
      BY <1>0, <2>1, <2>4, <2>5, <2>6 DEF InputInv
    <2>8. plain' => /\ \A k \in loads : ~k.zip /\ (~zip => k.box # "base")
                    /\ zip \/ (b = "base" /\ testrigZip' = Empty)
      BY <1>1, <2>1 DEF Input!Overtakes
    <2>9. l \in loads' /\ l.entry = entries'
      BY <2>1, <2>4
    <2>10. QED  BY <2>3, <2>4, <2>5, <2>6, <2>7, <2>8, <2>9 DEF InputInv
  <1>2. ASSUME NEW b \in Input!Box, NEW zip \in BOOLEAN, Input!LoadText(b, zip)
        PROVE  InputInv'
    <2>1. Input!Ask(b, "select", zip)
      BY <1>2 DEF Input!LoadText
    <2>2. /\ testrigZip' \in {testrigZip, Empty}
          /\ ~zip /\ b = "base" => testrigZip' = Empty
          /\ selected' \subseteq Input!Box /\ chosen' \subseteq Input!Box
      BY <1>0, <1>2 DEF Input!LoadText, Input!TypeOK
    <2>3. QED  BY <1>1, <2>1, <2>2
  <1>3. ASSUME NEW b \in Input!Box, NEW zip \in BOOLEAN, Input!LoadConfigText(b, zip)
        PROVE  InputInv'
    <2>1. Input!Ask(b, "file", zip)
      BY <1>3 DEF Input!LoadConfigText
    <2>2. /\ testrigZip' \in {testrigZip, Empty}
          /\ ~zip /\ b = "base" => testrigZip' = Empty
          /\ selected' \subseteq Input!Box /\ chosen' \subseteq Input!Box
      BY <1>0, <1>3 DEF Input!LoadConfigText, Input!TypeOK
    <2>3. QED  BY <1>1, <2>1, <2>2
  <1>4. ASSUME NEW l \in loads, Input!Arrive(l) PROVE InputInv'
    <2>1. Input!TypeOK'
      BY <1>0, <1>4 DEF Input!Arrive, Input!Show, Input!TypeOK
    <2>2. /\ loads' = loads \ {l} /\ entries' = entries /\ plain' = plain
          /\ testrigZip' = IF l.zip THEN l.entry ELSE testrigZip
          /\ text' = [text EXCEPT ![l.box] = l.entry]
      BY <1>4 DEF Input!Arrive, Input!Show
    <2>3. CASE l.entry = entries /\ plain
      <3>1. \A k \in loads' : k.entry # entries /\ ~k.zip
        BY <2>2, <2>3 DEF InputInv
      <3>2. CASE l.zip
        <4>1. Input!Sent' = entries /\ testrigZip' # Empty
          BY <1>0, <2>2, <2>3, <3>2 DEF Input!Sent
        <4>2. QED  BY <2>1, <2>2, <3>1, <4>1 DEF InputInv
      <3>3. CASE ~l.zip
        <4>1. l.box = "base" /\ testrigZip = Empty /\ testrigZip' = Empty
          BY <2>2, <2>3, <3>3 DEF InputInv
        <4>2. Input!Sent' = entries
          BY <1>0, <2>2, <2>3, <4>1 DEF Input!Sent, Input!TypeOK, Input!Box
        <4>3. \A k \in loads' : k.box # "base"
          BY <2>2, <2>3, <3>1, <3>3 DEF InputInv
        <4>4. QED  BY <2>1, <2>2, <3>1, <4>2, <4>3 DEF InputInv
      <3>4. QED  BY <3>2, <3>3
    <2>4. CASE l.entry # entries /\ plain
      <3>1. ~l.zip /\ testrigZip' = testrigZip
        BY <2>2, <2>4 DEF InputInv
      <3>2. ASSUME \A k \in loads : k.entry # entries
            PROVE  Input!Sent' = entries
        BY <1>0, <2>2, <2>4, <3>1, <3>2 DEF InputInv, Input!Sent, Input!TypeOK, Input!Box
      <3>3. (\A k \in loads' : k.entry # entries) => \A k \in loads : k.entry # entries
        BY <2>2, <2>4
      <3>4. QED  BY <2>1, <2>2, <3>1, <3>2, <3>3 DEF InputInv
    <2>5. CASE ~plain
      BY <2>1, <2>2, <2>5 DEF InputInv
    <2>6. QED  BY <2>3, <2>4, <2>5
  <1>5. ASSUME NEW l \in loads, Input!Spoiled(l) \/ Input!FetchFails(l) PROVE InputInv'
    <2>1. Input!TypeOK'
      BY <1>0, <1>5
         DEF Input!Spoiled, Input!FetchFails, Input!Show, Input!TypeOK, Input!Nothing
    <2>2. loads' = loads \ {l} /\ entries' = entries
      BY <1>5 DEF Input!Spoiled, Input!FetchFails
    <2>3. CASE plain'
      <3>1. /\ plain /\ l.entry # entries
            /\ testrigZip' = testrigZip /\ text' = [text EXCEPT ![l.box] = Empty]
        BY <1>5, <2>3 DEF Input!Spoiled, Input!FetchFails, Input!Show
      <3>2. ASSUME \A k \in loads : k.entry # entries
            PROVE  Input!Sent' = entries
        BY <1>0, <2>2, <3>1, <3>2 DEF InputInv, Input!Sent, Input!TypeOK, Input!Box
      <3>3. (\A k \in loads' : k.entry # entries) => \A k \in loads : k.entry # entries
        BY <2>2, <3>1
      <3>4. QED  BY <2>1, <2>2, <3>1, <3>2, <3>3 DEF InputInv
    <2>4. CASE ~plain'
      BY <2>1, <2>2, <2>4 DEF InputInv
    <2>5. QED  BY <2>3, <2>4
  <1>6. ASSUME NEW b \in Input!Box, Input!Overwrite(b) PROVE InputInv'
    <2>1. /\ entries' = entries + 1 /\ entries + 1 \in Input!Entry
          /\ entries + 1 \in 0 .. MaxInputs
          /\ loads' = loads /\ testrigZip' = testrigZip
      BY <1>0, <1>6, InputAssumption DEF Input!Overwrite, Input!TypeOK, Input!Entry
    <2>2. Input!TypeOK'
      BY <1>0, <1>6, <2>1 DEF Input!Overwrite, Input!Show, Input!TypeOK
    <2>3. plain' => /\ b = "base" /\ testrigZip = Empty
                    /\ \A l \in loads : ~l.zip /\ l.box # "base"
      BY <1>6 DEF Input!Overwrite, Input!Overtakes
    <2>4. plain' => Input!Sent' = entries'
      BY <1>0, <1>6, <2>1, <2>3 DEF Input!Overwrite, Input!Show, Input!Sent, Input!TypeOK
    <2>5. \A l \in loads : l.entry <= entries' /\ l.entry # entries'
      BY <1>0, <2>1 DEF InputInv
    <2>6. QED  BY <2>1, <2>2, <2>3, <2>4, <2>5 DEF InputInv
  <1>7. CASE UNCHANGED inputVars
    BY <1>7 DEF inputVars, InputInv, Input!TypeOK, Input!Sent
  <1>8. QED
    BY <1>2, <1>3, <1>4, <1>5, <1>6, <1>7
       DEF Input!Next, Input!Box, Input!Edit, Input!ShowOldTestrig

\* What was entered last is what the upload buttons send as soon as it is there, whatever
\* samples and files that were asked for before arrive later or fail, unless one of them
\* was an earlier zip file, or both are texts of the base box; the text that selecting an
\* old testrig shows (showOldTestrig) counts as entered.  Not sent at all are texts of the
\* delta configuration, and of the base box while a zip file is there.
THEOREM LastEntryIsSent == MCSpec => []SendsLastEntry
  <1>1. MCInit => InputInv
    BY InputInitHolds DEF MCInit
  <1>2. InputInv /\ [MCNext]_allVars => InputInv'
    BY InputNextHolds DEF MCNext, allVars
  <1>3. InputInv => SendsLastEntry
    BY DEF InputInv, SendsLastEntry, Input!SendsLastEntry
  <1>4. QED  BY <1>1, <1>2, <1>3, PTL DEF MCSpec

\* The page whose parts are side by side has the client's steps and no others, so all
\* of the above holds of it.
THEOREM PageHasClient == MCSpec => Spec
  <1>1. MCInit => Init
    BY DEF MCInit
  <1>2. [MCNext]_allVars => [Next]_vars
    BY DEF MCNext, allVars
  <1>3. QED  BY <1>1, <1>2, PTL DEF MCSpec, Spec
-----------------------------------------------------------------------------
(* Topology.  Its recursive functions are reasoned about by induction over *)
(* the natural numbers, which are well founded.                            *)

\* Induction, for a set: there is no smallest number outside of it.
LEMMA SetInduction ==
  ASSUME NEW S, 0 \in S, \A n \in Nat : n \in S => n + 1 \in S
  PROVE  Nat \subseteq S
  <1> DEFINE T == Nat \ S
             R == OpToRel(<, Nat)
  <1> SUFFICES ASSUME T # {} PROVE FALSE
    OBVIOUS
  <1>1. IsWellFoundedOn(R, Nat)
    BY NatLessThanWellFounded
  <1>2. T \subseteq Nat
    OBVIOUS
  <1> HIDE DEF T, R
  <1>3. PICK x \in T : \A y \in T : <<y, x>> \notin R
    BY <1>1, <1>2, WFMin
  <1> USE DEF T, R
  <1>4. x \in Nat /\ x # 0 /\ x - 1 \in Nat
    OBVIOUS
  <1>5. x - 1 \in T
    <2>1. x - 1 \in S => (x - 1) + 1 \in S
      BY <1>4
    <2>2. QED  BY <1>4, <2>1
  <1>6. <<x - 1, x>> \in R
    BY <1>4 DEF OpToRel
  <1>7. QED  BY <1>3, <1>5, <1>6

\* f is what the definition f[k] = F(f[k - 1], k), with f[0] = base, stands for.
Iterates(f, n, base, F) ==
  f = [k \in 0 .. n |-> IF k = 0 THEN base ELSE F[<<f[k - 1], k>>]]

\* There is a function with such a definition.
LEMMA Recursion ==
  ASSUME NEW n \in Nat, NEW X, NEW base \in X, NEW F \in [X \X (1 .. n) -> X]
  PROVE  \E f \in [0 .. n -> X] : Iterates(f, n, base, F)
  <1> DEFINE Good(m, f) == \A k \in 0 .. m : f[k] = IF k = 0 THEN base ELSE F[<<f[k - 1], k>>]
             S == {m \in Nat : m <= n => \E f \in [0 .. m -> X] : Good(m, f)}
  <1>1. 0 \in S
    <2>1. [k \in 0 .. 0 |-> base] \in [0 .. 0 -> X]
      OBVIOUS
    <2>2. Good(0, [k \in 0 .. 0 |-> base])
      OBVIOUS
    <2>3. QED  BY <2>1, <2>2
  <1>2. ASSUME NEW m \in Nat, m \in S PROVE m + 1 \in S
    <2> SUFFICES ASSUME m + 1 <= n
                 PROVE  \E f \in [0 .. m + 1 -> X] : Good(m + 1, f)
      OBVIOUS
    <2>1. PICK f \in [0 .. m -> X] : Good(m, f)
      BY <1>2
    <2> DEFINE g == [k \in 0 .. m + 1 |-> IF k <= m THEN f[k] ELSE F[<<f[m], k>>]]
    <2>2. F[<<f[m], m + 1>>] \in X
      BY <2>1
    <2>3. g \in [0 .. m + 1 -> X]
      BY <2>1, <2>2
    <2>4. \A k \in 0 .. m : g[k] = f[k]
      OBVIOUS
    <2>5. g[m + 1] = F[<<f[m], m + 1>>]
      OBVIOUS
    <2>6. Good(m + 1, g)
      <3> SUFFICES ASSUME NEW k \in 0 .. m + 1
                   PROVE  g[k] = IF k = 0 THEN base ELSE F[<<g[k - 1], k>>]
        OBVIOUS
      <3>1. CASE k = 0
        <4>1. 0 \in 0 .. m
          OBVIOUS
        <4>2. f[0] = base
          BY <2>1, <4>1
        <4>3. QED  BY <2>4, <3>1, <4>1, <4>2
      <3>2. CASE k \in 1 .. m
        BY <2>1, <2>4, <3>2
      <3>3. CASE k = m + 1
        BY <2>4, <2>5, <3>3
      <3>4. QED  BY <3>1, <3>2, <3>3
    <2>7. QED  BY <2>3, <2>6
  <1>3. n \in S
    <2> HIDE DEF S
    <2>1. QED  BY <1>1, <1>2, SetInduction
  <1>4. PICK f \in [0 .. n -> X] : Good(n, f)
    BY <1>3
  <1>5. f = [k \in 0 .. n |-> IF k = 0 THEN base ELSE F[<<f[k - 1], k>>]]
    BY <1>4
  <1>6. QED  BY <1>5 DEF Iterates

Ids == {Topo!LinkId(l) : l \in Link}
NodeIds == {<<n>> : n \in Topo!Node}
Colors == ViewColor \cup {"default", "maybe"}

\* A link is a pair of interfaces, and its nodes can be drawn.
LEMMA LinkParts ==
  ASSUME NEW l \in Link
  PROVE  /\ l = <<l[1], l[2]>>
         /\ l[1] = <<l[1][1], l[1][2]>> /\ l[2] = <<l[2][1], l[2][2]>>
         /\ l[1][1] \in Nat /\ l[1][2] \in Nat /\ l[2][1] \in Nat /\ l[2][2] \in Nat
         /\ Topo!LinkId(l) \in Ids
         /\ Topo!Ends(l) \subseteq NodeIds
  <1>1. l \in (Nat \X Nat) \X (Nat \X Nat)
    BY TopologyAssumption
  <1>2. l[1][1] \in Topo!Node /\ l[2][1] \in Topo!Node
    BY DEF Topo!Node
  <1>3. <<Topo!Source(l)>> \in NodeIds /\ <<Topo!Target(l)>> \in NodeIds
    BY <1>2 DEF Topo!Source, Topo!Target, NodeIds
  <1>4. QED  BY <1>1, <1>3 DEF Ids, Topo!Ends

\* No link has the id of a node.
LEMMA IdsAreNoNodes == Ids \cap NodeIds = {}
  <1> SUFFICES ASSUME NEW l \in Link, NEW n \in Topo!Node PROVE Topo!LinkId(l) # <<n>>
    BY DEF Ids, NodeIds
  <1>1. PICK i, j : Topo!LinkId(l) = <<i, j>>
    BY LinkParts DEF Topo!LinkId, Topo!Reversed
  <1>2. <<i, j>> # <<n>>
    OBVIOUS
  <1>3. QED  BY <1>1, <1>2

\* AddArrow, which looks for the first node, puts the arrow where the path leaves the link.
LEMMA ArrowAtExit ==
  ASSUME NEW l \in Link
  PROVE  /\ Topo!Arrow(l) = Topo!Exit(l)
         /\ Topo!Exit(l) \in {Topo!LinkId(l)} \X {"source", "target"}
  <1>1. l[1][1] \in Nat /\ l[2][1] \in Nat
    BY LinkParts
  <1>2. CASE Topo!Before(l[2], l[1])
    <2>1. Topo!LinkId(l)[1] = l[2] /\ l[2][1] <= l[1][1]
      BY <1>1, <1>2 DEF Topo!LinkId, Topo!Reversed, Topo!Before
    <2>2. Topo!Target(l) = l[1][1]
      BY <1>1, <2>1 DEF Topo!Target
    <2>3. QED  BY <2>1, <2>2 DEF Topo!Arrow, Topo!Exit
  <1>3. CASE ~Topo!Before(l[2], l[1])
    <2>1. Topo!LinkId(l)[1] = l[1] /\ l[1][1] <= l[2][1]
      BY <1>1, <1>3 DEF Topo!LinkId, Topo!Before
    <2>2. Topo!Target(l) = l[2][1]
      BY <1>1, <2>1 DEF Topo!Target
    <2>3. QED  BY <2>1, <2>2 DEF Topo!Arrow, Topo!Exit
  <1>4. QED  BY <1>2, <1>3

LEMMA AllIn ==
  ASSUME NEW links \in Topo!SeqOf(Link, MaxLinks)
  PROVE  /\ Len(links) \in Nat /\ DOMAIN links = 1 .. Len(links)
         /\ \A k \in 1 .. Len(links) : links[k] \in Link
  <1>1. PICK n \in 0 .. MaxLinks : links \in [1 .. n -> Link]
    BY DEF Topo!SeqOf
  <1>2. n \in Nat
    BY TopologyAssumption
  <1>3. QED  BY <1>1, <1>2

\* ParseTopology takes nothing away, and draws nodes and links.
LEMMA ParsedType ==
  ASSUME Topo!TypeOK, NEW links \in Topo!SeqOf(Link, MaxLinks), Topo!ParseTopology(links)
  PROVE  /\ nodes' \subseteq NodeIds
         /\ edges' \subseteq Ids /\ edges \subseteq edges'
         /\ UNCHANGED <<color, arrows, shown, drawnThen>>
  <1>0. PICK E : E = edges
    OBVIOUS
  <1> DEFINE n == Len(links)
             X == {S \in SUBSET Ids : E \subseteq S}
             F == [p \in X \X (1 .. n) |-> Topo!AddLink(p[1], links[p[2]])]
  <1>1. n \in Nat /\ DOMAIN links = 1 .. n /\ \A k \in 1 .. n : links[k] \in Link
    BY AllIn
  <1>2. E \in X
    BY <1>0 DEF Topo!TypeOK, Ids
  <1>3. F \in [X \X (1 .. n) -> X]
    <2> SUFFICES ASSUME NEW S \in X, NEW k \in 1 .. n PROVE Topo!AddLink(S, links[k]) \in X
      OBVIOUS
    <2>1. Topo!LinkId(links[k]) \in Ids
      BY <1>1, LinkParts
    <2>2. QED  BY <2>1 DEF Topo!AddLink
  <1>4. PICK f \in [0 .. n -> X] : Iterates(f, n, E, F)
    <2> HIDE DEF n, X, F
    <2>1. QED  BY <1>1, <1>2, <1>3, Recursion
  <1> DEFINE Drawn(g) == g = [k \in 0 .. n |->
                           IF k = 0 THEN E ELSE Topo!AddLink(g[k - 1], links[k])]
             d == CHOOSE g : Drawn(g)
  <1>5. Drawn(f)
    <2>1. ASSUME NEW k \in 1 .. n
          PROVE  F[<<f[k - 1], k>>] = Topo!AddLink(f[k - 1], links[k])
      <3>1. f[k - 1] \in X
        BY <1>1
      <3>2. QED  BY <3>1
    <2>2. [k \in 0 .. n |-> IF k = 0 THEN E ELSE F[<<f[k - 1], k>>]]
            = [k \in 0 .. n |-> IF k = 0 THEN E ELSE Topo!AddLink(f[k - 1], links[k])]
      <3> HIDE DEF F
      <3>1. QED  BY <1>1, <2>1
    <2>3. QED  BY <1>4, <2>2 DEF Iterates
  <1>6. Drawn(d)
    BY <1>5
  <1>7. /\ edges' = d[n]
        /\ nodes' = nodes \cup UNION {Topo!Ends(links[k]) : k \in DOMAIN links}
        /\ UNCHANGED <<color, arrows, shown, drawnThen>>
    BY <1>0 DEF Topo!ParseTopology
  <1>8. nodes' \subseteq NodeIds
    <2>1. \A k \in DOMAIN links : Topo!Ends(links[k]) \subseteq NodeIds
      BY <1>1, LinkParts
    <2>2. QED  BY <1>7, <2>1 DEF Topo!TypeOK, NodeIds
  <1>9. \A k \in 0 .. n : d[k] \in X
    <2> DEFINE S == {k \in Nat : k <= n => d[k] \in X}
    <2>1. 0 \in S
      <3>1. 0 \in 0 .. n
        BY <1>1
      <3>2. d[0] = E
        <4> HIDE DEF d, n
        <4>1. QED  BY <1>6, <3>1
      <3>3. QED  BY <1>2, <3>2
    <2>2. ASSUME NEW k \in Nat, k \in S PROVE k + 1 \in S
      <3> SUFFICES ASSUME k + 1 <= n PROVE d[k + 1] \in X
        OBVIOUS
      <3>1. d[k] \in X /\ k + 1 \in 1 .. n
        BY <1>1, <2>2
      <3>2. d[k + 1] = Topo!AddLink(d[k], links[k + 1])
        <4> HIDE DEF d
        <4>1. QED  BY <1>1, <1>6, <3>1
      <3>3. F[<<d[k], k + 1>>] = d[k + 1]
        <4> HIDE DEF d, X
        <4>1. QED  BY <3>1, <3>2
      <3>4. QED
        <4> HIDE DEF d, X, F
        <4>1. QED  BY <1>3, <3>1, <3>3
    <2>3. Nat \subseteq S
      <3> HIDE DEF S
      <3>1. QED  BY <2>1, <2>2, SetInduction
    <2>4. QED  BY <1>1, <2>3
  <1>10. QED  BY <1>0, <1>1, <1>7, <1>8, <1>9
\* A mark as HighlightElement gets it.
Mark == [on : SUBSET Topo!Element, color : ViewColor]

\* The colours that the first n marks give to an element.
Given(marks, n, e) == {marks[k].color : k \in {j \in 1 .. n : e \in marks[j].on}}

\* What marks give that are one after the other.
LEMMA GivenByBoth ==
  ASSUME NEW s \in Seq(Mark), NEW t \in Seq(Mark), NEW e
  PROVE  /\ s \o t \in Seq(Mark)
         /\ Given(s \o t, Len(s \o t), e) = Given(s, Len(s), e) \cup Given(t, Len(t), e)
  <1>0. /\ s \o t \in Seq(Mark) /\ Len(s \o t) = Len(s) + Len(t)
        /\ \A i \in 1 .. Len(s) + Len(t) : (s \o t)[i] =
              IF i <= Len(s) THEN s[i] ELSE t[i - Len(s)]
        /\ Len(s) \in Nat /\ Len(t) \in Nat
    BY ConcatProperties
  <1> DEFINE u == s \o t
             p == Len(s)
             q == Len(t)
  <1>1. /\ p \in Nat /\ q \in Nat /\ Len(u) = p + q
        /\ \A i \in 1 .. p + q : u[i] = IF i <= p THEN s[i] ELSE t[i - p]
    BY <1>0
  <1> HIDE DEF u, p, q
  <1>2. \A i \in 1 .. p : i \in 1 .. Len(u) /\ u[i] = s[i]
    BY <1>1
  <1>3. \A i \in 1 .. q : p + i \in 1 .. Len(u) /\ u[p + i] = t[i]
    <2> SUFFICES ASSUME NEW i \in 1 .. q
                 PROVE  p + i \in 1 .. Len(u) /\ u[p + i] = t[i]
      OBVIOUS
    <2>1. p + i \in 1 .. p + q /\ ~(p + i <= p) /\ (p + i) - p = i
      BY <1>1
    <2>2. QED  BY <1>1, <2>1
  <1>4. \A i \in 1 .. Len(u) : \/ i \in 1 .. p /\ u[i] = s[i]
                               \/ i - p \in 1 .. q /\ u[i] = t[i - p]
    BY <1>1
  <1>5. ASSUME NEW c \in Given(u, Len(u), e)
        PROVE  c \in Given(s, p, e) \cup Given(t, q, e)
    <2>1. PICK i \in 1 .. Len(u) : e \in u[i].on /\ c = u[i].color
      BY <1>5 DEF Given
    <2>2. QED  BY <1>4, <2>1 DEF Given
  <1>6. ASSUME NEW c \in Given(s, p, e) PROVE c \in Given(u, Len(u), e)
    <2>1. PICK i \in 1 .. p : e \in s[i].on /\ c = s[i].color
      BY <1>6 DEF Given
    <2>2. QED  BY <1>2, <2>1 DEF Given
  <1>7. ASSUME NEW c \in Given(t, q, e) PROVE c \in Given(u, Len(u), e)
    <2>1. PICK i \in 1 .. q : e \in t[i].on /\ c = t[i].color
      BY <1>7 DEF Given
    <2>2. QED  BY <1>3, <2>1 DEF Given
  <1>8. Given(u, Len(u), e) = Given(s, p, e) \cup Given(t, q, e)
    BY <1>5, <1>6, <1>7
  <1>9. QED  BY <1>0, <1>8 DEF u, p, q

LEMMA ItemsAre ==
  ASSUME NEW S, NEW items \in Topo!Items(S)
  PROVE  /\ Len(items) \in Nat /\ DOMAIN items = 1 .. Len(items)
         /\ \A k \in 1 .. Len(items) : items[k].of \in S /\ items[k].color \in ViewColor
  <1>1. PICK n \in 0 .. MaxItems : items \in [1 .. n -> [of : S, color : ViewColor]]
    BY DEF Topo!Items, Topo!SeqOf
  <1>2. n \in Nat
    BY TopologyAssumption
  <1>3. QED  BY <1>1, <1>2

LEMMA ElementIs == Topo!Element = NodeIds \cup Ids
  BY DEF Topo!Element, NodeIds, Ids

\* What the items of a view give, as nodes, or as links.
LEMMA NodesGive ==
  ASSUME NEW items \in Topo!Items(NodeIds), NEW e
  PROVE  LET m == Topo!NodeMarks(items)
         IN  /\ m \in Seq(Mark)
             /\ Given(m, Len(m), e) =
                  {items[k].color : k \in {j \in DOMAIN items : items[j].of = e}}
  <1> DEFINE m == Topo!NodeMarks(items)
  <1>1. /\ Len(items) \in Nat /\ DOMAIN items = 1 .. Len(items)
        /\ \A k \in 1 .. Len(items) : items[k].of \in NodeIds /\ items[k].color \in ViewColor
    BY ItemsAre
  <1>2. m = [k \in 1 .. Len(items) |-> [on |-> {items[k].of}, color |-> items[k].color]]
    BY <1>1 DEF Topo!NodeMarks
  <1> HIDE DEF m
  <1>3. \A k \in 1 .. Len(items) : m[k] \in Mark
    BY <1>1, <1>2, ElementIs DEF Mark
  <1>4. m \in Seq(Mark) /\ Len(m) = Len(items)
    BY <1>1, <1>2, <1>3
  <1>5. \A k \in 1 .. Len(items) : m[k].on = {items[k].of} /\ m[k].color = items[k].color
    BY <1>2
  <1>6. Given(m, Len(m), e) = {items[k].color : k \in {j \in DOMAIN items : items[j].of = e}}
    BY <1>1, <1>4, <1>5 DEF Given
  <1>7. QED  BY <1>4, <1>6 DEF m

LEMMA LinksGive ==
  ASSUME NEW items \in Topo!Items(Link), NEW e
  PROVE  LET m == Topo!LinkMarks(items)
         IN  /\ m \in Seq(Mark)
             /\ Given(m, Len(m), e) =
                  {items[k].color : k \in {j \in DOMAIN items :
                     e \in {Topo!LinkId(items[j].of)} \cup Topo!Ends(items[j].of)}}
  <1> DEFINE m == Topo!LinkMarks(items)
             On(l) == {Topo!LinkId(l)} \cup Topo!Ends(l)
  <1>1. /\ Len(items) \in Nat /\ DOMAIN items = 1 .. Len(items)
        /\ \A k \in 1 .. Len(items) : items[k].of \in Link /\ items[k].color \in ViewColor
    BY ItemsAre
  <1>2. m = [k \in 1 .. Len(items) |-> [on |-> On(items[k].of), color |-> items[k].color]]
    BY <1>1 DEF Topo!LinkMarks
  <1>3. \A l \in Link : On(l) \subseteq Topo!Element
    BY LinkParts, ElementIs
  <1> HIDE DEF m, On
  <1>4. \A k \in 1 .. Len(items) : m[k] \in Mark
    BY <1>1, <1>2, <1>3 DEF Mark
  <1>5. m \in Seq(Mark) /\ Len(m) = Len(items)
    BY <1>1, <1>2, <1>4
  <1>6. \A k \in 1 .. Len(items) : m[k].on = On(items[k].of) /\ m[k].color = items[k].color
    BY <1>2
  <1>7. Given(m, Len(m), e) = {items[k].color : k \in {j \in DOMAIN items : e \in On(items[j].of)}}
    BY <1>1, <1>5, <1>6 DEF Given
  <1>8. QED  BY <1>5, <1>7 DEF m, On

\* The marks of a view give an element the colours that the view gives it.
LEMMA ViewGives ==
  ASSUME NEW v \in Topo!View
  PROVE  LET m == Topo!Marks(v)
         IN  /\ m \in Seq(Mark)
             /\ \A e : Given(m, Len(m), e) = Topo!ColorsOf(e, v)
  <1> DEFINE a == Topo!NodeMarks(v.nodes)
             b == Topo!LinkMarks(v.links)
             c == Topo!LinkMarks(v.path)
  <1>0. /\ v.nodes \in Topo!Items(NodeIds)
        /\ v.links \in Topo!Items(Link) /\ v.path \in Topo!Items(Link)
    BY DEF Topo!View, NodeIds
  <1>1. Topo!Marks(v) = (a \o b) \o c
    BY DEF Topo!Marks
  <1>2. a \in Seq(Mark) /\ b \in Seq(Mark) /\ c \in Seq(Mark)
    BY <1>0, NodesGive, LinksGive
  <1>3. a \o b \in Seq(Mark) /\ (a \o b) \o c \in Seq(Mark)
    <2> HIDE DEF a, b, c
    <2>1. QED  BY <1>2, GivenByBoth
  <1>4. ASSUME NEW e PROVE Given((a \o b) \o c, Len((a \o b) \o c), e) = Topo!ColorsOf(e, v)
    <2>1. Given((a \o b) \o c, Len((a \o b) \o c), e)
            = (Given(a, Len(a), e) \cup Given(b, Len(b), e)) \cup Given(c, Len(c), e)
      <3> DEFINE ab == a \o b
      <3> HIDE DEF a, b, c
      <3>0. ab \in Seq(Mark)
        BY <1>3
      <3>1. Given(ab \o c, Len(ab \o c), e) = Given(ab, Len(ab), e) \cup Given(c, Len(c), e)
        <4> HIDE DEF ab
        <4>1. QED  BY <1>2, <3>0, GivenByBoth
      <3>2. Given(a \o b, Len(a \o b), e) = Given(a, Len(a), e) \cup Given(b, Len(b), e)
        BY <1>2, GivenByBoth
      <3>3. QED  BY <3>1, <3>2
    <2>2. Given(a, Len(a), e)
            = {v.nodes[k].color : k \in {j \in DOMAIN v.nodes : v.nodes[j].of = e}}
      BY <1>0, NodesGive
    <2> DEFINE Through(items) == {items[k].color : k \in {j \in DOMAIN items :
                 e \in {Topo!LinkId(items[j].of)} \cup Topo!Ends(items[j].of)}}
    <2>3. Given(b, Len(b), e) = Through(v.links) /\ Given(c, Len(c), e) = Through(v.path)
      BY <1>0, LinksGive
    <2>4. Topo!ColorsOf(e, v)
            = {v.nodes[k].color : k \in {j \in DOMAIN v.nodes : v.nodes[j].of = e}}
                \cup UNION {Through(items) : items \in {v.links, v.path}}
      BY DEF Topo!ColorsOf
    <2>5. UNION {Through(items) : items \in {v.links, v.path}}
            = Through(v.links) \cup Through(v.path)
      <3> HIDE DEF Through
      <3>1. QED  OBVIOUS
    <2> HIDE DEF a, b, c, Through
    <2>6. QED  BY <2>1, <2>2, <2>3, <2>4, <2>5
  <1> HIDE DEF a, b, c
  <1>5. QED  BY <1>1, <1>3, <1>4
\* One more colour mixes as HighlightElement mixes it.
LEMMA OneMore ==
  ASSUME NEW C \in SUBSET ViewColor, NEW c \in ViewColor
  PROVE  Topo!Mixed(C \cup {c}) =
           IF Topo!Mixed(C) = "default" THEN c
           ELSE IF Topo!Mixed(C) # c THEN "maybe" ELSE Topo!Mixed(C)
  <1>0. c # "default" /\ "default" \notin C
    BY TopologyAssumption
  <1>1. ASSUME NEW d PROVE Topo!Mixed({d}) = d
    BY DEF Topo!Mixed
  <1>2. CASE C = {}
    <2>1. C \cup {c} = {c} /\ Topo!Mixed(C) = "default"
      BY <1>2 DEF Topo!Mixed
    <2>2. QED  BY <1>1, <2>1
  <1>3. ASSUME NEW d, C = {d} PROVE
           Topo!Mixed(C \cup {c}) =
             IF Topo!Mixed(C) = "default" THEN c
             ELSE IF Topo!Mixed(C) # c THEN "maybe" ELSE Topo!Mixed(C)
    <2>1. Topo!Mixed(C) = d /\ d # "default"
      BY <1>0, <1>1, <1>3
    <2>2. CASE d = c
      <3>1. C \cup {c} = C
        BY <1>3, <2>2
      <3>2. QED  BY <2>1, <2>2, <3>1
    <2>3. CASE d # c
      <3>1. C \cup {c} # {} /\ ~\E x \in C \cup {c} : C \cup {c} = {x}
        BY <1>3, <2>3
      <3>2. Topo!Mixed(C \cup {c}) = "maybe"
        BY <3>1 DEF Topo!Mixed
      <3>3. QED  BY <2>1, <2>3, <3>2
    <2>4. QED  BY <2>2, <2>3
  <1>4. CASE C # {} /\ \A d : C # {d}
    <2>1. Topo!Mixed(C) = "maybe"
      BY <1>4 DEF Topo!Mixed
    <2>2. C \cup {c} # {} /\ ~\E x \in C \cup {c} : C \cup {c} = {x}
      BY <1>4
    <2>3. Topo!Mixed(C \cup {c}) = "maybe"
      BY <2>2 DEF Topo!Mixed
    <2>4. QED  BY <2>1, <2>3
  <1>5. QED  BY <1>2, <1>3, <1>4

\* What one more mark gives.
LEMMA OneMark ==
  ASSUME NEW marks \in Seq(Mark), NEW k \in Nat, k + 1 <= Len(marks), NEW e
  PROVE  /\ Given(marks, k, e) \subseteq ViewColor
         /\ e \notin marks[k + 1].on => Given(marks, k + 1, e) = Given(marks, k, e)
         /\ e \in marks[k + 1].on =>
              Given(marks, k + 1, e) = Given(marks, k, e) \cup {marks[k + 1].color}
  <1>1. 1 .. k + 1 = (1 .. k) \cup {k + 1}
    OBVIOUS
  <1>2. \A j \in 1 .. k : marks[j] \in Mark
    OBVIOUS
  <1>3. QED  BY <1>1, <1>2 DEF Given, Mark

\* All is as given after any part of the marks, so it is after all of them.
LEMMA Highlighted ==
  ASSUME Topo!TypeOK, NEW v \in Topo!View
  PROVE  LET h == Topo!HighlightView([e \in Topo!Element |-> "default"], v)
         IN  /\ h \in [Topo!Element -> Colors]
             /\ \A e \in nodes \cup edges : h[e] = Topo!Mixed(Topo!ColorsOf(e, v))
  <1>0. PICK D : D = nodes \cup edges
    OBVIOUS
  <1>1. PICK m : m = Topo!Marks(v)
    OBVIOUS
  <1> DEFINE n == Len(m)
             X == [Topo!Element -> Colors]
             clear == [e \in Topo!Element |-> "default"]
             Colored(colors, mark) ==
               [e \in Topo!Element |->
                  IF e \notin mark.on \/ e \notin D THEN colors[e]
                  ELSE IF colors[e] = "default" THEN mark.color
                  ELSE IF colors[e] # mark.color THEN "maybe" ELSE colors[e]]
             F == [p \in X \X (1 .. n) |-> Colored(p[1], m[p[2]])]
  <1>2. /\ m \in Seq(Mark) /\ n \in Nat
        /\ \A e : Given(m, n, e) = Topo!ColorsOf(e, v)
        /\ \A k \in 1 .. n : m[k] \in Mark
    <2>1. m \in Seq(Mark) /\ \A e : Given(m, Len(m), e) = Topo!ColorsOf(e, v)
      BY <1>1, ViewGives
    <2>2. QED  BY <2>1
  <1>3. \A colors, mark : Topo!HighlightElement(colors, mark) = Colored(colors, mark)
    BY <1>0 DEF Topo!HighlightElement
  <1>4. \A colors \in X, mark \in Mark : Colored(colors, mark) \in X
    BY DEF Mark, Colors
  <1>5. clear \in X
    BY DEF Colors
  <1>6. F \in [X \X (1 .. n) -> X]
    <2> HIDE DEF X, Colored, n
    <2>1. QED  BY <1>2, <1>4
  <1>7. PICK f \in [0 .. n -> X] : Iterates(f, n, clear, F)
    <2> HIDE DEF n, X, F, clear
    <2>1. QED  BY <1>2, <1>5, <1>6, Recursion
  <1> DEFINE Steps(g) == g = [k \in 0 .. n |-> IF k = 0 THEN clear ELSE Colored(g[k - 1], m[k])]
             d == CHOOSE g : Steps(g)
  <1>8. Steps(d)
    <2>1. ASSUME NEW k \in 1 .. n PROVE F[<<f[k - 1], k>>] = Colored(f[k - 1], m[k])
      <3> HIDE DEF Colored, X
      <3>1. f[k - 1] \in X
        BY <1>2
      <3>2. QED  BY <3>1
    <2>2. [k \in 0 .. n |-> IF k = 0 THEN clear ELSE F[<<f[k - 1], k>>]]
            = [k \in 0 .. n |-> IF k = 0 THEN clear ELSE Colored(f[k - 1], m[k])]
      <3> HIDE DEF F, Colored, clear
      <3>1. QED  BY <1>2, <2>1
    <2>3. Steps(f)
      <3> HIDE DEF F, Colored, clear, X
      <3>1. QED  BY <1>7, <2>2 DEF Iterates
    <2>4. QED
      <3> HIDE DEF Steps
      <3>1. QED  BY <2>3
  <1>9. Topo!HighlightView(clear, v) = d[n]
    <2>1. Topo!HighlightView(clear, v)
            = (CHOOSE g : g = [k \in 0 .. n |-> IF k = 0 THEN clear
                                 ELSE Topo!HighlightElement(g[k - 1], m[k])])[n]
      BY <1>1 DEF Topo!HighlightView
    <2>2. QED
      <3> HIDE DEF Colored, clear, n
      <3>1. QED  BY <1>3, <2>1
  <1>10. ASSUME NEW k \in 0 .. n - 1 PROVE d[k + 1] = Colored(d[k], m[k + 1])
    <2> HIDE DEF d, Colored, clear, n
    <2>1. k + 1 \in 0 .. n /\ k + 1 # 0 /\ (k + 1) - 1 = k
      BY <1>2
    <2>2. QED  BY <1>8, <2>1
  <1> DEFINE S == {k \in Nat : k <= n => /\ d[k] \in X
                                         /\ \A e \in D : d[k][e] = Topo!Mixed(Given(m, k, e))}
  <1>11. D \subseteq Topo!Element
    BY <1>0, ElementIs DEF Topo!TypeOK, NodeIds, Ids
  <1>12. 0 \in S
    <2>1. 0 \in 0 .. n
      BY <1>2
    <2>2. d[0] = clear
      <3> HIDE DEF d, n, clear, Colored
      <3>1. QED  BY <1>8, <2>1
    <2>3. \A e : Topo!Mixed(Given(m, 0, e)) = "default"
      BY DEF Given, Topo!Mixed
    <2> HIDE DEF d, n
    <2>4. \A e \in D : d[0][e] = "default"
      BY <1>11, <2>2
    <2> HIDE DEF X, clear
    <2>5. QED  BY <1>5, <2>2, <2>3, <2>4
  <1>13. ASSUME NEW k \in Nat, k \in S PROVE k + 1 \in S
    <2> HIDE DEF d, n, X, Colored
    <2> SUFFICES ASSUME k + 1 <= n
                 PROVE  /\ d[k + 1] \in X
                        /\ \A e \in D : d[k + 1][e] = Topo!Mixed(Given(m, k + 1, e))
      OBVIOUS
    <2>1. d[k] \in X /\ \A e \in D : d[k][e] = Topo!Mixed(Given(m, k, e))
      BY <1>2, <1>13
    <2>2. k \in 0 .. n - 1 /\ k + 1 \in 1 .. n
      BY <1>2
    <2>3. m[k + 1] \in Mark
      BY <1>2, <2>2
    <2>4. d[k + 1] = Colored(d[k], m[k + 1])
      BY <1>10, <2>2
    <2>5. d[k + 1] \in X
      BY <1>4, <2>1, <2>3, <2>4
    <2>6. ASSUME NEW e \in D PROVE d[k + 1][e] = Topo!Mixed(Given(m, k + 1, e))
      <3>1. /\ Given(m, k, e) \subseteq ViewColor
            /\ e \notin m[k + 1].on => Given(m, k + 1, e) = Given(m, k, e)
            /\ e \in m[k + 1].on =>
                 Given(m, k + 1, e) = Given(m, k, e) \cup {m[k + 1].color}
        BY <1>2, OneMark
      <3>2. m[k + 1].color \in ViewColor
        BY <2>3 DEF Mark
      <3>3. d[k][e] = Topo!Mixed(Given(m, k, e))
        BY <2>1
      <3>4. d[k + 1][e] = IF e \notin m[k + 1].on THEN d[k][e]
                          ELSE IF d[k][e] = "default" THEN m[k + 1].color
                          ELSE IF d[k][e] # m[k + 1].color THEN "maybe" ELSE d[k][e]
        BY <1>11, <2>4 DEF Colored
      <3>5. CASE e \notin m[k + 1].on
        BY <3>1, <3>3, <3>4, <3>5
      <3>6. CASE e \in m[k + 1].on
        <4>1. Topo!Mixed(Given(m, k, e) \cup {m[k + 1].color}) =
                IF Topo!Mixed(Given(m, k, e)) = "default" THEN m[k + 1].color
                ELSE IF Topo!Mixed(Given(m, k, e)) # m[k + 1].color THEN "maybe"
                ELSE Topo!Mixed(Given(m, k, e))
          BY <3>1, <3>2, OneMore
        <4>2. QED  BY <3>1, <3>3, <3>4, <3>6, <4>1
      <3>7. QED  BY <3>5, <3>6
    <2>7. QED  BY <2>5, <2>6
  <1>14. n \in S
    <2> HIDE DEF S, n
    <2>1. QED  BY <1>2, <1>12, <1>13, SetInduction
  <1>15. d[n] \in X /\ \A e \in D : d[n][e] = Topo!Mixed(Topo!ColorsOf(e, v))
    <2> HIDE DEF d, X
    <2>1. QED  BY <1>2, <1>14
  <1>16. QED
    <2> HIDE DEF d, n
    <2>1. QED  BY <1>0, <1>9, <1>15
\* A view that is selected is shown as given, whatever was shown before.
LEMMA ViewShown ==
  ASSUME Topo!TypeOK, NEW v \in Topo!View, Topo!SelectView(v)
  PROVE  Topo!TypeOK' /\ ShownAsGiven'
  <1> DEFINE Here == {l \in Topo!PathLinks(v) : Topo!LinkId(l) \in edges}
  <1>1. /\ color' = Topo!HighlightView([e \in Topo!Element |-> "default"], v)
        /\ arrows' = {Topo!Arrow(l) : l \in Here}
        /\ shown' = v /\ drawnThen' = nodes \cup edges
        /\ nodes' = nodes /\ edges' = edges
    BY DEF Topo!SelectView, Topo!Arrows
  <1>2. /\ color' \in [Topo!Element -> Colors]
        /\ \A e \in nodes \cup edges : color'[e] = Topo!Mixed(Topo!ColorsOf(e, v))
    BY <1>1, Highlighted
  <1>3. Topo!PathLinks(v) \subseteq Link
    <2>1. v.path \in Topo!Items(Link)
      BY DEF Topo!View
    <2>2. QED  BY <2>1, ItemsAre DEF Topo!PathLinks
  <1>4. arrows' \subseteq edges \X {"source", "target"}
    BY <1>1, <1>3, ArrowAtExit
  <1>5. nodes \subseteq NodeIds /\ edges \subseteq Ids
    BY DEF Topo!TypeOK, NodeIds, Ids
  <1>6. Topo!TypeOK'
    BY <1>1, <1>2, <1>4, <1>5, ElementIs DEF Topo!TypeOK, Colors
  <1>7. Topo!Colored'
    BY <1>1, <1>2 DEF Topo!Colored
  <1>8. Topo!Directed'
    <2>1. \A l \in Topo!PathLinks(v) : Topo!LinkId(l) \in nodes \cup edges <=> Topo!LinkId(l) \in edges
      BY <1>3, <1>5, LinkParts, IdsAreNoNodes
    <2>2. arrows' = {Topo!Exit(l) : l \in Here}
      BY <1>1, <1>3, ArrowAtExit
    <2>3. Here = {l \in Topo!PathLinks(v) : Topo!LinkId(l) \in nodes \cup edges}
      BY <2>1
    <2> HIDE DEF Here
    <2>4. QED  BY <1>1, <2>2, <2>3 DEF Topo!Directed
  <1>9. QED  BY <1>6, <1>7, <1>8 DEF ShownAsGiven, Topo!ShownAsGiven

\* The types are enough: a view is shown from nothing, and no other step recolours.
TopoInv == Topo!TypeOK /\ ShownAsGiven

LEMMA NoViewIsOne == Topo!NoView \in Topo!View
  <1>1. \A S : <<>> \in Topo!Items(S)
    <2> SUFFICES ASSUME NEW S PROVE <<>> \in Topo!Items(S)
      OBVIOUS
    <2>1. 0 \in 0 .. MaxItems
      BY TopologyAssumption
    <2>2. <<>> \in [1 .. 0 -> [of : S, color : ViewColor]]
      OBVIOUS
    <2>3. QED  BY <2>1, <2>2 DEF Topo!Items, Topo!SeqOf
  <1>2. QED  BY <1>1 DEF Topo!NoView, Topo!View

LEMMA TopoInitHolds == Topo!Init => TopoInv
  <1> SUFFICES ASSUME Topo!Init PROVE TopoInv
    OBVIOUS
  <1>1. Topo!TypeOK
    BY NoViewIsOne DEF Topo!Init, Topo!TypeOK
  <1>2. Topo!PathLinks(Topo!NoView) = {}
    BY DEF Topo!PathLinks, Topo!NoView
  <1>3. ShownAsGiven
    BY <1>2 DEF Topo!Init, ShownAsGiven, Topo!ShownAsGiven, Topo!Colored, Topo!Directed
  <1>4. QED  BY <1>1, <1>3 DEF TopoInv

LEMMA TopoNextHolds ==
  ASSUME TopoInv, [Topo!Next]_topoVars
  PROVE  TopoInv'
  <1>0. Topo!TypeOK
    BY DEF TopoInv
  <1>1. ASSUME NEW links \in Topo!SeqOf(Link, MaxLinks), Topo!ParseTopology(links)
        PROVE  TopoInv'
    <2>1. /\ nodes' \subseteq NodeIds /\ edges' \subseteq Ids /\ edges \subseteq edges'
          /\ UNCHANGED <<color, arrows, shown, drawnThen>>
      BY <1>0, <1>1, ParsedType
    <2>2. Topo!TypeOK'
      BY <1>0, <2>1 DEF Topo!TypeOK, NodeIds, Ids
    <2>3. ShownAsGiven'
      BY <2>1 DEF TopoInv, ShownAsGiven, Topo!ShownAsGiven, Topo!Colored, Topo!Directed
    <2>4. QED  BY <2>2, <2>3 DEF TopoInv
  <1>2. ASSUME NEW v \in Topo!View, Topo!SelectView(v) PROVE TopoInv'
    BY <1>0, <1>2, ViewShown DEF TopoInv
  <1>3. CASE UNCHANGED topoVars
    BY <1>3 DEF topoVars, TopoInv, Topo!TypeOK, ShownAsGiven, Topo!ShownAsGiven,
                Topo!Colored, Topo!Directed
  <1>4. QED
    BY <1>1, <1>2, <1>3, NoViewIsOne DEF Topo!Next, Topo!SetupHighlightsMenu

\* The picture shows the view that was selected and nothing of those before it, each
\* element in the colour that the view gives it and the arrows where its path goes,
\* for any links, any colours and views and topologies of any length.
THEOREM ViewsAreShownAsGiven == MCSpec => []ShownAsGiven
  <1>1. MCInit => TopoInv
    BY TopoInitHolds DEF MCInit
  <1>2. TopoInv /\ [MCNext]_allVars => TopoInv'
    BY TopoNextHolds DEF MCNext, allVars
  <1>3. TopoInv => ShownAsGiven
    BY DEF TopoInv
  <1>4. QED  BY <1>1, <1>2, <1>3, PTL DEF MCSpec

\* The types of all parts of the page.
THEOREM PageTypeCorrect == MCSpec => []TypesOK
  <1>1. MCInit => InputInv /\ TopoInv
    BY InputInitHolds, TopoInitHolds DEF MCInit
  <1>2. InputInv /\ TopoInv /\ [MCNext]_allVars => InputInv' /\ TopoInv'
    BY InputNextHolds, TopoNextHolds DEF MCNext, allVars
  <1>3. TypeOK /\ InputInv /\ TopoInv => TypesOK
    BY DEF InputInv, TopoInv, TypesOK
  <1>4. QED  BY <1>1, <1>2, <1>3, PageHasClient, TypeCorrect, PTL DEF MCSpec
=============================================================================
