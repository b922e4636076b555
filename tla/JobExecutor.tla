---------------------------- MODULE JobExecutor ----------------------------
(***************************************************************************)
(* BatfishJobExecutor.executeJobs: all jobs are submitted to a pool of     *)
(* threads, and the caller goes round the list of those that are not       *)
(* finished yet, collects what it finds done, and sleeps in between.  The  *)
(* threads of the pool go on while the caller does, and after it when an   *)
(* exception ends it before the pool is shut down.                         *)
(***************************************************************************)
EXTENDS Naturals, FiniteSets

CONSTANTS Job,
          Threads       \* how many jobs run at a time

\* How a job ends: with a result, with one for the host name that others that end so
\* have a result for, with the cause of a failure, or by an exception.
End == {"result", "namesake", "failure", "exception"}

VARIABLES job,          \* "queued", "running" or how it ended
          futures,      \* the jobs that are not collected
          current,      \* those that this round has still to look at
          applied,      \* the jobs whose results are in the output
          processingError,
          caller,       \* "round", "asleep", "returned", "threw"
          pool,         \* "open" or "shut"
          exitOnFirstError      \* a setting

vars == <<job, futures, current, applied, processingError, caller, pool,
          exitOnFirstError>>

\* The ends of a job that end executeJobs at once.
Fatal == IF exitOnFirstError THEN {"failure", "exception"} ELSE {"exception"}

TypeOK ==
  /\ job \in [Job -> {"queued", "running"} \cup End]
  /\ futures \subseteq Job /\ current \subseteq Job /\ applied \subseteq Job
  /\ processingError \in BOOLEAN
  /\ caller \in {"round", "asleep", "returned", "threw"}
  /\ pool \in {"open", "shut"}
  /\ exitOnFirstError \in BOOLEAN

Init ==
  /\ job = [j \in Job |-> "queued"]
  /\ futures = Job /\ current = Job /\ applied = {}
  /\ processingError = FALSE
  /\ caller = "round"
  /\ pool = "open"
  /\ exitOnFirstError \in BOOLEAN
-----------------------------------------------------------------------------
Running == {j \in Job : job[j] = "running"}

StartJob(j) ==
  /\ job[j] = "queued"
  /\ Cardinality(Running) < Threads
  /\ job' = [job EXCEPT ![j] = "running"]
  /\ UNCHANGED <<futures, current, applied, processingError, caller, pool,
                 exitOnFirstError>>

EndJob(j) ==
  /\ job[j] = "running"
  /\ \E end \in End : job' = [job EXCEPT ![j] = end]
  /\ UNCHANGED <<futures, current, applied, processingError, caller, pool,
                 exitOnFirstError>>

Look(j) ==
  /\ caller = "round"
  /\ j \in current
  /\ current' = current \ {j}

NotDone(j) ==
  /\ Look(j)
  /\ job[j] \in {"queued", "running"}
  /\ UNCHANGED <<job, futures, applied, processingError, caller, pool, exitOnFirstError>>

\* The output has a result for the same host name.
Duplicate(j) == job[j] = "namesake" /\ \E i \in applied : job[i] = "namesake"

ApplyResult(j) ==
  /\ Look(j)
  /\ job[j] \in {"result", "namesake"} /\ ~ Duplicate(j)
  /\ futures' = futures \ {j}
  /\ applied' = applied \cup {j}
  /\ UNCHANGED <<job, processingError, caller, pool, exitOnFirstError>>

\* Mutant: a failure is in the log only.
LogFailure(j) ==
  /\ Look(j)
  /\ job[j] \in {"failure"} \ Fatal
  /\ futures' = futures \ {j}
  /\ UNCHANGED <<job, applied, processingError, caller, pool, exitOnFirstError>>

NoteFailure(j) ==
  /\ Look(j)
  /\ job[j] \in {"failure"} \ Fatal
  /\ futures' = futures \ {j}
  /\ processingError' = TRUE
  /\ UNCHANGED <<job, applied, caller, pool, exitOnFirstError>>

\* By what the job ended with, or by applyTo.  The pool is not shut down, and the
\* other jobs go on in it.
ThrowAtOnce(j) ==
  /\ Look(j)
  /\ job[j] \in Fatal \/ Duplicate(j)
  /\ futures' = futures \ {j}
  /\ caller' = "threw"
  /\ UNCHANGED <<job, applied, processingError, pool, exitOnFirstError>>

Sleep ==
  /\ caller = "round"
  /\ current = {} /\ futures # {}
  /\ caller' = "asleep"
  /\ UNCHANGED <<job, futures, current, applied, processingError, pool,
                 exitOnFirstError>>

\* Mutant: the next round looks at what the last one has looked at.
WakeToSameRound ==
  /\ caller = "asleep"
  /\ caller' = "round"
  /\ UNCHANGED <<job, futures, current, applied, processingError, pool,
                 exitOnFirstError>>

WakeUp ==
  /\ caller = "asleep"
  /\ caller' = "round"
  /\ current' = futures
  /\ UNCHANGED <<job, futures, applied, processingError, pool, exitOnFirstError>>

Finish ==
  /\ caller = "round"
  /\ current = {} /\ futures = {}
  /\ pool' = "shut"
  /\ caller' = IF processingError THEN "threw" ELSE "returned"
  /\ UNCHANGED <<job, futures, current, applied, processingError, exitOnFirstError>>

Caller ==
  \/ \E j \in Job : NotDone(j) \/ ApplyResult(j) \/ NoteFailure(j) \/ ThrowAtOnce(j)
  \/ Sleep
  \/ WakeUp
  \/ Finish

Next == Caller \/ \E j \in Job : StartJob(j) \/ EndJob(j)

Spec == Init /\ [][Next]_vars

\* The caller goes on, a thread takes jobs as long as there are any, and they end.
Fairness ==
  /\ WF_vars(Caller)
  /\ \A j \in Job : WF_vars(StartJob(j)) /\ WF_vars(EndJob(j))

FairSpec == Spec /\ Fairness
-----------------------------------------------------------------------------
\* The jobs that have a result for the same host name.
Namesakes == {j \in Job : job[j] = "namesake"}

\* The caller gets an output only when the result of every job is in it, no two of
\* them for the same host name, and is told of everything else by an exception, of
\* nothing else, however the jobs end and in which order.
AllOrException ==
  /\ caller = "returned" => applied = Job /\ Cardinality(Namesakes) <= 1
  /\ caller = "threw" => \/ \E j \in Job : job[j] \in {"failure", "exception"}
                         \/ Cardinality(Namesakes) > 1
  /\ \A j \in applied : job[j] \in {"result", "namesake"}

\* executeJobs ends.
Ends == <>(caller \in {"returned", "threw"})
=============================================================================
