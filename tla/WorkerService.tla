--------------------------- MODULE WorkerService ---------------------------
(***************************************************************************)
(* What a batfish worker promises the coordinator: it is claimed for one   *)
(* task at a time, logs each task once, reports a status for it that only  *)
(* moves forward, and is idle again after the task has ended.  Driver is   *)
(* the detailed specification that implements this one.                    *)
(***************************************************************************)

CONSTANTS Worker,       \* the workers
          Work,         \* the works, by the id of the task that runs them
          NoWork,       \* no work
          NoStatus      \* not in the task log

VARIABLES stage,        \* stage[x]: what worker x is doing with its claim
          claim,        \* claim[x]: the work x is claimed for
          taskLog       \* taskLog[x][w]: the status x reports for w

serviceVars == <<stage, claim, taskLog>>

\* "free": idle; "claimed": not idle, the task not logged yet; "running": the
\* task is logged and has not ended; "ended": it has, but the worker is not yet
\* idle; "stuck": the thread that was to make it idle is gone.
Stages == {"free", "claimed", "running", "ended", "stuck"}

Init ==
  /\ stage = [x \in Worker |-> "free"]
  /\ claim = [x \in Worker |-> NoWork]
  /\ taskLog = [x \in Worker |-> [w \in Work |-> NoStatus]]

Stage(x, from, to) ==
  /\ stage[x] = from
  /\ stage' = [stage EXCEPT ![x] = to]

Report(x, w, from, to) ==
  /\ taskLog[x][w] = from
  /\ taskLog' = [taskLog EXCEPT ![x][w] = to]

Claim(x, w) ==
  /\ Stage(x, "free", "claimed")
  /\ claim' = [claim EXCEPT ![x] = w]
  /\ UNCHANGED taskLog

Log(x) ==
  /\ Stage(x, "claimed", "running")
  /\ Report(x, claim[x], NoStatus, "Unscheduled")
  /\ UNCHANGED claim

Refuse(x) ==
  /\ Stage(x, "claimed", "free")
  /\ claim' = [claim EXCEPT ![x] = NoWork]
  /\ UNCHANGED taskLog

Begin(x) ==
  /\ stage[x] = "running"
  /\ Report(x, claim[x], "Unscheduled", "InProgress")
  /\ UNCHANGED <<stage, claim>>

Finish(x, end) ==
  /\ Stage(x, "running", "ended")
  /\ end \in {"TerminatedNormally", "TerminatedAbnormally"}
  /\ Report(x, claim[x], "InProgress", end)
  /\ UNCHANGED claim

BecomeIdle(x) ==
  /\ Stage(x, "ended", "free")
  /\ claim' = [claim EXCEPT ![x] = NoWork]
  /\ UNCHANGED taskLog

\* An Error ends the thread that owns the claim.
GetStuck(x) ==
  /\ Stage(x, "running", "stuck")
  /\ UNCHANGED <<claim, taskLog>>

\* The process dies and is started again: nothing is persistent.
Restart(x) ==
  /\ stage' = [stage EXCEPT ![x] = "free"]
  /\ claim' = [claim EXCEPT ![x] = NoWork]
  /\ taskLog' = [taskLog EXCEPT ![x] = [w \in Work |-> NoStatus]]

Next == \E x \in Worker :
  \/ \E w \in Work : Claim(x, w)
  \/ Log(x)
  \/ Refuse(x)
  \/ Begin(x)
  \/ \E end \in {"TerminatedNormally", "TerminatedAbnormally"} : Finish(x, end)
  \/ BecomeIdle(x)
  \/ GetStuck(x)
  \/ Restart(x)

Spec == Init /\ [][Next]_serviceVars
=============================================================================
