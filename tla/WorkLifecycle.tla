--------------------------- MODULE WorkLifecycle ---------------------------
(***************************************************************************)
(* What the coordinator's queue manager promises about every work, whatever *)
(* threads call it: a work is queued once, is offered to one worker at a   *)
(* time, may be taken back and offered again, and ends once, for good.     *)
(* WorkQueueMgr is the detailed specification that implements this one.    *)
(***************************************************************************)

CONSTANT Work           \* the works, by the UUID of their WorkItem

VARIABLE phase          \* phase[w]: where w is in its life

Phases == {"absent", "waiting", "offered", "assigned",
           "rejected", "succeeded", "failed"}

\* The phases that no work leaves.
EndPhases == {"rejected", "succeeded", "failed"}

Init == phase = [w \in Work |-> "absent"]

Move(w, from, to) ==
  /\ phase[w] = from
  /\ phase' = [phase EXCEPT ![w] = to]

Submit(w)     == Move(w, "absent", "waiting")
Offer(w)      == Move(w, "waiting", "offered")
Refuse(w)     == Move(w, "offered", "waiting")
Reject(w)     == Move(w, "offered", "rejected")
Accept(w)     == Move(w, "offered", "assigned")
Reschedule(w) == Move(w, "assigned", "waiting")
Finish(w)     == \E end \in {"succeeded", "failed"} : Move(w, "assigned", end)

Next == \E w \in Work :
  \/ Submit(w)
  \/ Offer(w)
  \/ Refuse(w)
  \/ Reject(w)
  \/ Accept(w)
  \/ Reschedule(w)
  \/ Finish(w)

Spec == Init /\ [][Next]_phase
============================================================================
