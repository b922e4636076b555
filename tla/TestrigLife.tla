---------------------------- MODULE TestrigLife ----------------------------
(***************************************************************************)
(* What the container store of the coordinator promises about a testrig,   *)
(* whatever requests are served at a time: it comes into being before it   *)
(* is filled, is filled once, and is good for work only after that.        *)
(* ContainerStore implements this specification, and WorkClient takes the  *)
(* store for what is specified here.                                       *)
(***************************************************************************)

CONSTANT Testrig        \* the testrigs, each in a container of its own

VARIABLE stage          \* stage[t]: how far testrig t has come

\* "absent": no container; "container": a container and no testrig in it;
\* "partial": a directory, not filled; "uploaded": filled by an upload;
\* "vendor", "independent": parsed so far by works.
Stages == {"absent", "container", "partial", "uploaded", "vendor", "independent"}

\* The stages in which the directory of the testrig exists.
WithDirectory == {"partial", "uploaded", "vendor", "independent"}

Init == stage = [t \in Testrig |-> "absent"]

Becomes(t, next) == stage' = [stage EXCEPT ![t] = next]

Move(t, from, to) ==
  /\ stage[t] = from
  /\ Becomes(t, to)

InitContainer(t) == Move(t, "absent", "container")
Complete(t)      == Move(t, "partial", "uploaded")

\* Making the directory of a testrig makes that of its container too.
Begin(t) == Move(t, "container", "partial") \/ Move(t, "absent", "partial")

\* What a deletion, or an upload that is given up, does: first the files go, and
\* then the directory.
Erode(t) ==
  /\ stage[t] \in WithDirectory
  /\ Becomes(t, "partial")

Discard(t) ==
  /\ stage[t] \in WithDirectory
  /\ Becomes(t, "container")

DelContainer(t) == Move(t, "container", "absent")

\* A work that parses ends normally: the vendor-specific configurations from
\* the files of the upload, the vendor-independent ones from those.
ParseVendor(t) ==
  /\ stage[t] \in {"uploaded", "vendor", "independent"}
  /\ IF stage[t] = "uploaded" THEN Becomes(t, "vendor") ELSE UNCHANGED stage

ParseIndependent(t) ==
  /\ stage[t] \in {"vendor", "independent"}
  /\ Becomes(t, "independent")

Next == \E t \in Testrig :
  \/ InitContainer(t)
  \/ Begin(t)
  \/ Complete(t)
  \/ Erode(t)
  \/ Discard(t)
  \/ DelContainer(t)
  \/ ParseVendor(t)
  \/ ParseIndependent(t)

Spec == Init /\ [][Next]_stage
============================================================================
