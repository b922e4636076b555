--------------------------- MODULE FileAuthorizer ---------------------------
(***************************************************************************)
(* The authorizer that keeps the permissions in a file: authorizeContainer *)
(* reads the whole file, adds a pair and writes the whole file, which      *)
(* first empties it.  Authorizing is synchronized; asking whether a        *)
(* container is accessible is not, and takes a file that it finds in the   *)
(* middle of being written for one that it does not understand.            *)
(***************************************************************************)
EXTENDS Naturals

CONSTANT Request        \* the requests, each with a thread and a pair of its own

VARIABLES permsFile,    \* the pairs that the file holds
          torn,         \* it has been emptied, to be written
          request,      \* how far each request is
          copy,         \* the pairs that each request has read
          lock          \* the requests in authorizeContainer

vars == <<permsFile, torn, request, copy, lock>>

Init ==
  /\ permsFile = {} /\ torn = FALSE
  /\ request = [r \in Request |-> "idle"]
  /\ copy = [r \in Request |-> {}]
  /\ lock = {}

Step(r, from, to) ==
  /\ request[r] = from
  /\ request' = [request EXCEPT ![r] = to]

\* Mutant: authorizeContainer without synchronized.
EnterAnyway(r) ==
  /\ Step(r, "idle", "read")
  /\ lock' = lock \cup {r}
  /\ UNCHANGED <<permsFile, torn, copy>>

Enter(r) ==
  /\ lock = {}
  /\ Step(r, "idle", "read")
  /\ lock' = {r}
  /\ UNCHANGED <<permsFile, torn, copy>>

Read(r) ==
  /\ ~torn
  /\ Step(r, "read", "empty")
  /\ copy' = [copy EXCEPT ![r] = permsFile \cup {r}]
  /\ UNCHANGED <<permsFile, torn, lock>>

Empty(r) ==
  /\ Step(r, "empty", "write")
  /\ permsFile' = {} /\ torn' = TRUE
  /\ UNCHANGED <<copy, lock>>

Write(r) ==
  /\ Step(r, "write", "authorized")
  /\ permsFile' = copy[r] /\ torn' = FALSE
  /\ lock' = lock \ {r}
  /\ UNCHANGED copy

\* A request of somebody who is authorized: the answer is yes, or the file cannot be
\* read now and the request fails.
IsAccessible(r) ==
  /\ \/ r \in permsFile /\ Step(r, "authorized", "let in")
     \/ torn /\ Step(r, "authorized", "failed")
     \/ ~torn /\ r \notin permsFile /\ Step(r, "authorized", "refused")
  /\ UNCHANGED <<permsFile, torn, copy, lock>>

Next == \E r \in Request :
  Enter(r) \/ Read(r) \/ Empty(r) \/ Write(r) \/ IsAccessible(r)

Spec == Init /\ [][Next]_vars
-----------------------------------------------------------------------------
\* Nobody who was authorized is refused, however many are authorized meanwhile: no
\* write of the file loses what another has written.
NoneRefused == \A r \in Request : request[r] # "refused"
=============================================================================
