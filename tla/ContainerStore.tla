--------------------------- MODULE ContainerStore ---------------------------
(***************************************************************************)
(* The directories that WorkMgr keeps for the clients: a container, in it  *)
(* a testrig, in it an environment, one of each.  Every request is served  *)
(* by a thread of the HTTP server, and no lock is taken: what a request    *)
(* has tested need not hold any more when it acts on it.                   *)
(*                                                                         *)
(* An upload tests that its directory is not there, makes it, unzips into  *)
(* it, looks at what it got and moves that up by one level.  A deletion,   *)
(* and the removal of an upload of the wrong shape, deletes the files and  *)
(* then the directory (FileUtils.deleteDirectory), which fails when        *)
(* something has come into it in between.                                  *)
(***************************************************************************)
EXTENDS Naturals

CONSTANT Thread         \* the requests, each with a thread of its own

VARIABLES thread,       \* what each of them does, to what, and how far it is
          dirs,         \* the directories that exist
          raw,          \* the uploads whose files are where they were unzipped
          moved         \* the uploads whose files are where they belong

vars == <<thread, dirs, raw, moved>>

Container == 1
Testrig == 2
Environment == 3
Node == {Container, Testrig, Environment}

Above(n)  == {m \in Node : m < n}       \* the directories that n is in
Within(n) == {m \in Node : m >= n}      \* n and those that are in it

Idle == [kind |-> "none", node |-> Container, pc |-> "idle"]

TypeOK ==
  /\ thread \in [Thread -> [kind : {"none", "upload", "discard", "delete"},
                            node : Node,
                            pc : {"idle", "mkdirs", "unzip", "list", "move", "default",
                                  "clean", "remove", "ok", "failed"}]]
  /\ dirs \subseteq Node
  /\ raw \subseteq Thread
  /\ moved \subseteq Thread

Init ==
  /\ thread = [t \in Thread |-> Idle]
  /\ dirs = {}
  /\ raw = {} /\ moved = {}

\* The uploads among ts that have their files in one of nodes.
In(ts, nodes) == {t \in ts : thread[t].node \in nodes}

At(t, kinds, pc) == thread[t].kind \in kinds /\ thread[t].pc = pc
GoTo(t, pc) == thread' = [thread EXCEPT ![t].pc = pc]
Enter(t, kind, n, pc) ==
  /\ thread[t] = Idle
  /\ thread' = [thread EXCEPT ![t] = [kind |-> kind, node |-> n, pc |-> pc]]
-----------------------------------------------------------------------------
\* initContainer: the name is new.
InitContainer(t) ==
  /\ Enter(t, "upload", Container, "ok")
  /\ Container \notin dirs
  /\ \A u \in Thread : thread[u] # Idle => thread[u].node # Container
  /\ dirs' = dirs \cup {Container}
  /\ UNCHANGED <<raw, moved>>

\* uploadTestrig and uploadEnvironment: what there must be is there, and what
\* there must not be is not.
BeginUpload(t, n) ==
  /\ n # Container
  /\ Above(n) \subseteq dirs /\ n \notin dirs
  /\ Enter(t, "upload", n, "mkdirs")
  /\ UNCHANGED <<dirs, raw, moved>>

\* Mutant: that there was no directory before is good enough.
MkdirsAgain(t) ==
  LET n == thread[t].node
  IN  /\ At(t, {"upload"}, "mkdirs")
      /\ dirs' = dirs \cup Above(n) \cup {n}
      /\ GoTo(t, "unzip")
      /\ UNCHANGED <<raw, moved>>

\* mkdirs makes the missing directories above too, and its result says whether
\* it was this thread that made the directory.
Mkdirs(t) ==
  LET n == thread[t].node
  IN  /\ At(t, {"upload"}, "mkdirs")
      /\ IF n \in dirs THEN GoTo(t, "failed") ELSE GoTo(t, "unzip")
      /\ dirs' = dirs \cup Above(n) \cup {n}
      /\ UNCHANGED <<raw, moved>>

\* Files cannot be written into a directory that is gone.
Unzip(t) ==
  /\ At(t, {"upload"}, "unzip")
  /\ thread[t].node \in dirs
  /\ raw' = raw \cup {t}
  /\ GoTo(t, "list")
  /\ UNCHANGED <<dirs, moved>>

\* There is one folder, of the right shape, and nothing beside it.
ListGood(t) ==
  /\ At(t, {"upload"}, "list")
  /\ In(moved, {thread[t].node}) = {} /\ In(raw, {thread[t].node}) # {}
  /\ GoTo(t, "move")
  /\ UNCHANGED <<dirs, raw, moved>>

\* Mutant: what is deleted is the testrig, whatever was uploaded.
ListBadTestrig(t) ==
  /\ At(t, {"upload"}, "list")
  /\ In(moved \cup raw, {thread[t].node}) # {}
  /\ thread' = [thread EXCEPT ![t] =
                  [kind |-> "discard", node |-> Testrig, pc |-> "clean"]]
  /\ UNCHANGED <<dirs, raw, moved>>

\* Or there is not, which only the zip file, or another upload, can be to blame
\* for: everything in the directory is deleted.
ListBad(t) ==
  /\ At(t, {"upload"}, "list")
  /\ In(moved \cup raw, {thread[t].node}) # {}
  /\ thread' = [thread EXCEPT ![t].kind = "discard", ![t].pc = "clean"]
  /\ UNCHANGED <<dirs, raw, moved>>

\* What is in the folder is moved up, whoever has put it there.
MoveUp(t) ==
  /\ At(t, {"upload"}, "move")
  /\ \E files \in SUBSET In(raw, {thread[t].node}) :
       /\ files # {}
       /\ raw' = raw \ files
       /\ moved' = moved \cup files
  /\ GoTo(t, IF thread[t].node = Testrig THEN "default" ELSE "ok")
  /\ UNCHANGED dirs

\* The default environment of a testrig: mkdirs again, with all that is missing.
MakeDefault(t) ==
  /\ At(t, {"upload"}, "default")
  /\ dirs' = dirs \cup {Container, Testrig}
  /\ GoTo(t, "ok")
  /\ UNCHANGED <<raw, moved>>

\* Mutant: a failure in the place of what is done.
FailInKind(t) ==
  /\ At(t, {"upload"}, "unzip")
  /\ thread' = [thread EXCEPT ![t].kind = "failed"]
  /\ UNCHANGED <<dirs, raw, moved>>

\* Something fails: the zip file cannot be received or is none, files that were
\* there are not.  What was made stays.
Fail(t) ==
  /\ thread[t].kind = "upload"
  /\ thread[t].pc \in {"unzip", "list", "move"}
  /\ GoTo(t, "failed")
  /\ UNCHANGED <<dirs, raw, moved>>

\* delContainer, delTestrig and delEnvironment.
BeginDelete(t, n) ==
  /\ Above(n) \cup {n} \subseteq dirs
  /\ Enter(t, "delete", n, "clean")
  /\ UNCHANGED <<dirs, raw, moved>>

\* The files, and the directories inside.
Clean(t) ==
  LET n == thread[t].node
  IN  /\ At(t, {"delete", "discard"}, "clean")
      /\ dirs' = dirs \ (Within(n) \ {n})
      /\ raw' = raw \ In(raw, Within(n))
      /\ moved' = moved \ In(moved, Within(n))
      /\ GoTo(t, "remove")

\* Mutant: the directory goes, whatever has come into it.
RemoveAnyway(t) ==
  /\ At(t, {"delete", "discard"}, "remove")
  /\ dirs' = dirs \ {thread[t].node}
  /\ GoTo(t, IF thread[t].kind = "delete" THEN "ok" ELSE "failed")
  /\ UNCHANGED <<raw, moved>>

\* The directory itself, if nothing has come into it.
Remove(t) ==
  LET n == thread[t].node
      empty == /\ dirs \cap Within(n) \subseteq {n}
               /\ In(raw \cup moved, Within(n)) = {}
      done  == IF thread[t].kind = "delete" THEN "ok" ELSE "failed"
  IN  /\ At(t, {"delete", "discard"}, "remove")
      /\ dirs' = IF empty THEN dirs \ {n} ELSE dirs
      /\ GoTo(t, IF empty THEN done ELSE "failed")
      /\ UNCHANGED <<raw, moved>>

Step(t) ==
  \/ InitContainer(t)
  \/ \E n \in Node : BeginUpload(t, n) \/ BeginDelete(t, n)
  \/ Mkdirs(t)
  \/ Unzip(t)
  \/ ListGood(t)
  \/ ListBad(t)
  \/ MoveUp(t)
  \/ MakeDefault(t)
  \/ Fail(t)
  \/ Clean(t)
  \/ Remove(t)

Next == \E t \in Thread : Step(t)

Spec == Init /\ [][Next]_vars
-----------------------------------------------------------------------------
\* Somebody has asked to delete n, or a directory that n is in.
Asked(n) == \E t \in Thread :
  thread[t].kind = "delete" /\ n \in Within(thread[t].node)

\* Or an upload has given up a directory that n is in, and what others had put
\* into it.
Buried(n) == \E t \in Thread :
  thread[t].kind = "discard" /\ thread[t].node \in Above(n)

Done(t) == At(t, {"upload"}, "ok")

\* The upload t goes on with n, has it done, or is giving it up.
Holds(t, n) ==
  /\ thread[t].node = n
  /\ \/ thread[t].kind = "upload" /\ thread[t].pc \notin {"mkdirs", "failed"}
     \/ thread[t].kind = "discard" /\ thread[t].pc \in {"clean", "remove"}

\* As long as nobody asks for a deletion, one upload at most gets as far as to
\* unzip, whatever number of them found the directory missing, and nobody gives up
\* what another is uploading, or has uploaded with success.
OneUploader == \A t, u \in Thread, n \in Node :
  t # u /\ Holds(t, n) /\ Holds(u, n) => Asked(n) \/ Buried(n)

\* What was uploaded with success is there, complete and with nobody else's files,
\* until somebody asks for a deletion or the upload that it was put into fails.
UploadedIsThere == \A t \in Thread :
  LET n == thread[t].node
  IN  Done(t) /\ n # Container /\ ~Asked(n) /\ ~Buried(n) =>
        /\ Above(n) \cup {n} \subseteq dirs
        /\ In(moved, {n}) = {t} /\ In(raw, {n}) = {}

\* The stage of the testrig.
Stage == IF Container \notin dirs THEN "absent"
         ELSE IF Testrig \notin dirs THEN "container"
         ELSE IF In(moved, {Testrig}) = {} THEN "partial"
         ELSE "uploaded"

Life == INSTANCE TestrigLife WITH
          Testrig <- {Testrig}, stage <- [t \in {Testrig} |-> Stage]

\* Whatever the requests do to each other, a testrig goes through its stages as
\* its clients take it to do.
ImplementsLife == Life!Spec
=============================================================================
