----------------------- MODULE ContainerStore_proofs -----------------------
(***************************************************************************)
(* The safety of ContainerStore for any number of requests: type           *)
(* correctness, one uploader, what was uploaded is there, and the          *)
(* refinement of TestrigLife.                                              *)
(***************************************************************************)
EXTENDS ContainerStore, TLAPS

\* Nobody has deleted n or given up a directory that it is in.
Free(n) == ~Asked(n) /\ ~Buried(n)

\* Directories are in directories and files, of uploads, are in directories.
Nested ==
  /\ \A n \in dirs : Above(n) \subseteq dirs
  /\ \A t \in raw \cup moved : thread[t] # Idle /\ thread[t].node \in dirs

\* The directory of an upload that goes on is there.
HeldIsThere == \A t \in Thread, n \in Node : Holds(t, n) /\ Free(n) => n \in dirs

\* It has nobody else's files in it.
OwnFiles == \A t \in Thread, n \in Node, u \in raw \cup moved :
  Holds(t, n) /\ Free(n) /\ thread[u].node = n => u = t

\* And its own are where they should be by then.
Filled == \A t \in Thread :
  thread[t].kind = "upload" /\ Free(thread[t].node) =>
    /\ thread[t].pc = "unzip" => t \notin raw \cup moved
    /\ thread[t].pc \in {"list", "move"} => t \in raw \ moved
    /\ thread[t].pc \in {"default", "ok"} /\ thread[t].node # Container =>
         t \in moved \ raw

IInv == TypeOK /\ Nested /\ HeldIsThere /\ OneUploader /\ OwnFiles /\ Filled

LEMMA NodeFacts ==
  /\ Node = {1, 2, 3}
  /\ Container = 1 /\ Testrig = 2 /\ Environment = 3
  /\ \A n, m \in Node : m \in Above(n) <=> m < n
  /\ \A n, m \in Node : m \in Within(n) <=> m >= n
  /\ \A n \in Node : Above(n) \subseteq Node /\ Within(n) \subseteq Node
  BY DEF Node, Container, Testrig, Environment, Above, Within

LEMMA InitHolds == Init => IInv
  BY DEF Init, IInv, TypeOK, Nested, HeldIsThere, OneUploader, OwnFiles, Filled,
         Idle, Holds, Node, Container, Testrig, Environment

LEMMA NextType ==
  ASSUME TypeOK, [Next]_vars
  PROVE  TypeOK'
  <1>1. ASSUME NEW t \in Thread, Step(t) PROVE TypeOK'
    <2>1. ASSUME InitContainer(t) PROVE TypeOK'
      BY <2>1, NodeFacts DEF TypeOK, InitContainer, Enter
    <2>2. ASSUME NEW n \in Node, BeginUpload(t, n) PROVE TypeOK'
      BY <2>2 DEF TypeOK, BeginUpload, Enter
    <2>3. ASSUME NEW n \in Node, BeginDelete(t, n) PROVE TypeOK'
      BY <2>3 DEF TypeOK, BeginDelete, Enter
    <2>4. ASSUME Mkdirs(t) PROVE TypeOK'
      <3>1. thread[t].node \in Node /\ Above(thread[t].node) \subseteq Node
        BY NodeFacts DEF TypeOK
      <3>2. QED  BY <2>4, <3>1 DEF TypeOK, Mkdirs, GoTo
    <2>5. ASSUME Unzip(t) PROVE TypeOK'
      BY <2>5 DEF TypeOK, Unzip, GoTo
    <2>6. ASSUME ListGood(t) PROVE TypeOK'
      BY <2>6 DEF TypeOK, ListGood, GoTo
    <2>7. ASSUME ListBad(t) PROVE TypeOK'
      BY <2>7, ZenonT(60) DEF TypeOK, ListBad
    <2>8. ASSUME MoveUp(t) PROVE TypeOK'
      <3>1. PICK files \in SUBSET In(raw, {thread[t].node}) :
              raw' = raw \ files /\ moved' = moved \cup files
        BY <2>8 DEF MoveUp
      <3>2. files \subseteq Thread
        BY <3>1 DEF TypeOK, In
      <3>3. thread' \in [Thread -> [kind : {"none", "upload", "discard", "delete"},
                            node : Node,
                            pc : {"idle", "mkdirs", "unzip", "list", "move", "default",
                                  "clean", "remove", "ok", "failed"}]]
        BY <2>8 DEF TypeOK, MoveUp, GoTo
      <3>4. QED  BY <2>8, <3>1, <3>2, <3>3 DEF TypeOK, MoveUp
    <2>9. ASSUME MakeDefault(t) PROVE TypeOK'
      BY <2>9, NodeFacts DEF TypeOK, MakeDefault, GoTo
    <2>10. ASSUME Fail(t) PROVE TypeOK'
      BY <2>10 DEF TypeOK, Fail, GoTo
    <2>11. ASSUME Clean(t) PROVE TypeOK'
      BY <2>11 DEF TypeOK, Clean, GoTo
    <2>12. ASSUME Remove(t) PROVE TypeOK'
      BY <2>12 DEF TypeOK, Remove, GoTo
    <2>13. QED  BY <1>1, <2>1, <2>2, <2>3, <2>4, <2>5, <2>6, <2>7, <2>8, <2>9,
                   <2>10, <2>11, <2>12 DEF Step
  <1>2. ASSUME UNCHANGED vars PROVE TypeOK'
    BY <1>2 DEF TypeOK, vars
  <1>3. QED  BY <1>1, <1>2 DEF Next

\* A thread changes nothing of another, and what it has given up or been asked to
\* delete stays so: a directory that is free was free before.
LEMMA StaysTaken ==
  ASSUME TypeOK, NEW t \in Thread, Step(t)
  PROVE  /\ \A u \in Thread \ {t} : thread'[u] = thread[u]
         /\ thread[t] # Idle => thread'[t].node = thread[t].node
         /\ thread[t].kind \in {"delete", "discard"} =>
              thread'[t].kind = thread[t].kind
  <1> USE DEF TypeOK
  <1>1. CASE InitContainer(t)
    BY <1>1 DEF InitContainer, Enter, Idle
  <1>2. CASE \E n \in Node : BeginUpload(t, n) \/ BeginDelete(t, n)
    BY <1>2 DEF BeginUpload, BeginDelete, Enter, Idle
  <1>3. CASE ListBad(t)
    BY <1>3 DEF ListBad, At
  <1>4. CASE Mkdirs(t) \/ Unzip(t) \/ ListGood(t)
    BY <1>4 DEF Mkdirs, Unzip, ListGood, GoTo
  <1>5. CASE MoveUp(t) \/ MakeDefault(t) \/ Fail(t)
    BY <1>5 DEF MoveUp, MakeDefault, Fail, GoTo
  <1>6. CASE Clean(t) \/ Remove(t)
    BY <1>6 DEF Clean, Remove, GoTo
  <1>7. QED  BY <1>1, <1>2, <1>3, <1>4, <1>5, <1>6 DEF Step

LEMMA FreeBefore ==
  ASSUME TypeOK, NEW t \in Thread, Step(t), NEW n \in Node, Free(n)'
  PROVE  Free(n)
  <1>1. /\ \A u \in Thread \ {t} : thread'[u] = thread[u]
        /\ thread[t] # Idle => thread'[t].node = thread[t].node
        /\ thread[t].kind \in {"delete", "discard"} =>
             thread'[t].kind = thread[t].kind
    BY StaysTaken
  <1>2. ASSUME NEW u \in Thread, thread[u].kind \in {"delete", "discard"}
        PROVE  thread'[u].kind = thread[u].kind /\ thread'[u].node = thread[u].node
    BY <1>1, <1>2 DEF Idle
  <1>3. QED  BY <1>2 DEF Free, Asked, Buried

LEMMA NextNested ==
  ASSUME TypeOK, Nested, NEW t \in Thread, Step(t)
  PROVE  Nested'
  <1> DEFINE n == thread[t].node
  <1>1. n \in Node /\ dirs \subseteq Node /\ raw \cup moved \subseteq Thread
    BY DEF TypeOK
  <1>2. \A u \in Thread : thread[u].node \in Node
    BY DEF TypeOK
  <1>3. /\ \A u \in raw \cup moved : thread'[u] # Idle /\ thread'[u].node = thread[u].node
        /\ n \in dirs => \A u \in raw \cup moved \cup {t} : thread[u].node \in dirs
    <2>1. \A u \in raw \cup moved : thread'[u].node = thread[u].node
      BY <1>1, StaysTaken DEF Nested
    <2>2. thread'[t] # Idle
      BY DEF Step, InitContainer, BeginUpload, BeginDelete, Enter, Mkdirs, Unzip,
             ListGood, ListBad, MoveUp, MakeDefault, Fail, Clean, Remove, GoTo, At,
             Idle, TypeOK
    <2>3. QED  BY <1>1, <2>1, <2>2, StaysTaken DEF Nested
  <1> USE NodeFacts
  <1>4. CASE InitContainer(t) \/ \E m \in Node : BeginUpload(t, m) \/ BeginDelete(t, m)
    <2>1. raw' = raw /\ moved' = moved /\ (dirs' = dirs \/ dirs' = dirs \cup {Container})
      BY <1>4 DEF InitContainer, BeginUpload, BeginDelete
    <2>2. Above(Container) = {}
      BY DEF Above
    <2>3. QED  BY <1>3, <2>1, <2>2 DEF Nested
  <1>5. CASE Mkdirs(t)
    <2>1. dirs' = dirs \cup Above(n) \cup {n} /\ raw' = raw /\ moved' = moved
      BY <1>5 DEF Mkdirs
    <2>2. \A m \in dirs' : Above(m) \subseteq dirs'
      BY <1>1, <2>1 DEF Nested
    <2>3. QED  BY <1>1, <1>3, <2>1, <2>2 DEF Nested
  <1>6. CASE Unzip(t)
    BY <1>1, <1>3, <1>6 DEF Nested, Unzip, At, Idle, GoTo, TypeOK
  <1>7. CASE ListGood(t) \/ ListBad(t) \/ Fail(t)
    BY <1>1, <1>3, <1>7 DEF Nested, ListGood, ListBad, Fail
  <1>8. CASE MoveUp(t)
    <2>1. raw' \cup moved' \subseteq raw \cup moved /\ dirs' = dirs
      BY <1>8 DEF MoveUp, In
    <2>2. QED  BY <1>3, <2>1 DEF Nested
  <1>9. CASE MakeDefault(t)
    <2>1. dirs' = dirs \cup {Container, Testrig} /\ raw' = raw /\ moved' = moved
      BY <1>9 DEF MakeDefault
    <2>2. \A m \in dirs' : Above(m) \subseteq dirs'
      BY <1>1, <2>1 DEF Nested
    <2>3. QED  BY <1>3, <2>1, <2>2 DEF Nested
  <1>10. CASE Clean(t)
    <2>1. /\ dirs' = dirs \ (Within(n) \ {n})
          /\ \A u \in raw' \cup moved' : u \in raw \cup moved /\ thread[u].node \notin Within(n)
      BY <1>10 DEF Clean, In
    <2>2. ASSUME NEW m \in dirs', NEW k \in Above(m) PROVE k \in dirs'
      <3>1. m \in Node /\ k \in Node /\ k \in dirs /\ k < m
        BY <1>1, <2>1 DEF Nested
      <3>2. k \in Within(n) \ {n} => m \in Within(n) \ {n}
        BY <1>1, <3>1
      <3>3. QED  BY <2>1, <2>2, <3>1, <3>2
    <2>3. QED  BY <1>1, <1>2, <1>3, <2>1, <2>2 DEF Nested
  <1>11. CASE Remove(t)
    <2>1. CASE dirs' = dirs
      BY <1>3, <1>11, <2>1 DEF Nested, Remove
    <2>2. CASE dirs' # dirs
      <3>1. /\ dirs' = dirs \ {n} /\ raw' = raw /\ moved' = moved
            /\ dirs \cap Within(n) \subseteq {n}
            /\ In(raw \cup moved, Within(n)) = {}
        BY <1>11, <2>2 DEF Remove
      <3>2. \A u \in raw \cup moved : thread[u].node \notin Within(n)
        BY <3>1 DEF In
      <3>3. n \in Within(n)
        BY <1>1
      <3>4. \A m \in dirs' : Above(m) \subseteq dirs'
        BY <1>1, <3>1 DEF Nested
      <3>5. QED  BY <1>3, <3>1, <3>2, <3>3, <3>4 DEF Nested
    <2>3. QED  BY <2>1, <2>2
  <1>12. QED  BY <1>4, <1>5, <1>6, <1>7, <1>8, <1>9, <1>10, <1>11 DEF Step

\* A directory gets to be held by making it, and in no other way.
LEMMA HoldsAfter ==
  ASSUME TypeOK, NEW t \in Thread, Step(t), NEW u \in Thread, NEW n \in Node,
         Holds(u, n)', ~ Holds(u, n)
  PROVE  /\ u = t
         /\ n \notin dirs /\ n \in dirs'
         /\ raw' = raw /\ moved' = moved
  <1>1. u = t
    BY StaysTaken DEF Holds
  <1>2. CASE InitContainer(t)
    BY <1>1, <1>2 DEF InitContainer, Enter, Holds, Idle, TypeOK
  <1>3. CASE Mkdirs(t)
    <2>1. thread'[t].node = thread[t].node /\ thread[t].node = n
      BY <1>1, <1>3 DEF Mkdirs, GoTo, Holds, TypeOK
    <2>2. n \notin dirs /\ n \in dirs' /\ raw' = raw /\ moved' = moved
      BY <1>1, <1>3, <2>1 DEF Mkdirs, GoTo, Holds, TypeOK, At
    <2>3. QED  BY <1>1, <2>2
  <1>4. CASE \E m \in Node : BeginUpload(t, m) \/ BeginDelete(t, m)
    BY <1>1, <1>4 DEF BeginUpload, BeginDelete, Enter, Holds, TypeOK
  <1>5. CASE Unzip(t) \/ ListGood(t) \/ MoveUp(t) \/ MakeDefault(t) \/ Fail(t)
    BY <1>1, <1>5 DEF Unzip, ListGood, MoveUp, MakeDefault, Fail, GoTo, At, Holds, TypeOK
  <1>6. CASE ListBad(t)
    BY <1>1, <1>6 DEF ListBad, At, Holds, TypeOK
  <1>7. CASE Clean(t) \/ Remove(t)
    BY <1>1, <1>7 DEF Clean, Remove, GoTo, At, Holds, TypeOK
  <1>8. QED  BY <1>2, <1>3, <1>4, <1>5, <1>6, <1>7 DEF Step

\* A free directory goes only when its holder gives it up.
LEMMA DirsAfter ==
  ASSUME TypeOK, NEW t \in Thread, Step(t), NEW n \in dirs, Free(n), n \notin dirs'
  PROVE  Holds(t, n) /\ ~ Holds(t, n)'
  <1> USE NodeFacts
  <1>1. thread[t].node \in Node /\ n \in Node
    BY DEF TypeOK
  <1>2. CASE Clean(t)
    <2>1. n \in Within(thread[t].node) /\ thread[t].node \in Above(n)
      BY <1>1, <1>2 DEF Clean
    <2>2. thread[t].kind \in {"delete", "discard"}
      BY <1>2 DEF Clean, At
    <2>3. QED  BY <2>1, <2>2 DEF Free, Asked, Buried
  <1>3. CASE Remove(t)
    <2>1. n = thread[t].node /\ n \in Within(n)
      BY <1>1, <1>3 DEF Remove
    <2>2. thread[t].kind = "discard" /\ thread[t].pc = "remove"
      BY <1>3, <2>1 DEF Remove, At, Free, Asked
    <2>3. thread'[t].kind = "discard" /\ thread'[t].pc = "failed"
      BY <1>3, <2>2 DEF Remove, GoTo, TypeOK
    <2>4. QED  BY <2>1, <2>2, <2>3 DEF Holds
  <1>4. CASE ~ Clean(t) /\ ~ Remove(t)
    BY <1>4 DEF Step, InitContainer, BeginUpload, BeginDelete, Mkdirs, Unzip, ListGood,
                ListBad, MoveUp, MakeDefault, Fail
  <1>5. QED  BY <1>2, <1>3, <1>4

LEMMA NextHeld ==
  ASSUME IInv, NEW t \in Thread, Step(t)
  PROVE  HeldIsThere' /\ OneUploader'
  <1>1. ASSUME NEW u \in Thread, NEW n \in Node, Holds(u, n)', Free(n)'
        PROVE  n \in dirs'
    <2>1. Free(n)
      BY <1>1, FreeBefore DEF IInv
    <2>2. CASE Holds(u, n)
      <3>1. n \in dirs
        BY <2>1, <2>2 DEF IInv, HeldIsThere
      <3>2. n \notin dirs' => Holds(t, n) /\ u # t
        BY <1>1, <2>1, <3>1, DirsAfter DEF IInv
      <3>3. QED  BY <2>1, <2>2, <3>2 DEF IInv, OneUploader, Free
    <2>3. CASE ~ Holds(u, n)
      BY <1>1, <2>3, HoldsAfter DEF IInv
    <2>4. QED  BY <2>2, <2>3
  <1>2. ASSUME NEW a \in Thread, NEW b \in Thread, NEW n \in Node, a # b,
               Holds(a, n)', Holds(b, n)', Free(n)'
        PROVE  FALSE
    <2>1. Free(n)
      BY <1>2, FreeBefore DEF IInv
    <2>2. ~ Holds(a, n) \/ ~ Holds(b, n)
      BY <1>2, <2>1 DEF IInv, OneUploader, Free
    <2>3. Holds(a, n) \/ Holds(b, n)
      BY <1>2, HoldsAfter DEF IInv
    <2>4. n \notin dirs
      BY <1>2, <2>2, HoldsAfter DEF IInv
    <2>5. QED  BY <2>1, <2>3, <2>4 DEF IInv, HeldIsThere
  <1>3. HeldIsThere'
    BY <1>1 DEF HeldIsThere
  <1>4. OneUploader'
    BY <1>2 DEF OneUploader, Free
  <1>5. QED  BY <1>3, <1>4

\* Files come by Unzip only, and those of another upload stay where they are as long
\* as its directory is free.
LEMMA FilesAfter ==
  ASSUME TypeOK, NEW t \in Thread, Step(t), NEW u \in raw' \cup moved',
         u \notin raw \cup moved
  PROVE  u = t /\ Unzip(t)
  <1>1. CASE MoveUp(t)
    BY <1>1 DEF MoveUp, In
  <1>2. CASE Unzip(t)
    BY <1>2 DEF Unzip
  <1>3. CASE ~ MoveUp(t) /\ ~ Unzip(t)
    BY <1>3 DEF Step, InitContainer, BeginUpload, BeginDelete, Mkdirs, ListGood,
                ListBad, MakeDefault, Fail, Clean, Remove
  <1>4. QED  BY <1>1, <1>2, <1>3

LEMMA OthersStay ==
  ASSUME TypeOK, OwnFiles, NEW t \in Thread, Step(t),
         NEW a \in raw \cup moved, a # t, Free(thread[a].node)
  PROVE  (a \in raw' <=> a \in raw) /\ (a \in moved' <=> a \in moved)
  <1> DEFINE n == thread[a].node
  <1>1. a \in Thread /\ n \in Node /\ thread[t].node \in Node
    BY DEF TypeOK
  <1>2. ~ Holds(t, n)
    BY <1>1 DEF OwnFiles
  <1>3. CASE Unzip(t)
    BY <1>3 DEF Unzip
  <1>4. CASE MoveUp(t)
    <2>1. PICK files \in SUBSET In(raw, {thread[t].node}) :
            raw' = raw \ files /\ moved' = moved \cup files
      BY <1>4 DEF MoveUp
    <2>2. a \in files => Holds(t, n)
      BY <1>4, <2>1 DEF MoveUp, In, At, Holds
    <2>3. QED  BY <1>2, <2>1, <2>2
  <1>5. CASE Clean(t)
    <2>1. thread[t].kind \in {"delete", "discard"} /\ thread[t].pc = "clean"
      BY <1>5 DEF Clean, At
    <2>2. ASSUME n \in Within(thread[t].node) PROVE FALSE
      <3>1. n = thread[t].node \/ thread[t].node \in Above(n)
        BY <1>1, <2>2, NodeFacts
      <3>2. QED  BY <1>1, <1>2, <2>1, <2>2, <3>1 DEF Free, Asked, Buried, Holds
    <2>3. QED  BY <1>5, <2>2 DEF Clean, In
  <1>6. CASE ~ Unzip(t) /\ ~ MoveUp(t) /\ ~ Clean(t)
    BY <1>6 DEF Step, InitContainer, BeginUpload, BeginDelete, Mkdirs, ListGood,
                ListBad, MakeDefault, Fail, Remove
  <1>7. QED  BY <1>3, <1>4, <1>5, <1>6

LEMMA NextOwnFiles ==
  ASSUME IInv, NEW t \in Thread, Step(t)
  PROVE  OwnFiles'
  <1>1. SUFFICES ASSUME NEW a \in Thread, NEW n \in Node, NEW u \in raw' \cup moved',
                        Holds(a, n)', Free(n)', thread'[u].node = n
                 PROVE  u = a
    BY DEF OwnFiles
  <1>2. Free(n)
    BY <1>1, FreeBefore DEF IInv
  <1>3. CASE u \in raw \cup moved
    <2>1. thread[u].node = n /\ n \in dirs
      BY <1>1, <1>3, StaysTaken DEF IInv, Nested, TypeOK
    <2>2. Holds(a, n)
      BY <1>1, <2>1, HoldsAfter DEF IInv
    <2>3. QED  BY <1>2, <1>3, <2>1, <2>2 DEF IInv, OwnFiles
  <1>4. CASE u \notin raw \cup moved
    <2>1. u = t /\ Unzip(t)
      BY <1>1, <1>4, FilesAfter DEF IInv
    <2>2. Holds(t, n)'
      BY <1>1, <2>1 DEF Unzip, At, GoTo, Holds, IInv, TypeOK
    <2>3. QED  BY <1>1, <2>1, <2>2, NextHeld DEF OneUploader, Free
  <1>5. QED  BY <1>3, <1>4

LEMMA NextFilled ==
  ASSUME IInv, NEW t \in Thread, Step(t)
  PROVE  Filled'
  <1> DEFINE Good(a) ==
        /\ thread[a].pc = "unzip" => a \notin raw \cup moved
        /\ thread[a].pc \in {"list", "move"} => a \in raw \ moved
        /\ thread[a].pc \in {"default", "ok"} /\ thread[a].node # Container =>
             a \in moved \ raw
  <1>1. SUFFICES ASSUME NEW a \in Thread, thread'[a].kind = "upload",
                        Free(thread[a].node)'
                 PROVE  Good(a)'
    BY DEF Filled
  <1> USE DEF IInv, TypeOK
  <1>2. CASE a # t
    <2>1. thread'[a] = thread[a]
      BY <1>2, StaysTaken
    <2>2. Free(thread[a].node)
      BY <1>1, <2>1, FreeBefore
    <2>3. Good(a)
      BY <1>1, <2>1, <2>2 DEF Filled
    <2>4. CASE a \in raw \cup moved
      BY <1>2, <2>1, <2>2, <2>3, <2>4, OthersStay
    <2>5. CASE a \notin raw \cup moved
      <3>1. a \notin raw' \cup moved'
        BY <1>2, <2>5, FilesAfter
      <3>2. QED  BY <2>1, <2>3, <2>5, <3>1
    <2>6. QED  BY <2>4, <2>5
  <1>3. CASE a = t
    <2> DEFINE n == thread[t].node
    <2> USE <1>1, <1>3
    <2>1. CASE InitContainer(t) \/ \E m \in Node : BeginUpload(t, m) \/ BeginDelete(t, m)
      BY <2>1 DEF InitContainer, BeginUpload, BeginDelete, Enter
    <2>2. CASE Mkdirs(t)
      BY <2>2 DEF Mkdirs, GoTo, Nested
    <2>3. ASSUME thread[t].kind = "upload", thread'[t].node = n
          PROVE  Free(n) /\ Good(t)
      <3>1. Free(n)
        BY <2>3, FreeBefore
      <3>2. QED  BY <2>3, <3>1 DEF Filled
    <2>4. CASE Unzip(t)
      BY <2>3, <2>4 DEF Unzip, At, GoTo
    <2>5. CASE ListGood(t) \/ MakeDefault(t)
      BY <2>3, <2>5 DEF ListGood, MakeDefault, At, GoTo
    <2>6. CASE MoveUp(t)
      <3>1. thread[t].kind = "upload" /\ thread[t].pc = "move" /\ thread'[t].node = n
        BY <2>6 DEF MoveUp, At, GoTo
      <3>2. PICK files \in SUBSET In(raw, {n}) :
              files # {} /\ raw' = raw \ files /\ moved' = moved \cup files
        BY <2>6 DEF MoveUp
      <3>3. Free(n) /\ Holds(t, n)
        BY <2>3, <3>1 DEF Holds
      <3>4. files = {t}
        BY <3>2, <3>3 DEF OwnFiles, In
      <3>5. QED  BY <2>6, <3>2, <3>4 DEF MoveUp, GoTo
    <2>7. CASE Fail(t) \/ ListBad(t)
      BY <2>7 DEF Fail, ListBad, GoTo
    <2>8. CASE Clean(t) \/ Remove(t)
      BY <2>8 DEF Clean, Remove, At, GoTo
    <2>9. QED  BY <2>1, <2>2, <2>4, <2>5, <2>6, <2>7, <2>8 DEF Step
  <1>4. QED  BY <1>2, <1>3

\* Any step keeps the inductive invariant.
LEMMA NextHolds ==
  ASSUME IInv, [Next]_vars
  PROVE  IInv'
  <1>1. TypeOK'
    BY NextType DEF IInv
  <1>2. ASSUME NEW t \in Thread, Step(t) PROVE IInv'
    BY <1>1, <1>2, NextNested, NextHeld, NextOwnFiles, NextFilled DEF IInv
  <1>3. CASE UNCHANGED vars
    BY <1>1, <1>3 DEF vars, IInv, Nested, HeldIsThere, OneUploader, OwnFiles, Filled,
                      Holds, Free, Asked, Buried
  <1>4. QED  BY <1>2, <1>3 DEF Next

\* The inductive invariant: files and directories are nested, whoever holds a free
\* directory has it, alone, with nothing but its own files, where they should be.
THEOREM Invariance == Spec => []IInv
  <1>1. Init => IInv
    BY InitHolds
  <1>2. IInv /\ [Next]_vars => IInv'
    BY NextHolds
  <1>3. QED  BY <1>1, <1>2, PTL DEF Spec

\* The state is always one that the types allow.
THEOREM TypeCorrect == Spec => []TypeOK
  <1>1. IInv => TypeOK
    BY DEF IInv
  <1>2. QED  BY <1>1, Invariance, PTL

\* However many uploads of a directory find it missing (WorkMgr.java, uploadTestrig
\* and uploadEnvironment), mkdirs lets one of them on.
THEOREM OneUploads == Spec => []OneUploader
  <1>1. IInv => OneUploader
    BY DEF IInv
  <1>2. QED  BY <1>1, Invariance, PTL

\* What was uploaded with success is there with its own files, whatever number of
\* uploads of anything fail beside it.
THEOREM UploadStays == Spec => []UploadedIsThere
  <1>1. ASSUME IInv PROVE UploadedIsThere
    <2>1. SUFFICES ASSUME NEW t \in Thread, Done(t), thread[t].node # Container,
                          Free(thread[t].node)
                   PROVE  /\ Above(thread[t].node) \cup {thread[t].node} \subseteq dirs
                          /\ In(moved, {thread[t].node}) = {t}
                          /\ In(raw, {thread[t].node}) = {}
      BY DEF UploadedIsThere, Free
    <2> DEFINE n == thread[t].node
    <2>2. n \in Node /\ Holds(t, n)
      BY <1>1, <2>1 DEF IInv, TypeOK, Holds, Done, At
    <2>3. n \in dirs
      BY <1>1, <2>1, <2>2 DEF IInv, HeldIsThere
    <2>4. Above(n) \subseteq dirs
      BY <1>1, <2>3 DEF IInv, Nested
    <2>5. t \in moved \ raw
      BY <1>1, <2>1 DEF IInv, Filled, Done, At
    <2>6. \A u \in raw \cup moved : thread[u].node = n => u = t
      BY <1>1, <2>1, <2>2 DEF IInv, OwnFiles
    <2>7. raw \cup moved \subseteq Thread
      BY <1>1 DEF IInv, TypeOK
    <2>8. QED  BY <2>3, <2>4, <2>5, <2>6, <2>7 DEF In
  <1>2. IInv => UploadedIsThere
    BY <1>1
  <1>3. QED  BY <1>2, Invariance, PTL

\* A step of the stage that TestrigLife allows is a step of it.
LEMMA LifeStep ==
  ASSUME \/ Stage' = Stage
         \/ Stage = "absent" /\ Stage' \in {"container", "partial"}
         \/ Stage = "container" /\ Stage' \in {"partial", "absent"}
         \/ Stage = "partial" /\ Stage' \in {"uploaded", "container"}
         \/ Stage = "uploaded" /\ Stage' \in {"partial", "container"}
  PROVE  [Life!Next]_([t \in {Testrig} |-> Stage])
  <1> DEFINE s == [t \in {Testrig} |-> Stage]
  <1>1. s[Testrig] = Stage /\ Testrig \in {Testrig}
    OBVIOUS
  <1>2. \A v : Stage' = v => s' = [s EXCEPT ![Testrig] = v]
    OBVIOUS
  <1>3. CASE Stage' = Stage
    BY <1>3
  <1>4. CASE Stage = "absent" /\ Stage' = "container"
    <2>1. Life!InitContainer(Testrig)
      BY <1>1, <1>2, <1>4 DEF Life!InitContainer, Life!Move, Life!Becomes
    <2>2. QED  BY <2>1 DEF Life!Next
  <1>5. CASE Stage \in {"absent", "container"} /\ Stage' = "partial"
    <2>1. Life!Begin(Testrig)
      BY <1>1, <1>2, <1>5 DEF Life!Begin, Life!Move, Life!Becomes
    <2>2. QED  BY <2>1 DEF Life!Next
  <1>6. CASE Stage = "container" /\ Stage' = "absent"
    <2>1. Life!DelContainer(Testrig)
      BY <1>1, <1>2, <1>6 DEF Life!DelContainer, Life!Move, Life!Becomes
    <2>2. QED  BY <2>1 DEF Life!Next
  <1>7. CASE Stage = "partial" /\ Stage' = "uploaded"
    <2>1. Life!Complete(Testrig)
      BY <1>1, <1>2, <1>7 DEF Life!Complete, Life!Move, Life!Becomes
    <2>2. QED  BY <2>1 DEF Life!Next
  <1>8. CASE Stage = "uploaded" /\ Stage' = "partial"
    <2>1. Life!Erode(Testrig)
      BY <1>1, <1>2, <1>8 DEF Life!Erode, Life!WithDirectory, Life!Becomes
    <2>2. QED  BY <2>1 DEF Life!Next
  <1>9. CASE Stage \in {"partial", "uploaded"} /\ Stage' = "container"
    <2>1. Life!Discard(Testrig)
      BY <1>1, <1>2, <1>9 DEF Life!Discard, Life!WithDirectory, Life!Becomes
    <2>2. QED  BY <2>1 DEF Life!Next
  <1>10. QED  BY <1>3, <1>4, <1>5, <1>6, <1>7, <1>8, <1>9

\* The stage depends on the two directories and on the files of testrigs.
LEMMA StageSame ==
  ASSUME Testrig \in dirs' <=> Testrig \in dirs,
         Container \in dirs' <=> Container \in dirs,
         In(moved, {Testrig})' = {} <=> In(moved, {Testrig}) = {}
  PROVE  Stage' = Stage
  BY DEF Stage

\* Every step of a request moves the stage as LifeStep has it.
LEMMA NextLife ==
  ASSUME IInv, NEW t \in Thread, Step(t)
  PROVE  [Life!Next]_([u \in {Testrig} |-> Stage])
  <1> DEFINE n == thread[t].node
             M == In(moved, {Testrig})
  <1> USE NodeFacts
  <1>1. n \in Node /\ dirs \subseteq Node
    BY DEF IInv, TypeOK
  <1>2. \A u \in raw \cup moved : thread'[u].node = thread[u].node /\ thread[u].node \in dirs
    BY StaysTaken DEF IInv, Nested, TypeOK
  <1>3. Testrig \in dirs => Container \in dirs
    BY DEF IInv, Nested
  <1>4. moved' = moved => M' = M
    BY <1>2 DEF In
  <1>5. Testrig \notin dirs => M = {}
    BY <1>2 DEF In
  <1>6. CASE InitContainer(t)
    <2>1. Stage = "absent" /\ Stage' = "container"
      BY <1>1, <1>3, <1>6 DEF InitContainer, Stage
    <2>2. QED  BY <2>1, LifeStep
  <1>7. CASE \/ \E m \in Node : BeginUpload(t, m) \/ BeginDelete(t, m)
             \/ Unzip(t) \/ ListGood(t)
             \/ ListBad(t) \/ Fail(t)
    <2>1. dirs' = dirs /\ moved' = moved
      BY <1>7 DEF BeginUpload, BeginDelete, Unzip, ListGood, ListBad, Fail
    <2>2. QED  BY <1>4, <2>1, StageSame, LifeStep
  <1>8. CASE Mkdirs(t) \/ MakeDefault(t)
    <2>1. /\ moved' = moved
          /\ \/ dirs' = dirs \cup Above(n) \cup {n}
             \/ dirs' = dirs \cup {Container, Testrig}
      BY <1>8 DEF Mkdirs, MakeDefault
    <2>2. Container \in dirs' /\ dirs \subseteq dirs'
      BY <1>1, <2>1
    <2>3. CASE Testrig \in dirs
      BY <1>3, <1>4, <2>1, <2>2, <2>3, StageSame, LifeStep
    <2>4. CASE Testrig \notin dirs
      <3>1. Stage' \in {"container", "partial"} /\ Stage \in {"absent", "container"}
        BY <1>4, <1>5, <2>1, <2>2, <2>4 DEF Stage
      <3>2. QED  BY <3>1, LifeStep
    <2>5. QED  BY <2>3, <2>4
  <1>9. CASE MoveUp(t)
    <2>1. PICK files \in SUBSET In(raw, {n}) :
            files # {} /\ raw' = raw \ files /\ moved' = moved \cup files
      BY <1>9 DEF MoveUp
    <2>2. dirs' = dirs
      BY <1>9 DEF MoveUp
    <2>3. CASE n = Testrig
      <3>1. Testrig \in dirs /\ M' # {}
        BY <1>2, <2>1, <2>3 DEF In
      <3>2. Stage' = "uploaded" /\ Stage \in {"partial", "uploaded"}
        BY <1>3, <2>2, <3>1 DEF Stage
      <3>3. QED  BY <3>2, LifeStep
    <2>4. CASE n # Testrig
      <3>1. M' = M
        BY <1>2, <2>1, <2>4 DEF In
      <3>2. QED  BY <2>2, <3>1, StageSame, LifeStep
    <2>5. QED  BY <2>3, <2>4
  <1>10. CASE Clean(t)
    <2>1. dirs' = dirs \ (Within(n) \ {n}) /\ moved' = moved \ In(moved, Within(n))
      BY <1>10 DEF Clean
    <2>2. Container \in dirs' <=> Container \in dirs
      BY <1>1, <2>1
    <2>3. M' \subseteq M
      BY <1>2, <2>1 DEF In
    <2>4. CASE Testrig \in dirs
      <3>1. Stage \in {"partial", "uploaded"}
        BY <1>3, <2>4 DEF Stage
      <3>2. Stage' \in {"container", "partial", "uploaded"}
        BY <1>3, <2>2, <2>4 DEF Stage
      <3>3. Stage = "partial" => Stage' # "uploaded"
        BY <1>3, <2>3, <2>4 DEF Stage
      <3>4. QED  BY <3>1, <3>2, <3>3, LifeStep
    <2>5. CASE Testrig \notin dirs
      BY <1>5, <2>1, <2>2, <2>3, <2>5, StageSame, LifeStep
    <2>6. QED  BY <2>4, <2>5
  <1>11. CASE Remove(t)
    <2>1. CASE dirs' = dirs
      BY <1>4, <1>11, <2>1, StageSame, LifeStep DEF Remove
    <2>2. CASE dirs' # dirs
      <3>1. /\ dirs' = dirs \ {n} /\ moved' = moved
            /\ dirs \cap Within(n) \subseteq {n}
            /\ In(raw \cup moved, Within(n)) = {}
        BY <1>11, <2>2 DEF Remove
      <3>2. CASE n = Container
        <4>0. \A m \in dirs : m = Container
          BY <1>1, <3>1, <3>2
        <4>1. Container \in dirs /\ dirs' = {}
          BY <2>2, <3>1, <3>2, <4>0
        <4>2. Stage = "container" /\ Stage' = "absent"
          BY <4>0, <4>1 DEF Stage
        <4>3. QED  BY <4>2, LifeStep
      <3>3. CASE n = Testrig
        <4>1. Testrig \in dirs /\ Container \in dirs'
          BY <1>3, <2>2, <3>1, <3>3
        <4>2. Testrig \notin dirs' /\ M = {}
          BY <3>1, <3>3 DEF In
        <4>3. Stage = "partial" /\ Stage' = "container"
          BY <1>3, <4>1, <4>2 DEF Stage
        <4>4. QED  BY <4>3, LifeStep
      <3>4. CASE n = Environment
        BY <1>4, <3>1, <3>4, StageSame, LifeStep
      <3>5. QED  BY <1>1, <3>2, <3>3, <3>4
    <2>3. QED  BY <2>1, <2>2
  <1>12. QED  BY <1>6, <1>7, <1>8, <1>9, <1>10, <1>11 DEF Step

\* The requests of the store, however they interleave, take a testrig through the
\* stages of TestrigLife: none is good for work before it has a directory and one of
\* the uploads has filled that.
THEOREM Implementation == Spec => ImplementsLife
  <1>1. Init => Life!Init
    BY DEF Init, Life!Init, Stage
  <1>2. IInv /\ [Next]_vars => [Life!Next]_([t \in {Testrig} |-> Stage])
    <2>1. ASSUME IInv, UNCHANGED vars PROVE Stage' = Stage
      BY <2>1 DEF vars, Stage, In
    <2>2. QED  BY <2>1, NextLife, LifeStep DEF Next
  <1>3. QED  BY <1>1, <1>2, Invariance, PTL DEF Spec, ImplementsLife, Life!Spec
=============================================================================
