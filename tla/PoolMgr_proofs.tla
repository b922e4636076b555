--------------------------- MODULE PoolMgr_proofs ---------------------------
(***************************************************************************)
(* The safety of PoolMgr for every set of workers and threads: type        *)
(* correctness, no worker is left in TRYINGTOASSIGN, and no deleted worker *)
(* comes back but by registration.                                         *)
(***************************************************************************)
EXTENDS PoolMgr, TLAPS

\* Quiet with a list of workers to ask is a state of a refreshing thread.
LEMMA QuietType ==
  ASSUME NEW todo \in SUBSET Worker
  PROVE  /\ Quiet \in RefresherState
         /\ [Quiet EXCEPT !.todo = todo] \in RefresherState
  BY DEF Quiet, RefresherState

LEMMA UpdateType ==
  ASSUME TypeOK, NEW x \in Worker, NEW code \in StatusCode,
         UpdateWorkerStatus(x, code)
  PROVE  pool' \in [Worker -> StatusCode \cup {Absent}]
  BY DEF TypeOK, UpdateWorkerStatus

LEMMA NextInListType ==
  ASSUME TypeOK, NEW r \in Refresher, NextInList(r)
  PROVE  refresher' \in [Refresher -> RefresherState]
  <1>1. refresher[r].todo \in SUBSET Worker
    BY DEF TypeOK, RefresherState
  <1>2. [Quiet EXCEPT !.todo = refresher[r].todo] \in RefresherState
    BY <1>1, QuietType
  <1>3. QED  BY <1>2 DEF TypeOK, NextInList

LEMMA InitType == Init => TypeOK
  BY QuietType DEF Init, TypeOK

LEMMA NextType == TypeOK /\ [Next]_poolVars => TypeOK'
  <1> SUFFICES ASSUME TypeOK, [Next]_poolVars PROVE TypeOK'
    OBVIOUS
  <1>1. ASSUME NEW x \in Worker, AddToPool(x) PROVE TypeOK'
    <2>1. PICK r \in Spawned : refresher' = [refresher EXCEPT ![r].todo = {x}]
      BY <1>1 DEF AddToPool
    <2>2. r \in Refresher /\ [refresher[r] EXCEPT !.todo = {x}] \in RefresherState
      BY DEF TypeOK, Refresher, RefresherState
    <2>3. refresher' \in [Refresher -> RefresherState]
      BY <2>1, <2>2 DEF TypeOK
    <2>4. QED  BY <1>1, <2>3 DEF TypeOK, AddToPool, StatusCode
  <1>2. ASSUME NEW x \in Worker, DeleteFromPool(x) PROVE TypeOK'
    BY <1>2 DEF TypeOK, DeleteFromPool
  <1>3. ASSUME NEW a \in Assigner, NEW x \in Worker, GetWorkerForAssignment(a, x)
        PROVE  TypeOK'
    BY <1>3 DEF TypeOK, GetWorkerForAssignment, UpdateWorkerStatus, StatusCode
  <1>4. ASSUME NEW a \in Assigner, NEW ok \in BOOLEAN, MarkAssignmentResult(a, ok)
        PROVE  TypeOK'
    BY <1>4 DEF TypeOK, MarkAssignmentResult, UpdateWorkerStatus, StatusCode
  <1>5. ASSUME BeginPoll PROVE TypeOK'
    <2>1. [refresher[Poller] EXCEPT !.todo = Members] \in RefresherState
      BY DEF TypeOK, Refresher, RefresherState, Members
    <2>2. QED  BY <1>5, <2>1 DEF TypeOK, BeginPoll
  <1>6. ASSUME NEW r \in Refresher, RefresherNext(r) PROVE TypeOK'
    <2>1. ASSUME NEW x \in Worker, BeginHint(r, x) PROVE TypeOK'
      <3>1. [refresher[r] EXCEPT !.todo = {x}] \in RefresherState
        BY DEF TypeOK, RefresherState
      <3>2. QED  BY <2>1, <3>1 DEF TypeOK, BeginHint
    <2>2. ASSUME NEW x \in Worker, Ask(r, x) PROVE TypeOK'
      <3>1. [pc |-> "ask", todo |-> refresher[r].todo \ {x}, worker |-> x,
             code |-> Absent] \in RefresherState
        BY DEF TypeOK, RefresherState
      <3>2. QED  BY <2>2, <3>1 DEF TypeOK, Ask
    <2>3. ASSUME NEW answer \in Answer, Receive(r, answer) PROVE TypeOK'
      <3>1. \A pc \in {"test", "set"},
               code \in {"IDLE", "BUSY", "UNKNOWN", "UNREACHABLE"} :
               [refresher[r] EXCEPT !.pc = pc, !.code = code] \in RefresherState
        BY DEF TypeOK, RefresherState, Polled, StatusCode
      <3>2. CASE NextInList(r)
        BY <2>3, <3>2, NextInListType DEF TypeOK, Receive
      <3>3. CASE ~ NextInList(r)
        BY <2>3, <3>1, <3>3 DEF TypeOK, Receive
      <3>4. QED  BY <3>2, <3>3
    <2>4. ASSUME TestStatus(r) PROVE TypeOK'
      <3>1. [refresher[r] EXCEPT !.pc = "set", !.code = "UNKNOWN"] \in RefresherState
        BY DEF TypeOK, RefresherState, Polled, StatusCode
      <3>2. [refresher[r] EXCEPT !.pc = "set"] \in RefresherState
        BY DEF TypeOK, RefresherState
      <3>3. CASE NextInList(r)
        BY <2>4, <3>3, NextInListType DEF TypeOK, TestStatus
      <3>4. CASE ~ NextInList(r)
        BY <2>4, <3>1, <3>2, <3>4 DEF TypeOK, TestStatus
      <3>5. QED  BY <3>3, <3>4
    <2>5. ASSUME WriteStatus(r) PROVE TypeOK'
      <3>1. refresher' \in [Refresher -> RefresherState]
        BY <2>5, NextInListType DEF WriteStatus
      <3>2. refresher[r].code \in StatusCode \cup {Absent}
        BY DEF TypeOK, RefresherState, Polled
      <3>3. QED  BY <2>5, <3>1, <3>2 DEF TypeOK, WriteStatus, UpdateWorkerStatus
    <2>6. QED  BY <1>6, <2>1, <2>2, <2>3, <2>4, <2>5 DEF RefresherNext
  <1>7. CASE UNCHANGED poolVars
    BY <1>7 DEF poolVars, TypeOK
  <1>8. QED  BY <1>1, <1>2, <1>3, <1>4, <1>5, <1>6, <1>7
             DEF Next, RegistrationNext, AssignerNext

\* The variables hold values of their types.
THEOREM TypeCorrect == Spec => []TypeOK
  BY InitType, NextType, PTL DEF Spec

-----------------------------------------------------------------------------
(* TRYINGTOASSIGN is a loan.                                               *)

\* OfferedIsHeld is inductive together with the types: only the step that hands
\* a worker out writes TRYINGTOASSIGN, and the thread that gives one back
\* overwrites it.
LEMMA OfferedStep ==
  ASSUME TypeOK, OfferedIsHeld, [Next]_poolVars
  PROVE  OfferedIsHeld'
  <1>1. ASSUME NEW x \in Worker, RegistrationNext(x) PROVE OfferedIsHeld'
    BY <1>1 DEF RegistrationNext, AddToPool, DeleteFromPool, TypeOK, OfferedIsHeld,
                Absent
  <1>2. ASSUME NEW a \in Assigner, NEW x \in Worker, GetWorkerForAssignment(a, x)
        PROVE  OfferedIsHeld'
    BY <1>2, NoWorkerAssumption
       DEF GetWorkerForAssignment, UpdateWorkerStatus, TypeOK, OfferedIsHeld
  <1>3. ASSUME NEW a \in Assigner, NEW ok \in BOOLEAN, MarkAssignmentResult(a, ok)
        PROVE  OfferedIsHeld'
    <2>1. \A x \in Worker : x # handed[a] => pool'[x] = pool[x]
      BY <1>3 DEF MarkAssignmentResult, UpdateWorkerStatus, TypeOK
    <2>2. handed[a] \in Worker /\ pool'[handed[a]] # "TRYINGTOASSIGN"
      BY <1>3 DEF MarkAssignmentResult, UpdateWorkerStatus, TypeOK, Absent
    <2>3. \A b \in Assigner : b # a => handed'[b] = handed[b]
      BY <1>3 DEF MarkAssignmentResult, TypeOK
    <2>4. SUFFICES ASSUME NEW x \in Worker, pool'[x] = "TRYINGTOASSIGN"
                   PROVE  \E b \in Assigner : handed'[b] = x
      BY DEF OfferedIsHeld
    <2>5. x # handed[a]
      BY <2>2, <2>4
    <2>6. PICK b \in Assigner : handed[b] = x
      BY <2>1, <2>4, <2>5 DEF OfferedIsHeld
    <2>7. QED  BY <2>3, <2>5, <2>6
  <1>4. ASSUME NEW r \in Refresher, WriteStatus(r) PROVE OfferedIsHeld'
    <2>1. refresher[r].code # "TRYINGTOASSIGN"
      BY <1>4 DEF TypeOK, RefresherState, Polled, Absent
    <2>2. QED
      BY <1>4, <2>1 DEF WriteStatus, UpdateWorkerStatus, TypeOK, OfferedIsHeld
  <1>5. CASE UNCHANGED <<pool, handed>>
    BY <1>5 DEF OfferedIsHeld
  <1>6. QED
    BY <1>1, <1>2, <1>3, <1>4, <1>5
       DEF Next, AssignerNext, BeginPoll, RefresherNext, BeginHint, Ask, Receive,
           TestStatus, poolVars

\* A worker in TRYINGTOASSIGN is always held by a thread that will report on
\* it, whatever answers the refreshes get and whenever workers come and go.
THEOREM OfferedHeld == Spec => []OfferedIsHeld
  <1>1. Init => OfferedIsHeld
    BY DEF Init, OfferedIsHeld, Absent
  <1>2. TypeOK /\ OfferedIsHeld /\ [Next]_poolVars => OfferedIsHeld'
    BY OfferedStep
  <1>3. QED  BY <1>1, <1>2, TypeCorrect, PTL DEF Spec

-----------------------------------------------------------------------------
(* Deleted workers.                                                        *)

LEMMA UpdateKeepsAbsent ==
  ASSUME TypeOK, NEW x \in Worker, NEW code, UpdateWorkerStatus(x, code)
  PROVE  \A y \in Worker : pool[y] = Absent => pool'[y] = Absent
  BY DEF TypeOK, UpdateWorkerStatus

\* A deleted worker comes back by addToPool only: no refresh and no assignment
\* result that was under way when it was deleted puts it back.
THEOREM StaysDeleted == Spec => NoComeback
  <1>1. ASSUME TypeOK, [Next]_poolVars PROVE [ComesBackRegistered]_poolVars
    <2>1. ASSUME NEW x \in Worker, AddToPool(x) PROVE ComesBackRegistered
      <3>1. PICK r \in Spawned : refresher[r] = Quiet
                                 /\ refresher' = [refresher EXCEPT ![r].todo = {x}]
        BY <2>1 DEF AddToPool
      <3>2. refresher'[r].todo = {x}
        BY <1>1, <3>1 DEF TypeOK, Refresher, RefresherState
      <3>3. pool' = [pool EXCEPT ![x] = "UNKNOWN"]
        BY <2>1 DEF AddToPool
      <3>4. QED  BY <1>1, <3>1, <3>2, <3>3 DEF ComesBackRegistered, TypeOK
    <2>2. ASSUME NEW x \in Worker, DeleteFromPool(x) PROVE ComesBackRegistered
      BY <1>1, <2>2 DEF DeleteFromPool, ComesBackRegistered, TypeOK
    <2>3. ASSUME NEW a \in Assigner, AssignerNext(a) PROVE ComesBackRegistered
      <3>1. ASSUME NEW x \in Worker, GetWorkerForAssignment(a, x)
            PROVE  ComesBackRegistered
        BY <1>1, <3>1, UpdateKeepsAbsent
           DEF GetWorkerForAssignment, ComesBackRegistered
      <3>2. ASSUME NEW ok \in BOOLEAN, MarkAssignmentResult(a, ok)
            PROVE  ComesBackRegistered
        <4>1. handed[a] \in Worker
          BY <1>1, <3>2 DEF MarkAssignmentResult, TypeOK
        <4>2. QED  BY <1>1, <3>2, <4>1, UpdateKeepsAbsent
                   DEF MarkAssignmentResult, ComesBackRegistered
      <3>3. QED  BY <2>3, <3>1, <3>2 DEF AssignerNext
    <2>4. ASSUME NEW r \in Refresher, WriteStatus(r) PROVE ComesBackRegistered
      BY <1>1, <2>4
         DEF WriteStatus, UpdateWorkerStatus, ComesBackRegistered, TypeOK
    <2>5. UNCHANGED pool => ComesBackRegistered
      BY DEF ComesBackRegistered
    <2>6. QED
      BY <1>1, <2>1, <2>2, <2>3, <2>4, <2>5
         DEF Next, RegistrationNext, BeginPoll, RefresherNext, BeginHint, Ask,
             Receive, TestStatus, poolVars
  <1>2. QED  BY <1>1, TypeCorrect, PTL DEF Spec, NoComeback
=============================================================================
