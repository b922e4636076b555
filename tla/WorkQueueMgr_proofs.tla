------------------------ MODULE WorkQueueMgr_proofs ------------------------
(***************************************************************************)
(* The safety of WorkQueueMgr for every set of works and workers: type     *)
(* correctness, the invariants, and that it implements WorkLifecycle.      *)
(***************************************************************************)
EXTENDS WorkQueueMgr, SequenceTheorems, TLAPS

-----------------------------------------------------------------------------
(* The two queue operations, LinkedList.add and LinkedList.remove.         *)

\* Deleting the entry at i keeps the others, in their order.
LEMMA RemoveAtEntries ==
  ASSUME NEW S, NEW s \in Seq(S), NEW i \in 1 .. Len(s)
  PROVE  /\ RemoveAt(s, i) \in Seq(S)
         /\ Len(RemoveAt(s, i)) = Len(s) - 1
         /\ \A j \in 1 .. (Len(s) - 1) :
               RemoveAt(s, i)[j] = IF j < i THEN s[j] ELSE s[j + 1]
  <1> DEFINE a == SubSeq(s, 1, i - 1)
             b == SubSeq(s, i + 1, Len(s))
  <1>1. /\ a \in Seq(S)
        /\ Len(a) = i - 1
        /\ \A j \in 1 .. (i - 1) : a[j] = s[j]
    BY SubSeqProperties
  <1>2. /\ b \in Seq(S)
        /\ Len(b) = Len(s) - i
        /\ \A j \in 1 .. (Len(s) - i) : b[j] = s[i + j]
    BY SubSeqProperties
  <1>3. RemoveAt(s, i) = a \o b
    BY DEF RemoveAt
  <1> HIDE DEF a, b
  <1>4. /\ a \o b \in Seq(S)
        /\ Len(a \o b) = Len(a) + Len(b)
        /\ \A j \in 1 .. Len(a) + Len(b) :
              (a \o b)[j] = IF j <= Len(a) THEN a[j] ELSE b[j - Len(a)]
    BY <1>1, <1>2, ConcatProperties
  <1>5. Len(s) \in Nat /\ Len(a) + Len(b) = Len(s) - 1
    BY <1>1, <1>2, LenProperties
  <1>6. ASSUME NEW j \in 1 .. (Len(s) - 1)
        PROVE  (a \o b)[j] = IF j < i THEN s[j] ELSE s[j + 1]
    <2>1. CASE j < i
      BY <1>1, <1>4, <1>5, <2>1
    <2>2. CASE j >= i
      <3>1. (a \o b)[j] = b[j - (i - 1)]
        BY <1>1, <1>4, <1>5, <2>2
      <3>2. j - (i - 1) \in 1 .. (Len(s) - i) /\ i + (j - (i - 1)) = j + 1
        BY <1>5, <2>2
      <3>3. b[j - (i - 1)] = s[i + (j - (i - 1))]
        BY <1>2, <3>2
      <3>4. ~ (j < i)
        BY <1>5, <2>2
      <3>5. QED  BY <3>1, <3>2, <3>3, <3>4
    <2>3. QED  BY <1>5, <2>1, <2>2
  <1>7. QED  BY <1>3, <1>4, <1>5, <1>6

\* Deleting the one entry of a work leaves exactly the other works.
LEMMA RemoveAtMembers ==
  ASSUME NEW S, NEW s \in Seq(S), NEW i \in 1 .. Len(s), IsInjective(s)
  PROVE  /\ IsInjective(RemoveAt(s, i))
         /\ \A w : IsIn(w, RemoveAt(s, i)) <=> IsIn(w, s) /\ w # s[i]
  <1> DEFINE r == RemoveAt(s, i)
  <1>1. /\ r \in Seq(S)
        /\ Len(r) = Len(s) - 1
        /\ \A j \in 1 .. (Len(s) - 1) : r[j] = IF j < i THEN s[j] ELSE s[j + 1]
    BY RemoveAtEntries
  <1>2. DOMAIN r = 1 .. (Len(s) - 1) /\ DOMAIN s = 1 .. Len(s)
    BY <1>1, LenProperties
  <1> HIDE DEF r
  <1>3. IsInjective(r)
    <2> SUFFICES ASSUME NEW j \in 1 .. (Len(s) - 1), NEW k \in 1 .. (Len(s) - 1),
                        r[j] = r[k]
                 PROVE  j = k
      BY <1>2 DEF IsInjective
    <2> DEFINE Old(n) == IF n < i THEN n ELSE n + 1
    <2>1. Len(s) \in Nat
      BY LenProperties
    <2>2. Old(j) \in 1 .. Len(s) /\ Old(k) \in 1 .. Len(s)
      BY <2>1
    <2>3. r[j] = s[Old(j)] /\ r[k] = s[Old(k)]
      BY <1>1
    <2>4. Old(j) = Old(k)
      <3> HIDE DEF Old
      <3> QED  BY <1>2, <2>2, <2>3 DEF IsInjective
    <2>5. QED  BY <2>1, <2>4
  <1>4. ASSUME NEW w PROVE IsIn(w, r) <=> IsIn(w, s) /\ w # s[i]
    <2>1. ASSUME IsIn(w, r) PROVE IsIn(w, s) /\ w # s[i]
      BY <1>1, <1>2, <2>1, SMTT(30) DEF IsIn, IsInjective
    <2>2. ASSUME IsIn(w, s), w # s[i] PROVE IsIn(w, r)
      <3>1. PICK j \in 1 .. Len(s) : s[j] = w
        BY <1>2, <2>2 DEF IsIn
      <3>2. j # i
        BY <2>2, <3>1
      <3>3. CASE j < i
        <4>1. j \in 1 .. (Len(s) - 1) /\ r[j] = w
          BY <1>1, <3>1, <3>3
        <4>2. QED  BY <1>2, <4>1 DEF IsIn
      <3>4. CASE j > i
        <4>1. j - 1 \in 1 .. (Len(s) - 1) /\ r[j - 1] = w
          BY <1>1, <3>1, <3>4
        <4>2. QED  BY <1>2, <4>1 DEF IsIn
      <3>5. QED  BY <3>2, <3>3, <3>4
    <2>3. QED  BY <2>1, <2>2
  <1>5. QED  BY <1>3, <1>4 DEF r

\* Queueing a work that is not in a queue adds it and keeps entries distinct.
LEMMA AppendMembers ==
  ASSUME NEW S, NEW s \in Seq(S), NEW e \in S
  PROVE  /\ Append(s, e) \in Seq(S)
         /\ \A w : IsIn(w, Append(s, e)) <=> IsIn(w, s) \/ w = e
         /\ IsInjective(s) /\ ~ IsIn(e, s) => IsInjective(Append(s, e))
  <1> DEFINE r == Append(s, e)
  <1>1. /\ r \in Seq(S)
        /\ Len(r) = Len(s) + 1
        /\ \A j \in 1 .. Len(s) : r[j] = s[j]
        /\ r[Len(s) + 1] = e
    BY AppendProperties
  <1>2. DOMAIN r = 1 .. (Len(s) + 1) /\ DOMAIN s = 1 .. Len(s) /\ Len(s) \in Nat
    BY <1>1, LenProperties
  <1> HIDE DEF r
  <1>3. ASSUME NEW w PROVE IsIn(w, r) <=> IsIn(w, s) \/ w = e
    <2>1. ASSUME IsIn(w, r) PROVE IsIn(w, s) \/ w = e
      BY <1>1, <1>2, <2>1 DEF IsIn
    <2>2. ASSUME IsIn(w, s) PROVE IsIn(w, r)
      BY <1>1, <1>2, <2>2 DEF IsIn
    <2>3. IsIn(e, r)
      BY <1>1, <1>2 DEF IsIn
    <2>4. QED  BY <2>1, <2>2, <2>3
  <1>4. ASSUME IsInjective(s), ~ IsIn(e, s) PROVE IsInjective(r)
    BY <1>1, <1>2, <1>4 DEF IsInjective, IsIn
  <1>5. QED  BY <1>1, <1>3, <1>4 DEF r

\* The pair delete and enque moves a work from one queue to the other.
LEMMA MoveToCompletedMembers ==
  ASSUME NEW w \in Work, TypeOK, OnePlacePerWork, MoveToCompleted(w)
  PROVE  /\ incomplete' \in Seq(Work)
         /\ completed' \in Seq(Work)
         /\ IsInjective(incomplete')
         /\ IsInjective(completed')
         /\ \A v : IsIn(v, incomplete') <=> IsIn(v, incomplete) /\ v # w
         /\ \A v : IsIn(v, completed') <=> IsIn(v, completed) \/ v = w
  <1>1. PICK i \in 1 .. Len(incomplete) :
           incomplete[i] = w /\ incomplete' = RemoveAt(incomplete, i)
    BY LenProperties DEF MoveToCompleted, TypeOK
  <1>2. completed' = Append(completed, w)
    BY DEF MoveToCompleted
  <1>3. IsIn(w, incomplete)
    BY <1>1, LenProperties DEF IsIn, TypeOK
  <1>4. /\ incomplete' \in Seq(Work)
        /\ IsInjective(incomplete')
        /\ \A v : IsIn(v, incomplete') <=> IsIn(v, incomplete) /\ v # w
    BY <1>1, RemoveAtEntries, RemoveAtMembers DEF TypeOK, OnePlacePerWork
  <1>5. /\ completed' \in Seq(Work)
        /\ IsInjective(completed')
        /\ \A v : IsIn(v, completed') <=> IsIn(v, completed) \/ v = w
    BY <1>2, <1>3, AppendMembers DEF TypeOK, OnePlacePerWork
  <1>6. QED  BY <1>4, <1>5
-----------------------------------------------------------------------------
(* Type correctness.                                                       *)

LEMMA RestingType == Resting \in CheckerState
  BY DEF Resting, CheckerState, CheckerPc

LEMMA InitType == Init => TypeOK
  BY RestingType, EmptySeq DEF Init, TypeOK, Unowned, WorkStatusCode, EndCodes

LEMMA MoveToCompletedType ==
  ASSUME NEW w \in Work, TypeOK, MoveToCompleted(w)
  PROVE  incomplete' \in Seq(Work) /\ completed' \in Seq(Work)
  <1>1. PICK i \in 1 .. Len(incomplete) : incomplete' = RemoveAt(incomplete, i)
    BY LenProperties DEF MoveToCompleted, TypeOK
  <1>2. completed' = Append(completed, w)
    BY DEF MoveToCompleted
  <1>3. QED  BY <1>1, <1>2, RemoveAtEntries, AppendProperties DEF TypeOK

LEMMA AssignerType ==
  ASSUME TypeOK, NEW w \in Work, AssignerNext(w)
  PROVE  TypeOK'
  <1> USE DEF SetStatus, WorkStatusCode, EndCodes
  <1>1. CASE QueueUnassignedWork(w)
    BY <1>1, AppendProperties DEF TypeOK, QueueUnassignedWork, Modified, CheckerAt, CheckerState
  <1>2. CASE GetWorkForAssignment(w)
    BY <1>2 DEF TypeOK, GetWorkForAssignment
  <1>3. ASSUME NEW x \in Worker, BeginAssignment(w, x) PROVE TypeOK'
    BY <1>3 DEF TypeOK, BeginAssignment
  <1>4. CASE MarkAssignmentFailure(w)
    BY <1>4 DEF TypeOK, MarkAssignmentFailure
  <1>5. CASE MarkAssignmentError(w)
    <2>1. incomplete' \in Seq(Work) /\ completed' \in Seq(Work)
      BY <1>5, MoveToCompletedType DEF MarkAssignmentError
    <2>2. QED  BY <1>5, <2>1 DEF TypeOK, MarkAssignmentError, Modified, CheckerAt, CheckerState
  <1>6. QED  BY <1>1, <1>2, <1>3, <1>4, <1>5 DEF AssignerNext

LEMMA CheckResultType ==
  ASSUME TypeOK, NEW s \in TaskStatus, checker.work \in Work,
         ProcessStatusCheckResult(s)
  PROVE  TypeOK'
  <1> DEFINE w == checker.work
  <1> USE RestingType DEF SetStatus, WorkStatusCode, EndCodes
  <1>1. checker' = Resting /\ UNCHANGED monitor
    BY DEF ProcessStatusCheckResult
  <1>2. CASE KeepAssignment(w, s)
    BY <1>1, <1>2 DEF TypeOK, KeepAssignment
  <1>3. CASE CompleteWork(w, s)
    <2>1. incomplete' \in Seq(Work) /\ completed' \in Seq(Work)
      BY <1>3, MoveToCompletedType DEF CompleteWork
    <2>2. QED  BY <1>1, <1>3, <2>1 DEF TypeOK, CompleteWork
  <1>4. CASE FreeWork(w, s)
    BY <1>1, <1>4 DEF TypeOK, FreeWork
  <1>5. QED  BY <1>2, <1>3, <1>4 DEF ProcessStatusCheckResult

LEMMA CheckerType ==
  ASSUME TypeOK, Bookkeeping, CheckerNext
  PROVE  TypeOK'
  <1> USE RestingType DEF SetStatus, WorkStatusCode, EndCodes, CheckerAt
  <1>1. CASE BeginScan
    BY <1>1 DEF TypeOK, BeginScan, CheckerState, CheckerPc
  <1>2. CASE ScanEnds
    BY <1>2 DEF TypeOK, ScanEnds
  <1>3. CASE ScanFails
    BY <1>3 DEF TypeOK, ScanFails
  <1>4. CASE ScanStep
    <2>1. incomplete[checker.pos] \in Work
      BY <1>4, ElementOfSeq, LenProperties DEF TypeOK, ScanStep, CheckerState
    <2>2. ASSUME NEW w \in Work, checker' = [Resting EXCEPT !.pc = "take", !.work = w]
          PROVE  checker' \in CheckerState
      BY <2>2 DEF CheckerState, CheckerPc
    <2>3. ASSUME checker' = [checker EXCEPT !.pos = @ + 1]
          PROVE  checker' \in CheckerState
      <3>1. checker.pos + 1 \in Nat \ {0}
        BY DEF TypeOK, CheckerState
      <3>2. QED  BY <2>3, <3>1 DEF TypeOK, CheckerState
    <2>4. QED  BY <1>4, <2>1, <2>2, <2>3 DEF TypeOK, ScanStep
  <1>5. CASE TakeForChecking
    BY <1>5 DEF TypeOK, TakeForChecking, CheckerState, CheckerPc
  <1>6. CASE ReadAssignedWorker
    <2>1. assignedWorker[checker.work] \in Worker \cup {NoWorker}
      BY <1>6 DEF TypeOK, ReadAssignedWorker, Bookkeeping
    <2>2. QED  BY <1>6, <2>1 DEF TypeOK, ReadAssignedWorker, CheckerState, CheckerPc
  <1>7. CASE MakeWorkUnassigned
    BY <1>7 DEF TypeOK, MakeWorkUnassigned
  <1>8. ASSUME NEW s \in TaskStatus, ProcessStatusCheckResult(s) PROVE TypeOK'
    <2>1. checker.work \in Work
      BY <1>8 DEF ProcessStatusCheckResult, Bookkeeping
    <2>2. QED  BY <1>8, <2>1, CheckResultType
  <1>9. QED  BY <1>1, <1>2, <1>3, <1>4, <1>5, <1>6, <1>7, <1>8 DEF CheckerNext

LEMMA NextType ==
  ASSUME TypeOK, Bookkeeping, [Next]_queueVars
  PROVE  TypeOK'
  <1>1. CASE EndAssignment
    BY <1>1 DEF EndAssignment, TypeOK, Unowned
  <1>2. CASE UNCHANGED queueVars
    BY <1>2 DEF queueVars, TypeOK
  <1>3. QED  BY <1>1, <1>2, AssignerType, CheckerType DEF Next
-----------------------------------------------------------------------------
(* The inductive invariant.                                                *)

LEMMA InitInv == Init => IInv
  <1> SUFFICES ASSUME Init PROVE IInv
    OBVIOUS
  <1>1. TypeOK
    BY InitType
  <1>2. OnePlacePerWork /\ StatusMatchesQueue
    BY DEF Init, OnePlacePerWork, StatusMatchesQueue, IsInjective, IsIn, Held, EndCodes
  <1>3. CheckedWorkIsHeld /\ FreshStrikes
    BY DEF Init, CheckedWorkIsHeld, CheckerHolds, Resting, FreshStrikes
  <1>4. Bookkeeping
    BY DEF Init, Bookkeeping, MonitorFree, Unowned, CheckerAt, Resting
  <1>5. QED  BY <1>1, <1>2, <1>3, <1>4 DEF IInv

\* A modified list costs the scheduler thread its iterator, nothing else.
LEMMA ModifiedKeeps ==
  ASSUME TypeOK, Modified
  PROVE  checker'.pc = checker.pc /\ checker'.work = checker.work
  BY DEF Modified, TypeOK, CheckerState

LEMMA QueueUnassignedWorkInv ==
  ASSUME IInv, NEW w \in Work, QueueUnassignedWork(w)
  PROVE  OnePlacePerWork' /\ StatusMatchesQueue' /\ CheckedWorkIsHeld'
         /\ FreshStrikes' /\ Bookkeeping'
  <1> USE DEF IInv, QueueUnassignedWork
  <1>1. /\ \A v : IsIn(v, incomplete') <=> IsIn(v, incomplete) \/ v = w
        /\ IsInjective(incomplete')
    BY AppendMembers DEF TypeOK, OnePlacePerWork
  <1>2. OnePlacePerWork'
    BY <1>1 DEF OnePlacePerWork
  <1>3. StatusMatchesQueue'
    BY <1>1 DEF StatusMatchesQueue, Held
  <1>4. checker'.pc = checker.pc /\ checker'.work = checker.work
    BY ModifiedKeeps
  <1>5. CheckedWorkIsHeld' /\ FreshStrikes'
    BY <1>4 DEF CheckedWorkIsHeld, CheckerHolds, FreshStrikes
  <1>6. Bookkeeping'
    BY <1>4 DEF Bookkeeping, MonitorFree, CheckerAt
  <1>7. QED  BY <1>2, <1>3, <1>5, <1>6

LEMMA GetWorkForAssignmentInv ==
  ASSUME IInv, NEW w \in Work, GetWorkForAssignment(w)
  PROVE  OnePlacePerWork' /\ StatusMatchesQueue' /\ CheckedWorkIsHeld'
         /\ FreshStrikes' /\ Bookkeeping'
  <1> USE DEF IInv, GetWorkForAssignment, SetStatus
  <1>1. IsIn(w, incomplete) /\ status[w] = "UNASSIGNED"
    BY DEF IsIn
  <1>2. OnePlacePerWork'
    BY DEF OnePlacePerWork
  <1>3. StatusMatchesQueue'
    BY <1>1 DEF TypeOK, StatusMatchesQueue, Held, EndCodes
  <1>4. CheckedWorkIsHeld' /\ FreshStrikes'
    BY <1>1 DEF TypeOK, CheckedWorkIsHeld, CheckerHolds, FreshStrikes
  <1>5. Bookkeeping'
    BY <1>1 DEF TypeOK, Bookkeeping, MonitorFree, CheckerAt
  <1>6. QED  BY <1>2, <1>3, <1>4, <1>5

LEMMA BeginAssignmentInv ==
  ASSUME IInv, NEW w \in Work, NEW x \in Worker, BeginAssignment(w, x)
  PROVE  OnePlacePerWork' /\ StatusMatchesQueue' /\ CheckedWorkIsHeld'
         /\ FreshStrikes' /\ Bookkeeping'
  <1> USE DEF IInv, BeginAssignment, SetStatus
  <1>1. OnePlacePerWork'
    BY DEF OnePlacePerWork
  <1>2. StatusMatchesQueue'
    BY DEF TypeOK, StatusMatchesQueue, Held, EndCodes
  <1>3. CheckedWorkIsHeld' /\ FreshStrikes'
    BY DEF TypeOK, CheckedWorkIsHeld, CheckerHolds, FreshStrikes
  <1>4. Bookkeeping'
    BY DEF TypeOK, Bookkeeping, MonitorFree, CheckerAt
  <1>5. QED  BY <1>1, <1>2, <1>3, <1>4

LEMMA MarkAssignmentFailureInv ==
  ASSUME IInv, NEW w \in Work, MarkAssignmentFailure(w)
  PROVE  OnePlacePerWork' /\ StatusMatchesQueue' /\ CheckedWorkIsHeld'
         /\ FreshStrikes' /\ Bookkeeping'
  <1> USE DEF IInv, MarkAssignmentFailure, SetStatus
  <1>1. OnePlacePerWork'
    BY DEF OnePlacePerWork
  <1>2. StatusMatchesQueue'
    BY DEF TypeOK, StatusMatchesQueue, Held, EndCodes
  <1>3. CheckedWorkIsHeld' /\ FreshStrikes'
    BY DEF TypeOK, CheckedWorkIsHeld, CheckerHolds, FreshStrikes
  <1>4. Bookkeeping'
    BY DEF TypeOK, Bookkeeping, MonitorFree, CheckerAt
  <1>5. QED  BY <1>1, <1>2, <1>3, <1>4

LEMMA MarkAssignmentErrorInv ==
  ASSUME IInv, NEW w \in Work, MarkAssignmentError(w)
  PROVE  OnePlacePerWork' /\ StatusMatchesQueue' /\ CheckedWorkIsHeld'
         /\ FreshStrikes' /\ Bookkeeping'
  <1> USE DEF IInv, MarkAssignmentError, SetStatus
  <1>1. /\ IsInjective(incomplete')
        /\ IsInjective(completed')
        /\ \A v : IsIn(v, incomplete') <=> IsIn(v, incomplete) /\ v # w
        /\ \A v : IsIn(v, completed') <=> IsIn(v, completed) \/ v = w
    BY MoveToCompletedMembers
  <1>2. OnePlacePerWork'
    BY <1>1 DEF OnePlacePerWork
  <1>3. StatusMatchesQueue'
    BY <1>1 DEF TypeOK, StatusMatchesQueue, Held, EndCodes
  <1>4. checker'.pc = checker.pc /\ checker'.work = checker.work
    BY ModifiedKeeps
  <1>5. CheckedWorkIsHeld' /\ FreshStrikes'
    BY <1>4 DEF TypeOK, CheckedWorkIsHeld, CheckerHolds, FreshStrikes
  <1>6. Bookkeeping'
    BY <1>4 DEF TypeOK, Bookkeeping, MonitorFree, CheckerAt
  <1>7. QED  BY <1>2, <1>3, <1>5, <1>6

LEMMA EndAssignmentInv ==
  ASSUME IInv, EndAssignment
  PROVE  OnePlacePerWork' /\ StatusMatchesQueue' /\ CheckedWorkIsHeld'
         /\ FreshStrikes' /\ Bookkeeping'
  <1> USE DEF IInv, EndAssignment
  <1>1. OnePlacePerWork' /\ StatusMatchesQueue'
    BY DEF OnePlacePerWork, StatusMatchesQueue, Held
  <1>2. CheckedWorkIsHeld' /\ FreshStrikes'
    BY NoWorkAssumption DEF CheckedWorkIsHeld, CheckerHolds, FreshStrikes, Unowned
  <1>3. Bookkeeping'
    BY NoWorkerAssumption DEF TypeOK, Bookkeeping, MonitorFree, Unowned, CheckerAt
  <1>4. QED  BY <1>1, <1>2, <1>3

\* The steps of the scan that change only where the scheduler thread is.
LEMMA ScanInv ==
  ASSUME IInv, BeginScan \/ ScanEnds \/ ScanFails \/ ScanStep
  PROVE  OnePlacePerWork' /\ StatusMatchesQueue' /\ CheckedWorkIsHeld'
         /\ FreshStrikes' /\ Bookkeeping'
  <1> USE DEF IInv
  <1>1. UNCHANGED <<incomplete, completed, status, assignedWorker, lastChecked,
                    monitor>>
    BY DEF BeginScan, ScanEnds, ScanFails, ScanStep
  <1>2. checker.pc \in {"rest", "next"}
    BY DEF BeginScan, ScanEnds, ScanFails, ScanStep, CheckerAt
  <1>3. \/ checker'.pc \in {"rest", "next"}
        \/ checker'.pc = "take" /\ checker'.work \in Work
           /\ status[checker'.work] = "ASSIGNED"
    <2>1. CASE BeginScan \/ ScanEnds \/ ScanFails
      BY <2>1 DEF BeginScan, ScanEnds, ScanFails, Resting
    <2>2. CASE ScanStep
      <3>1. incomplete[checker.pos] \in Work
        BY <2>2, ElementOfSeq, LenProperties DEF TypeOK, ScanStep, CheckerState
      <3>2. CASE checker' = [checker EXCEPT !.pos = @ + 1]
        BY <1>2, <3>2 DEF TypeOK, CheckerState
      <3>3. CASE /\ status[incomplete[checker.pos]] = "ASSIGNED"
                 /\ checker' = [Resting EXCEPT !.pc = "take",
                                               !.work = incomplete[checker.pos]]
        BY <3>1, <3>3 DEF Resting
      <3>4. QED  BY <2>2, <3>2, <3>3 DEF ScanStep
    <2>3. QED  BY <2>1, <2>2
  <1>4. OnePlacePerWork' /\ StatusMatchesQueue' /\ FreshStrikes'
    BY <1>1 DEF OnePlacePerWork, StatusMatchesQueue, Held, FreshStrikes
  <1>5. CheckedWorkIsHeld'
    BY <1>1, <1>2, <1>3 DEF CheckedWorkIsHeld, CheckerHolds
  <1>6. Bookkeeping'
    BY <1>1, <1>3 DEF Bookkeeping, MonitorFree, CheckerAt
  <1>7. QED  BY <1>4, <1>5, <1>6

LEMMA TakeForCheckingInv ==
  ASSUME IInv, TakeForChecking
  PROVE  OnePlacePerWork' /\ StatusMatchesQueue' /\ CheckedWorkIsHeld'
         /\ FreshStrikes' /\ Bookkeeping'
  <1> USE DEF IInv, TakeForChecking, SetStatus, CheckerAt
  <1>1. checker.work \in Work /\ status[checker.work] = "ASSIGNED"
    BY DEF Bookkeeping
  <1>2. checker'.pc = "got" /\ checker'.work = checker.work
    BY DEF TypeOK, CheckerState
  <1>3. OnePlacePerWork'
    BY DEF OnePlacePerWork
  <1>4. StatusMatchesQueue'
    BY <1>1 DEF TypeOK, StatusMatchesQueue, Held, EndCodes
  <1>5. CheckedWorkIsHeld' /\ FreshStrikes'
    BY <1>1, <1>2 DEF TypeOK, CheckedWorkIsHeld, CheckerHolds, FreshStrikes
  <1>6. Bookkeeping'
    BY <1>1, <1>2 DEF TypeOK, Bookkeeping, MonitorFree
  <1>7. QED  BY <1>3, <1>4, <1>5, <1>6

LEMMA ReadAssignedWorkerInv ==
  ASSUME IInv, ReadAssignedWorker
  PROVE  OnePlacePerWork' /\ StatusMatchesQueue' /\ CheckedWorkIsHeld'
         /\ FreshStrikes' /\ Bookkeeping'
  <1> USE DEF IInv, ReadAssignedWorker, CheckerAt
  <1>1. checker.work \in Work
    BY DEF Bookkeeping
  <1>2. /\ checker'.work = checker.work
        /\ checker'.pc = IF assignedWorker[checker.work] = NoWorker
                         THEN "drop" ELSE "check"
    BY DEF TypeOK, CheckerState
  <1>3. OnePlacePerWork' /\ StatusMatchesQueue' /\ FreshStrikes'
    BY DEF OnePlacePerWork, StatusMatchesQueue, Held, FreshStrikes
  <1>4. CheckedWorkIsHeld'
    BY <1>2 DEF CheckedWorkIsHeld, CheckerHolds
  <1>5. Bookkeeping'
    BY <1>1, <1>2 DEF Bookkeeping, MonitorFree
  <1>6. QED  BY <1>3, <1>4, <1>5

LEMMA MakeWorkUnassignedInv ==
  ASSUME IInv, MakeWorkUnassigned
  PROVE  OnePlacePerWork' /\ StatusMatchesQueue' /\ CheckedWorkIsHeld'
         /\ FreshStrikes' /\ Bookkeeping'
  <1> USE DEF IInv, MakeWorkUnassigned, SetStatus, CheckerAt
  <1>1. /\ checker.work \in Work
        /\ status[checker.work] = "CHECKINGSTATUS"
        /\ lastChecked[checker.work] = NoStatus
    BY DEF Bookkeeping, CheckedWorkIsHeld, CheckerHolds
  <1>2. checker'.pc = "rest"
    BY DEF Resting
  <1>3. OnePlacePerWork'
    BY DEF OnePlacePerWork
  <1>4. StatusMatchesQueue'
    BY <1>1 DEF TypeOK, StatusMatchesQueue, Held, EndCodes
  <1>5. CheckedWorkIsHeld' /\ FreshStrikes'
    BY <1>1, <1>2 DEF TypeOK, CheckedWorkIsHeld, CheckerHolds, FreshStrikes
  <1>6. Bookkeeping'
    BY <1>1, <1>2 DEF TypeOK, Bookkeeping, MonitorFree
  <1>7. QED  BY <1>3, <1>4, <1>5, <1>6

LEMMA ProcessStatusCheckResultInv ==
  ASSUME IInv, NEW s \in TaskStatus, ProcessStatusCheckResult(s)
  PROVE  OnePlacePerWork' /\ StatusMatchesQueue' /\ CheckedWorkIsHeld'
         /\ FreshStrikes' /\ Bookkeeping'
  <1> DEFINE w == checker.work
  <1> USE DEF IInv, SetStatus, CheckerAt
  <1>1. w \in Work /\ status[w] = "CHECKINGSTATUS" /\ assignedWorker[w] # NoWorker
    BY DEF ProcessStatusCheckResult, Bookkeeping, CheckedWorkIsHeld, CheckerHolds
  <1>2. checker'.pc = "rest" /\ MonitorFree /\ UNCHANGED monitor
    BY DEF ProcessStatusCheckResult, Resting
  <1>3. \A v \in Work : status[v] = "CHECKINGSTATUS" => v = w
    BY DEF CheckedWorkIsHeld, CheckerHolds
  <1>4. CASE KeepAssignment(w, s)
    <2>1. OnePlacePerWork'
      BY <1>4 DEF OnePlacePerWork, KeepAssignment
    <2>2. StatusMatchesQueue'
      BY <1>1, <1>4 DEF TypeOK, StatusMatchesQueue, Held, EndCodes, KeepAssignment
    <2>3. CheckedWorkIsHeld' /\ FreshStrikes'
      BY <1>1, <1>2, <1>3, <1>4, NoWorkAssumption
         DEF TypeOK, CheckedWorkIsHeld, CheckerHolds, FreshStrikes, MonitorFree,
             KeepAssignment
    <2>4. Bookkeeping'
      BY <1>1, <1>2, <1>4 DEF TypeOK, Bookkeeping, MonitorFree, KeepAssignment
    <2>5. QED  BY <2>1, <2>2, <2>3, <2>4
  <1>5. CASE CompleteWork(w, s)
    <2>1. /\ IsInjective(incomplete')
          /\ IsInjective(completed')
          /\ \A v : IsIn(v, incomplete') <=> IsIn(v, incomplete) /\ v # w
          /\ \A v : IsIn(v, completed') <=> IsIn(v, completed) \/ v = w
      BY <1>1, <1>5, MoveToCompletedMembers DEF CompleteWork
    <2>2. OnePlacePerWork'
      BY <2>1 DEF OnePlacePerWork
    <2>3. StatusMatchesQueue'
      BY <1>1, <1>5, <2>1 DEF TypeOK, StatusMatchesQueue, Held, EndCodes, CompleteWork
    <2>4. CheckedWorkIsHeld' /\ FreshStrikes'
      BY <1>1, <1>2, <1>3, <1>5, NoWorkAssumption
         DEF TypeOK, CheckedWorkIsHeld, CheckerHolds, FreshStrikes, MonitorFree,
             CompleteWork
    <2>5. Bookkeeping'
      BY <1>1, <1>2, <1>5 DEF TypeOK, Bookkeeping, MonitorFree, CompleteWork
    <2>6. QED  BY <2>2, <2>3, <2>4, <2>5
  <1>6. CASE FreeWork(w, s)
    <2>1. OnePlacePerWork'
      BY <1>6 DEF OnePlacePerWork, FreeWork
    <2>2. StatusMatchesQueue'
      BY <1>1, <1>6 DEF TypeOK, StatusMatchesQueue, Held, EndCodes, FreeWork
    <2>3. CheckedWorkIsHeld' /\ FreshStrikes'
      BY <1>1, <1>2, <1>3, <1>6
         DEF TypeOK, CheckedWorkIsHeld, CheckerHolds, FreshStrikes, FreeWork
    <2>4. Bookkeeping'
      BY <1>1, <1>2, <1>6 DEF TypeOK, Bookkeeping, MonitorFree, FreeWork
    <2>5. QED  BY <2>1, <2>2, <2>3, <2>4
  <1>7. QED  BY <1>4, <1>5, <1>6 DEF ProcessStatusCheckResult

LEMMA NextInv == IInv /\ [Next]_queueVars => IInv'
  <1> SUFFICES ASSUME IInv, [Next]_queueVars PROVE IInv'
    OBVIOUS
  <1>1. TypeOK'
    BY NextType DEF IInv
  <1>2. ASSUME NEW w \in Work, AssignerNext(w) PROVE IInv'
    BY <1>1, <1>2, QueueUnassignedWorkInv, GetWorkForAssignmentInv,
       BeginAssignmentInv, MarkAssignmentFailureInv, MarkAssignmentErrorInv
       DEF AssignerNext, IInv
  <1>3. CASE EndAssignment
    BY <1>1, <1>3, EndAssignmentInv DEF IInv
  <1>4. CASE CheckerNext
    BY <1>1, <1>4, ScanInv, TakeForCheckingInv, ReadAssignedWorkerInv,
       MakeWorkUnassignedInv, ProcessStatusCheckResultInv DEF CheckerNext, IInv
  <1>5. CASE UNCHANGED queueVars
    BY <1>5 DEF queueVars, IInv, TypeOK, OnePlacePerWork, StatusMatchesQueue, Held,
                CheckedWorkIsHeld, CheckerHolds, FreshStrikes, Bookkeeping,
                MonitorFree, CheckerAt
  <1>6. QED  BY <1>2, <1>3, <1>4, <1>5 DEF Next

\* The inductive invariant holds of every reachable state.
THEOREM Invariance == Spec => []IInv
  BY InitInv, NextInv, PTL DEF Spec

\* The variables hold values of their types (the records of WorkQueueMgr and
\* QueuedWork), for every set of works and workers.
THEOREM TypeCorrect == Spec => []TypeOK
  <1>1. IInv => TypeOK
    BY DEF IInv
  <1>2. QED  BY <1>1, Invariance, PTL

\* No work is twice in the queues: delete and enque of markAssignmentError and
\* processStatusCheckResult, and the duplicate test of queueUnassignedWork,
\* keep the two LinkedLists disjoint and free of duplicates.
THEOREM OnePlace == Spec => []OnePlacePerWork
  <1>1. IInv => OnePlacePerWork
    BY DEF IInv
  <1>2. QED  BY <1>1, Invariance, PTL

\* The status of a work and the queue it is in agree after every method.
THEOREM StatusAndQueueAgree == Spec => []StatusMatchesQueue
  <1>1. IInv => StatusMatchesQueue
    BY DEF IInv
  <1>2. QED  BY <1>1, Invariance, PTL

\* A work in CHECKINGSTATUS is always in the hands of the scheduler thread,
\* although getWorkForChecking takes no monitor.
THEOREM CheckedWorkHeld == Spec => []CheckedWorkIsHeld
  <1>1. IInv => CheckedWorkIsHeld
    BY DEF IInv
  <1>2. QED  BY <1>1, Invariance, PTL

\* No assignment starts with a bad check counted against it.
THEOREM NoOldStrikes == Spec => []FreshStrikes
  <1>1. IInv => FreshStrikes
    BY DEF IInv
  <1>2. QED  BY <1>1, Invariance, PTL

-----------------------------------------------------------------------------
(* The order of the incomplete queue.                                      *)

\* Deleting one entry lets no entry pass another.
LEMMA RemovalKeepsTurn ==
  ASSUME NEW i \in 1 .. Len(incomplete), TypeOK, OnePlacePerWork,
         incomplete' = RemoveAt(incomplete, i)
  PROVE  NobodyOvertakes
  <1>1. /\ Len(incomplete) \in Nat
        /\ DOMAIN incomplete = 1 .. Len(incomplete)
        /\ DOMAIN incomplete' = 1 .. (Len(incomplete) - 1)
        /\ \A n \in 1 .. (Len(incomplete) - 1) :
              incomplete'[n] = IF n < i THEN incomplete[n] ELSE incomplete[n + 1]
    <2>1. /\ incomplete' \in Seq(Work)
          /\ Len(incomplete') = Len(incomplete) - 1
          /\ \A n \in 1 .. (Len(incomplete) - 1) :
                incomplete'[n] = IF n < i THEN incomplete[n] ELSE incomplete[n + 1]
      BY RemoveAtEntries DEF TypeOK
    <2>2. Len(incomplete) \in Nat /\ DOMAIN incomplete = 1 .. Len(incomplete)
      BY LenProperties DEF TypeOK
    <2>3. DOMAIN incomplete' = 1 .. Len(incomplete')
      BY <2>1, LenProperties
    <2>4. QED  BY <2>1, <2>2, <2>3
  <1> DEFINE Old(n) == IF n < i THEN n ELSE n + 1
  <1>2. ASSUME NEW n \in 1 .. (Len(incomplete) - 1)
        PROVE  Old(n) \in 1 .. Len(incomplete) /\ incomplete'[n] = incomplete[Old(n)]
    BY <1>1
  <1>3. SUFFICES ASSUME NEW k \in 1 .. (Len(incomplete) - 1),
                        NEW l \in 1 .. (Len(incomplete) - 1),
                        NEW j \in 1 .. Len(incomplete),
                        k < l, incomplete'[l] = incomplete[j]
                 PROVE  \E n \in 1 .. (j - 1) : incomplete'[k] = incomplete[n]
    BY <1>1 DEF NobodyOvertakes
  <1>4. Old(l) = j
    <2>1. incomplete[Old(l)] = incomplete[j] /\ Old(l) \in 1 .. Len(incomplete)
      BY <1>2, <1>3
    <2> HIDE DEF Old
    <2>2. QED  BY <1>1, <2>1 DEF OnePlacePerWork, IsInjective
  <1>5. Old(k) < Old(l)
    BY <1>1, <1>3
  <1>6. Old(k) \in 1 .. (j - 1) /\ incomplete'[k] = incomplete[Old(k)]
    BY <1>1, <1>2, <1>4, <1>5
  <1>7. QED  BY <1>6

LEMMA AppendKeepsTurn ==
  ASSUME NEW w \in Work, TypeOK, OnePlacePerWork, ~ IsIn(w, incomplete),
         incomplete' = Append(incomplete, w)
  PROVE  NobodyOvertakes
  <1>1. /\ Len(incomplete) \in Nat
        /\ DOMAIN incomplete = 1 .. Len(incomplete)
        /\ DOMAIN incomplete' = 1 .. (Len(incomplete) + 1)
        /\ \A n \in 1 .. Len(incomplete) : incomplete'[n] = incomplete[n]
        /\ incomplete'[Len(incomplete) + 1] = w
    BY AppendProperties, LenProperties DEF TypeOK
  <1>2. SUFFICES ASSUME NEW k \in 1 .. (Len(incomplete) + 1),
                        NEW l \in 1 .. (Len(incomplete) + 1),
                        NEW j \in 1 .. Len(incomplete),
                        k < l, incomplete'[l] = incomplete[j]
                 PROVE  \E n \in 1 .. (j - 1) : incomplete'[k] = incomplete[n]
    BY <1>1 DEF NobodyOvertakes
  <1>3. l \in 1 .. Len(incomplete)
    BY <1>1, <1>2 DEF IsIn
  <1>4. l = j
    BY <1>1, <1>2, <1>3 DEF OnePlacePerWork, IsInjective
  <1>5. k \in 1 .. (j - 1) /\ incomplete'[k] = incomplete[k]
    BY <1>1, <1>2, <1>4
  <1>6. QED  BY <1>5

LEMMA SameQueueKeepsTurn ==
  ASSUME TypeOK, OnePlacePerWork, UNCHANGED incomplete
  PROVE  NobodyOvertakes
  <1>1. /\ Len(incomplete) \in Nat
        /\ DOMAIN incomplete = 1 .. Len(incomplete)
    BY LenProperties DEF TypeOK
  <1>2. QED  BY <1>1 DEF NobodyOvertakes, OnePlacePerWork, IsInjective

LEMMA MoveKeepsTurn ==
  ASSUME NEW w, TypeOK, OnePlacePerWork, MoveToCompleted(w)
  PROVE  NobodyOvertakes
  <1>1. PICK i \in 1 .. Len(incomplete) : incomplete' = RemoveAt(incomplete, i)
    BY LenProperties DEF MoveToCompleted, TypeOK
  <1>2. QED  BY <1>1, RemovalKeepsTurn

\* Works are never overtaken in the incomplete queue, which both scans
\* (getWorkForAssignment, getWorkForChecking) go through from its head.
THEOREM TurnsKept == Spec => KeepsTurn
  <1>1. ASSUME IInv, [Next]_queueVars PROVE [NobodyOvertakes]_queueVars
    <2>1. UNCHANGED incomplete => NobodyOvertakes
      BY <1>1, SameQueueKeepsTurn DEF IInv
    <2>2. ASSUME NEW w \in Work, AssignerNext(w) PROVE NobodyOvertakes
      <3>1. CASE QueueUnassignedWork(w)
        BY <1>1, <3>1, AppendKeepsTurn DEF IInv, QueueUnassignedWork
      <3>2. CASE MarkAssignmentError(w)
        BY <1>1, <3>2, MoveKeepsTurn DEF IInv, MarkAssignmentError
      <3>3. QED  BY <2>1, <2>2, <3>1, <3>2
                 DEF AssignerNext, GetWorkForAssignment, BeginAssignment,
                     MarkAssignmentFailure
    <2>3. ASSUME NEW s \in TaskStatus, ProcessStatusCheckResult(s)
          PROVE  NobodyOvertakes
      BY <1>1, <2>1, <2>3, MoveKeepsTurn
         DEF IInv, ProcessStatusCheckResult, KeepAssignment, CompleteWork, FreeWork
    <2>4. QED  BY <1>1, <2>1, <2>2, <2>3
               DEF Next, EndAssignment, CheckerNext, BeginScan, ScanEnds, ScanFails,
                   ScanStep, TakeForChecking, ReadAssignedWorker, MakeWorkUnassigned,
                   queueVars
  <1>2. QED  BY <1>1, Invariance, PTL DEF Spec, KeepsTurn

-----------------------------------------------------------------------------
(* WorkQueueMgr implements WorkLifecycle.                                  *)

lifePhase == [w \in Work |-> LifePhase(w)]

\* A step that changes the phase of one work moves that work.
LEMMA OneLifeMoves ==
  ASSUME NEW w \in Work, NEW from, NEW to,
         LifePhase(w) = from, LifePhase(w)' = to,
         \A v \in Work : v # w => LifePhase(v)' = LifePhase(v)
  PROVE  Life!Move(w, from, to)
  BY DEF Life!Move

LEMMA AssignerImplements ==
  ASSUME IInv, NEW w \in Work, AssignerNext(w)
  PROVE  [Life!Next]_lifePhase
  <1> USE DEF IInv, TypeOK, SetStatus
  <1>1. CASE QueueUnassignedWork(w)
    <2>1. \A v : IsIn(v, incomplete') <=> IsIn(v, incomplete) \/ v = w
      BY <1>1, AppendMembers DEF QueueUnassignedWork
    <2>2. status[w] = "UNASSIGNED" /\ UNCHANGED status
      BY <1>1 DEF QueueUnassignedWork, StatusMatchesQueue, Held, WorkStatusCode
    <2>3. LifePhase(w) = "absent" /\ LifePhase(w)' = "waiting"
      BY <1>1, <2>1, <2>2 DEF QueueUnassignedWork, LifePhase
    <2>4. \A v \in Work : v # w => LifePhase(v)' = LifePhase(v)
      BY <2>1, <2>2 DEF LifePhase
    <2>5. Life!Submit(w)
      BY <2>3, <2>4, OneLifeMoves DEF Life!Submit
    <2>6. QED  BY <2>5 DEF Life!Next
  <1>2. CASE GetWorkForAssignment(w)
    <2>1. IsIn(w, incomplete) /\ status[w] = "UNASSIGNED"
      BY <1>2 DEF GetWorkForAssignment, IsIn
    <2>2. LifePhase(w) = "waiting" /\ LifePhase(w)' = "offered"
      BY <1>2, <2>1 DEF GetWorkForAssignment, LifePhase
    <2>3. \A v \in Work : v # w => LifePhase(v)' = LifePhase(v)
      BY <1>2 DEF GetWorkForAssignment, LifePhase
    <2>4. Life!Offer(w)
      BY <2>2, <2>3, OneLifeMoves DEF Life!Offer
    <2>5. QED  BY <2>4 DEF Life!Next
  <1>3. ASSUME NEW x \in Worker, BeginAssignment(w, x) PROVE Life!Next
    <2>1. LifePhase(w) = "offered" /\ LifePhase(w)' = "assigned"
      BY <1>3 DEF BeginAssignment, LifePhase
    <2>2. \A v \in Work : v # w => LifePhase(v)' = LifePhase(v)
      BY <1>3 DEF BeginAssignment, LifePhase
    <2>3. Life!Accept(w)
      BY <2>1, <2>2, OneLifeMoves DEF Life!Accept
    <2>4. QED  BY <2>3 DEF Life!Next
  <1>4. CASE MarkAssignmentFailure(w)
    <2>1. IsIn(w, incomplete)
      BY <1>4 DEF MarkAssignmentFailure, StatusMatchesQueue, Held
    <2>2. LifePhase(w) = "offered" /\ LifePhase(w)' = "waiting"
      BY <1>4, <2>1 DEF MarkAssignmentFailure, LifePhase
    <2>3. \A v \in Work : v # w => LifePhase(v)' = LifePhase(v)
      BY <1>4 DEF MarkAssignmentFailure, LifePhase
    <2>4. Life!Refuse(w)
      BY <2>2, <2>3, OneLifeMoves DEF Life!Refuse
    <2>5. QED  BY <2>4 DEF Life!Next
  <1>5. CASE MarkAssignmentError(w)
    <2>1. \A v : IsIn(v, incomplete') <=> IsIn(v, incomplete) /\ v # w
      BY <1>5, MoveToCompletedMembers DEF MarkAssignmentError
    <2>2. LifePhase(w) = "offered" /\ LifePhase(w)' = "rejected"
      BY <1>5 DEF MarkAssignmentError, LifePhase
    <2>3. \A v \in Work : v # w => LifePhase(v)' = LifePhase(v)
      BY <1>5, <2>1 DEF MarkAssignmentError, LifePhase
    <2>4. Life!Reject(w)
      BY <2>2, <2>3, OneLifeMoves DEF Life!Reject
    <2>5. QED  BY <2>4 DEF Life!Next
  <1>6. QED  BY <1>1, <1>2, <1>3, <1>4, <1>5 DEF AssignerNext

LEMMA CheckerImplements ==
  ASSUME IInv, CheckerNext
  PROVE  [Life!Next]_lifePhase
  <1> USE DEF IInv, TypeOK, SetStatus, CheckerAt
  <1>1. ASSUME UNCHANGED <<incomplete, status>> PROVE UNCHANGED lifePhase
    BY <1>1 DEF lifePhase, LifePhase
  <1>2. CASE BeginScan \/ ScanEnds \/ ScanFails \/ ScanStep \/ ReadAssignedWorker
    BY <1>1, <1>2 DEF BeginScan, ScanEnds, ScanFails, ScanStep, ReadAssignedWorker
  <1>3. CASE TakeForChecking
    <2>1. checker.work \in Work /\ status[checker.work] = "ASSIGNED"
      BY <1>3 DEF TakeForChecking, Bookkeeping
    <2>2. \A v \in Work : LifePhase(v)' = LifePhase(v)
      BY <1>3, <2>1 DEF TakeForChecking, LifePhase
    <2>3. QED  BY <2>2 DEF lifePhase
  <1>4. CASE MakeWorkUnassigned
    <2>1. PICK w \in Work : /\ w = checker.work
                            /\ status[w] = "CHECKINGSTATUS"
                            /\ IsIn(w, incomplete)
      BY <1>4 DEF MakeWorkUnassigned, Bookkeeping, CheckedWorkIsHeld, CheckerHolds,
                  StatusMatchesQueue, Held
    <2>2. LifePhase(w) = "assigned" /\ LifePhase(w)' = "waiting"
      BY <1>4, <2>1 DEF MakeWorkUnassigned, LifePhase
    <2>3. \A v \in Work : v # w => LifePhase(v)' = LifePhase(v)
      BY <1>4, <2>1 DEF MakeWorkUnassigned, LifePhase
    <2>4. Life!Reschedule(w)
      BY <2>1, <2>2, <2>3, OneLifeMoves DEF Life!Reschedule
    <2>5. QED  BY <2>1, <2>4 DEF Life!Next
  <1>5. ASSUME NEW s \in TaskStatus, ProcessStatusCheckResult(s)
        PROVE  [Life!Next]_lifePhase
    <2>1. PICK w \in Work : /\ w = checker.work
                            /\ status[w] = "CHECKINGSTATUS"
                            /\ IsIn(w, incomplete)
      BY <1>5 DEF ProcessStatusCheckResult, Bookkeeping, CheckedWorkIsHeld,
                  CheckerHolds, StatusMatchesQueue, Held
    <2>2. LifePhase(w) = "assigned"
      BY <2>1 DEF LifePhase
    <2>3. CASE KeepAssignment(w, s)
      <3>1. \A v \in Work : LifePhase(v)' = LifePhase(v)
        BY <2>1, <2>3 DEF KeepAssignment, LifePhase
      <3>2. QED  BY <3>1 DEF lifePhase
    <2>4. CASE CompleteWork(w, s)
      <3>1. \A v : IsIn(v, incomplete') <=> IsIn(v, incomplete) /\ v # w
        BY <2>1, <2>4, MoveToCompletedMembers DEF CompleteWork
      <3>2. LifePhase(w)' \in {"succeeded", "failed"}
        BY <2>1, <2>4 DEF CompleteWork, LifePhase
      <3>3. \A v \in Work : v # w => LifePhase(v)' = LifePhase(v)
        BY <2>1, <2>4, <3>1 DEF CompleteWork, LifePhase
      <3>4. Life!Finish(w)
        BY <2>1, <2>2, <3>2, <3>3, OneLifeMoves DEF Life!Finish
      <3>5. QED  BY <2>1, <3>4 DEF Life!Next
    <2>5. CASE FreeWork(w, s)
      <3>1. LifePhase(w)' = "waiting"
        BY <2>1, <2>5 DEF FreeWork, LifePhase
      <3>2. \A v \in Work : v # w => LifePhase(v)' = LifePhase(v)
        BY <2>1, <2>5 DEF FreeWork, LifePhase
      <3>3. Life!Reschedule(w)
        BY <2>1, <2>2, <3>1, <3>2, OneLifeMoves DEF Life!Reschedule
      <3>4. QED  BY <2>1, <3>3 DEF Life!Next
    <2>6. QED  BY <1>5, <2>1, <2>3, <2>4, <2>5 DEF ProcessStatusCheckResult
  <1>6. QED  BY <1>2, <1>3, <1>4, <1>5 DEF CheckerNext

\* Whatever threads call the queue manager, and however their calls interleave
\* with the unsynchronized scan, every work goes through the abstract life
\* cycle: offered to one worker at a time, ended at most once and for good.
THEOREM Implementation == Spec => ImplementsLifecycle
  <1>1. Init => Life!Init
    BY EmptySeq DEF Init, Life!Init, LifePhase, IsIn
  <1>2. ASSUME IInv, [Next]_queueVars PROVE [Life!Next]_lifePhase
    <2>1. CASE EndAssignment
      BY <2>1 DEF EndAssignment, lifePhase, LifePhase
    <2>2. CASE UNCHANGED queueVars
      BY <2>2 DEF queueVars, lifePhase, LifePhase
    <2>3. QED  BY <1>2, <2>1, <2>2, AssignerImplements, CheckerImplements DEF Next
  <1>3. QED
    BY <1>1, <1>2, Invariance, PTL DEF Spec, ImplementsLifecycle, Life!Spec, lifePhase
============================================================================
