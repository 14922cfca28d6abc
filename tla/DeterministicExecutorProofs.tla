-------------------- MODULE DeterministicExecutorProofs --------------------
(***************************************************************************)
(* Proofs about DeterministicExecutor for every number of threads and      *)
(* tasks: the type invariant, the exclusive claims, what a rethrown error  *)
(* says of the tasks before it, the bound on claims after a failure, and   *)
(* the refinement of IndexedMap.                                           *)
(***************************************************************************)
EXTENDS DeterministicExecutor, FiniteSetTheorems, TLAPS

(* A task a worker has claimed and nobody has stored: it is being          *)
(* evaluated, or it has thrown.                                            *)
Unstored(w) == task[w] # NoIndex /\ results[task[w]] = NoIndex

(* Where the caller is, what it has spawned and what it has answered.      *)
CallerInv ==
  /\ caller = "done" <=> outcome # "pending"
  /\ spawned <= Workers
  /\ caller \in {"call", "serial"} => spawned = 0 /\ error = NoIndex
  /\ caller \in {"serial", "spawn", "join"} => count # 0
  /\ caller = "call" => next = 0
  /\ caller = "serial" => next <= count
  /\ caller = "join" => spawned = Workers

(* Which workers exist.                                                    *)
PoolInv ==
  \A w \in Worker : IF w <= spawned
                    THEN pc[w] # "idle"
                    ELSE pc[w] = "idle" /\ task[w] = NoIndex

(* Claims come from the counter and are never repeated.                    *)
ClaimInv ==
  /\ \A w \in Worker : task[w] # NoIndex => task[w] < next /\ task[w] < count
  /\ \A v, w \in Worker : v # w /\ task[v] # NoIndex => task[v] # task[w]

(* A stored slot holds its own task's result, and that task did not throw. *)
SlotInv ==
  \A i \in Slot : results[i] # NoIndex => results[i] = i /\ i < next /\ i < count /\ i \notin failing

(* No claimed index is lost: it is stored or its worker still holds it.    *)
AccountInv ==
  \A i \in Index : i < next => results[i] = i \/ \E w \in Worker : task[w] = i

(* What a worker's place says of the task it holds.                        *)
WorkerInv ==
  \A w \in Worker :
    /\ pc[w] = "claim" => ~ Unstored(w)
    /\ pc[w] \in {"run", "fail", "record"} => Unstored(w)
    /\ pc[w] \in {"fail", "record", "check", "exit"} /\ Unstored(w) => task[w] \in failing
    /\ pc[w] \in {"check", "exit"} /\ Unstored(w) => failed /\ error # NoIndex
    /\ pc[w] = "exit" => failed \/ next >= count

(* The flag and the error.                                                 *)
ErrorInv ==
  /\ error # NoIndex => error \in failing /\ error <= next
  /\ failed => error # NoIndex \/ \E w \in Worker : pc[w] = "record"
  /\ \A w \in Worker : pc[w] = "record" => failed

(* What the answer, once given, says.                                      *)
AnswerInv ==
  /\ outcome = "value" => failing = {} /\ \A i \in Index : results[i] = i
  /\ outcome = "error" => error # NoIndex
  /\ outcome \in {"value", "error"} => \A w \in Worker : pc[w] \in {"idle", "exit"}

IInv ==
  /\ TypeOK
  /\ CallerInv
  /\ PoolInv
  /\ ClaimInv
  /\ SlotInv
  /\ AccountInv
  /\ WorkerInv
  /\ ErrorInv
  /\ AnswerInv

-----------------------------------------------------------------------------
LEMMA InitIInv == Init => IInv
<1> SUFFICES ASSUME Init PROVE IInv
  OBVIOUS
<1> USE ExecutorAssumption DEF Init, Worker, Slot, Index, NoIndex, Workers
<1>1. TypeOK
  <2>1. /\ failing \in SUBSET Index
        /\ count \in 0 .. MaxCount
        /\ threads \in 1 .. MaxThreads
        /\ spawned \in 0 .. MaxThreads
        /\ next \in Nat /\ late \in Nat
    OBVIOUS
  <2>2. /\ caller \in {"call", "serial", "spawn", "join", "done"}
        /\ outcome \in {"pending", "value", "error", "refused", "died"}
        /\ failed \in BOOLEAN
        /\ error \in Slot \cup {NoIndex}
    OBVIOUS
  <2>3. pc \in [Worker -> {"idle", "check", "claim", "run", "fail", "record", "exit"}]
    OBVIOUS
  <2>4. task \in [Worker -> Slot \cup {NoIndex}] /\ results \in [Slot -> Slot \cup {NoIndex}]
    OBVIOUS
  <2> QED
    BY <2>1, <2>2, <2>3, <2>4 DEF TypeOK
<1>2. CallerInv
  BY DEF CallerInv
<1>3. PoolInv /\ ClaimInv /\ SlotInv /\ AccountInv /\ ErrorInv /\ AnswerInv
  BY DEF PoolInv, ClaimInv, SlotInv, AccountInv, ErrorInv, AnswerInv
<1>4. WorkerInv
  BY DEF WorkerInv, Unstored
<1> QED
  BY <1>1, <1>2, <1>3, <1>4 DEF IInv

LEMMA StepIInv == IInv /\ [Next]_vars => IInv'
<1> SUFFICES ASSUME IInv, [Next]_vars PROVE IInv'
  OBVIOUS
<1> USE ExecutorAssumption DEF Worker, Slot, Index, NoIndex, Workers, Live, Goto, inputs, shared, IInv
<1>1. CASE Call
  <2>1. CallerInv'
    BY <1>1 DEF Call, CallerInv, TypeOK
  <2>2. AnswerInv'
    BY <1>1 DEF Call, AnswerInv, TypeOK, CallerInv, PoolInv
  <2>3. TypeOK' /\ PoolInv' /\ ClaimInv' /\ SlotInv' /\ AccountInv' /\ WorkerInv' /\ ErrorInv'
    BY <1>1 DEF Call, TypeOK, PoolInv, ClaimInv, SlotInv, AccountInv, WorkerInv, ErrorInv, Unstored
  <2> QED
    BY <2>1, <2>2, <2>3
<1>2. CASE SerialStep
  <2>1. CallerInv'
    BY <1>2 DEF SerialStep, CallerInv, TypeOK
  <2>2. ClaimInv'
    BY <1>2 DEF SerialStep, ClaimInv, TypeOK
  <2>3. SlotInv'
    BY <1>2 DEF SerialStep, SlotInv, TypeOK
  <2>4. AccountInv'
    BY <1>2 DEF SerialStep, AccountInv, TypeOK
  <2>5. WorkerInv'
    BY <1>2 DEF SerialStep, WorkerInv, TypeOK, CallerInv, PoolInv, Unstored
  <2>6. ErrorInv'
    BY <1>2 DEF SerialStep, ErrorInv, TypeOK
  <2>7. TypeOK' /\ PoolInv' /\ AnswerInv'
    BY <1>2 DEF SerialStep, TypeOK, PoolInv, AnswerInv
  <2> QED
    BY <2>1, <2>2, <2>3, <2>4, <2>5, <2>6, <2>7
<1>3. CASE SerialRaise
  <2>1. WorkerInv'
    BY <1>3 DEF SerialRaise, WorkerInv, TypeOK, Unstored
  <2>2. ErrorInv'
    BY <1>3 DEF SerialRaise, ErrorInv, TypeOK
  <2>3. AnswerInv'
    BY <1>3 DEF SerialRaise, AnswerInv, TypeOK, CallerInv, PoolInv
  <2>4. TypeOK' /\ CallerInv' /\ PoolInv' /\ ClaimInv' /\ SlotInv' /\ AccountInv'
    BY <1>3 DEF SerialRaise, TypeOK, CallerInv, PoolInv, ClaimInv, SlotInv, AccountInv
  <2> QED
    BY <2>1, <2>2, <2>3, <2>4
<1>4. CASE SerialReturn
  <2>1. AnswerInv'
    BY <1>4 DEF SerialReturn, AnswerInv, TypeOK, CallerInv, PoolInv, SlotInv, AccountInv
  <2>2. TypeOK' /\ CallerInv' /\ PoolInv' /\ ClaimInv' /\ SlotInv' /\ AccountInv' /\ WorkerInv' /\ ErrorInv'
    BY <1>4 DEF SerialReturn, TypeOK, CallerInv, PoolInv, ClaimInv, SlotInv, AccountInv, WorkerInv, ErrorInv, Unstored
  <2> QED
    BY <2>1, <2>2
<1>5. CASE Spawn
  <2>1. CallerInv'
    BY <1>5 DEF Spawn, CallerInv, TypeOK
  <2>2. PoolInv'
    BY <1>5 DEF Spawn, PoolInv, TypeOK
  <2>3. WorkerInv'
    BY <1>5 DEF Spawn, WorkerInv, TypeOK, CallerInv, PoolInv, Unstored
  <2>4. ErrorInv'
    BY <1>5 DEF Spawn, ErrorInv, TypeOK, CallerInv, PoolInv
  <2>5. AnswerInv'
    BY <1>5 DEF Spawn, AnswerInv, TypeOK, CallerInv
  <2>6. TypeOK' /\ ClaimInv' /\ SlotInv' /\ AccountInv'
    BY <1>5 DEF Spawn, TypeOK, ClaimInv, SlotInv, AccountInv
  <2> QED
    BY <2>1, <2>2, <2>3, <2>4, <2>5, <2>6
<1>6. CASE SpawnThrows
  BY <1>6 DEF SpawnThrows, TypeOK, CallerInv, PoolInv, ClaimInv, SlotInv, AccountInv, WorkerInv, ErrorInv, AnswerInv, Unstored
<1>7. CASE StartJoin
  BY <1>7 DEF StartJoin, TypeOK, CallerInv, PoolInv, ClaimInv, SlotInv, AccountInv, WorkerInv, ErrorInv, AnswerInv, Unstored
<1>8. CASE Join
  <2>1. AnswerInv'
    BY <1>8 DEF Join, AnswerInv, TypeOK, CallerInv, PoolInv, SlotInv, AccountInv, WorkerInv, ErrorInv, Unstored
  <2>2. TypeOK' /\ CallerInv' /\ PoolInv' /\ ClaimInv' /\ SlotInv' /\ AccountInv' /\ WorkerInv' /\ ErrorInv'
    BY <1>8 DEF Join, TypeOK, CallerInv, PoolInv, ClaimInv, SlotInv, AccountInv, WorkerInv, ErrorInv, Unstored
  <2> QED
    BY <2>1, <2>2
<1>9. ASSUME NEW self \in Worker, CheckFailed(self) PROVE IInv'
  BY <1>9 DEF CheckFailed, TypeOK, CallerInv, PoolInv, ClaimInv, SlotInv, AccountInv, WorkerInv, ErrorInv, AnswerInv, Unstored
<1>10. ASSUME NEW self \in Worker, Claim(self) PROVE IInv'
  <2>1. TypeOK'
    <3>1. CASE next >= count
      BY <1>10, <3>1 DEF Claim, TypeOK
    <3>2. CASE next < count
      <4>1. next \in Slot
        BY <3>2 DEF TypeOK
      <4>2. task' = [task EXCEPT ![self] = next] /\ pc' = [pc EXCEPT ![self] = "run"]
        BY <1>10, <3>2 DEF Claim, TypeOK
      <4>3. task' \in [Worker -> Slot \cup {NoIndex}]
        BY <4>1, <4>2 DEF TypeOK
      <4> QED
        BY <1>10, <4>2, <4>3 DEF Claim, TypeOK
    <3> QED
      BY <3>1, <3>2 DEF TypeOK
  <2>2. PoolInv'
    BY <1>10 DEF Claim, PoolInv, TypeOK
  <2>3. ClaimInv'
    BY <1>10 DEF Claim, ClaimInv, TypeOK
  <2>4. SlotInv'
    BY <1>10 DEF Claim, SlotInv, TypeOK
  <2>5. AccountInv'
    <3>1. CASE next >= count
      BY <1>10, <3>1 DEF AccountInv, Claim, TypeOK
    <3>2. CASE next < count
      <4> SUFFICES ASSUME NEW i \in Index, i < next + 1
                   PROVE  results[i] = i \/ \E w \in Worker : task'[w] = i
        BY <1>10, <3>2 DEF AccountInv, Claim, TypeOK
      <4>1. task' = [task EXCEPT ![self] = next]
        BY <1>10, <3>2 DEF Claim, TypeOK
      <4>2. CASE i = next
        BY <4>1, <4>2 DEF TypeOK
      <4>3. ASSUME i < next, NEW w \in Worker, task[w] = i
            PROVE  results[i] = i \/ task'[w] = i
        <5>1. i \in Slot /\ i # NoIndex
          BY DEF TypeOK
        <5>2. w = self => results[i] # NoIndex
          BY <1>10, <4>3, <5>1 DEF Claim, WorkerInv, Unstored
        <5> QED
          BY <4>1, <4>3, <5>1, <5>2 DEF SlotInv, TypeOK
      <4> QED
        BY <4>2, <4>3 DEF AccountInv, TypeOK
    <3> QED
      BY <3>1, <3>2 DEF TypeOK
  <2>6. WorkerInv'
    BY <1>10 DEF Claim, WorkerInv, TypeOK, ClaimInv, SlotInv, ErrorInv, Unstored
  <2>7. ErrorInv'
    BY <1>10 DEF Claim, ErrorInv, TypeOK
  <2>8. CallerInv' /\ AnswerInv'
    BY <1>10 DEF Claim, CallerInv, AnswerInv
  <2> QED
    BY <2>1, <2>2, <2>3, <2>4, <2>5, <2>6, <2>7, <2>8
<1>11. ASSUME NEW self \in Worker, RunTask(self) PROVE IInv'
  <2>1. TypeOK'
    <3>1. task[self] \in Slot
      BY <1>11 DEF RunTask, WorkerInv, Unstored, TypeOK
    <3>2. results' \in [Slot -> Slot \cup {NoIndex}]
      BY <1>11, <3>1 DEF RunTask, TypeOK
    <3> QED
      BY <1>11, <3>2 DEF RunTask, TypeOK
  <2>2. PoolInv'
    BY <1>11 DEF RunTask, PoolInv, TypeOK
  <2>3. SlotInv'
    BY <1>11 DEF RunTask, SlotInv, TypeOK, ClaimInv, WorkerInv, Unstored
  <2>4. AccountInv'
    BY <1>11 DEF RunTask, AccountInv, TypeOK
  <2>5. WorkerInv'
    BY <1>11 DEF RunTask, WorkerInv, TypeOK, ClaimInv, Unstored
  <2>6. ErrorInv'
    BY <1>11 DEF RunTask, ErrorInv, TypeOK
  <2>7. CallerInv' /\ ClaimInv' /\ AnswerInv'
    BY <1>11 DEF RunTask, CallerInv, ClaimInv, AnswerInv
  <2> QED
    BY <2>1, <2>2, <2>3, <2>4, <2>5, <2>6, <2>7
<1>12. ASSUME NEW self \in Worker, StoreFailed(self) PROVE IInv'
  <2>1. ErrorInv'
    BY <1>12 DEF StoreFailed, ErrorInv, TypeOK
  <2>2. TypeOK' /\ CallerInv' /\ PoolInv' /\ ClaimInv' /\ SlotInv' /\ AccountInv' /\ WorkerInv' /\ AnswerInv'
    BY <1>12 DEF StoreFailed, TypeOK, CallerInv, PoolInv, ClaimInv, SlotInv, AccountInv, WorkerInv, AnswerInv, Unstored
  <2> QED
    BY <2>1, <2>2
<1>13. ASSUME NEW self \in Worker, RecordError(self) PROVE IInv'
  <2>1. WorkerInv'
    BY <1>13 DEF RecordError, WorkerInv, TypeOK, ClaimInv, SlotInv, ErrorInv, Unstored
  <2>2. ErrorInv'
    BY <1>13 DEF RecordError, ErrorInv, TypeOK, ClaimInv, WorkerInv, Unstored
  <2>3. TypeOK' /\ CallerInv' /\ PoolInv' /\ ClaimInv' /\ SlotInv' /\ AccountInv' /\ AnswerInv'
    BY <1>13 DEF RecordError, TypeOK, CallerInv, PoolInv, ClaimInv, SlotInv, AccountInv, AnswerInv
  <2> QED
    BY <2>1, <2>2, <2>3
<1>14. CASE UNCHANGED vars
  BY <1>14 DEF vars, TypeOK, CallerInv, PoolInv, ClaimInv, SlotInv, AccountInv, WorkerInv, ErrorInv, AnswerInv, Unstored
<1> QED
  BY <1>1, <1>2, <1>3, <1>4, <1>5, <1>6, <1>7, <1>8, <1>9, <1>10, <1>11, <1>12, <1>13, <1>14 DEF Next, Caller, WorkerStep

(* The inductive invariant holds of every call.                            *)
THEOREM ExecutorInvariant == Spec => []IInv
<1> QED
  BY InitIInv, StepIInv, PTL DEF Spec

(* Type correctness, for every number of threads and tasks.                *)
THEOREM ExecutorTypeOK == Spec => []TypeOK
<1>1. IInv => TypeOK
  BY DEF IInv
<1> QED
  BY <1>1, ExecutorInvariant, PTL

(* No task is ever held by two workers or evaluated after it was stored.   *)
THEOREM ExecutorClaimsExclusive == Spec => []ClaimsExclusive
<1>1. IInv => ClaimsExclusive
  BY DEF IInv, TypeOK, ClaimInv, WorkerInv, Unstored, ClaimsExclusive
<1> QED
  BY <1>1, ExecutorInvariant, PTL

(* A rethrown error is a failing task's, and every task below the first    *)
(* failing one has been evaluated and stored, as a serial run would have.  *)
THEOREM ExecutorSerialFailureSeen == Spec => []SerialFailureSeen
<1>1. IInv => SerialFailureSeen
  <2> SUFFICES ASSUME IInv, outcome = "error",
                      NEW i \in Index, \A j \in failing : i < j
               PROVE  error \in failing /\ results[i] = i
    BY DEF IInv, SerialFailureSeen, AnswerInv, ErrorInv
  <2>1. error \in failing /\ error <= next
    BY DEF IInv, AnswerInv, ErrorInv
  <2>2. i < next
    BY <2>1 DEF IInv, TypeOK, Index
  <2>3. results[i] = i \/ \E w \in Worker : task[w] = i
    BY <2>2 DEF IInv, AccountInv
  <2>4. ASSUME NEW w \in Worker, task[w] = i, results[i] # i
        PROVE  FALSE
    <3>1. i \in Slot /\ i # NoIndex /\ i \notin failing
      <4>1. i \in Int /\ 0 <= i /\ i < count /\ count <= MaxCount /\ count \in Int
        BY DEF IInv, TypeOK, Index
      <4> QED
        BY <4>1, ExecutorAssumption DEF Slot, NoIndex
    <3>2. results[i] = NoIndex
      BY <2>4, <3>1 DEF IInv, SlotInv
    <3>3. pc[w] = "exit"
      BY <2>4, <3>1 DEF IInv, AnswerInv, PoolInv
    <3> QED
      BY <2>4, <3>1, <3>2, <3>3 DEF IInv, WorkerInv, Unstored
  <2> QED
    BY <2>1, <2>3, <2>4
<1> QED
  BY <1>1, ExecutorInvariant, PTL

-----------------------------------------------------------------------------
(* The workers that have read the flag before it was stored, and may still *)
(* claim: each late claim takes one out of the set, and the worker whose   *)
(* failure stored the flag is never in it.                                 *)
MayClaim == {w \in Worker : pc[w] = "claim"}

LateInv ==
  /\ ~ failed => late = 0
  /\ failed => late + Cardinality(MayClaim) < Workers

LEMMA MayClaimFinite == IsFiniteSet(MayClaim) /\ Cardinality(MayClaim) \in Nat
<1>1. IsFiniteSet(Worker)
  BY FS_Interval, ExecutorAssumption DEF Worker
<1>2. MayClaim \in SUBSET Worker
  BY DEF MayClaim
<1>3. IsFiniteSet(MayClaim)
  BY <1>1, <1>2, FS_Subset
<1> QED
  BY <1>3, FS_CardinalityType

(* A worker elsewhere leaves room among the workers that may claim.        *)
LEMMA FailedWorkerClaimsNoMore ==
  ASSUME IInv, NEW w \in 1 .. spawned, pc[w] # "claim"
  PROVE  Cardinality(MayClaim) < Workers
<1>1. spawned \in Nat /\ spawned <= Workers /\ Workers \in Nat /\ MaxThreads \in Nat
  BY ExecutorAssumption DEF IInv, TypeOK, CallerInv, Workers
<1>2. MayClaim \in SUBSET ((1 .. spawned) \ {w})
  BY <1>1 DEF IInv, PoolInv, MayClaim, Worker
<1>3. IsFiniteSet(1 .. spawned) /\ Cardinality(1 .. spawned) = spawned
  BY <1>1, FS_Interval
<1>4. /\ IsFiniteSet((1 .. spawned) \ {w})
      /\ Cardinality((1 .. spawned) \ {w}) = spawned - 1
  BY <1>3, FS_RemoveElement
<1>5. Cardinality(MayClaim) <= Cardinality((1 .. spawned) \ {w})
  BY <1>2, <1>4, FS_Subset
<1> QED
  BY <1>1, <1>4, <1>5, MayClaimFinite

LEMMA StepLateInv == IInv /\ LateInv /\ [Next]_vars => LateInv'
<1> SUFFICES ASSUME IInv, LateInv, [Next]_vars PROVE LateInv'
  OBVIOUS
<1> USE DEF inputs, shared, Goto
<1>1. /\ late \in Nat /\ Workers \in Nat /\ failed \in BOOLEAN
      /\ pc \in [Worker -> {"idle", "check", "claim", "run", "fail", "record", "exit"}]
  BY DEF IInv, TypeOK, Workers
<1>2. ASSUME UNCHANGED <<threads, count, failed, late>>, MayClaim' \subseteq MayClaim
      PROVE  LateInv'
  <2>1. Cardinality(MayClaim') <= Cardinality(MayClaim) /\ Cardinality(MayClaim') \in Nat
    BY <1>2, MayClaimFinite, FS_Subset, FS_CardinalityType
  <2> QED
    BY <1>1, <1>2, <2>1, MayClaimFinite DEF LateInv, Workers
<1>3. CASE Caller
  <2>1. UNCHANGED <<threads, count, failed, late>>
    BY <1>3 DEF Caller, Call, SerialStep, SerialRaise, SerialReturn, Spawn, SpawnThrows,
                StartJoin, Join
  <2>2. CASE Spawn
    BY <1>1, <1>2, <2>1, <2>2 DEF Spawn, MayClaim
  <2>3. CASE ~ Spawn
    BY <1>2, <1>3, <2>1, <2>3 DEF Caller, Call, SerialStep, SerialRaise, SerialReturn,
                SpawnThrows, StartJoin, Join, MayClaim
  <2> QED
    BY <2>2, <2>3
<1>4. ASSUME NEW w \in Worker, CheckFailed(w)
      PROVE  LateInv'
  <2>1. CASE failed
    <3>1. MayClaim' \subseteq MayClaim
      BY <1>1, <1>4, <2>1 DEF CheckFailed, MayClaim
    <3> QED
      BY <1>2, <1>4, <3>1 DEF CheckFailed
  <2>2. CASE ~ failed
    BY <1>4, <2>2 DEF CheckFailed, LateInv
  <2> QED
    BY <2>1, <2>2
<1>5. ASSUME NEW w \in Worker, Claim(w)
      PROVE  LateInv'
  <2>1. CASE failed /\ next < count
    <3>1. late' = late + 1 /\ UNCHANGED <<threads, count, failed>> /\ pc[w] = "claim"
          /\ pc' = [pc EXCEPT ![w] = "run"]
      BY <1>5, <2>1 DEF Claim, IInv, TypeOK
    <3>2. MayClaim' = MayClaim \ {w} /\ w \in MayClaim
      BY <1>1, <3>1 DEF MayClaim
    <3>3. Cardinality(MayClaim') = Cardinality(MayClaim) - 1
      BY <3>2, MayClaimFinite, FS_RemoveElement
    <3> QED
      BY <1>1, <2>1, <3>1, <3>3, MayClaimFinite DEF LateInv, Workers
  <2>2. CASE ~ (failed /\ next < count)
    <3>1. MayClaim' \subseteq MayClaim
      BY <1>1, <1>5 DEF Claim, MayClaim
    <3>2. UNCHANGED <<threads, count, failed, late>>
      BY <1>5, <2>2 DEF Claim, IInv, TypeOK
    <3> QED
      BY <1>2, <3>1, <3>2
  <2> QED
    BY <2>1, <2>2
<1>6. ASSUME NEW w \in Worker, RunTask(w) \/ RecordError(w)
      PROVE  LateInv'
  <2>1. MayClaim' \subseteq MayClaim
    BY <1>1, <1>6 DEF RunTask, RecordError, MayClaim
  <2> QED
    BY <1>2, <1>6, <2>1 DEF RunTask, RecordError
<1>7. ASSUME NEW w \in Worker, StoreFailed(w)
      PROVE  LateInv'
  <2>1. MayClaim' = MayClaim /\ UNCHANGED <<threads, count, late>> /\ failed'
    BY <1>1, <1>7 DEF StoreFailed, MayClaim
  <2>2. CASE failed
    BY <1>1, <2>1, <2>2 DEF LateInv, Workers
  <2>3. CASE ~ failed
    <3>1. w \in 1 .. spawned /\ pc[w] # "claim"
      BY <1>7 DEF StoreFailed, Live, Worker, IInv, TypeOK
    <3>2. Cardinality(MayClaim) < Workers /\ late = 0
      BY <2>3, <3>1, FailedWorkerClaimsNoMore DEF LateInv
    <3> QED
      BY <1>1, <2>1, <3>2, MayClaimFinite DEF LateInv, Workers
  <2> QED
    BY <2>2, <2>3
<1>8. CASE UNCHANGED vars
  BY <1>2, <1>8 DEF vars, MayClaim
<1> QED
  BY <1>3, <1>4, <1>5, <1>6, <1>7, <1>8 DEF Next, WorkerStep

(* After the flag is stored fewer tasks are claimed than there are         *)
(* workers, however many tasks are left.                                   *)
THEOREM ExecutorCancellationBounded == Spec => []CancellationBounded
<1>1. Init => LateInv
  BY DEF Init, LateInv
<1>2. IInv /\ LateInv => CancellationBounded
  <2>1. IInv => late \in Nat /\ Workers \in Nat /\ failed \in BOOLEAN
    BY DEF IInv, TypeOK, Workers
  <2> QED
    BY <2>1, MayClaimFinite DEF LateInv, CancellationBounded
<1> QED
  BY <1>1, <1>2, StepLateInv, ExecutorInvariant, PTL DEF Spec

-----------------------------------------------------------------------------
(* A step that gives no answer leaves the abstract state as it is.         *)
LEMMA SilentStep ==
  ASSUME UNCHANGED <<count, failing, outcome>>, outcome = "pending"
  PROVE  UNCHANGED Abstract!mapVars
BY DEF Abstract!mapVars, Answer

(* Every step that answers is the abstract map's own answer.               *)
LEMMA AnsweringStep == IInv /\ Next => [Abstract!Next]_(Abstract!mapVars)
<1> SUFFICES ASSUME IInv, Next PROVE [Abstract!Next]_(Abstract!mapVars)
  OBVIOUS
<1> USE DEF Index, inputs, shared, Abstract!Pending, Abstract!Refused, Abstract!Died,
            Abstract!Value, Abstract!Error, Abstract!Identity, Abstract!Index
<1>1. CASE Call
  <2>1. CASE count = 0
    <3>1. failing = {} /\ Answer = Abstract!Pending
      BY <1>1, <2>1 DEF IInv, TypeOK, CallerInv, Call, Answer
    <3>2. Answer' = Abstract!Value(Abstract!Identity)
      BY <1>1, <2>1 DEF Call, Answer
    <3> QED
      BY <1>1, <3>1, <3>2 DEF Call, Abstract!Return, Abstract!Next
  <2>2. CASE count # 0
    BY <1>1, <2>2, SilentStep DEF Call, IInv, CallerInv
  <2> QED
    BY <2>1, <2>2
<1>2. CASE SerialReturn \/ (Join /\ error = NoIndex)
  <2>1. Answer = Abstract!Pending /\ outcome' = "value" /\ UNCHANGED <<count, failing>>
    BY <1>2 DEF IInv, CallerInv, SerialReturn, Join, Answer
  <2>2. failing = {} /\ \A i \in Index : results'[i] = i
    BY <1>2, StepIInv, <2>1 DEF Next, Caller, IInv, AnswerInv
  <2>3. Answer' = Abstract!Value(Abstract!Identity)
    BY <2>1, <2>2 DEF Answer
  <2> QED
    BY <2>1, <2>2, <2>3 DEF Abstract!Return, Abstract!Next
<1>3. CASE SerialRaise \/ (Join /\ error # NoIndex)
  <2>1. Answer = Abstract!Pending /\ outcome' = "error" /\ UNCHANGED <<count, failing>>
    BY <1>3 DEF IInv, CallerInv, SerialRaise, Join, Answer
  <2>2. error' \in failing
    BY <1>3, <2>1 DEF IInv, ErrorInv, SerialRaise, Join
  <2>3. Answer' = Abstract!Error(error')
    BY <2>1 DEF Answer
  <2> QED
    BY <2>1, <2>2, <2>3 DEF Abstract!Raise, Abstract!Next
<1>4. CASE SpawnThrows
  BY <1>4 DEF IInv, CallerInv, SpawnThrows, Answer, Abstract!Abandon, Abstract!Next
<1>5. CASE SerialStep \/ Spawn \/ StartJoin
  BY <1>5, SilentStep DEF SerialStep, Spawn, StartJoin, IInv, CallerInv
<1>6. ASSUME NEW w \in Worker, WorkerStep(w)
      PROVE  UNCHANGED Abstract!mapVars
  BY <1>6, SilentStep DEF WorkerStep, CheckFailed, Claim, RunTask, StoreFailed, RecordError, Live
<1>7. CASE Caller
  BY <1>1, <1>2, <1>3, <1>4, <1>5, <1>7 DEF Caller
<1> QED
  BY <1>6, <1>7 DEF Next

(* The executor implements the abstract indexed map.                       *)
THEOREM ExecutorRefinesIndexedMap == Spec => ImplementsIndexedMap
<1>1. Init => Abstract!Init
  BY DEF Init, Abstract!Init, Abstract!Pending, Answer
<1>2. IInv /\ [Next]_vars => [Abstract!Next]_(Abstract!mapVars)
  <2>1. UNCHANGED vars => UNCHANGED Abstract!mapVars
    BY DEF vars, inputs, shared, Abstract!mapVars, Answer, Index
  <2> QED
    BY <2>1, AnsweringStep
<1> QED
  BY <1>1, <1>2, ExecutorInvariant, PTL DEF Spec, ImplementsIndexedMap, Abstract!Spec
=============================================================================
