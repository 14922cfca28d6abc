----------------------- MODULE DeterministicExecutor -----------------------
(***************************************************************************)
(* quant::performance::DeterministicExecutor::map, the only concurrent     *)
(* code of the backtester.  The calling thread either evaluates the tasks  *)
(* itself, in order, or spawns workers that claim task indices from an     *)
(* atomic counter, store results by index and stop at the first failure    *)
(* they see; then it joins them and returns the results or rethrows.       *)
(*                                                                         *)
(* A worker's step is one access to shared memory: the load of `failed`,   *)
(* the fetch_add on `next`, the evaluation of a task with the store of its *)
(* slot (nobody else reads or writes it before the join), the store of     *)
(* `failed`, and the critical section of error_mutex, which is one         *)
(* test-and-set.  std::thread's constructor may throw: nothing catches it  *)
(* while the pool still holds joinable threads, so the process terminates. *)
(***************************************************************************)
EXTENDS Integers, FiniteSets

CONSTANTS
  MaxThreads,  \* the bound effective_threads puts on the worker count
  MaxCount     \* the largest number of tasks of a call

ASSUME ExecutorAssumption ==
  /\ MaxThreads \in Nat \ {0}
  /\ MaxCount \in Nat

VARIABLES
  threads,  \* threads_: 1 in serial mode
  count,    \* the number of tasks
  failing,  \* the indices on which the task function throws
  caller,   \* where the calling thread is
  spawned,  \* how many workers are in the pool
  next,     \* the shared counter; in serial mode, the loop's index
  failed,   \* the shared cancellation flag
  error,    \* the index whose exception is held, or NoIndex
  pc,       \* where each worker is
  task,     \* the index each worker has claimed last
  results,  \* slot -> index of the task whose result it holds, or NoIndex
  outcome,  \* pending, value, error, refused (no thread), died (terminate)
  late      \* history: claims made after `failed` was stored

inputs == <<threads, count, failing>>
shared == <<next, failed, error, results>>
vars == <<inputs, caller, spawned, shared, pc, task, outcome, late>>

Worker  == 1 .. MaxThreads
NoIndex == -1
Index   == 0 .. count - 1

(* What one slot of `results` may hold, and which slots there can be.      *)
Slot == 0 .. MaxCount - 1

Workers == IF threads < count THEN threads ELSE count

Live(w) == w <= spawned /\ outcome = "pending"

TypeOK ==
  /\ threads \in 1 .. MaxThreads
  /\ count \in 0 .. MaxCount
  /\ failing \in SUBSET Index
  /\ caller \in {"call", "serial", "spawn", "join", "done"}
  /\ spawned \in 0 .. MaxThreads
  /\ next \in Nat
  /\ failed \in BOOLEAN
  /\ error \in Slot \cup {NoIndex}
  /\ pc \in [Worker -> {"idle", "check", "claim", "run", "fail", "record", "exit"}]
  /\ task \in [Worker -> Slot \cup {NoIndex}]
  /\ results \in [Slot -> Slot \cup {NoIndex}]
  /\ outcome \in {"pending", "value", "error", "refused", "died"}
  /\ late \in Nat

Init ==
  /\ threads \in 1 .. MaxThreads
  /\ count \in 0 .. MaxCount
  /\ failing \in SUBSET (0 .. count - 1)
  /\ caller = "call"
  /\ spawned = 0
  /\ next = 0
  /\ failed = FALSE
  /\ error = NoIndex
  /\ pc = [w \in Worker |-> "idle"]
  /\ task = [w \in Worker |-> NoIndex]
  /\ results = [i \in Slot |-> NoIndex]
  /\ outcome = "pending"
  /\ late = 0

-----------------------------------------------------------------------------
(* The calling thread *)

(* results(count) is allocated; nothing to do, one thread or one task go   *)
(* the serial way, everything else spawns a pool.                          *)
Call ==
  /\ caller = "call"
  /\ IF count = 0
     THEN caller' = "done" /\ outcome' = "value"
     ELSE /\ caller' = IF threads = 1 \/ count = 1 THEN "serial" ELSE "spawn"
          /\ UNCHANGED outcome
  /\ UNCHANGED <<inputs, spawned, shared, pc, task, late>>

SerialStep ==
  /\ caller = "serial"
  /\ next \in Index \ failing
  /\ results' = [results EXCEPT ![next] = next]
  /\ next' = next + 1
  /\ UNCHANGED <<inputs, caller, spawned, failed, error, pc, task, outcome, late>>

(* The exception leaves map at the first failing index.                    *)
SerialRaise ==
  /\ caller = "serial"
  /\ next \in failing
  /\ error' = next
  /\ outcome' = "error"
  /\ caller' = "done"
  /\ UNCHANGED <<inputs, spawned, next, failed, results, pc, task, late>>

SerialReturn ==
  /\ caller = "serial"
  /\ next = count
  /\ outcome' = "value"
  /\ caller' = "done"
  /\ UNCHANGED <<inputs, spawned, shared, pc, task, late>>

(* Mutant of Spawn: the loop runs to worker <= workers.                    *)
SpawnOneMore ==
  /\ caller = "spawn"
  /\ spawned <= Workers
  /\ spawned' = spawned + 1
  /\ pc' = [pc EXCEPT ![spawned + 1] = "check"]
  /\ UNCHANGED <<inputs, caller, shared, task, outcome, late>>

Spawn ==
  /\ caller = "spawn"
  /\ spawned < Workers
  /\ spawned' = spawned + 1
  /\ pc' = [pc EXCEPT ![spawned + 1] = "check"]
  /\ UNCHANGED <<inputs, caller, shared, task, outcome, late>>

(* emplace_back throws std::system_error.  Unwinding destroys the pool: an *)
(* empty one lets the exception out, and the destructor of a joinable      *)
(* thread calls std::terminate.                                            *)
SpawnThrows ==
  /\ caller = "spawn"
  /\ spawned < Workers
  /\ outcome' = IF spawned = 0 THEN "refused" ELSE "died"
  /\ caller' = "done"
  /\ UNCHANGED <<inputs, spawned, shared, pc, task, late>>

StartJoin ==
  /\ caller = "spawn"
  /\ spawned = Workers
  /\ caller' = "join"
  /\ UNCHANGED <<inputs, spawned, shared, pc, task, outcome, late>>

(* Mutant of Join: rethrow as soon as an error is held.                    *)
JoinOnlyIfNoError ==
  /\ caller = "join"
  /\ error # NoIndex \/ \A w \in 1 .. spawned : pc[w] = "exit"
  /\ outcome' = IF error = NoIndex THEN "value" ELSE "error"
  /\ caller' = "done"
  /\ UNCHANGED <<inputs, spawned, shared, pc, task, late>>

(* The joins return in pool order; together they wait for every worker.    *)
Join ==
  /\ caller = "join"
  /\ \A w \in 1 .. spawned : pc[w] = "exit"
  /\ outcome' = IF error = NoIndex THEN "value" ELSE "error"
  /\ caller' = "done"
  /\ UNCHANGED <<inputs, spawned, shared, pc, task, late>>
-----------------------------------------------------------------------------
(* A worker *)

Goto(w, label) == pc' = [pc EXCEPT ![w] = label]

(* Mutant of CheckFailed: the loop does not look at the flag.              *)
NeverCheckFailed(w) ==
  /\ Live(w)
  /\ pc[w] = "check"
  /\ Goto(w, "claim")
  /\ UNCHANGED <<inputs, caller, spawned, shared, task, outcome, late>>

CheckFailed(w) ==
  /\ Live(w)
  /\ pc[w] = "check"
  /\ Goto(w, IF failed THEN "exit" ELSE "claim")
  /\ UNCHANGED <<inputs, caller, spawned, shared, task, outcome, late>>

(* Mutant of Claim: a plain counter, whose increment can be lost.          *)
ClaimNotAtomic(w) ==
  /\ Live(w)
  /\ pc[w] = "claim"
  /\ next' \in {next, next + 1}
  /\ IF next >= count
     THEN /\ Goto(w, "exit")
          /\ UNCHANGED <<task, late>>
     ELSE /\ Goto(w, "run")
          /\ task' = [task EXCEPT ![w] = next]
          /\ late' = IF failed THEN late + 1 ELSE late
  /\ UNCHANGED <<inputs, caller, spawned, failed, error, results, outcome>>

(* next.fetch_add(1): an index of the call, or the end of the work.        *)
Claim(w) ==
  /\ Live(w)
  /\ pc[w] = "claim"
  /\ next' = next + 1
  /\ IF next >= count
     THEN /\ Goto(w, "exit")
          /\ UNCHANGED <<task, late>>
     ELSE /\ Goto(w, "run")
          /\ task' = [task EXCEPT ![w] = next]
          /\ late' = IF failed THEN late + 1 ELSE late
  /\ UNCHANGED <<inputs, caller, spawned, failed, error, results, outcome>>

RunTask(w) ==
  /\ Live(w)
  /\ pc[w] = "run"
  /\ IF task[w] \in failing
     THEN /\ Goto(w, "fail")
          /\ UNCHANGED results
     ELSE /\ Goto(w, "check")
          /\ results' = [results EXCEPT ![task[w]] = task[w]]
  /\ UNCHANGED <<inputs, caller, spawned, next, failed, error, task, outcome, late>>

StoreFailed(w) ==
  /\ Live(w)
  /\ pc[w] = "fail"
  /\ failed' = TRUE
  /\ Goto(w, "record")
  /\ UNCHANGED <<inputs, caller, spawned, next, error, results, task, outcome, late>>

(* Mutant of RecordError: only the first failure gets past the mutex.      *)
RecordFirstErrorOnly(w) ==
  /\ Live(w)
  /\ pc[w] = "record"
  /\ error = NoIndex
  /\ error' = task[w]
  /\ Goto(w, "check")
  /\ UNCHANGED <<inputs, caller, spawned, next, failed, results, task, outcome, late>>

(* Mutant of RecordError: tests the flag it has just stored, not the error. *)
RecordErrorUnlessFailed(w) ==
  /\ Live(w)
  /\ pc[w] = "record"
  /\ error' = IF failed THEN error ELSE task[w]
  /\ Goto(w, "check")
  /\ UNCHANGED <<inputs, caller, spawned, next, failed, results, task, outcome, late>>

(* Under error_mutex: the first error recorded stays.                      *)
RecordError(w) ==
  /\ Live(w)
  /\ pc[w] = "record"
  /\ error' = IF error = NoIndex THEN task[w] ELSE error
  /\ Goto(w, "check")
  /\ UNCHANGED <<inputs, caller, spawned, next, failed, results, task, outcome, late>>

-----------------------------------------------------------------------------
Caller ==
  \/ Call
  \/ SerialStep
  \/ SerialRaise
  \/ SerialReturn
  \/ Spawn
  \/ SpawnThrows
  \/ StartJoin
  \/ Join

WorkerStep(w) ==
  \/ CheckFailed(w)
  \/ Claim(w)
  \/ RunTask(w)
  \/ StoreFailed(w)
  \/ RecordError(w)

Next == Caller \/ \E w \in Worker : WorkerStep(w)

(* The operating system runs every thread, and a task function returns or  *)
(* throws (the simulations it runs are bounded loops over the bars).       *)
Fairness ==
  /\ WF_vars(Caller)
  /\ \A w \in Worker : WF_vars(WorkerStep(w))

Spec == Init /\ [][Next]_vars /\ Fairness

-----------------------------------------------------------------------------
(* Properties *)

(* No two workers ever hold the same task, and a task in a worker's hands  *)
(* has not been stored by anyone: each task is evaluated at most once.     *)
ClaimsExclusive ==
  \A w \in Worker : pc[w] = "run" =>
    /\ results[task[w]] = NoIndex
    /\ \A v \in Worker \ {w} : task[v] # task[w]

Attempted(i) == results[i] # NoIndex \/ \E w \in Worker : task[w] = i

(* When map rethrows, the task a serial run would have failed on has been  *)
(* attempted and has thrown as well, though another one's error may be the *)
(* one reported: no task below the first failing index was skipped.        *)
SerialFailureSeen ==
  outcome = "error" =>
    /\ error \in failing
    /\ \A i \in Index : (\A j \in failing : i < j) => results[i] = i

(* Cancellation is bounded: after the flag is stored, only workers that    *)
(* had loaded it before can claim, one more task each.                     *)
CancellationBounded == late > 0 => late < Workers

(* The call always ends: no worker waits for another one for ever, and the *)
(* flag or the counter stops each of them.                                 *)
Terminates == <>(outcome # "pending")

(* docs/PERFORMANCE.md: the executor "propagates exceptions after joining  *)
(* workers".  No exception of map's own, a thread that cannot be started   *)
(* included, ends the process.                                             *)
ErrorsPropagate == outcome # "died"

-----------------------------------------------------------------------------
(* The answer a caller sees. *)
Answer ==
  CASE outcome = "pending" -> [kind |-> "pending"]
    [] outcome = "value"   -> [kind |-> "value", slots |-> [i \in Index |-> results[i]]]
    [] outcome = "error"   -> [kind |-> "error", index |-> error]
    [] outcome = "refused" -> [kind |-> "refused"]
    [] outcome = "died"    -> [kind |-> "died"]

Abstract == INSTANCE IndexedMap WITH answer <- Answer

(* Every behaviour of the executor is one of the abstract map: an answer   *)
(* with every slot holding its own task's result exactly when no task      *)
(* fails, an error only if a task raised it, and one answer per call.      *)
ImplementsIndexedMap == Abstract!Spec
=============================================================================
