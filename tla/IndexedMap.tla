----------------------------- MODULE IndexedMap -----------------------------
(***************************************************************************)
(* What the callers of DeterministicExecutor::map (SelectionRiskAnalyzer)  *)
(* rely on: one answer, in which slot i holds what the task of index i     *)
(* returned, whatever the number of threads; or one error, which some task *)
(* really raised.  A call may also be abandoned for want of threads.       *)
(*                                                                         *)
(* A slot holds the index of the task whose result is stored in it, so a   *)
(* correct answer is the identity on its indices.                          *)
(***************************************************************************)
EXTENDS Naturals

CONSTANT MaxCount   \* the largest number of tasks of a call

VARIABLES
  count,    \* the number of tasks, map's first argument
  failing,  \* the indices on which the task function throws
  answer    \* what the call has produced so far

mapVars == <<count, failing, answer>>

Pending        == [kind |-> "pending"]
Refused        == [kind |-> "refused"]   \* no worker could be started
Died           == [kind |-> "died"]      \* std::terminate
Value(slots)   == [kind |-> "value", slots |-> slots]
Error(index)   == [kind |-> "error", index |-> index]

Index == 0 .. count - 1

Identity == [i \in Index |-> i]

Init ==
  /\ count \in 0 .. MaxCount
  /\ failing \in SUBSET (0 .. count - 1)
  /\ answer = Pending

Return ==
  /\ answer = Pending
  /\ failing = {}
  /\ answer' = Value(Identity)
  /\ UNCHANGED <<count, failing>>

Raise ==
  /\ answer = Pending
  /\ \E i \in failing : answer' = Error(i)
  /\ UNCHANGED <<count, failing>>

Abandon ==
  /\ answer = Pending
  /\ answer' \in {Refused, Died}
  /\ UNCHANGED <<count, failing>>

Next == Return \/ Raise \/ Abandon

Spec == Init /\ [][Next]_mapVars
=============================================================================
