------------------------------- MODULE Waker -------------------------------
(***************************************************************************)
(* What an executor promises the futures it runs, as the contract of       *)
(* std::task::Waker has it: a task is polled once when it is spawned, and  *)
(* after that every call of its waker buys it one more poll, whatever      *)
(* thread calls it and whenever it does, until the task is done.           *)
(*                                                                         *)
(* This module is the abstract specification that Executor implements.     *)
(***************************************************************************)
EXTENDS Naturals

CONSTANT Jobs

VARIABLES phase,   \* "idle", "running", "pending" or "done"
          wakes    \* calls of the waker that no poll has answered yet, by
                   \* numbers that tell them apart

vars == <<phase, wakes>>

Init ==
  /\ phase = [j \in Jobs |-> "idle"]
  /\ wakes = [j \in Jobs |-> {}]

Become(j, from, to) ==
  /\ phase[j] = from
  /\ phase' = [phase EXCEPT ![j] = to]

(* One of the calls is answered. *)
Answer(j) == \E n \in wakes[j] : wakes' = [wakes EXCEPT ![j] = @ \ {n}]

Start(j) == Become(j, "idle", "running") /\ UNCHANGED wakes

Poll(j) == Answer(j) /\ Become(j, "pending", "running")

Suspend(j) == Become(j, "running", "pending") /\ UNCHANGED wakes

(* A task that ends may wake the tasks that wait for its result. *)
Finish(j) ==
  /\ Become(j, "running", "done")
  /\ wakes' \in [Jobs -> SUBSET Nat]
  /\ \A k \in Jobs : wakes[k] \subseteq wakes'[k]

Wake(j) ==
  /\ phase[j] # "idle"
  /\ \E n \in wakes'[j] \ wakes[j] :
       n \in Nat /\ wakes' = [wakes EXCEPT ![j] = @ \cup {n}]
  /\ UNCHANGED phase

(* A wake may be dropped only when there is nothing left to poll. *)
Discard(j) == phase[j] = "done" /\ Answer(j) /\ UNCHANGED phase

Next ==
  \E j \in Jobs : \/ Start(j) \/ Poll(j) \/ Suspend(j) \/ Finish(j)
                  \/ Wake(j) \/ Discard(j)

(* What may happen, and that a pending wake is answered in the end. *)
Safety == Init /\ [][Next]_vars

Spec == Safety /\ \A j \in Jobs : WF_vars(Poll(j))
=============================================================================
