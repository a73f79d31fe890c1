---------------------------- MODULE Notification ----------------------------
(***************************************************************************)
(* The notifications of src/sync.rs: one atomic word that holds UNINIT,    *)
(* READY, or the token of the waiting task.  Each waiter is awaited by a   *)
(* task of its own on the executor's thread; each sender may be on any     *)
(* other thread, and a load and the store after it are two steps.          *)
(***************************************************************************)
EXTENDS Naturals

CONSTANTS Pairs,             \* the pairs of sender and waiter
          MaxSpuriousPolls   \* bound: polls of a waiter without its wake

ASSUME NotificationAssumption == MaxSpuriousPolls \in Nat

VARIABLES state,           \* the word: "UNINIT", "READY" or "token"
          sender,          \* where each sender is
          waiter,          \* where each waiter is
          waiter_wakes,    \* wakes of each waiter's task in WAKE_QUEUE
          spurious_polls   \* how many polls came without a wake

nfVars == <<state, sender, waiter, waiter_wakes, spurious_polls>>

NfInit ==
  /\ state = [n \in Pairs |-> "UNINIT"]
  /\ sender = [n \in Pairs |-> "owned"]
  /\ waiter = [n \in Pairs |-> "unpolled"]
  /\ waiter_wakes = [n \in Pairs |-> 0]
  /\ spurious_polls = [n \in Pairs |-> 0]

Step(f, n, from, to) == f[n] = from /\ f' = [f EXCEPT ![n] = to]
-----------------------------------------------------------------------------
(* A faulty notify() that always goes on to store READY. *)
NotifyAlways(n) ==
  /\ Step(sender, n, "owned", "storing")
  /\ UNCHANGED <<state, waiter, waiter_wakes, spurious_polls>>

(* notify(): load; nothing more is done for UNINIT and READY. *)
NotifyLoad(n) ==
  /\ Step(sender, n, "owned", IF state[n] = "token" THEN "storing" ELSE "gone")
  /\ UNCHANGED <<state, waiter, waiter_wakes, spurious_polls>>

NotifyStore(n) ==
  /\ Step(sender, n, "storing", "waking")
  /\ state' = [state EXCEPT ![n] = "READY"]
  /\ UNCHANGED <<waiter, waiter_wakes, spurious_polls>>

(* A faulty notify() that does not wake the task. *)
NotifySilently(n) ==
  /\ Step(sender, n, "waking", "gone")
  /\ UNCHANGED <<state, waiter, waiter_wakes, spurious_polls>>

(* A faulty notify() that adds the token twice. *)
NotifyTwice(n) ==
  /\ Step(sender, n, "waking", "gone")
  /\ waiter_wakes' = [waiter_wakes EXCEPT ![n] = @ + 2]
  /\ UNCHANGED <<state, waiter, spurious_polls>>

NotifyWake(n) ==
  /\ Step(sender, n, "waking", "gone")
  /\ waiter_wakes' = [waiter_wakes EXCEPT ![n] = @ + 1]
  /\ UNCHANGED <<state, waiter, spurious_polls>>

(* No other waiter is in the middle of a poll. *)
ExecutorIdle == \A n \in Pairs : waiter[n] # "registering"

(* What poll() does after its load: READY is Ready, UNINIT is replaced by  *)
(* the token in a second step, and a token is left alone.                  *)
PollLoad(n, from) ==
  /\ ExecutorIdle
  /\ Step(waiter, n, from, CASE state[n] = "READY"  -> "ready"
                             [] state[n] = "UNINIT" -> "registering"
                             [] state[n] = "token"  -> "pending")
  /\ UNCHANGED <<state, sender>>

PollFirst(n) ==
  PollLoad(n, "unpolled") /\ UNCHANGED <<waiter_wakes, spurious_polls>>

PollWoken(n) ==
  /\ PollLoad(n, "pending")
  /\ waiter_wakes[n] > 0
  /\ waiter_wakes' = [waiter_wakes EXCEPT ![n] = @ - 1]
  /\ UNCHANGED spurious_polls

PollSpurious(n) ==
  /\ PollLoad(n, "pending")
  /\ spurious_polls[n] < MaxSpuriousPolls
  /\ spurious_polls' = [spurious_polls EXCEPT ![n] = @ + 1]
  /\ UNCHANGED waiter_wakes

PollStore(n) ==
  /\ Step(waiter, n, "registering", "pending")
  /\ state' = [state EXCEPT ![n] = "token"]
  /\ UNCHANGED <<sender, waiter_wakes, spurious_polls>>
-----------------------------------------------------------------------------
SenderStep(n) == NotifyLoad(n) \/ NotifyStore(n) \/ NotifyWake(n)
PollStep(n)   == PollFirst(n) \/ PollWoken(n) \/ PollStore(n)

NfNext == \E n \in Pairs : SenderStep(n) \/ PollStep(n) \/ PollSpurious(n)

NfSpec == NfInit /\ [][NfNext]_nfVars

(* Senders do call notify(), and the executor polls what it should. *)
NfFairSpec ==
  /\ NfSpec
  /\ \A n \in Pairs : WF_nfVars(SenderStep(n)) /\ WF_nfVars(PollStep(n))
-----------------------------------------------------------------------------
(* Type invariant. *)
NfTypeOK ==
  /\ state \in [Pairs -> {"UNINIT", "READY", "token"}]
  /\ sender \in [Pairs -> {"owned", "storing", "waking", "gone"}]
  /\ waiter \in [Pairs -> {"unpolled", "registering", "pending", "ready"}]
  /\ waiter_wakes \in [Pairs -> 0..1]
  /\ spurious_polls \in [Pairs -> 0..MaxSpuriousPolls]

(* A waiter that was registered when notify() looked completes. *)
RegisteredIsNotified ==
  \A n \in Pairs : (sender[n] = "storing") ~> (waiter[n] = "ready")

(* READY is not overwritten: poll() replaces only UNINIT, and notify()     *)
(* stores READY only over a token, so a notification cannot be erased      *)
(* between a poll's load and its store.                                    *)
ReadyIsFinal ==
  [][\A n \in Pairs : state[n] = "READY" => state'[n] = "READY"]_nfVars

(* A notification reaches its waiter, as with a oneshot channel:           *)
(* "notifications (specialized oneshot channels)" (README.md:103).         *)
NotifyArrives ==
  \A n \in Pairs : (sender[n] = "gone") ~> (waiter[n] = "ready")
=============================================================================
