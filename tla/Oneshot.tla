------------------------------ MODULE Oneshot ------------------------------
(***************************************************************************)
(* The oneshot channel of src/sync.rs between a sender that may be on any  *)
(* thread and a receiver that is polled on the executor's.  spawn_blocking *)
(* hands its result over in this way: the thread sends, or unwinds and     *)
(* drops the sender unused.                                                *)
(*                                                                         *)
(* Each access to the shared OneshotState is a step of its own: the value  *)
(* cell, the `state` flag and the rx_task cell.  The flag's Release stores *)
(* and Acquire loads are taken as sequentially consistent.                 *)
(*                                                                         *)
(* OneshotSender::send takes self, so when it returns the sender is        *)
(* dropped, and drop() sets the flag and wakes the receiver once more.     *)
(***************************************************************************)
EXTENDS Naturals

CONSTANTS Tasks,        \* tasks that may own the receiver
          NoTask,       \* rx_task is not set
          Value,        \* what is sent
          NoValue,      \* Option::None
          MaxMoves,     \* bound: how often the receiver changes its owner
          MaxSpurious   \* bound: polls that no wake of the sender asked for

ASSUME OneshotAssumption ==
  /\ NoTask \notin Tasks
  /\ Value # NoValue
  /\ MaxMoves \in Nat
  /\ MaxSpurious \in Nat

VARIABLES value,      \* OneshotState.value
          state,      \* OneshotState.state
          rx_task,    \* OneshotState.rx_task
          sender,     \* where the sender is
          sent,       \* history: send() was called
          owner,      \* the task that awaits the receiver
          receiver,   \* where the receiver is
          result,     \* what its poll returned
          wakes,      \* wakes of each task in WAKE_QUEUE
          moves,      \* how often the receiver was moved
          spurious    \* how many polls came without a wake

senderVars == <<sender, sent>>
receiverVars == <<owner, receiver, result, moves, spurious>>
vars == <<value, state, rx_task, senderVars, receiverVars, wakes>>

Init ==
  /\ value = NoValue
  /\ state = FALSE
  /\ rx_task = NoTask
  /\ sender = "owned"
  /\ sent = FALSE
  /\ owner \in Tasks
  /\ receiver = "unpolled"
  /\ result = NoValue
  /\ wakes = [t \in Tasks |-> 0]
  /\ moves = 0
  /\ spurious = 0

Sender(from, to)   == sender = from /\ sender' = to
Receiver(from, to) == receiver = from /\ receiver' = to
-----------------------------------------------------------------------------
(* OneshotState::send *)

(* A faulty send() that sets the flag before it writes the value. *)
SendFlagsFirst ==
  /\ Sender("owned", IF state THEN "dropping" ELSE "writing")
  /\ state' = TRUE
  /\ sent' = TRUE
  /\ UNCHANGED <<value, rx_task, receiverVars, wakes>>

SendLoad ==
  /\ Sender("owned", IF state THEN "dropping" ELSE "writing")
  /\ sent' = TRUE
  /\ UNCHANGED <<value, state, rx_task, receiverVars, wakes>>

SendWrite ==
  /\ Sender("writing", "storing")
  /\ value' = Value
  /\ UNCHANGED <<state, rx_task, sent, receiverVars, wakes>>

SendStore ==
  /\ Sender("storing", "waking")
  /\ state' = TRUE
  /\ UNCHANGED <<value, rx_task, sent, receiverVars, wakes>>

(* rx_task.get(), and WAKE_QUEUE.add(task) if it is set. *)
WakeReceiver ==
  wakes' = IF rx_task = NoTask THEN wakes
           ELSE [wakes EXCEPT ![rx_task] = @ + 1]

SendWake ==
  /\ Sender("waking", "dropping")
  /\ WakeReceiver
  /\ UNCHANGED <<value, state, rx_task, sent, receiverVars>>

(* OneshotSender::drop, after send() or without it. *)
DropStore ==
  /\ Sender("owned", "dropWaking") \/ Sender("dropping", "dropWaking")
  /\ state' = TRUE
  /\ UNCHANGED <<value, rx_task, sent, receiverVars, wakes>>

(* A faulty drop that leaves the receiver asleep. *)
DropSilently ==
  /\ Sender("dropWaking", "gone")
  /\ UNCHANGED <<value, state, rx_task, sent, receiverVars, wakes>>

DropWake ==
  /\ Sender("dropWaking", "gone")
  /\ WakeReceiver
  /\ UNCHANGED <<value, state, rx_task, sent, receiverVars>>

-----------------------------------------------------------------------------
(* OneshotReceiver::poll.  The executor polls the owner when it first      *)
(* awaits the receiver, after a wake, or for a reason of its own.          *)

SetTask(t) ==
  /\ rx_task' = IF rx_task = NoTask THEN t ELSE rx_task
  /\ UNCHANGED <<value, state, senderVars, owner, result, moves>>

PollFirst ==
  /\ Receiver("unpolled", "loading")
  /\ SetTask(owner)
  /\ UNCHANGED <<wakes, spurious>>

PollWoken ==
  /\ Receiver("pending", "loading")
  /\ wakes[owner] > 0
  /\ wakes' = [wakes EXCEPT ![owner] = @ - 1]
  /\ SetTask(owner)
  /\ UNCHANGED spurious

PollSpurious ==
  /\ Receiver("pending", "loading")
  /\ spurious < MaxSpurious
  /\ spurious' = spurious + 1
  /\ SetTask(owner)
  /\ UNCHANGED wakes

PollLoad ==
  /\ Receiver("loading", IF state THEN "taking" ELSE "pending")
  /\ UNCHANGED <<value, state, rx_task, senderVars, owner, result, moves,
                 spurious, wakes>>

PollTake ==
  /\ Receiver("taking", "ready")
  /\ result' = value
  /\ value' = NoValue
  /\ UNCHANGED <<state, rx_task, senderVars, owner, moves, spurious, wakes>>

(* The receiver is handed to another task, which will poll it. *)
Move(t) ==
  /\ receiver \in {"unpolled", "pending"}
  /\ moves < MaxMoves
  /\ t # owner
  /\ owner' = t
  /\ receiver' = "unpolled"
  /\ moves' = moves + 1
  /\ UNCHANGED <<value, state, rx_task, senderVars, result, spurious, wakes>>

(* A wake of a task that does not await the receiver (any more). *)
StrayWake(t) ==
  /\ t # owner \/ receiver = "ready"
  /\ wakes[t] > 0
  /\ wakes' = [wakes EXCEPT ![t] = @ - 1]
  /\ UNCHANGED <<value, state, rx_task, senderVars, receiverVars>>
-----------------------------------------------------------------------------
SenderStep ==
  SendLoad \/ SendWrite \/ SendStore \/ SendWake \/ DropStore \/ DropWake

PollStep == PollFirst \/ PollWoken \/ PollLoad \/ PollTake

Next ==
  \/ SenderStep
  \/ PollStep
  \/ PollSpurious
  \/ \E t \in Tasks : Move(t) \/ StrayWake(t)

Spec == Init /\ [][Next]_vars
-----------------------------------------------------------------------------
(* Type invariant. *)
TypeOK ==
  /\ value \in {Value, NoValue}
  /\ state \in BOOLEAN
  /\ rx_task \in Tasks \cup {NoTask}
  /\ sender \in {"owned", "writing", "storing", "waking", "dropping",
                 "dropWaking", "gone"}
  /\ sent \in BOOLEAN
  /\ owner \in Tasks
  /\ receiver \in {"unpolled", "loading", "taking", "pending", "ready"}
  /\ result \in {Value, NoValue}
  /\ wakes \in [Tasks -> Nat]
  /\ moves \in 0..MaxMoves
  /\ spurious \in 0..MaxSpurious

(* The value cell, an UnsafeCell, is never read while it is written: when  *)
(* the receiver takes, the sender is past its write.                       *)
NoDataRace == receiver = "taking" => sender \notin {"owned", "writing"}

(* What was sent is what the receiver gets; it gets None exactly when the  *)
(* sender was dropped without sending, and never because it was early.     *)
Delivered == receiver = "ready" => result = IF sent THEN Value ELSE NoValue

(* The receiver cannot miss its wake: if it is pending in the task it      *)
(* registered and the sender is gone, that task has a wake coming.         *)
NoLostWake ==
  (receiver = "pending" /\ rx_task = owner /\ sender = "gone")
    => wakes[owner] > 0
=============================================================================
