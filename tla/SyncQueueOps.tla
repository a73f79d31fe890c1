---------------------------- MODULE SyncQueueOps ----------------------------
(***************************************************************************)
(* SyncQueue<T> of src/ctru_utils.rs as a value: the deque guarded by a    *)
(* parking_lot mutex and the permits of the OS semaphore beside it.        *)
(*                                                                         *)
(* The mutex and the semaphore are not updated together.  add() pushes     *)
(* under the lock, unlocks, and only then releases the semaphore, so a     *)
(* model that lets other threads run in between uses PushBack and          *)
(* ReleasePermit as two steps.  Add is both at once, for a caller that no  *)
(* consumer can overtake.                                                  *)
(***************************************************************************)
EXTENDS Integers, Sequences

CONSTANT MaxPermits   \* svcCreateSemaphore's maximum: 255 in the code

ASSUME MaxPermitsAssumption == MaxPermits \in Nat \ {0}

(* SyncQueue::new: an empty deque and a semaphore without permits. *)
NewQueue == [vals |-> << >>, permits |-> 0]

(* The type of a queue that holds elements of S. *)
QueueOf(S) == [vals : Seq(S), permits : 0..MaxPermits]

(* add(), first half: self.vals.lock().push_back(val). *)
PushBack(q, v) == [q EXCEPT !.vals = Append(@, v)]

(* A faulty release that ignores the semaphore's maximum. *)
UncappedRelease(q) == [q EXCEPT !.permits = @ + 1]

(* add(), second half: svcReleaseSemaphore(.., 1).  At its maximum the     *)
(* kernel refuses the release, and add() ignores the result code.          *)
ReleasePermit(q) ==
  [q EXCEPT !.permits = IF @ < MaxPermits THEN @ + 1 ELSE @]

(* Whether a release made now is refused. *)
Saturated(q) == q.permits = MaxPermits

(* The whole of add(). *)
Add(q, v) == ReleasePermit(PushBack(q, v))

(* svcWaitSynchronization on the handle: returns once there is a permit,   *)
(* and takes it.                                                           *)
Signalled(q) == q.permits > 0
TakePermit(q) == [q EXCEPT !.permits = @ - 1]

(* remove(): self.vals.lock().pop_back(). *)
IsEmpty(q) == q.vals = << >>
Popped(q)  == q.vals[Len(q.vals)]
PopBack(q) == [q EXCEPT !.vals = SubSeq(@, 1, Len(@) - 1)]
=============================================================================
