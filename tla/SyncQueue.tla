----------------------------- MODULE SyncQueue -----------------------------
(***************************************************************************)
(* One SyncQueue shared by threads that add and threads that consume       *)
(* (src/ctru_utils.rs).  The code consumes in two ways, one for each       *)
(* queue:                                                                  *)
(*                                                                         *)
(*   a drainer waits for one permit, then calls remove() until None, like  *)
(*   the executor's loop (src/executor.rs);                                *)
(*   a taker waits for one permit, then calls remove() once, like an       *)
(*   IoWorker of the file pool (src/fs/async_pool.rs).                     *)
(*                                                                         *)
(* An item is <<p, n>>, the n-th value added by producer p, so that it can *)
(* be followed from add() to remove().                                     *)
(***************************************************************************)
EXTENDS SyncQueueOps, FiniteSets

CONSTANTS Producers,   \* threads and tasks that call add()
          Consumers,   \* threads that call wait() and remove()
          MaxAdds      \* bound: how often each producer calls add()

ASSUME SyncQueueAssumption ==
  /\ IsFiniteSet(Producers) /\ IsFiniteSet(Consumers)
  /\ MaxAdds \in Nat

Items == Producers \X (1..MaxAdds)

VARIABLES takers,    \* the consumers that are takers: none or all
          q,         \* the queue: deque and semaphore
          adding,    \* producers between push_back and svcReleaseSemaphore
          removing,  \* consumers between their wait and their last remove()
          added,     \* how many items each producer has pushed
          taken,     \* history: the items that remove() has returned
          refused    \* history: releases refused at MaxPermits

sqVars == <<takers, q, adding, removing, added, taken, refused>>

SQInit ==
  /\ takers \in {{}, Consumers}
  /\ q = NewQueue
  /\ adding = {}
  /\ removing = {}
  /\ added = [p \in Producers |-> 0]
  /\ taken = {}
  /\ refused = 0

-----------------------------------------------------------------------------
(* A faulty add() that pushes its value twice. *)
PushTwice(p) ==
  /\ p \notin adding
  /\ added[p] < MaxAdds
  /\ q' = PushBack(PushBack(q, <<p, added[p] + 1>>), <<p, added[p] + 1>>)
  /\ added' = [added EXCEPT ![p] = @ + 1]
  /\ adding' = adding \cup {p}
  /\ UNCHANGED <<takers, removing, taken, refused>>

(* add(): push_back under the mutex. *)
AddPush(p) ==
  /\ p \notin adding
  /\ added[p] < MaxAdds
  /\ q' = PushBack(q, <<p, added[p] + 1>>)
  /\ added' = [added EXCEPT ![p] = @ + 1]
  /\ adding' = adding \cup {p}
  /\ UNCHANGED <<takers, removing, taken, refused>>

(* A faulty add() that never releases the semaphore. *)
SkipRelease(p) ==
  /\ p \in adding
  /\ adding' = adding \ {p}
  /\ UNCHANGED <<takers, q, removing, added, taken, refused>>

(* add(): svcReleaseSemaphore, its result ignored. *)
AddRelease(p) ==
  /\ p \in adding
  /\ q' = ReleasePermit(q)
  /\ adding' = adding \ {p}
  /\ refused' = IF Saturated(q) THEN refused + 1 ELSE refused
  /\ UNCHANGED <<takers, removing, added, taken>>

(* wait(): blocks until there is a permit. *)
Wait(c) ==
  /\ c \notin removing
  /\ Signalled(q)
  /\ q' = TakePermit(q)
  /\ removing' = removing \cup {c}
  /\ UNCHANGED <<takers, adding, added, taken, refused>>

(* A faulty taker that goes on without waiting for another permit. *)
RemoveSomeAndGoOn(c) ==
  /\ c \in removing
  /\ ~IsEmpty(q)
  /\ q' = PopBack(q)
  /\ taken' = taken \cup {Popped(q)}
  /\ UNCHANGED <<takers, adding, removing, added, refused>>

(* A faulty drain that stops after one item. *)
RemoveSomeAndStop(c) ==
  /\ c \in removing
  /\ ~IsEmpty(q)
  /\ q' = PopBack(q)
  /\ taken' = taken \cup {Popped(q)}
  /\ removing' = removing \ {c}
  /\ UNCHANGED <<takers, adding, added, refused>>

(* remove() returns Some: a drainer goes on, a taker is done. *)
RemoveSome(c) ==
  /\ c \in removing
  /\ ~IsEmpty(q)
  /\ q' = PopBack(q)
  /\ taken' = taken \cup {Popped(q)}
  /\ removing' = IF c \in takers THEN removing \ {c} ELSE removing
  /\ UNCHANGED <<takers, adding, added, refused>>

(* remove() returns None: back to the wait. *)
RemoveNone(c) ==
  /\ c \in removing
  /\ IsEmpty(q)
  /\ removing' = removing \ {c}
  /\ UNCHANGED <<takers, q, adding, added, taken, refused>>

SQNext ==
  \/ \E p \in Producers : AddPush(p) \/ AddRelease(p)
  \/ \E c \in Consumers : Wait(c) \/ RemoveSome(c) \/ RemoveNone(c)

SQSpec == SQInit /\ [][SQNext]_sqVars

(* Producers owe nothing but the end of an add() they began; a consumer    *)
(* thread keeps running as long as it has something to do.                 *)
Fairness ==
  /\ \A p \in Producers : WF_sqVars(AddRelease(p))
  /\ \A c \in Consumers : WF_sqVars(Wait(c) \/ RemoveSome(c) \/ RemoveNone(c))

SQFairSpec == SQSpec /\ Fairness
-----------------------------------------------------------------------------
(* Type invariant; the permits never pass the semaphore's maximum. *)
SQTypeOK ==
  /\ takers \subseteq Consumers
  /\ q \in QueueOf(Items)
  /\ adding \subseteq Producers
  /\ removing \subseteq Consumers
  /\ added \in [Producers -> 0..MaxAdds]
  /\ taken \subseteq Items
  /\ refused \in Nat

(* A queue that is drained strands nothing: while it holds an item there   *)
(* is a permit, or an add() that will release one, or a drain in progress. *)
(* It holds however small the semaphore's maximum is, although permits and *)
(* items are counted apart and releases may be refused.                    *)
NothingStranded ==
  takers = {} =>
    (~IsEmpty(q) => \/ Signalled(q)
                    \/ adding # {}
                    \/ removing # {})

(* With one remove() per wait the permits account for the items exactly:   *)
(* each item in the deque has its permit, or its add() has yet to release  *)
(* one, or a taker holds it, or its release was refused at the maximum.    *)
PermitAccounting ==
  takers = Consumers =>
    Len(q.vals) = q.permits + Cardinality(adding) + Cardinality(removing)
                  + refused

Places(s, i) == {k \in 1..Len(s) : s[k] = i}

(* An item that was added is in the deque or was returned by remove(),     *)
(* never both, and is at one place of the deque only.                      *)
ExactlyOnce ==
  \A i \in Items :
    Cardinality(Places(q.vals, i)) + (IF i \in taken THEN 1 ELSE 0)
      = IF i[2] <= added[i[1]] THEN 1 ELSE 0

(* Every item added is removed in the end, unless a release was refused to *)
(* takers: then an item may stay behind for good.                          *)
RemovedInTheEnd ==
  \A i \in Items :
    (added[i[1]] >= i[2]) ~> (i \in taken \/ (takers # {} /\ refused > 0))
=============================================================================
