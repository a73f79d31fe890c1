---------------------------- MODULE ChannelProofs ----------------------------
(***************************************************************************)
(* Proofs about the two channels of src/sync.rs, SyncQueue and Oneshot,    *)
(* which share no state, and about SpawnBlocking, the user of the second:  *)
(* for any producers, consumers and tasks, any number of adds and maximum  *)
(* of the semaphore, and any bounds on moves and spurious polls.           *)
(***************************************************************************)
EXTENDS SyncQueue, SpawnBlocking, FiniteSetTheorems, TLAPS

(* Steps that no prover is named for are given a minute of SMT. *)
USE SMTT(60)
-----------------------------------------------------------------------------
(* SyncQueue: permits and items. *)

(* add()'s push keeps the type of a queue and puts one item at its end. *)
LEMMA PushBackFacts ==
  ASSUME NEW S, NEW v \in S, NEW x \in QueueOf(S)
  PROVE  /\ PushBack(x, v) \in QueueOf(S)
         /\ Len(PushBack(x, v).vals) = Len(x.vals) + 1
         /\ PushBack(x, v).permits = x.permits
         /\ PushBack(x, v).vals[Len(x.vals) + 1] = v
         /\ \A k \in 1..Len(x.vals) : PushBack(x, v).vals[k] = x.vals[k]
  BY DEF QueueOf, PushBack

(* add()'s release keeps the items; there is a permit after it, even when  *)
(* the kernel refused it at the maximum.                                   *)
LEMMA ReleaseFacts ==
  ASSUME NEW S, NEW x \in QueueOf(S)
  PROVE  /\ ReleasePermit(x) \in QueueOf(S)
         /\ ReleasePermit(x).vals = x.vals
         /\ ReleasePermit(x).permits =
              IF Saturated(x) THEN x.permits ELSE x.permits + 1
         /\ Signalled(ReleasePermit(x))
  BY MaxPermitsAssumption DEF QueueOf, ReleasePermit, Saturated, Signalled

(* A wait() that returns has taken one permit. *)
LEMMA TakePermitFacts ==
  ASSUME NEW S, NEW x \in QueueOf(S), Signalled(x)
  PROVE  /\ TakePermit(x) \in QueueOf(S)
         /\ TakePermit(x).vals = x.vals
         /\ TakePermit(x).permits = x.permits - 1
  BY MaxPermitsAssumption DEF QueueOf, TakePermit, Signalled

(* remove() on a queue that is not empty takes the last item, and no       *)
(* permit.                                                                 *)
LEMMA PopBackFacts ==
  ASSUME NEW S, NEW x \in QueueOf(S), ~IsEmpty(x)
  PROVE  /\ PopBack(x) \in QueueOf(S)
         /\ Popped(x) \in S
         /\ Len(x.vals) \in Nat \ {0}
         /\ Popped(x) = x.vals[Len(x.vals)]
         /\ Len(PopBack(x).vals) = Len(x.vals) - 1
         /\ PopBack(x).permits = x.permits
         /\ \A k \in 1..(Len(x.vals) - 1) : PopBack(x).vals[k] = x.vals[k]
  <1>1. /\ x.vals \in Seq(S)
        /\ Len(x.vals) \in Nat \ {0}
    BY DEF QueueOf, IsEmpty
  <1>2. Popped(x) \in S /\ Popped(x) = x.vals[Len(x.vals)]
    BY <1>1 DEF Popped
  <1>3. /\ SubSeq(x.vals, 1, Len(x.vals) - 1) \in Seq(S)
        /\ Len(SubSeq(x.vals, 1, Len(x.vals) - 1)) = Len(x.vals) - 1
        /\ \A k \in 1..(Len(x.vals) - 1) :
             SubSeq(x.vals, 1, Len(x.vals) - 1)[k] = x.vals[k]
    BY <1>1
  <1> QED
    BY ZenonT(60), <1>1, <1>2, <1>3 DEF PopBack, QueueOf
-----------------------------------------------------------------------------
(* add(), wait() and remove() keep the types. *)
LEMMA TypeStep == SQTypeOK /\ [SQNext]_sqVars => SQTypeOK'
  <1> SUFFICES ASSUME SQTypeOK, [SQNext]_sqVars PROVE SQTypeOK'
    BY ZenonT(60)
  <1> USE SyncQueueAssumption DEF SQTypeOK
  <1>1. ASSUME NEW p \in Producers, AddPush(p) PROVE SQTypeOK'
    <2>1. added[p] + 1 \in 1..MaxAdds
      BY <1>1 DEF AddPush
    <2>2. <<p, added[p] + 1>> \in Items
      BY ZenonT(60), <2>1 DEF Items
    <2>3. q' \in QueueOf(Items)
      BY ZenonT(60), <1>1, <2>2, PushBackFacts DEF AddPush
    <2> QED
      BY <1>1, <2>1, <2>3 DEF AddPush
  <1>2. ASSUME NEW p \in Producers, AddRelease(p) PROVE SQTypeOK'
    <2>1. q' \in QueueOf(Items)
      BY ZenonT(60), <1>2, ReleaseFacts DEF AddRelease
    <2> QED
      BY <1>2, <2>1 DEF AddRelease
  <1>3. ASSUME NEW c \in Consumers, Wait(c) PROVE SQTypeOK'
    <2>1. q' \in QueueOf(Items)
      BY ZenonT(60), <1>3, TakePermitFacts DEF Wait
    <2> QED
      BY ZenonT(60), <1>3, <2>1 DEF Wait
  <1>4. ASSUME NEW c \in Consumers, RemoveSome(c) PROVE SQTypeOK'
    <2>1. q' \in QueueOf(Items) /\ Popped(q) \in Items
      BY ZenonT(60), <1>4, PopBackFacts DEF RemoveSome
    <2> QED
      BY ZenonT(60), <1>4, <2>1 DEF RemoveSome
  <1>5. ASSUME NEW c \in Consumers, RemoveNone(c) PROVE SQTypeOK'
    BY ZenonT(60), <1>5 DEF RemoveNone
  <1>6. CASE UNCHANGED sqVars
    BY ZenonT(60), <1>6 DEF sqVars
  <1> QED
    BY ZenonT(60), <1>1, <1>2, <1>3, <1>4, <1>5, <1>6 DEF SQNext

(* The way in which a queue is consumed does not change. *)
LEMMA SameTakers == [SQNext]_sqVars => takers' = takers
  BY ZenonT(60)
  DEF SQNext, sqVars, AddPush, AddRelease, Wait, RemoveSome, RemoveNone

(* Type correctness: in particular the semaphore keeps its maximum. *)
THEOREM QueueTypeCorrect == SQSpec => []SQTypeOK
  <1>1. SQInit => SQTypeOK
    <2> SUFFICES ASSUME SQInit PROVE SQTypeOK
      BY ZenonT(60)
    <2>1. NewQueue \in QueueOf(Items)
      BY MaxPermitsAssumption DEF NewQueue, QueueOf
    <2> QED
      BY <2>1, SyncQueueAssumption DEF SQInit, SQTypeOK
  <1> QED
    BY <1>1, TypeStep, PTL DEF SQSpec

(* A drained queue, like TASK_QUEUE and WAKE_QUEUE, strands nothing, for   *)
(* any number of threads that add and any maximum of the semaphore: a      *)
(* refused release leaves permits behind, and one permit is enough.        *)
THEOREM DrainStrandsNothing == SQSpec => []NothingStranded
  <1>1. SQInit => NothingStranded
    BY DEF SQInit, NothingStranded, NewQueue, IsEmpty
  <1>2. SQTypeOK /\ NothingStranded /\ [SQNext]_sqVars => NothingStranded'
    <2> SUFFICES ASSUME SQTypeOK, NothingStranded, [SQNext]_sqVars, takers = {}
                 PROVE  (~IsEmpty(q) => \/ Signalled(q)
                                        \/ adding # {}
                                        \/ removing # {})'
      BY ZenonT(60), SameTakers DEF NothingStranded
    <2> USE DEF NothingStranded, SQTypeOK
    <2>1. ASSUME NEW p \in Producers, AddPush(p) PROVE adding' # {}
      BY ZenonT(60), <2>1 DEF AddPush
    <2>2. ASSUME NEW p \in Producers, AddRelease(p) PROVE Signalled(q')
      BY ZenonT(60), <2>2, ReleaseFacts DEF AddRelease
    <2>3. ASSUME NEW c \in Consumers, Wait(c) PROVE removing' # {}
      BY ZenonT(60), <2>3 DEF Wait
    <2>4. ASSUME NEW c \in Consumers, RemoveSome(c) PROVE removing' # {}
      BY ZenonT(60), <2>4 DEF RemoveSome
    <2>5. ASSUME NEW c \in Consumers, RemoveNone(c) PROVE IsEmpty(q')
      BY ZenonT(60), <2>5 DEF RemoveNone
    <2>6. CASE UNCHANGED sqVars
      BY ZenonT(60), <2>6 DEF sqVars, IsEmpty, Signalled
    <2> QED
      BY ZenonT(60), <2>1, <2>2, <2>3, <2>4, <2>5, <2>6
      DEF SQNext, IsEmpty, Signalled
  <1> QED
    BY <1>1, <1>2, QueueTypeCorrect, PTL DEF SQSpec

(* The sets of threads inside add() and remove() are finite; a thread that *)
(* enters or leaves changes their size by one.                             *)
LEMMA FiniteThreads ==
  ASSUME SQTypeOK
  PROVE  /\ IsFiniteSet(adding) /\ Cardinality(adding) \in Nat
         /\ IsFiniteSet(removing) /\ Cardinality(removing) \in Nat
  <1>1. IsFiniteSet(adding) /\ IsFiniteSet(removing)
    BY ZenonT(60), SyncQueueAssumption, FS_Subset DEF SQTypeOK
  <1> QED
    BY ZenonT(60), <1>1, FS_CardinalityType

(* In a queue of takers, like the file pool's, the permits account for the *)
(* items, for any number of producers and workers: what is in the deque    *)
(* and has neither permit, nor add() in progress, nor taker, lost its      *)
(* permit to a release that was refused at the maximum.                    *)
THEOREM PermitsAccount == SQSpec => []PermitAccounting
  <1>1. SQInit => PermitAccounting
    BY FS_EmptySet DEF SQInit, PermitAccounting, NewQueue
  <1>2. SQTypeOK /\ PermitAccounting /\ [SQNext]_sqVars => PermitAccounting'
    <2> SUFFICES ASSUME SQTypeOK, PermitAccounting, [SQNext]_sqVars,
                        takers = Consumers
                 PROVE  (Len(q.vals) = q.permits + Cardinality(adding)
                                       + Cardinality(removing) + refused)'
      BY ZenonT(60), SameTakers DEF PermitAccounting
    <2>0. /\ Len(q.vals) = q.permits + Cardinality(adding)
                           + Cardinality(removing) + refused
          /\ q.permits \in Nat
          /\ Len(q.vals) \in Nat
          /\ refused \in Nat
          /\ Cardinality(adding) \in Nat
          /\ Cardinality(removing) \in Nat
      BY MaxPermitsAssumption, FiniteThreads
      DEF PermitAccounting, SQTypeOK, QueueOf
    <2>1. ASSUME NEW p \in Producers, AddPush(p)
          PROVE  (Len(q.vals) = q.permits + Cardinality(adding)
                                + Cardinality(removing) + refused)'
      <3>1. Cardinality(adding') = Cardinality(adding) + 1
        BY ZenonT(60), <2>1, FiniteThreads, FS_AddElement DEF AddPush
      <3>2. <<p, added[p] + 1>> \in Items
        BY <2>1, SyncQueueAssumption DEF AddPush, Items, SQTypeOK
      <3>3. Len(q'.vals) = Len(q.vals) + 1 /\ q'.permits = q.permits
        BY <2>1, <3>2, PushBackFacts DEF AddPush, SQTypeOK
      <3>4. removing' = removing /\ refused' = refused
        BY ZenonT(60), <2>1 DEF AddPush
      <3> QED
        BY <2>0, <3>1, <3>3, <3>4
    <2>2. ASSUME NEW p \in Producers, AddRelease(p)
          PROVE  (Len(q.vals) = q.permits + Cardinality(adding)
                                + Cardinality(removing) + refused)'
      <3>1. Cardinality(adding') = Cardinality(adding) - 1
        BY ZenonT(60), <2>2, FiniteThreads, FS_RemoveElement DEF AddRelease
      <3>2. /\ q'.vals = q.vals
            /\ q'.permits = IF Saturated(q) THEN q.permits ELSE q.permits + 1
        BY ZenonT(60), <2>2, ReleaseFacts DEF AddRelease, SQTypeOK
      <3>3. /\ removing' = removing
            /\ refused' = IF Saturated(q) THEN refused + 1 ELSE refused
        BY ZenonT(60), <2>2 DEF AddRelease
      <3>4. CASE Saturated(q)
        BY <2>0, <3>1, <3>2, <3>3, <3>4 DEF Saturated
      <3>5. CASE ~Saturated(q)
        BY <2>0, <3>1, <3>2, <3>3, <3>5 DEF Saturated
      <3> QED
        BY ZenonT(60), <3>4, <3>5
    <2>3. ASSUME NEW c \in Consumers, Wait(c)
          PROVE  (Len(q.vals) = q.permits + Cardinality(adding)
                                + Cardinality(removing) + refused)'
      <3>1. Cardinality(removing') = Cardinality(removing) + 1
        BY ZenonT(60), <2>3, FiniteThreads, FS_AddElement DEF Wait
      <3>2. q'.vals = q.vals /\ q'.permits = q.permits - 1
        BY ZenonT(60), <2>3, TakePermitFacts DEF Wait, SQTypeOK
      <3> QED
        BY <2>0, <2>3, <3>1, <3>2 DEF Wait
    <2>4. ASSUME NEW c \in Consumers, RemoveSome(c)
          PROVE  (Len(q.vals) = q.permits + Cardinality(adding)
                                + Cardinality(removing) + refused)'
      <3>1. removing' = removing \ {c}
        BY ZenonT(60), <2>4 DEF RemoveSome
      <3>2. Cardinality(removing') = Cardinality(removing) - 1
        BY ZenonT(60), <2>4, <3>1, FiniteThreads, FS_RemoveElement
        DEF RemoveSome
      <3>3. Len(q'.vals) = Len(q.vals) - 1 /\ q'.permits = q.permits
        BY ZenonT(60), <2>4, PopBackFacts DEF RemoveSome, SQTypeOK
      <3> QED
        BY <2>0, <2>4, <3>2, <3>3 DEF RemoveSome
    <2>5. ASSUME NEW c \in Consumers, RemoveNone(c) PROVE FALSE
      <3>1. Len(q.vals) = 0
        BY <2>5 DEF RemoveNone, IsEmpty
      <3>2. Cardinality(removing) # 0
        BY ZenonT(60), <2>5, FiniteThreads, FS_EmptySet DEF RemoveNone
      <3> QED
        BY <2>0, <3>1, <3>2
    <2>6. CASE UNCHANGED sqVars
      BY ZenonT(60), <2>0, <2>6 DEF sqVars
    <2> QED
      BY ZenonT(60), <2>1, <2>2, <2>3, <2>4, <2>5, <2>6 DEF SQNext
  <1> QED
    BY <1>1, <1>2, QueueTypeCorrect, PTL DEF SQSpec

(* A place in a deque is a number, so the places of an item are finitely   *)
(* many.                                                                   *)
LEMMA FinitePlaces ==
  ASSUME NEW s \in Seq(Items), NEW i
  PROVE  IsFiniteSet(Places(s, i)) /\ Cardinality(Places(s, i)) \in Nat
  <1>1. IsFiniteSet(1..Len(s))
    BY FS_Interval
  <1>2. IsFiniteSet(Places(s, i))
    BY ZenonT(60), <1>1, FS_Subset DEF Places
  <1> QED
    BY ZenonT(60), <1>2, FS_CardinalityType

(* add()'s push gives its item one place more, and every other item none.  *)
LEMMA PushPlaces ==
  ASSUME NEW x \in QueueOf(Items), NEW v \in Items, NEW i \in Items
  PROVE  Cardinality(Places(PushBack(x, v).vals, i)) =
           Cardinality(Places(x.vals, i)) + (IF i = v THEN 1 ELSE 0)
  <1> DEFINE n == Len(x.vals)
  <1>1. x.vals \in Seq(Items) /\ n \in Nat
    BY DEF QueueOf
  <1>2. CASE i = v
    <2>1. Places(PushBack(x, v).vals, i) = Places(x.vals, i) \cup {n + 1}
      BY <1>1, <1>2, PushBackFacts DEF Places
    <2>2. n + 1 \notin Places(x.vals, i)
      BY <1>1 DEF Places
    <2> QED
      BY ZenonT(60), <1>1, <1>2, <2>1, <2>2, FinitePlaces, FS_AddElement
  <1>3. CASE i # v
    <2>1. Places(PushBack(x, v).vals, i) = Places(x.vals, i)
      BY <1>1, <1>3, PushBackFacts DEF Places
    <2> QED
      BY <1>1, <1>3, <2>1, FinitePlaces
  <1> QED
    BY ZenonT(60), <1>2, <1>3

(* remove() takes one place from the item it returns, and none from any    *)
(* other.                                                                  *)
LEMMA PopPlaces ==
  ASSUME NEW x \in QueueOf(Items), ~IsEmpty(x), NEW i \in Items
  PROVE  /\ Cardinality(Places(PopBack(x).vals, i)) =
              Cardinality(Places(x.vals, i)) - (IF i = Popped(x) THEN 1 ELSE 0)
         /\ i = Popped(x) => Cardinality(Places(x.vals, i)) > 0
  <1> DEFINE n == Len(x.vals)
  <1>1. x.vals \in Seq(Items) /\ n \in Nat \ {0}
    BY ZenonT(60), PopBackFacts DEF QueueOf
  <1>2. CASE i = Popped(x)
    <2>1. n \in Places(x.vals, i)
      BY <1>1, <1>2, PopBackFacts DEF Places
    <2>2. Places(PopBack(x).vals, i) = Places(x.vals, i) \ {n}
      BY <1>1, <1>2, PopBackFacts DEF Places
    <2>3. Cardinality(Places(x.vals, i)) # 0
      BY ZenonT(60), <1>1, <2>1, FinitePlaces, FS_EmptySet
    <2>4. Cardinality(Places(x.vals, i) \ {n})
            = Cardinality(Places(x.vals, i)) - 1
      BY ZenonT(60), <1>1, <2>1, FinitePlaces, FS_RemoveElement
    <2>5. Cardinality(Places(x.vals, i)) \in Nat
      BY ZenonT(60), <1>1, FinitePlaces
    <2> QED
      BY <1>2, <2>2, <2>3, <2>4, <2>5
  <1>3. CASE i # Popped(x)
    <2>1. Places(PopBack(x).vals, i) = Places(x.vals, i)
      BY <1>1, <1>3, PopBackFacts DEF Places
    <2> QED
      BY <1>1, <1>3, <2>1, FinitePlaces
  <1> QED
    BY ZenonT(60), <1>2, <1>3

(* No item is lost, duplicated or returned twice by add() and remove(),    *)
(* for any number of threads and however the queue is consumed.            *)
THEOREM QueueKeepsItems == SQSpec => []ExactlyOnce
  <1>1. SQInit => ExactlyOnce
    <2> SUFFICES ASSUME SQInit, NEW i \in Items
                 PROVE  Cardinality(Places(q.vals, i))
                          + (IF i \in taken THEN 1 ELSE 0)
                          = IF i[2] <= added[i[1]] THEN 1 ELSE 0
      BY ZenonT(60) DEF ExactlyOnce
    <2>1. ~(i[2] <= added[i[1]])
      BY SyncQueueAssumption DEF SQInit, Items
    <2>2. Places(q.vals, i) = {}
      BY DEF SQInit, Places, NewQueue
    <2> QED
      BY <2>1, <2>2, FS_EmptySet DEF SQInit
  <1>2. SQTypeOK /\ ExactlyOnce /\ [SQNext]_sqVars => ExactlyOnce'
    <2> SUFFICES ASSUME SQTypeOK, ExactlyOnce, [SQNext]_sqVars, NEW i \in Items
                 PROVE  (Cardinality(Places(q.vals, i))
                          + (IF i \in taken THEN 1 ELSE 0)
                          = IF i[2] <= added[i[1]] THEN 1 ELSE 0)'
      BY ZenonT(60) DEF ExactlyOnce
    <2>0. /\ Cardinality(Places(q.vals, i)) + (IF i \in taken THEN 1 ELSE 0)
               = IF i[2] <= added[i[1]] THEN 1 ELSE 0
          /\ Cardinality(Places(q.vals, i)) \in Nat
          /\ q \in QueueOf(Items)
          /\ i[1] \in Producers /\ i[2] \in 1..MaxAdds /\ i = <<i[1], i[2]>>
          /\ added \in [Producers -> 0..MaxAdds]
      <3>1. q \in QueueOf(Items) /\ q.vals \in Seq(Items)
        BY ZenonT(60) DEF SQTypeOK, QueueOf
      <3>2. i[1] \in Producers /\ i[2] \in 1..MaxAdds /\ i = <<i[1], i[2]>>
        BY DEF Items
      <3> QED
        BY ZenonT(60), <3>1, <3>2, FinitePlaces DEF ExactlyOnce, SQTypeOK
    <2>1. ASSUME NEW p \in Producers, AddPush(p)
          PROVE  (Cardinality(Places(q.vals, i))
                   + (IF i \in taken THEN 1 ELSE 0)
                   = IF i[2] <= added[i[1]] THEN 1 ELSE 0)'
      <3> DEFINE v == <<p, added[p] + 1>>
      <3>1. v \in Items /\ added[p] \in Nat
        BY <2>0, <2>1, SyncQueueAssumption DEF AddPush, Items
      <3>2. q' = PushBack(q, v) /\ taken' = taken
        BY ZenonT(60), <2>1 DEF AddPush
      <3>3. Cardinality(Places(q'.vals, i)) =
              Cardinality(Places(q.vals, i)) + (IF i = v THEN 1 ELSE 0)
        BY ZenonT(60), <2>0, <3>1, <3>2, PushPlaces
      <3>4. added' = [added EXCEPT ![p] = @ + 1]
        BY ZenonT(60), <2>1 DEF AddPush
      <3>5. CASE i = v
        <4>1. i[1] = p /\ i[2] = added[p] + 1
          BY ZenonT(60), <3>5
        <4>2. ~(i[2] <= added[i[1]]) /\ i[2] <= added'[i[1]]
          BY <2>0, <3>1, <3>4, <4>1
        <4> QED
          BY <2>0, <3>2, <3>3, <3>5, <4>2
      <3>6. CASE i # v
        <4>1. i[1] = p => i[2] # added[p] + 1
          BY ZenonT(60), <2>0, <3>6
        <4>2. (i[2] <= added'[i[1]]) <=> (i[2] <= added[i[1]])
          BY <2>0, <3>1, <3>4, <4>1
        <4> QED
          BY <2>0, <3>2, <3>3, <3>6, <4>2
      <3> QED
        BY ZenonT(60), <3>5, <3>6
    <2>2. ASSUME NEW p \in Producers, AddRelease(p)
          PROVE  q'.vals = q.vals /\ taken' = taken /\ added' = added
      BY ZenonT(60), <2>0, <2>2, ReleaseFacts DEF AddRelease
    <2>3. ASSUME NEW c \in Consumers, Wait(c)
          PROVE  q'.vals = q.vals /\ taken' = taken /\ added' = added
      BY ZenonT(60), <2>0, <2>3, TakePermitFacts DEF Wait
    <2>4. ASSUME NEW c \in Consumers, RemoveSome(c)
          PROVE  (Cardinality(Places(q.vals, i))
                   + (IF i \in taken THEN 1 ELSE 0)
                   = IF i[2] <= added[i[1]] THEN 1 ELSE 0)'
      <3>1. /\ Cardinality(Places(q'.vals, i)) =
                 Cardinality(Places(q.vals, i))
                   - (IF i = Popped(q) THEN 1 ELSE 0)
            /\ i = Popped(q) => Cardinality(Places(q.vals, i)) > 0
        BY ZenonT(60), <2>0, <2>4, PopPlaces DEF RemoveSome
      <3>2. taken' = taken \cup {Popped(q)} /\ added' = added
        BY ZenonT(60), <2>4 DEF RemoveSome
      <3> QED
        BY <2>0, <3>1, <3>2
    <2>5. ASSUME NEW c \in Consumers, RemoveNone(c)
          PROVE  q'.vals = q.vals /\ taken' = taken /\ added' = added
      BY ZenonT(60), <2>5 DEF RemoveNone
    <2>6. CASE UNCHANGED sqVars
      BY ZenonT(60), <2>0, <2>6 DEF sqVars
    <2> QED
      BY ZenonT(60), <2>0, <2>1, <2>2, <2>3, <2>4, <2>5, <2>6 DEF SQNext
  <1> QED
    BY <1>1, <1>2, QueueTypeCorrect, PTL DEF SQSpec
-----------------------------------------------------------------------------
(* Oneshot: no data race on the value, delivery, no lost wake. *)

(* The sender has not set the flag yet. *)
Before == {"owned", "writing", "storing"}

(* The flag is set by the sender alone, and once it is past its store. *)
FlagTells == state <=> sender \notin Before

(* What `sent` says about where the sender is. *)
SentTells ==
  /\ sender = "owned" => ~sent
  /\ sender \in {"writing", "storing", "waking", "dropping"} => sent

(* A receiver that takes has seen the flag. *)
TakesAfterFlag == receiver \in {"taking", "ready"} => state

(* Until it is taken, the cell holds the value from the write on. *)
CellHolds ==
  receiver # "ready" =>
    value = IF sent /\ sender \notin {"owned", "writing"} THEN Value
            ELSE NoValue

ChannelInv ==
  /\ TypeOK
  /\ FlagTells
  /\ SentTells
  /\ TakesAfterFlag
  /\ CellHolds
  /\ Delivered
  /\ NoLostWake

(* ChannelInv holds of a new channel, oneshot(). *)
LEMMA ChannelInit == Init => ChannelInv
  <1> SUFFICES ASSUME Init PROVE ChannelInv
    OBVIOUS
  <1>1. TypeOK
    <2>1. state \in BOOLEAN /\ sent \in BOOLEAN
      BY ZenonT(60) DEF Init
    <2>2. moves \in 0..MaxMoves /\ spurious \in 0..MaxSpurious
      BY OneshotAssumption DEF Init
    <2>3. wakes \in [Tasks -> Nat]
      BY ZenonT(60) DEF Init
    <2> QED
      BY ZenonT(60), <2>1, <2>2, <2>3 DEF Init, TypeOK
  <1>2. FlagTells /\ SentTells /\ TakesAfterFlag
    BY ZenonT(60) DEF Init, FlagTells, Before, SentTells, TakesAfterFlag
  <1>3. CellHolds /\ Delivered /\ NoLostWake
    BY ZenonT(60) DEF Init, CellHolds, Delivered, NoLostWake
  <1> QED
    BY ZenonT(60), <1>1, <1>2, <1>3 DEF ChannelInv

(* TypeOK is preserved by every access to the OneshotState and by every    *)
(* wake.                                                                   *)
LEMMA ChannelTypes == TypeOK /\ [Next]_vars => TypeOK'
  <1> SUFFICES ASSUME TypeOK, [Next]_vars PROVE TypeOK'
    OBVIOUS
  <1> USE OneshotAssumption DEF TypeOK, Sender, Receiver, SetTask,
                                senderVars, receiverVars
  <1>1. CASE SendLoad  BY ZenonT(60), <1>1 DEF SendLoad
  <1>2. CASE SendWrite BY ZenonT(60), <1>2 DEF SendWrite
  <1>3. CASE SendStore BY ZenonT(60), <1>3 DEF SendStore
  <1>4. CASE SendWake  BY <1>4 DEF SendWake, WakeReceiver
  <1>5. CASE DropStore BY ZenonT(60), <1>5 DEF DropStore
  <1>6. CASE DropWake  BY <1>6 DEF DropWake, WakeReceiver
  <1>7. CASE PollFirst BY ZenonT(60), <1>7 DEF PollFirst
  <1>8. CASE PollWoken
    <2>1. wakes[owner] - 1 \in Nat
      BY <1>8 DEF PollWoken
    <2> QED
      BY ZenonT(60), <1>8, <2>1 DEF PollWoken
  <1>9. CASE PollLoad  BY ZenonT(60), <1>9 DEF PollLoad
  <1>10. CASE PollTake BY ZenonT(60), <1>10 DEF PollTake
  <1>11. CASE PollSpurious BY <1>11 DEF PollSpurious
  <1>12. ASSUME NEW t \in Tasks, Move(t) PROVE TypeOK'
    BY <1>12 DEF Move
  <1>13. ASSUME NEW t \in Tasks, StrayWake(t) PROVE TypeOK'
    <2>1. wakes[t] - 1 \in Nat
      BY <1>13 DEF StrayWake
    <2> QED
      BY ZenonT(60), <1>13, <2>1 DEF StrayWake
  <1>14. CASE UNCHANGED vars
    BY ZenonT(60), <1>14 DEF vars
  <1> QED
    BY ZenonT(60), <1>1, <1>2, <1>3, <1>4, <1>5, <1>6, <1>7, <1>8, <1>9,
       <1>10, <1>11, <1>12, <1>13, <1>14 DEF Next, SenderStep, PollStep

(* Every step preserves what ChannelInv says about the flag, the cell and  *)
(* the result.  Only PollLoad makes the receiver take, only SendWrite and  *)
(* PollTake touch the cell.                                                *)
LEMMA ProtocolStep ==
  ASSUME ChannelInv, [Next]_vars
  PROVE  (FlagTells /\ SentTells /\ TakesAfterFlag /\ CellHolds
            /\ Delivered)'
  <1> USE DEF ChannelInv, TypeOK, FlagTells, Before, SentTells,
              TakesAfterFlag, CellHolds, Delivered, Sender, Receiver,
              SetTask, senderVars, receiverVars
  <1>1. CASE SendLoad  BY ZenonT(60), <1>1 DEF SendLoad
  <1>2. CASE SendWrite BY ZenonT(60), <1>2 DEF SendWrite
  <1>3. CASE SendStore BY ZenonT(60), <1>3 DEF SendStore
  <1>4. CASE SendWake  BY ZenonT(60), <1>4 DEF SendWake
  <1>5. CASE DropStore BY ZenonT(60), <1>5 DEF DropStore
  <1>6. CASE DropWake  BY ZenonT(60), <1>6 DEF DropWake
  <1>7. CASE PollFirst BY ZenonT(60), <1>7 DEF PollFirst
  <1>8. CASE PollWoken BY ZenonT(60), <1>8 DEF PollWoken
  <1>9. CASE PollLoad  BY ZenonT(60), <1>9 DEF PollLoad
  <1>10. CASE PollTake BY ZenonT(60), <1>10 DEF PollTake
  <1>11. CASE PollSpurious BY ZenonT(60), <1>11 DEF PollSpurious
  <1>12. ASSUME NEW t \in Tasks, Move(t)
         PROVE  (FlagTells /\ SentTells /\ TakesAfterFlag /\ CellHolds
                   /\ Delivered)'
    BY ZenonT(60), <1>12 DEF Move
  <1>13. ASSUME NEW t \in Tasks, StrayWake(t)
         PROVE  (FlagTells /\ SentTells /\ TakesAfterFlag /\ CellHolds
                   /\ Delivered)'
    BY ZenonT(60), <1>13 DEF StrayWake
  <1>14. CASE UNCHANGED vars
    BY ZenonT(60), <1>14 DEF vars
  <1> QED
    BY ZenonT(60), <1>1, <1>2, <1>3, <1>4, <1>5, <1>6, <1>7, <1>8, <1>9,
       <1>10, <1>11, <1>12, <1>13, <1>14 DEF Next, SenderStep, PollStep

(* Every step preserves NoLostWake.  The receiver becomes pending only     *)
(* when it saw the flag unset, so before the sender is gone, and the       *)
(* sender leaves only after it looked for a task to wake.                  *)
LEMMA WakeStep ==
  ASSUME ChannelInv, [Next]_vars
  PROVE  NoLostWake'
  <1> USE DEF ChannelInv, TypeOK, NoLostWake, Sender, Receiver,
              SetTask, senderVars, receiverVars
  <1>1. CASE SendLoad  BY ZenonT(60), <1>1 DEF SendLoad
  <1>2. CASE SendWrite BY ZenonT(60), <1>2 DEF SendWrite
  <1>3. CASE SendStore BY ZenonT(60), <1>3 DEF SendStore
  <1>4. CASE SendWake  BY ZenonT(60), <1>4 DEF SendWake
  <1>5. CASE DropStore BY ZenonT(60), <1>5 DEF DropStore
  <1>6. CASE DropWake
    <2> SUFFICES ASSUME rx_task = owner PROVE wakes'[owner] > 0
      BY ZenonT(60), <1>6 DEF DropWake
    <2>1. owner # NoTask
      BY ZenonT(60), OneshotAssumption
    <2> QED
      BY <1>6, <2>1 DEF DropWake, WakeReceiver
  <1>7. CASE PollFirst BY ZenonT(60), <1>7 DEF PollFirst
  <1>8. CASE PollWoken BY ZenonT(60), <1>8 DEF PollWoken
  <1>9. CASE PollLoad  BY ZenonT(60), <1>9 DEF PollLoad, FlagTells, Before
  <1>10. CASE PollTake BY ZenonT(60), <1>10 DEF PollTake
  <1>11. CASE PollSpurious BY ZenonT(60), <1>11 DEF PollSpurious
  <1>12. ASSUME NEW t \in Tasks, Move(t) PROVE NoLostWake'
    BY ZenonT(60), <1>12 DEF Move
  <1>13. ASSUME NEW t \in Tasks, StrayWake(t) PROVE NoLostWake'
    BY ZenonT(60), <1>13 DEF StrayWake
  <1>14. CASE UNCHANGED vars
    BY ZenonT(60), <1>14 DEF vars
  <1> QED
    BY ZenonT(60), <1>1, <1>2, <1>3, <1>4, <1>5, <1>6, <1>7, <1>8, <1>9,
       <1>10, <1>11, <1>12, <1>13, <1>14 DEF Next, SenderStep, PollStep

(* ChannelInv is an invariant of the channel. *)
LEMMA ChannelAlways == Spec => []ChannelInv
  <1>1. ChannelInv /\ [Next]_vars => ChannelInv'
    BY ZenonT(60), ChannelTypes, ProtocolStep, WakeStep DEF ChannelInv
  <1> QED
    BY ChannelInit, <1>1, PTL DEF Spec

(* The value cell is never taken from while the sender writes it: in       *)
(* OneshotReceiver::poll the take comes after a load of the flag that the  *)
(* sender sets after its write.                                            *)
THEOREM OneshotHasNoDataRace == Spec => []NoDataRace
  <1>1. ChannelInv => NoDataRace
    BY ZenonT(60) DEF ChannelInv, TakesAfterFlag, FlagTells, Before, NoDataRace
  <1> QED
    BY ChannelAlways, <1>1, PTL

(* The receiver gets what was sent, and None only from a sender that was   *)
(* dropped unused, however send(), drop() and poll() interleave.           *)
THEOREM OneshotDelivers == Spec => []Delivered
  BY ChannelAlways, PTL DEF ChannelInv

(* A receiver pending in the task that it registered has a wake coming     *)
(* once the sender is gone, however send(), drop() and poll() interleave.  *)
THEOREM OneshotLosesNoWake == Spec => []NoLostWake
  BY ChannelAlways, PTL DEF ChannelInv

(* Type correctness of the channel. *)
THEOREM OneshotTypeCorrect == Spec => []TypeOK
  BY ChannelAlways, PTL DEF ChannelInv
-----------------------------------------------------------------------------
(* SpawnBlocking implements Oneshot and so has these properties too; its   *)
(* own are that the closure and the thread's handle are freed once and     *)
(* that join() finds the result.                                           *)

(* The thread exists from threadCreate on, and was waited for by join().   *)
ThreadsAgree ==
  /\ spawner \in {"new", "created", "spawned", "returned", "taking",
                  "joined", "panicked"}
  /\ thread \in {"none", "ready", "running", "stored", "exited"}
  /\ thread = "none" <=> spawner \in {"new", "panicked"}
  /\ spawner \in {"taking", "joined"} => thread = "exited"
  /\ detached \in BOOLEAN
  /\ thread # "exited" => (detached <=> spawner = "returned")

(* From its store to the end of join(), the packet has the result, which   *)
(* does not change any more.                                               *)
PacketHolds ==
  thread \in {"stored", "exited"} =>
    /\ sender = "gone"
    /\ (IF spawner = "joined" THEN joined ELSE packet)
         = IF sent THEN "Ok" ELSE "Err"

SBInv ==
  ThreadsAgree /\ PacketHolds /\ ClosureFreedOnce /\ HandleFreedOnce

(* The two threads' steps that are not the channel's leave it alone; the   *)
(* others are steps of the channel.                                        *)
LEMMA ChannelStep == [SBNext]_sbVars => [Next]_vars
  <1> SUFFICES ASSUME [SBNext]_sbVars PROVE [Next]_vars
    BY ZenonT(60)
  <1>1. CASE SpawnerStep \/ CreateFails \/ Detach \/ Join
    BY ZenonT(60), <1>1 DEF SpawnerStep, ThreadCreate, Forget, JoinTake,
                CreateFails, Detach, Join
  <1>2. CASE Unwind
    BY ZenonT(60), <1>2 DEF Unwind, Next, SenderStep
  <1>3. CASE ThreadStep
    BY ZenonT(60), <1>3 DEF ThreadStep, ThreadStart, ThreadRun, ThreadStore,
                ThreadExit, Next
  <1>4. CASE Await
    BY ZenonT(60), <1>4 DEF Await, Next
  <1>5. CASE UNCHANGED sbVars
    BY ZenonT(60), <1>5 DEF sbVars
  <1> QED
    BY ZenonT(60), <1>1, <1>2, <1>3, <1>4, <1>5 DEF SBNext

(* spawn_blocking uses the channel as Oneshot says: the thread alone sends *)
(* or drops the sender, and the caller drops it only if there is none.     *)
THEOREM SpawnBlockingUsesOneshot == SBSpec => Spec
  <1>1. SBInit => Init
    BY ZenonT(60) DEF SBInit
  <1> QED
    BY <1>1, ChannelStep, PTL DEF SBSpec, Spec

(* Every step of the caller, the thread and the awaiting task preserves    *)
(* SBInv.                                                                  *)
LEMMA SBStep == SBInv /\ [SBNext]_sbVars => SBInv'
  <1> SUFFICES ASSUME SBInv, [SBNext]_sbVars PROVE SBInv'
    OBVIOUS
  <1> USE DEF SBInv, ThreadsAgree, PacketHolds, ClosureFreedOnce,
              HandleFreedOnce, Spawner, Thread, vars, senderVars,
              threadVars
  <1>1. CASE ThreadCreate
    BY ZenonT(60), <1>1 DEF ThreadCreate
  <1>2. CASE CreateFails
    BY <1>2 DEF CreateFails
  <1>3. CASE Unwind
    <2>1. thread = "none" /\ UNCHANGED threadVars
      BY ZenonT(60), <1>3 DEF Unwind
    <2> QED
      BY ZenonT(60), <2>1
  <1>4. CASE Forget
    BY ZenonT(60), <1>4 DEF Forget
  <1>5. CASE Detach
    <2>1. detached' \in BOOLEAN
      BY <1>5, ZenonT(60) DEF Detach
    <2>2. handle_frees' = IF thread = "exited" THEN 1 ELSE 0
      BY <1>5 DEF Detach
    <2>3. thread # "exited" => detached'
      BY ZenonT(60), <1>5 DEF Detach
    <2> QED
      BY ZenonT(60), <1>5, <2>1, <2>2, <2>3 DEF Detach
  <1>6. CASE Join
    BY <1>6 DEF Join
  <1>7. CASE JoinTake
    BY ZenonT(60), <1>7 DEF JoinTake
  <1>8. CASE ThreadStart
    BY ZenonT(60), <1>8 DEF ThreadStart
  <1>9. CASE ThreadRun
    <2>1. thread = "running" /\ UNCHANGED threadVars
      BY ZenonT(60), <1>9 DEF ThreadRun
    <2> QED
      BY ZenonT(60), <2>1
  <1>10. CASE ThreadStore
    BY ZenonT(60), <1>10 DEF ThreadStore
  <1>11. CASE ThreadExit
    BY <1>11 DEF ThreadExit
  <1>12. CASE Await
    <2>1. UNCHANGED senderVars /\ UNCHANGED threadVars
      BY ZenonT(60), <1>12
         DEF Await, PollStep, PollFirst, PollWoken, PollLoad,
             PollTake, PollSpurious, SetTask, Move, StrayWake
    <2> QED
      BY ZenonT(60), <2>1
  <1>13. CASE UNCHANGED sbVars
    BY ZenonT(60), <1>13 DEF sbVars
  <1> QED
    BY ZenonT(60), <1>1, <1>2, <1>3, <1>4, <1>5, <1>6, <1>7, <1>8, <1>9,
       <1>10, <1>11, <1>12, <1>13 DEF SBNext, SpawnerStep, ThreadStep

(* SBInv is an invariant of spawn_blocking. *)
LEMMA SBInductive == SBSpec => []SBInv
  <1>1. SBInit => SBInv
    BY ZenonT(60)
    DEF SBInit, Init, SBInv, ThreadsAgree, PacketHolds, ClosureFreedOnce,
           HandleFreedOnce
  <1> QED
    BY <1>1, SBStep, PTL DEF SBSpec

(* The closure that RawThread::new lends to libctru is freed once, however *)
(* the caller's forget(p) and the thread interleave.                       *)
THEOREM ClosureIsFreedOnce == SBSpec => []ClosureFreedOnce
  BY SBInductive, PTL DEF SBInv

(* threadDetach, threadJoin and the thread's exit free the libctru thread  *)
(* once, in whatever order they come.                                      *)
THEOREM HandleIsFreedOnce == SBSpec => []HandleFreedOnce
  BY SBInductive, PTL DEF SBInv

(* RawJoin::join finds the thread's result in the packet.                  *)
THEOREM JoinFindsResult == SBSpec => []JoinGetsResult
  <1>1. SBInv => JoinGetsResult
    BY ZenonT(60) DEF SBInv, ThreadsAgree, PacketHolds, JoinGetsResult
  <1> QED
    BY <1>1, SBInductive, PTL
=============================================================================
