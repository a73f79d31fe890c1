----------------------------- MODULE SyncProofs -----------------------------
(***************************************************************************)
(* Proofs about DSMutex and Notification, two primitives of src/sync.rs    *)
(* that share no state, each for any users and any bounds: types, mutual   *)
(* exclusion and the meaning of the lock word as long as no DsLock method  *)
(* is disturbed, and that a notification is neither erased nor left        *)
(* without its wake.                                                       *)
(***************************************************************************)
EXTENDS DSMutex, Notification, FiniteSetTheorems, TLAPS

(* Steps that no prover is named for are given a minute of SMT. *)
USE SMTT(60)
-----------------------------------------------------------------------------
(* DSMutex.  Types hold in any case; mutual exclusion and the meaning of   *)
(* the lock word rest on the assumption that no DsLock method is           *)
(* disturbed, ~Interruptible, without which they fail.                     *)

(* Every step of lock(), lock_sync(), a poll or unlock() keeps the types. *)
LEMMA TypeStep == TypeOK /\ [Next]_vars => TypeOK'
  <1> SUFFICES ASSUME TypeOK, [Next]_vars PROVE TypeOK'
    OBVIOUS
  <1> USE DSMutexAssumption DEF TypeOK, Goto, Load, Places, InMethod, Users
  <1>1. ASSUME NEW p \in Users, TryLock(p) PROVE TypeOK'
    BY <1>1 DEF TryLock
  <1>2. ASSUME NEW p \in Users, TryLockTakes(p) PROVE TypeOK'
    BY <1>2 DEF TryLockTakes
  <1>3. ASSUME NEW p \in Users, TryLockRegisters(p) PROVE TypeOK'
    BY <1>3 DEF TryLockRegisters
  <1>4. ASSUME NEW p \in Users, PushWaiter(p) PROVE TypeOK'
    BY <1>4 DEF PushWaiter
  <1>5. ASSUME NEW h \in Threads, WaitLessThan(h) PROVE TypeOK'
    BY ZenonT(60), <1>5 DEF WaitLessThan
  <1>6. ASSUME NEW h \in Threads, RetryThread(h) PROVE TypeOK'
    BY <1>6 DEF RetryThread
  <1>7. ASSUME NEW t \in Tasks, RetryTask(t) PROVE TypeOK'
    BY <1>7 DEF RetryTask
  <1>8. ASSUME NEW t \in Tasks, RetryTaskSpuriously(t) PROVE TypeOK'
    BY <1>8 DEF RetryTaskSpuriously
  <1>9. ASSUME NEW p \in Users, RetryTakes(p) PROVE TypeOK'
    BY <1>9 DEF RetryTakes
  <1>10. ASSUME NEW p \in Users, RetryFails(p) PROVE TypeOK'
    BY <1>10 DEF RetryFails
  <1>11. ASSUME NEW t \in Tasks, DropFut(t) PROVE TypeOK'
    BY <1>11 DEF DropFut
  <1>12. ASSUME NEW t \in Tasks, StrayWake(t) PROVE TypeOK'
    BY <1>12 DEF StrayWake
  <1>13. ASSUME NEW p \in Users, Unlock(p) PROVE TypeOK'
    BY <1>13 DEF Unlock
  <1>14. ASSUME NEW p \in Users, UnlockStores(p) PROVE TypeOK'
    BY <1>14 DEF UnlockStores
  <1>15. ASSUME NEW p \in Users, HandOverNone(p) PROVE TypeOK'
    BY <1>15 DEF HandOverNone
  <1>16. ASSUME NEW p \in Users, HandOverToTask(p) PROVE TypeOK'
    BY <1>16 DEF HandOverToTask
  <1>17. ASSUME NEW p \in Users, HandOverToThread(p) PROVE TypeOK'
    <2>1. waiters' \in Seq(Users)
      BY <1>17 DEF HandOverToThread
    <2>2. pc' \in [Users -> Places]
      <3>1. CASE {h \in Threads : pc[h] = "asleep"} = {}
        BY ZenonT(60), <1>17, <3>1 DEF HandOverToThread
      <3>2. CASE {h \in Threads : pc[h] = "asleep"} # {}
        <4>1. PICK h \in Threads :
                pc' = [pc EXCEPT ![p] = "out", ![h] = "awake"]
          BY ZenonT(60), <1>17, <3>2 DEF HandOverToThread
        <4> QED
          BY ZenonT(60), <4>1
      <3> QED
        BY <3>1, <3>2
    <2> QED
      BY <1>17, <2>1, <2>2 DEF HandOverToThread
  <1>18. CASE UNCHANGED vars
    BY <1>18 DEF vars
  <1> QED
    BY ZenonT(60), <1>1, <1>2, <1>3, <1>4, <1>5, <1>6, <1>7, <1>8, <1>9,
       <1>10, <1>11, <1>12, <1>13, <1>14, <1>15, <1>16, <1>17, <1>18
       DEF Next, Proceed
-----------------------------------------------------------------------------
(* At most one user is inside a method of DsLock. *)
OneInMethod ==
  \A p, o \in Users : pc[p] \in InMethod /\ pc[o] \in InMethod => p = o

(* What a method has loaded is still in arb when it decides. *)
LoadedIsFresh ==
  \A p \in Users :
    pc[p] \in {"trying", "retrying", "unlocking"} => loaded[p] = arb

(* The magnitude that arb ought to have. *)
Size == 1 + Cardinality(Waiting) + abandoned

Word == arb = IF Holders = {} THEN Size ELSE -Size

IInv ==
  /\ TypeOK
  /\ OneInMethod
  /\ LoadedIsFresh
  /\ MutualExclusion
  /\ Word

(* Size is positive, and a user that waits is counted in it. *)
LEMMA SizeFacts ==
  ASSUME TypeOK
  PROVE  /\ IsFiniteSet(Waiting)
         /\ Cardinality(Waiting) \in Nat
         /\ Size \in Nat \ {0}
         /\ Waiting # {} => Size >= 2
  <1>1. IsFiniteSet(Users)
    BY ZenonT(60), DSMutexAssumption, FS_Union DEF Users
  <1>2. IsFiniteSet(Waiting)
    BY <1>1, FS_Subset DEF Waiting
  <1>3. Cardinality(Waiting) \in Nat
    BY <1>2, FS_CardinalityType
  <1>4. Waiting # {} => Cardinality(Waiting) # 0
    BY <1>2, FS_EmptySet
  <1> QED
    BY <1>2, <1>3, <1>4 DEF TypeOK, Size

(* How Holders and Waiting follow a user that moves. *)
LEMMA Moves ==
  ASSUME TypeOK, NEW p \in Users, NEW x, pc' = [pc EXCEPT ![p] = x]
  PROVE  /\ Holders' = IF x \in {"holding", "unlocking"} THEN Holders \cup {p}
                       ELSE Holders \ {p}
         /\ Waiting' = IF x \in {"pushing", "registered", "asleep", "awake",
                                 "retrying"} THEN Waiting \cup {p}
                       ELSE Waiting \ {p}
  BY DEF TypeOK, Holders, Waiting

(* Undisturbed, a user that takes a step is the only one inside a method,  *)
(* so that what it has just loaded is not stale.                           *)
LEMMA Undisturbed ==
  ASSUME TypeOK, ~Interruptible, NEW p \in Users, MayRun(p), NEW x,
         pc' = [pc EXCEPT ![p] = x],
         x \in {"trying", "retrying", "unlocking"} => loaded'[p] = arb'
  PROVE  OneInMethod' /\ LoadedIsFresh'
  <1>1. \A o \in Users \ {p} : pc'[o] \notin InMethod
    BY DEF MayRun, TypeOK
  <1>2. OneInMethod'
    BY <1>1 DEF OneInMethod
  <1>3. LoadedIsFresh'
    BY <1>1 DEF LoadedIsFresh, InMethod, TypeOK
  <1> QED
    BY <1>2, <1>3

(* A step that moves one user and changes neither the sets nor the word.   *)
LEMMA Neutral ==
  ASSUME IInv, Holders' = Holders, Waiting' = Waiting,
         arb' = arb, abandoned' = abandoned
  PROVE  MutualExclusion' /\ Word'
  BY DEF IInv, MutualExclusion, Word, Size
(* What has to be shown of every step. *)
Goal == OneInMethod /\ LoadedIsFresh /\ MutualExclusion /\ Word

(* Taking the lock, first attempt or retry: it was free, so p becomes its  *)
(* only holder; a retry also leaves the waiters.                           *)
LEMMA TakeStep ==
  ASSUME IInv, ~Interruptible, NEW p \in Users,
         TryLockTakes(p) \/ RetryTakes(p)
  PROVE  Goal'
  <1>1. /\ MayRun(p)
        /\ pc' = [pc EXCEPT ![p] = "holding"]
        /\ loaded[p] = arb /\ arb > 0
        /\ abandoned' = abandoned
    BY DEF TryLockTakes, RetryTakes, Goto, IInv, LoadedIsFresh
  <1>2. Holders = {} /\ arb = Size
    BY <1>1, SizeFacts DEF IInv, Word
  <1>3. Holders' = {p} /\ Waiting' = Waiting \ {p}
    BY ZenonT(60), <1>1, <1>2, Moves DEF IInv
  <1>4. OneInMethod' /\ LoadedIsFresh'
    BY ZenonT(60), <1>1, Undisturbed DEF IInv
  <1>5. MutualExclusion'
    BY <1>3 DEF MutualExclusion
  <1>6. CASE TryLockTakes(p)
    <2>1. p \notin Waiting /\ arb' = -arb
      BY <1>1, <1>6 DEF TryLockTakes, Goto, Waiting
    <2>2. Waiting' = Waiting
      BY <1>3, <2>1
    <2> QED
      BY <1>1, <1>2, <1>3, <1>4, <1>5, <2>1, <2>2 DEF Goal, Word, Size
  <1>7. CASE RetryTakes(p)
    <2>1. p \in Waiting /\ arb' = -(arb - 1)
      BY <1>1, <1>7 DEF RetryTakes, Goto, Waiting
    <2>2. Cardinality(Waiting') = Cardinality(Waiting) - 1
      BY <1>3, <2>1, SizeFacts, FS_RemoveElement DEF IInv
    <2>3. Size' = Size - 1 /\ Size \in Nat /\ arb \in Int
      BY <1>1, <2>2, SizeFacts DEF IInv, Size, TypeOK
    <2>4. Word'
      BY <1>2, <1>3, <2>1, <2>3 DEF Word
    <2> QED
      BY <1>4, <1>5, <2>4 DEF Goal
  <1> QED
    BY <1>6, <1>7

(* Registering: the lock is held, and there is one waiter more. *)
LEMMA RegisterStep ==
  ASSUME IInv, ~Interruptible, NEW p \in Users, TryLockRegisters(p)
  PROVE  Goal'
  <1>1. /\ MayRun(p)
        /\ pc' = [pc EXCEPT ![p] = "pushing"]
        /\ loaded[p] = arb /\ arb <= 0 /\ arb' = arb - 1
        /\ abandoned' = abandoned
        /\ p \notin Waiting /\ p \notin Holders
    BY DEF TryLockRegisters, Goto, IInv, LoadedIsFresh, Waiting, Holders
  <1>2. Holders # {} /\ arb = -Size
    BY <1>1, SizeFacts DEF IInv, Word
  <1>3. Holders' = Holders /\ Waiting' = Waiting \cup {p}
    <2>1. Holders' = Holders \ {p} /\ Waiting' = Waiting \cup {p}
      BY ZenonT(60), <1>1, Moves DEF IInv
    <2> QED
      BY <1>1, <2>1
  <1>4. Cardinality(Waiting') = Cardinality(Waiting) + 1
    BY ZenonT(60), <1>1, <1>3, SizeFacts, FS_AddElement DEF IInv
  <1>5. Size' = Size + 1 /\ Size \in Nat
    BY <1>1, <1>4, SizeFacts DEF IInv, Size, TypeOK
  <1>6. Word'
    BY <1>1, <1>2, <1>3, <1>5 DEF Word
  <1>7. OneInMethod' /\ LoadedIsFresh'
    BY ZenonT(60), <1>1, Undisturbed DEF IInv
  <1> QED
    BY <1>3, <1>6, <1>7 DEF Goal, IInv, MutualExclusion

(* A dropped LockFut stays in the count. *)
LEMMA DropStep ==
  ASSUME IInv, ~Interruptible, NEW p \in Users, DropFut(p)
  PROVE  Goal'
  <1>1. /\ MayRun(p)
        /\ pc' = [pc EXCEPT ![p] = "out"]
        /\ arb' = arb /\ abandoned' = abandoned + 1
        /\ p \in Waiting /\ p \notin Holders
    BY DEF DropFut, Goto, Waiting, Holders
  <1>2. Holders' = Holders /\ Waiting' = Waiting \ {p}
    <2>1. Holders' = Holders \ {p} /\ Waiting' = Waiting \ {p}
      BY ZenonT(60), <1>1, Moves DEF IInv
    <2> QED
      BY <1>1, <2>1
  <1>3. Cardinality(Waiting') = Cardinality(Waiting) - 1
    BY <1>1, <1>2, SizeFacts, FS_RemoveElement DEF IInv
  <1>4. Size' = Size
    BY <1>1, <1>3, SizeFacts DEF IInv, Size, TypeOK
  <1>5. OneInMethod' /\ LoadedIsFresh'
    BY ZenonT(60), <1>1, Undisturbed DEF IInv
  <1> QED
    BY <1>1, <1>2, <1>4, <1>5 DEF Goal, IInv, MutualExclusion, Word

(* Unlocking: the only holder leaves, and the word turns positive. *)
LEMMA UnlockStep ==
  ASSUME IInv, ~Interruptible, NEW p \in Users, UnlockStores(p)
  PROVE  Goal'
  <1>1. /\ MayRun(p)
        /\ loaded[p] = arb
        /\ abandoned' = abandoned
        /\ p \in Holders /\ p \notin Waiting
    BY DEF UnlockStores, Goto, IInv, LoadedIsFresh, Waiting, Holders
  <1>2. Holders = {p}
    BY <1>1 DEF IInv, MutualExclusion
  <1>3. arb = -Size /\ arb < 0 /\ Size \in Nat
    BY <1>2, SizeFacts DEF IInv, Word
  <1>4. pc' = [pc EXCEPT ![p] = "handing"] /\ arb' = -arb
    BY <1>1, <1>3 DEF UnlockStores, Goto
  <1>5. Holders' = {} /\ Waiting' = Waiting
    <2>1. /\ "handing" \notin {"holding", "unlocking"}
          /\ "handing" \notin {"pushing", "registered", "asleep", "awake",
                               "retrying"}
      OBVIOUS
    <2>2. Holders' = Holders \ {p} /\ Waiting' = Waiting \ {p}
      BY <1>4, <2>1, Moves, ZenonT(60) DEF IInv
    <2> QED
      BY <1>1, <1>2, <2>2
  <1>6. OneInMethod' /\ LoadedIsFresh'
    BY ZenonT(60), <1>1, <1>4, Undisturbed DEF IInv
  <1>7. Word'
    BY <1>1, <1>3, <1>4, <1>5 DEF Word, Size
  <1> QED
    BY <1>5, <1>6, <1>7 DEF Goal, MutualExclusion
(* Every other step moves a user within the waiters, the holders or the    *)
(* rest, and leaves the word alone.                                        *)
LEMMA OtherStep ==
  ASSUME IInv, ~Interruptible, NEW p \in Users,
         \/ TryLock(p) \/ PushWaiter(p) \/ WaitLessThan(p) \/ RetryThread(p)
         \/ RetryTask(p) \/ RetryTaskSpuriously(p) \/ RetryFails(p)
         \/ Unlock(p) \/ HandOverNone(p) \/ HandOverToTask(p)
  PROVE  Goal'
  <1> DEFINE Group ==
        {{"out", "trying", "handing"}, {"holding", "unlocking"},
         {"pushing", "registered", "asleep", "awake", "retrying"}}
  <1>1. /\ MayRun(p)
        /\ arb' = arb /\ abandoned' = abandoned
        /\ \E g \in Group : pc[p] \in g /\ \E x \in g :
             /\ pc' = [pc EXCEPT ![p] = x]
             /\ x \in {"trying", "retrying", "unlocking"} => loaded'[p] = arb'
    BY DEF TryLock, PushWaiter, WaitLessThan, RetryThread, RetryTask,
           RetryTaskSpuriously, RetryFails, Unlock, HandOverNone,
           HandOverToTask, Goto, Load, IInv, TypeOK
  <1>2. PICK x :
          /\ \E g \in Group : pc[p] \in g /\ x \in g
          /\ pc' = [pc EXCEPT ![p] = x]
          /\ x \in {"trying", "retrying", "unlocking"} => loaded'[p] = arb'
    BY ZenonT(60), <1>1
  <1>3. OneInMethod' /\ LoadedIsFresh'
    BY ZenonT(60), <1>1, <1>2, Undisturbed DEF IInv
  <1>4. Holders' = Holders /\ Waiting' = Waiting
    BY ZenonT(60), <1>2 DEF IInv, TypeOK, Holders, Waiting
  <1> QED
    BY <1>1, <1>3, <1>4, Neutral DEF Goal

(* signal_one(): the thread that is woken stays a waiter. *)
LEMMA SignalStep ==
  ASSUME IInv, ~Interruptible, NEW p \in Users, HandOverToThread(p)
  PROVE  Goal'
  <1>1. /\ MayRun(p)
        /\ pc[p] = "handing"
        /\ arb' = arb /\ abandoned' = abandoned
    BY DEF HandOverToThread
  <1>2. CASE {h \in Threads : pc[h] = "asleep"} = {}
    <2>1. pc' = [pc EXCEPT ![p] = "out"]
      BY <1>2 DEF HandOverToThread
    <2>2. Holders' = Holders /\ Waiting' = Waiting
      BY <1>1, <2>1 DEF IInv, TypeOK, Holders, Waiting
    <2>3. OneInMethod' /\ LoadedIsFresh'
      BY ZenonT(60), <1>1, <2>1, Undisturbed DEF IInv
    <2> QED
      BY <1>1, <2>2, <2>3, Neutral DEF Goal
  <1>3. CASE {h \in Threads : pc[h] = "asleep"} # {}
    <2>1. PICK h \in Threads :
            /\ pc[h] = "asleep"
            /\ pc' = [pc EXCEPT ![p] = "out", ![h] = "awake"]
      BY <1>3 DEF HandOverToThread
    <2>2. h \in Users /\ h # p
      BY <1>1, <2>1 DEF Users
    <2>3. \A o \in Users : pc'[o] = IF o = p THEN "out"
                                    ELSE IF o = h THEN "awake" ELSE pc[o]
      BY <2>1, <2>2 DEF IInv, TypeOK
    <2>4. Holders' = Holders /\ Waiting' = Waiting
      <3>1. \A o \in Users :
              /\ pc'[o] \in {"holding", "unlocking"}
                   <=> pc[o] \in {"holding", "unlocking"}
              /\ pc'[o] \in {"pushing", "registered", "asleep", "awake",
                             "retrying"}
                   <=> pc[o] \in {"pushing", "registered", "asleep", "awake",
                                  "retrying"}
        <4> TAKE o \in Users
        <4>1. CASE o = p
          BY <1>1, <2>3, <4>1
        <4>2. CASE o = h
          <5>1. pc'[o] = "awake" /\ pc[o] = "asleep"
            BY ZenonT(60), <2>1, <2>2, <2>3, <4>2
          <5> QED
            BY <5>1
        <4>3. CASE o # p /\ o # h
          BY <2>3, <4>3
        <4> QED
          BY <4>1, <4>2, <4>3
      <3> QED
        BY <3>1 DEF Holders, Waiting
    <2>5. \A o \in Users : pc'[o] \notin InMethod
      BY <1>1, <2>3 DEF MayRun, InMethod
    <2>6. OneInMethod' /\ LoadedIsFresh'
      BY <2>5 DEF OneInMethod, LoadedIsFresh, InMethod
    <2> QED
      BY <1>1, <2>4, <2>6, Neutral DEF Goal
  <1> QED
    BY <1>2, <1>3
(* Undisturbed, every step preserves IInv. *)
LEMMA IInvStep ==
  ASSUME IInv, ~Interruptible, [Next]_vars
  PROVE  IInv'
  <1>1. ASSUME NEW p \in Users, TryLock(p) \/ Proceed(p) PROVE Goal'
    BY <1>1, TakeStep, RegisterStep, UnlockStep, OtherStep, SignalStep
       DEF Proceed
  <1>2. ASSUME NEW h \in Threads, WaitLessThan(h) \/ RetryThread(h)
        PROVE  Goal'
    BY <1>2, OtherStep DEF Users
  <1>3. ASSUME NEW t \in Tasks,
               RetryTask(t) \/ RetryTaskSpuriously(t) \/ DropFut(t)
        PROVE  Goal'
    BY <1>3, OtherStep, DropStep DEF Users
  <1>4. ASSUME NEW t \in Tasks, StrayWake(t) PROVE Goal'
    BY <1>4 DEF StrayWake, IInv, Goal, OneInMethod, LoadedIsFresh,
                MutualExclusion, Word, Size, Holders, Waiting
  <1>5. ASSUME UNCHANGED vars PROVE Goal'
    BY <1>5 DEF vars, IInv, Goal, OneInMethod, LoadedIsFresh,
                MutualExclusion, Word, Size, Holders, Waiting
  <1>6. Goal'
    BY <1>1, <1>2, <1>3, <1>4, <1>5 DEF Next
  <1>7. TypeOK'
    BY TypeStep DEF IInv
  <1> QED
    BY <1>6, <1>7 DEF IInv, Goal

(* A new lock, DSMutex::new, satisfies IInv. *)
LEMMA InitIInv == Init => IInv
  <1> SUFFICES ASSUME Init PROVE IInv
    OBVIOUS
  <1>1. TypeOK
    BY DSMutexAssumption DEF Init, TypeOK, Places
  <1>2. Holders = {} /\ Waiting = {}
    BY DEF Init, Holders, Waiting
  <1>3. Word
    BY <1>2, FS_EmptySet DEF Init, Word, Size
  <1>4. OneInMethod /\ LoadedIsFresh
    BY DEF Init, OneInMethod, LoadedIsFresh, InMethod
  <1> QED
    BY <1>1, <1>2, <1>3, <1>4 DEF IInv, MutualExclusion

(* Type correctness, disturbed or not. *)
THEOREM MutexTypeCorrect == Spec => []TypeOK
  BY InitIInv, TypeStep, PTL DEF Spec, IInv

(* If no DsLock method is disturbed, any number of tasks and threads       *)
(* exclude one another, whatever futures are dropped or polled without     *)
(* reason.                                                                 *)
THEOREM UndisturbedExclusion ==
  ASSUME ~Interruptible
  PROVE  Spec => []MutualExclusion
  <1>1. IInv /\ [Next]_vars => IInv'
    BY IInvStep
  <1> QED
    BY InitIInv, <1>1, PTL DEF Spec, IInv

(* The lock word counts the waiters and tells whether the lock is held, as *)
(* the arithmetic of DsLock's methods intends; so unlock() is never        *)
(* called on a word that it would leave locked.                            *)
THEOREM LockWordCorrect == Spec => []LockWordCounts
  <1>1. CASE Interruptible
    <2>1. LockWordCounts
      BY <1>1 DEF LockWordCounts
    <2> QED
      BY <2>1, PTL
  <1>2. CASE ~Interruptible
    <2>1. IInv /\ [Next]_vars => IInv'
      BY <1>2, IInvStep
    <2>2. IInv => LockWordCounts
      BY DEF IInv, Word, Size, LockWordCounts
    <2> QED
      BY InitIInv, <2>1, <2>2, PTL DEF Spec
  <1> QED
    BY <1>1, <1>2
-----------------------------------------------------------------------------
(* Notification.                                                           *)

(* notify() goes on only from a token and stores READY over it; a waiter   *)
(* registers only over UNINIT; there is no wake before notify()'s.         *)
NotifyInv ==
  /\ NfTypeOK
  /\ \A n \in Pairs :
       /\ sender[n] # "gone" => waiter_wakes[n] = 0
       /\ sender[n] = "storing" => state[n] = "token"
       /\ sender[n] = "waking" => state[n] = "READY"
       /\ state[n] = "READY" => sender[n] \in {"waking", "gone"}
       /\ waiter[n] \in {"unpolled", "registering"} => state[n] = "UNINIT"
       /\ waiter[n] = "pending" => state[n] # "UNINIT"

(* Every load and every store of notify() and poll() preserves NotifyInv. *)
LEMMA NotifyStep == NotifyInv /\ [NfNext]_nfVars => NotifyInv'
  <1> SUFFICES ASSUME NotifyInv, [NfNext]_nfVars PROVE NotifyInv'
    OBVIOUS
  <1> USE DEF NotifyInv, NfTypeOK, Step
  <1>1. ASSUME NEW n \in Pairs, NotifyLoad(n) PROVE NotifyInv'
    BY <1>1 DEF NotifyLoad
  <1>2. ASSUME NEW n \in Pairs, NotifyStore(n) PROVE NotifyInv'
    BY <1>2 DEF NotifyStore
  <1>3. ASSUME NEW n \in Pairs, NotifyWake(n) PROVE NotifyInv'
    BY <1>3 DEF NotifyWake
  <1>4. ASSUME NEW n \in Pairs, PollFirst(n) PROVE NotifyInv'
    BY <1>4 DEF PollFirst, PollLoad
  <1>5. ASSUME NEW n \in Pairs, PollWoken(n) PROVE NotifyInv'
    BY <1>5 DEF PollWoken, PollLoad
  <1>6. ASSUME NEW n \in Pairs, PollSpurious(n) PROVE NotifyInv'
    BY <1>6, NotificationAssumption DEF PollSpurious, PollLoad
  <1>7. ASSUME NEW n \in Pairs, PollStore(n) PROVE NotifyInv'
    BY <1>7 DEF PollStore
  <1>8. CASE UNCHANGED nfVars
    BY <1>8 DEF nfVars
  <1> QED
    BY ZenonT(60), <1>1, <1>2, <1>3, <1>4, <1>5, <1>6, <1>7, <1>8
       DEF NfNext, SenderStep, PollStep

(* NotifyInv is an invariant of the notifications. *)
LEMMA AlwaysNotifyInv == NfSpec => []NotifyInv
  <1>1. NfInit => NotifyInv
    BY NotificationAssumption DEF NfInit, NotifyInv, NfTypeOK
  <1> QED
    BY <1>1, NotifyStep, PTL DEF NfSpec

(* The word of a notification is UNINIT, READY or a token, and its waiter  *)
(* is never woken twice, however notify() and poll() interleave.           *)
THEOREM NotificationTypeCorrect == NfSpec => []NfTypeOK
  <1>1. NotifyInv => NfTypeOK
    BY DEF NotifyInv
  <1> QED
    BY <1>1, AlwaysNotifyInv, PTL

(* poll() loads UNINIT and stores its token in two steps, but no notify()  *)
(* in between has stored READY, so that READY is never overwritten.        *)
THEOREM NotificationReadyIsFinal == NfSpec => ReadyIsFinal
  <1> DEFINE Stays ==
           \A n \in Pairs : state[n] = "READY" => state'[n] = "READY"
  <1>1. NotifyInv /\ [NfNext]_nfVars => [Stays]_nfVars
    <2> SUFFICES ASSUME NotifyInv, NfNext, NEW m \in Pairs, state[m] = "READY"
                 PROVE  state'[m] = "READY"
      OBVIOUS
    <2>1. ASSUME NEW n \in Pairs, PollStore(n) PROVE state'[m] = "READY"
      BY <2>1 DEF NotifyInv, NfTypeOK, PollStore, Step
    <2>2. ASSUME NEW n \in Pairs, NotifyStore(n) PROVE state'[m] = "READY"
      BY <2>2 DEF NotifyInv, NfTypeOK, NotifyStore
    <2>3. \/ UNCHANGED state
          \/ \E n \in Pairs : PollStore(n) \/ NotifyStore(n)
      BY ZenonT(60) DEF NfNext, SenderStep, PollStep, NotifyLoad,
         NotifyWake, PollFirst, PollWoken, PollSpurious, PollLoad
    <2> QED
      BY <2>1, <2>2, <2>3
  <1> QED
    BY <1>1, AlwaysNotifyInv, PTL DEF NfSpec, ReadyIsFinal

(* A waiter that is pending although the word is READY has its wake, or    *)
(* notify() has yet to send it: the safety that RegisteredIsNotified       *)
(* rests on.                                                               *)
NotifiedIsWoken ==
  \A n \in Pairs :
    waiter[n] = "pending" /\ state[n] = "READY"
      => sender[n] = "waking" \/ waiter_wakes[n] > 0

(* A poll uses up the wake only by completing; a step of another pair      *)
(* changes nothing here.                                                   *)
LEMMA WokenStep ==
  NotifyInv /\ NotifiedIsWoken /\ [NfNext]_nfVars => NotifiedIsWoken'
  <1> SUFFICES ASSUME NotifyInv, NotifiedIsWoken, [NfNext]_nfVars
               PROVE  NotifiedIsWoken'
    OBVIOUS
  <1> USE DEF NotifyInv, NfTypeOK, NotifiedIsWoken, Step
  <1>1. ASSUME NEW n \in Pairs, NotifyLoad(n) PROVE NotifiedIsWoken'
    BY <1>1 DEF NotifyLoad
  <1>2. ASSUME NEW n \in Pairs, NotifyStore(n) PROVE NotifiedIsWoken'
    BY <1>2 DEF NotifyStore
  <1>3. ASSUME NEW n \in Pairs, NotifyWake(n) PROVE NotifiedIsWoken'
    BY <1>3 DEF NotifyWake
  <1>4. ASSUME NEW n \in Pairs, PollFirst(n) PROVE NotifiedIsWoken'
    BY <1>4 DEF PollFirst, PollLoad
  <1>5. ASSUME NEW n \in Pairs, PollWoken(n) PROVE NotifiedIsWoken'
    BY <1>5 DEF PollWoken, PollLoad
  <1>6. ASSUME NEW n \in Pairs, PollSpurious(n) PROVE NotifiedIsWoken'
    BY <1>6 DEF PollSpurious, PollLoad
  <1>7. ASSUME NEW n \in Pairs, PollStore(n) PROVE NotifiedIsWoken'
    BY <1>7 DEF PollStore
  <1>8. CASE UNCHANGED nfVars
    BY <1>8 DEF nfVars
  <1> QED
    BY ZenonT(60), <1>1, <1>2, <1>3, <1>4, <1>5, <1>6, <1>7, <1>8
       DEF NfNext, SenderStep, PollStep

(* notify() stores READY before it wakes the task, and no poll takes the   *)
(* wake without seeing READY: a registered waiter is never left pending.   *)
THEOREM NotificationWakes == NfSpec => []NotifiedIsWoken
  <1>1. NfInit => NotifiedIsWoken
    BY DEF NfInit, NotifiedIsWoken
  <1> QED
    BY <1>1, WokenStep, AlwaysNotifyInv, PTL DEF NfSpec
=============================================================================
