--------------------------- MODULE AsyncFsProofs ---------------------------
(***************************************************************************)
(* Proofs about AsyncFs, for any files, workers, numbers of operations and *)
(* lengths of buffers: an operation is in one place, its future returns    *)
(* what the worker's call returned, the cursor follows the transfers, and  *)
(* no wake is lost.                                                        *)
(***************************************************************************)
EXTENDS AsyncFs, TLAPS

(* Steps that no prover is named for are given a minute of SMT. *)
USE SMTT(60)

(* Worker w has the operation of file f and has not resolved it. *)
Holds(w, f) == worker[w].at \in Holding /\ worker[w].file = f

InPool(f) == \E k \in 1..Len(pool.vals) : pool.vals[k] = f

(* The operation was pushed and its result is not set. *)
Unresolved(f) == fut[f] \in {"adding", "pending"} /\ result[f] = Unset

(* OpInOnePlace, place by place: no two items of the pool, no two workers, *)
(* and no item and worker have the same operation, and exactly those not   *)
(* resolved are somewhere.                                                 *)
Placed ==
  /\ \A k, l \in 1..Len(pool.vals) : pool.vals[k] = pool.vals[l] => k = l
  /\ \A f \in Files, v, w \in Workers : Holds(v, f) /\ Holds(w, f) => v = w
  /\ \A f \in Files, w \in Workers : Holds(w, f) => ~InPool(f)
  /\ \A f \in Files :
       Unresolved(f) <=> InPool(f) \/ \E w \in Workers : Holds(w, f)

(* The result code is there before the result, and both are the call's. *)
Published ==
  /\ \A f \in Files : outcome[f].code = OsErr => outcome[f].bytes = 0
  /\ \A f \in Files : fut[f] = "new" => result[f] = Unset
  /\ \A f \in Files : result[f] # Unset => /\ state[f] = outcome[f].code
                                           /\ result[f] = outcome[f].bytes
  /\ \A f \in Files, w \in Workers :
       Holds(w, f) /\ worker[w].at \in {"storeState", "storeResult"}
         => outcome[f].bytes # Unset
  /\ \A f \in Files, w \in Workers :
       Holds(w, f) /\ worker[w].at = "storeResult"
         => state[f] = outcome[f].code
  /\ ReturnsOutcome

(* A stream operation starts where the cursor stays until it completes,    *)
(* and the cursor has not gone past what all operations can transfer.      *)
AtCursor ==
  \A f \in Files :
    /\ fut[f] # "none" /\ op[f].kind \in Stream => op[f].offset = cursor[f]
    /\ cursor[f] + (IF fut[f] = "none" THEN 0 ELSE MaxLen) <= ops * MaxLen

FsInv == TypeOK /\ Placed /\ Published /\ AtCursor
-----------------------------------------------------------------------------
(* What the halves of SyncQueue's add(), wait() and remove() do to the     *)
(* pool.                                                                   *)

(* add()'s push puts one operation at the end. *)
LEMMA PushFacts ==
  ASSUME NEW f \in Files, pool \in QueueOf(Files), pool' = PushBack(pool, f)
  PROVE  /\ pool' \in QueueOf(Files)
         /\ Len(pool.vals) \in Nat
         /\ Len(pool'.vals) = Len(pool.vals) + 1
         /\ pool'.vals[Len(pool.vals) + 1] = f
         /\ \A k \in 1..Len(pool.vals) : pool'.vals[k] = pool.vals[k]
  BY DEF QueueOf, PushBack

(* add()'s release and wait() keep the operations. *)
LEMMA PermitFacts ==
  ASSUME pool \in QueueOf(Files),
         \/ pool' = ReleasePermit(pool)
         \/ Signalled(pool) /\ pool' = TakePermit(pool)
  PROVE  pool' \in QueueOf(Files) /\ pool'.vals = pool.vals
  BY MaxPermitsAssumption DEF QueueOf, ReleasePermit, TakePermit, Signalled

(* remove() takes the last operation. *)
LEMMA PopFacts ==
  ASSUME pool \in QueueOf(Files), ~IsEmpty(pool), pool' = PopBack(pool)
  PROVE  /\ pool' \in QueueOf(Files)
         /\ Popped(pool) \in Files
         /\ Len(pool.vals) \in Nat \ {0}
         /\ Popped(pool) = pool.vals[Len(pool.vals)]
         /\ Len(pool'.vals) = Len(pool.vals) - 1
         /\ \A k \in 1..(Len(pool.vals) - 1) : pool'.vals[k] = pool.vals[k]
  <1> DEFINE s == pool.vals
  <1>1. s \in Seq(Files) /\ Len(s) \in Nat \ {0}
    BY DEF QueueOf, IsEmpty
  <1>2. Popped(pool) \in Files /\ Popped(pool) = s[Len(s)]
    BY <1>1 DEF Popped
  <1>3. /\ SubSeq(s, 1, Len(s) - 1) \in Seq(Files)
        /\ Len(SubSeq(s, 1, Len(s) - 1)) = Len(s) - 1
        /\ \A k \in 1..(Len(s) - 1) : SubSeq(s, 1, Len(s) - 1)[k] = s[k]
    BY <1>1
  <1>4. pool' \in QueueOf(Files) /\ pool'.vals = SubSeq(s, 1, Len(s) - 1)
    BY ZenonT(60), <1>3 DEF PopBack, QueueOf
  <1> QED
    BY ZenonT(60), <1>1, <1>2, <1>3, <1>4
-----------------------------------------------------------------------------
(* What the steps of a future and of a worker do.                          *)

(* A worker with an operation, or with none. *)
WorkerType ==
  [at : {"wait", "remove"}] \cup [at : Holding \cup {"wake"}, file : Files]

(* What a worker becomes, and that the others stay what they are. *)
LEMMA WorkerFacts ==
  ASSUME TypeOK, NEW w \in Workers, NEW from, NEW to \in WorkerType,
         Worker(w, from, to)
  PROVE  /\ worker' \in [Workers -> WorkerType]
         /\ worker[w] = from /\ worker'[w] = to
         /\ \A v \in Workers : v # w => worker'[v] = worker[v]
  BY ZenonT(60) DEF TypeOK, WorkerType, Worker

(* Every place of a worker is one of its type. *)
LEMMA AtFacts ==
  ASSUME NEW f \in Files, NEW p \in Holding \cup {"wake"}
  PROVE  At(p, f) \in WorkerType /\ At(p, f).at = p /\ At(p, f).file = f
  BY ZenonT(60) DEF At, WorkerType

(* More operations can transfer more. *)
LEMMA TimesMonotone ==
  ASSUME NEW a \in Nat, NEW b \in Nat, NEW c \in Nat
  PROVE  /\ (a + 1) * c = a * c + c
         /\ a <= b => a * c <= b * c
         /\ a * c \in Nat
  OBVIOUS

(* What read(), write() and their kin return is in range. *)
LEMMA OutcomeTypes ==
  ASSUME NEW kind \in Kinds, NEW o \in Outcomes(kind)
  PROVE  o \in Results /\ o.bytes # Unset /\ (o.code = OsErr => o.bytes = 0)
  BY AsyncFsAssumption DEF Outcomes, Results, Bytes, OsErr, Unset

(* What state_resolve() returns is in range. *)
LEMMA ResolveTypes ==
  ASSUME TypeOK, NEW f \in Files
  PROVE  StateResolve(f) \in Results
  BY AsyncFsAssumption DEF TypeOK, StateResolve, Results, Bytes, OsErr

(* A poll of a pending future leaves it pending, or completes it. *)
LEMMA PollFacts ==
  ASSUME TypeOK, NEW f \in Files, PollWoken(f) \/ PollSpurious(f)
  PROVE  /\ fut[f] = "pending"
         /\ UNCHANGED <<pool, op, state, result, ops, worker, outcome>>
         /\ wakes' \in [Files -> Nat] /\ spurious' \in 0..MaxSpurious
         /\ \/ result[f] = Unset /\ UNCHANGED <<returned, cursor, fut>>
            \/ /\ result[f] # Unset
               /\ Complete(f) /\ fut' = [fut EXCEPT ![f] = "none"]
  <1>1. PollAgain(f)
    BY ZenonT(60) DEF PollWoken, PollSpurious
  <1>2. /\ fut[f] = "pending"
        /\ UNCHANGED <<pool, op, state, result, ops, worker, outcome>>
        /\ \/ result[f] = Unset /\ UNCHANGED <<returned, cursor, fut>>
           \/ /\ result[f] # Unset
              /\ Complete(f) /\ fut' = [fut EXCEPT ![f] = "none"]
    BY ZenonT(60), <1>1 DEF PollAgain
  <1>3. wakes' \in [Files -> Nat] /\ spurious' \in 0..MaxSpurious
    BY AsyncFsAssumption DEF TypeOK, PollWoken, PollSpurious
  <1> QED
    BY ZenonT(60), <1>2, <1>3

(* The cursor moves by what was transferred, which is at most MaxLen. *)
LEMMA CompleteFacts ==
  ASSUME TypeOK, NEW f \in Files, result[f] # Unset, Complete(f)
  PROVE  /\ returned' = [returned EXCEPT ![f] = StateResolve(f)]
         /\ \A g \in Files : g # f => cursor'[g] = cursor[g]
         /\ cursor' \in [Files -> Int]
         /\ cursor'[f] \in cursor[f]..(cursor[f] + MaxLen)
         /\ cursor'[f] # cursor[f] =>
              /\ op[f].kind \in Stream /\ StateResolve(f).code = 0
              /\ cursor'[f] = cursor[f] + StateResolve(f).bytes
  <1> DEFINE s == StateResolve(f)
             moves == op[f].kind \in Stream /\ s.code = 0
             c == IF moves THEN cursor[f] + s.bytes ELSE cursor[f]
  <1>1. s.code = 0 => s.bytes \in 0..MaxLen
    BY ZenonT(60) DEF TypeOK, StateResolve, Bytes, OsErr
  <1>2. /\ returned' = [returned EXCEPT ![f] = s]
        /\ cursor' = [cursor EXCEPT ![f] = c]
    BY ZenonT(60) DEF Complete
  <1>3. cursor \in [Files -> Int] /\ MaxLen \in Nat
    BY AsyncFsAssumption DEF TypeOK, Offsets
  <1> HIDE DEF s, moves
  <1>4. c \in cursor[f]..(cursor[f] + MaxLen)
    BY <1>1, <1>3 DEF moves
  <1>5. c # cursor[f] => moves /\ c = cursor[f] + s.bytes
    BY ZenonT(60)
  <1> HIDE DEF c
  <1>6. /\ \A g \in Files : g # f => cursor'[g] = cursor[g]
        /\ cursor' \in [Files -> Int] /\ cursor'[f] = c
    BY <1>2, <1>3, <1>4
  <1> QED
    BY ZenonT(60), <1>2, <1>4, <1>5, <1>6 DEF s, moves

(* The places where a worker takes a step with an operation it holds. *)
LEMMA HolderPlaces ==
  /\ "perform" \in Holding
  /\ "storeState" \in Holding
  /\ "storeResult" \in Holding
  BY ZenonT(60) DEF Holding

(* Worker w takes a step with an operation that it has yet to resolve, and *)
(* that nobody else has; the other workers stay where they are.            *)
HolderStep(w, f, from, to) ==
  /\ worker[w].at = from /\ worker[w].file = f
  /\ worker'[w].at = to /\ worker'[w].file = f
  /\ \A v \in Workers : v # w => worker'[v] = worker[v] /\ ~Holds(v, f)
  /\ Unresolved(f) /\ Holds(w, f)

(* A worker's steps from "perform" to the store of the result are such. *)
LEMMA HolderSteps ==
  ASSUME TypeOK, Placed, NEW w \in Workers, NEW f \in Files,
         NEW from \in Holding, NEW to, Worker(w, At(from, f), At(to, f))
  PROVE  HolderStep(w, f, from, to)
  <1>1. worker[w] = At(from, f) /\ worker' = [worker EXCEPT ![w] = At(to, f)]
    BY ZenonT(60) DEF Worker
  <1>2. /\ worker[w].at = from /\ worker[w].file = f
        /\ worker'[w].at = to /\ worker'[w].file = f
        /\ \A v \in Workers : v # w => worker'[v] = worker[v]
    BY <1>1 DEF TypeOK, At
  <1>3. Holds(w, f)
    BY ZenonT(60), <1>2 DEF Holds
  <1>4. Unresolved(f) /\ \A v \in Workers : v # w => ~Holds(v, f)
    BY ZenonT(60), <1>3 DEF Placed
  <1> QED
    BY ZenonT(60), <1>2, <1>3, <1>4 DEF HolderStep

-----------------------------------------------------------------------------
(* What is published.                                                      *)

(* Once the result is set, state_resolve() returns what the call did. *)
LEMMA ResolvesOutcome ==
  ASSUME TypeOK, Published, NEW f \in Files, result[f] # Unset
  PROVE  StateResolve(f) = outcome[f]
  <1>1. outcome[f] \in [code : {0, OsErr}, bytes : Bytes \cup {Unset}]
    BY ZenonT(60) DEF TypeOK, Results
  <1>2. state[f] = outcome[f].code /\ result[f] = outcome[f].bytes
    BY ZenonT(60) DEF Published
  <1>3. outcome[f].code # 0 => outcome[f].bytes = 0
    BY ZenonT(60), <1>1 DEF Published
  <1> QED
    BY ZenonT(60), <1>1, <1>2, <1>3 DEF StateResolve

(* The pool and the places of workers that publish nothing do not matter. *)
LEMMA SamePublished ==
  ASSUME Published, UNCHANGED <<state, result, returned, outcome>>,
         \A g \in Files : /\ fut'[g] = "none" => fut[g] = "none"
                          /\ fut'[g] = "new" => fut[g] = "new",
         \A v \in Workers : \/ worker'[v] = worker[v]
                            \/ worker'[v].at \notin {"storeState",
                                                     "storeResult"}
  PROVE  Published'
  <1>1. \A g \in Files, v \in Workers :
          Holds(v, g)' /\ worker'[v].at \in {"storeState", "storeResult"}
            => Holds(v, g) /\ worker[v].at = worker'[v].at
    BY ZenonT(60) DEF Holds
  <1> QED
    BY ZenonT(60), <1>1 DEF Published, ReturnsOutcome

(* A step of the futures keeps what is published. *)
LEMMA FuturePublishes ==
  ASSUME TypeOK, Placed, Published, NEW f \in Files,
         \/ \E kind \in Kinds : Begin(f, kind)
         \/ PollStep(f) \/ PollSpurious(f) \/ StrayWake(f)
  PROVE  Published'
  <1>t. /\ fut \in [Files -> {"none", "new", "adding", "pending"}]
        /\ state \in [Files -> {0, OsErr}]
        /\ result \in [Files -> Bytes \cup {Unset}]
        /\ returned \in [Files -> Results]
        /\ outcome \in [Files -> Results]
    BY ZenonT(60) DEF TypeOK
  <1>1. ASSUME NEW kind \in Kinds, Begin(f, kind) PROVE Published'
    <2>1. /\ fut[f] = "none" /\ fut' = [fut EXCEPT ![f] = "new"]
          /\ result' = [result EXCEPT ![f] = Unset]
          /\ state' = [state EXCEPT ![f] = 0]
          /\ outcome' = [outcome EXCEPT ![f] = NoOutcome]
          /\ UNCHANGED <<worker, returned>>
      BY ZenonT(60), <1>1 DEF Begin
    <2>2. /\ fut'[f] = "new" /\ result'[f] = Unset
          /\ outcome'[f].code = 0
          /\ \A g \in Files : g # f => /\ fut'[g] = fut[g]
                                       /\ result'[g] = result[g]
                                       /\ state'[g] = state[g]
                                       /\ outcome'[g] = outcome[g]
      BY ZenonT(60), <1>t, <2>1 DEF NoOutcome
    <2>3. \A w \in Workers : ~Holds(w, f)
      BY ZenonT(60), <2>1 DEF Placed, Unresolved
    <2>4. \A g \in Files, v \in Workers : Holds(v, g)' <=> Holds(v, g)
      BY ZenonT(60), <2>1 DEF Holds
    <2>5. \A g \in Files : outcome'[g].code = OsErr => outcome'[g].bytes = 0
      BY <2>2 DEF Published, OsErr
    <2> QED
      BY <2>1, <2>2, <2>3, <2>4, <2>5 DEF Published, ReturnsOutcome
  <1>2. CASE PollPush(f) \/ PollRelease(f)
    <2>1. /\ \/ fut' = [fut EXCEPT ![f] = "adding"]
             \/ fut' = [fut EXCEPT ![f] = "pending"]
          /\ UNCHANGED <<state, result, returned, outcome, worker>>
      BY ZenonT(60), <1>2 DEF PollPush, PollRelease
    <2> QED
      BY ZenonT(60), <1>t, <2>1, SamePublished
  <1>3. CASE PollWoken(f) \/ PollSpurious(f)
    <2>1. /\ fut[f] = "pending" /\ UNCHANGED <<state, result, worker, outcome>>
          /\ \/ result[f] = Unset /\ UNCHANGED <<returned, cursor, fut>>
             \/ /\ result[f] # Unset
                /\ Complete(f) /\ fut' = [fut EXCEPT ![f] = "none"]
      BY ZenonT(60), <1>3, PollFacts
    <2>2. CASE UNCHANGED <<returned, fut>>
      BY ZenonT(60), <2>1, <2>2, SamePublished
    <2>3. CASE /\ result[f] # Unset
               /\ Complete(f) /\ fut' = [fut EXCEPT ![f] = "none"]
      <3>0. StateResolve(f) = outcome[f]
        BY ZenonT(60), <2>3, ResolvesOutcome
      <3>1. returned' = [returned EXCEPT ![f] = outcome[f]]
        BY ZenonT(60), <2>3, <3>0 DEF Complete
      <3>2. ReturnsOutcome'
        BY ZenonT(60), <1>t, <2>1, <2>3, <3>1 DEF Published, ReturnsOutcome
      <3>3. \A g \in Files : fut'[g] = "new" => fut[g] = "new"
        BY ZenonT(60), <1>t, <2>3
      <3>4. \A g \in Files, v \in Workers : Holds(v, g)' <=> Holds(v, g)
        BY ZenonT(60), <2>1 DEF Holds
      <3> QED
        BY ZenonT(60), <2>1, <3>2, <3>3, <3>4 DEF Published
    <2> QED
      BY ZenonT(60), <2>1, <2>2, <2>3
  <1>4. CASE StrayWake(f)
    BY ZenonT(60), <1>4, SamePublished DEF StrayWake, futVars
  <1> QED
    BY ZenonT(60), <1>1, <1>2, <1>3, <1>4 DEF PollStep

(* A worker's step keeps what is published: it stores the result code      *)
(* before the result, and nobody else has the operation.                   *)
LEMMA WorkerPublishes ==
  ASSUME TypeOK, Placed, Published, NEW w \in Workers,
         WorkerStep(w) \/ \E f \in Files : Panic(w, f)
  PROVE  Published'
  <1>t. /\ op \in [Files -> [kind : Kinds, offset : Offsets]]
        /\ state \in [Files -> {0, OsErr}]
        /\ result \in [Files -> Bytes \cup {Unset}]
        /\ outcome \in [Files -> Results]
        /\ worker \in [Workers -> WorkerType]
    BY ZenonT(60) DEF TypeOK, WorkerType
  <1>1. CASE Wait(w) \/ RemoveOp(w)
    <2>1. UNCHANGED <<fut, state, result, returned, outcome>>
      BY ZenonT(60), <1>1 DEF Wait, RemoveOp, futVars
    <2>2. PICK to : /\ worker' = [worker EXCEPT ![w] = to]
                    /\ \/ to = [at |-> "remove"] \/ to = [at |-> "wait"]
                       \/ to = At("perform", Popped(pool))
      BY ZenonT(60), <1>1 DEF Wait, RemoveOp, Worker
    <2>3. to.at \notin {"storeState", "storeResult"}
      BY <2>2 DEF At
    <2>4. \A v \in Workers : \/ worker'[v] = worker[v]
                             \/ worker'[v].at \notin {"storeState",
                                                      "storeResult"}
      BY ZenonT(60), <1>t, <2>2, <2>3
    <2> QED
      BY ZenonT(60), <2>1, <2>4, SamePublished
  <1>2. ASSUME NEW f \in Files, Panic(w, f) PROVE Published'
    <2>1. /\ Worker(w, At("perform", f), At("dead", f))
          /\ UNCHANGED <<fut, state, result, returned, outcome>>
      BY ZenonT(60), <1>2 DEF Panic, futVars
    <2>h. HolderStep(w, f, "perform", "dead")
      BY ZenonT(60), <2>1, HolderPlaces, HolderSteps
    <2>2. /\ worker'[w].at = "dead"
          /\ \A v \in Workers : v # w => worker'[v] = worker[v]
      BY ZenonT(60), <2>h DEF HolderStep
    <2> QED
      BY ZenonT(60), <2>1, <2>2, SamePublished
  <1>3. ASSUME NEW f \in Files, Perform(w, f) PROVE Published'
    <2>1. /\ Worker(w, At("perform", f), At("storeState", f))
          /\ UNCHANGED <<fut, state, result, returned>>
      BY ZenonT(60), <1>3 DEF Perform, futVars
    <2>h. HolderStep(w, f, "perform", "storeState")
      BY ZenonT(60), <2>1, HolderPlaces, HolderSteps
    <2>2. /\ worker'[w].at = "storeState" /\ worker'[w].file = f
          /\ \A v \in Workers : v # w => worker'[v] = worker[v] /\ ~Holds(v, f)
          /\ Unresolved(f)
      BY ZenonT(60), <2>h DEF HolderStep
    <2>3. PICK o \in Outcomes(op[f].kind) :
            outcome' = [outcome EXCEPT ![f] = o]
      BY ZenonT(60), <1>3 DEF Perform
    <2>4. o.bytes # Unset /\ (o.code = OsErr => o.bytes = 0)
      BY ZenonT(60), <1>t, OutcomeTypes
    <2>5. /\ outcome'[f] = o
          /\ \A g \in Files : g # f => outcome'[g] = outcome[g]
      BY ZenonT(60), <1>t, <2>3
    <2>6. result[f] = Unset /\ fut[f] # "none"
      BY ZenonT(60), <2>2 DEF Unresolved
    <2>7. \A g \in Files, v \in Workers :
            Holds(v, g)' /\ worker'[v].at \in {"storeState", "storeResult"}
              => \/ v = w /\ g = f /\ worker'[v].at = "storeState"
                 \/ g # f /\ Holds(v, g) /\ worker[v].at = worker'[v].at
      BY ZenonT(60), <2>2 DEF Holds
    <2> QED
      BY <2>1, <2>4, <2>5, <2>6, <2>7 DEF Published, ReturnsOutcome
  <1>4. ASSUME NEW f \in Files, StoreState(w, f) PROVE Published'
    <2>1. /\ Worker(w, At("storeState", f), At("storeResult", f))
          /\ state' = [state EXCEPT ![f] = outcome[f].code]
          /\ UNCHANGED <<fut, result, returned, outcome>>
      BY ZenonT(60), <1>4 DEF StoreState
    <2>h. HolderStep(w, f, "storeState", "storeResult")
      BY ZenonT(60), <2>1, HolderPlaces, HolderSteps
    <2>2. /\ worker[w].at = "storeState" /\ worker'[w].at = "storeResult"
          /\ worker'[w].file = f /\ Holds(w, f) /\ Unresolved(f)
          /\ \A v \in Workers : v # w => worker'[v] = worker[v] /\ ~Holds(v, f)
      BY ZenonT(60), <2>h DEF HolderStep
    <2>3. /\ state'[f] = outcome[f].code
          /\ \A g \in Files : g # f => state'[g] = state[g]
      BY ZenonT(60), <1>t, <2>1
    <2>4. result[f] = Unset /\ outcome[f].bytes # Unset
      BY ZenonT(60), <2>2 DEF Unresolved, Published
    <2>5. \A g \in Files, v \in Workers :
            Holds(v, g)' /\ worker'[v].at \in {"storeState", "storeResult"}
              => \/ v = w /\ g = f
                 \/ g # f /\ Holds(v, g) /\ worker[v].at = worker'[v].at
      BY ZenonT(60), <2>2 DEF Holds
    <2> QED
      BY <2>1, <2>3, <2>4, <2>5 DEF Published, ReturnsOutcome
  <1>5. ASSUME NEW f \in Files, StoreResult(w, f) PROVE Published'
    <2>1. /\ Worker(w, At("storeResult", f), At("wake", f))
          /\ result' = [result EXCEPT ![f] = outcome[f].bytes]
          /\ UNCHANGED <<fut, state, returned, outcome>>
      BY ZenonT(60), <1>5 DEF StoreResult
    <2>h. HolderStep(w, f, "storeResult", "wake")
      BY ZenonT(60), <2>1, HolderPlaces, HolderSteps
    <2>2. /\ worker[w].at = "storeResult" /\ worker'[w].at = "wake"
          /\ Holds(w, f) /\ Unresolved(f)
          /\ \A v \in Workers : v # w => worker'[v] = worker[v]
      BY ZenonT(60), <2>h DEF HolderStep
    <2>3. /\ result'[f] = outcome[f].bytes
          /\ \A g \in Files : g # f => result'[g] = result[g]
      BY ZenonT(60), <1>t, <2>1
    <2>4. state[f] = outcome[f].code /\ fut[f] # "new"
      BY ZenonT(60), <2>2 DEF Unresolved, Published
    <2>5. \A g \in Files, v \in Workers :
            Holds(v, g)' /\ worker'[v].at \in {"storeState", "storeResult"}
              => Holds(v, g) /\ worker[v].at = worker'[v].at
      BY ZenonT(60), <2>2 DEF Holds
    <2> QED
      BY <2>1, <2>3, <2>4, <2>5 DEF Published, ReturnsOutcome
  <1>6. ASSUME NEW f \in Files, Wake(w, f) PROVE Published'
    <2>1. /\ worker' = [worker EXCEPT ![w] = [at |-> "wait"]]
          /\ UNCHANGED <<fut, state, result, returned, outcome>>
      BY ZenonT(60), <1>6 DEF Wake, Worker, futVars
    <2>2. \A v \in Workers : \/ worker'[v] = worker[v]
                             \/ worker'[v].at \notin {"storeState",
                                                      "storeResult"}
      BY ZenonT(60), <1>t, <2>1
    <2> QED
      BY ZenonT(60), <2>1, <2>2, SamePublished
  <1> QED
    BY ZenonT(60), <1>1, <1>2, <1>3, <1>4, <1>5, <1>6 DEF WorkerStep
-----------------------------------------------------------------------------
(* Types.                                                                  *)

(* The worker's place after each of its steps. *)
LEMMA WorkerTypes ==
  ASSUME TypeOK, NEW w \in Workers,
         WorkerStep(w) \/ \E f \in Files : Panic(w, f)
  PROVE  worker' \in [Workers -> WorkerType] /\ pool' \in QueueOf(Files)
  <1>t. pool \in QueueOf(Files)
    BY ZenonT(60) DEF TypeOK
  <1>w. [at |-> "wait"] \in WorkerType /\ [at |-> "remove"] \in WorkerType
    BY ZenonT(60) DEF WorkerType
  <1>1. CASE Wait(w)
    <2>1. pool' \in QueueOf(Files)
      BY ZenonT(60), <1>t, <1>1, PermitFacts DEF Wait
    <2>2. Worker(w, [at |-> "wait"], [at |-> "remove"])
      BY ZenonT(60), <1>1 DEF Wait
    <2> QED
      BY ZenonT(60), <1>w, <2>1, <2>2, WorkerFacts
  <1>2. CASE RemoveOp(w)
    <2>1. CASE IsEmpty(pool)
      <3>1. Worker(w, [at |-> "remove"], [at |-> "wait"]) /\ pool' = pool
        BY ZenonT(60), <1>2, <2>1 DEF RemoveOp
      <3> QED
        BY ZenonT(60), <1>t, <1>w, <3>1, WorkerFacts
    <2>2. CASE ~IsEmpty(pool)
      <3>1. /\ Worker(w, [at |-> "remove"], At("perform", Popped(pool)))
            /\ pool' = PopBack(pool)
        BY ZenonT(60), <1>2, <2>2 DEF RemoveOp
      <3>2. pool' \in QueueOf(Files) /\ Popped(pool) \in Files
        BY ZenonT(60), <1>t, <2>2, <3>1, PopFacts
      <3>3. At("perform", Popped(pool)) \in WorkerType
        BY ZenonT(60), <3>2, AtFacts DEF Holding
      <3> QED
        BY ZenonT(60), <3>1, <3>2, <3>3, WorkerFacts
    <2> QED
      BY ZenonT(60), <2>1, <2>2
  <1>3. ASSUME NEW f \in Files,
               \/ Perform(w, f) \/ Panic(w, f) \/ StoreState(w, f)
               \/ StoreResult(w, f) \/ Wake(w, f)
        PROVE  worker' \in [Workers -> WorkerType] /\ pool' = pool
    <2>1. PICK from, to : /\ Worker(w, from, to)
                          /\ \/ to = [at |-> "wait"]
                             \/ \E p \in Holding \cup {"wake"} : to = At(p, f)
      BY ZenonT(60), <1>3
         DEF Perform, Panic, StoreState, StoreResult, Wake, Holding
    <2>2. to \in WorkerType
      BY ZenonT(60), <1>w, <2>1, AtFacts
    <2>3. pool' = pool
      BY ZenonT(60), <1>3 DEF Perform, Panic, StoreState, StoreResult, Wake
    <2> QED
      BY ZenonT(60), <2>1, <2>2, <2>3, WorkerFacts
  <1> QED
    BY ZenonT(60), <1>t, <1>1, <1>2, <1>3 DEF WorkerStep

(* A stream operation is at the cursor after every step. *)
LEMMA CursorStep == TypeOK /\ AtCursor /\ [Next]_vars => AtCursor'
  <1> SUFFICES ASSUME TypeOK, AtCursor, [Next]_vars PROVE AtCursor'
    BY ZenonT(60)
  <1>t. /\ fut \in [Files -> {"none", "new", "adding", "pending"}]
        /\ op \in [Files -> [kind : Kinds, offset : Offsets]]
        /\ cursor \in [Files -> Int] /\ ops \in Nat /\ MaxLen \in Nat
        /\ ops * MaxLen \in Nat /\ (ops + 1) * MaxLen = ops * MaxLen + MaxLen
    BY AsyncFsAssumption, TimesMonotone DEF TypeOK, Offsets
  <1>s. ASSUME UNCHANGED <<op, cursor, ops>>,
               \A f \in Files : fut'[f] = "none" <=> fut[f] = "none"
        PROVE  AtCursor'
    BY ZenonT(60), <1>s DEF AtCursor
  <1>1. ASSUME NEW f \in Files, NEW kind \in Kinds, Begin(f, kind)
        PROVE  AtCursor'
    <2>1. /\ fut[f] = "none" /\ fut' = [fut EXCEPT ![f] = "new"]
          /\ op' = [op EXCEPT ![f] = [kind |-> kind,
                      offset |-> IF kind \in Stream THEN cursor[f] ELSE 0]]
          /\ ops' = ops + 1 /\ cursor' = cursor
      BY ZenonT(60), <1>1 DEF Begin
    <2>2. /\ \A g \in Files : g # f => fut'[g] = fut[g] /\ op'[g] = op[g]
          /\ fut'[f] = "new"
          /\ op'[f].kind \in Stream => op'[f].offset = cursor[f]
      BY ZenonT(60), <1>t, <2>1
    <2> QED
      BY <1>t, <2>1, <2>2 DEF AtCursor
  <1>2. ASSUME NEW f \in Files, PollWoken(f) \/ PollSpurious(f)
        PROVE  AtCursor'
    <2>1. CASE UNCHANGED <<op, cursor, ops, fut>>
      BY ZenonT(60), <1>s, <2>1
    <2>2. CASE /\ result[f] # Unset /\ Complete(f)
               /\ fut' = [fut EXCEPT ![f] = "none"]
      <3>1. /\ \A g \in Files : g # f => cursor'[g] = cursor[g]
            /\ cursor'[f] \in cursor[f]..(cursor[f] + MaxLen)
        BY ZenonT(60), <2>2, CompleteFacts
      <3>2. /\ fut[f] = "pending" /\ UNCHANGED <<op, ops>>
            /\ fut'[f] = "none" /\ \A g \in Files : g # f => fut'[g] = fut[g]
        BY ZenonT(60), <1>t, <1>2, <2>2, PollFacts
      <3> QED
        BY <1>t, <3>1, <3>2 DEF AtCursor
    <2> QED
      BY ZenonT(60), <1>2, <2>1, <2>2, PollFacts
  <1>3. ASSUME NEW f \in Files, PollPush(f) \/ PollRelease(f) \/ StrayWake(f)
        PROVE  AtCursor'
    BY ZenonT(60), <1>s, <1>t, <1>3
       DEF PollPush, PollRelease, StrayWake, futVars
  <1>4. ASSUME NEW w \in Workers,
               WorkerStep(w) \/ \E f \in Files : Panic(w, f)
        PROVE  AtCursor'
    <2>1. UNCHANGED <<op, cursor, ops, fut>>
      BY ZenonT(60), <1>4
         DEF WorkerStep, Wait, RemoveOp, Perform, Panic, StoreState,
             StoreResult, Wake, futVars
    <2> QED
      BY ZenonT(60), <1>s, <2>1
  <1>5. CASE UNCHANGED vars
    BY ZenonT(60), <1>s, <1>5 DEF vars, futVars
  <1> QED
    BY ZenonT(60), <1>1, <1>2, <1>3, <1>4, <1>5 DEF Next, PollStep

(* The cursor is within what all operations can transfer. *)
LEMMA CursorRange ==
  ASSUME NEW n \in 0..MaxOps, NEW c \in [Files -> Nat],
         \A f \in Files : c[f] <= n * MaxLen
  PROVE  c \in [Files -> Offsets]
  <1>1. n * MaxLen <= MaxOps * MaxLen /\ n * MaxLen \in Nat
        /\ MaxOps * MaxLen \in Nat
    BY AsyncFsAssumption, TimesMonotone
  <1> QED
    BY <1>1 DEF Offsets

(* Every step keeps the types. *)
LEMMA TypeStep == TypeOK /\ AtCursor /\ [Next]_vars => TypeOK'
  <1> SUFFICES ASSUME TypeOK, AtCursor, [Next]_vars PROVE TypeOK'
    BY ZenonT(60)
  <1>c. AtCursor'
    BY ZenonT(60), CursorStep
  <1>n. ASSUME cursor' \in [Files -> Nat], ops' \in 0..MaxOps
        PROVE  cursor' \in [Files -> Offsets]
    <2>1. ops' \in Nat /\ MaxLen \in Nat
      BY <1>n, AsyncFsAssumption
    <2>2. ops' * MaxLen \in Nat
      BY ZenonT(60), <2>1, TimesMonotone
    <2>3. \A f \in Files : cursor'[f] <= ops' * MaxLen
      BY <1>c, <1>n, <2>1, <2>2 DEF AtCursor
    <2> QED
      BY ZenonT(60), <1>n, <2>3, CursorRange
  <1>1. ASSUME NEW f \in Files, NEW kind \in Kinds, Begin(f, kind)
        PROVE  TypeOK'
    <2>1. NoOutcome \in Results
      BY ZenonT(60) DEF NoOutcome, Results
    <2>2. outcome' \in [Files -> Results] /\ ops' \in 0..MaxOps
      BY <1>1, <2>1, AsyncFsAssumption DEF TypeOK, Begin
    <2>3. op' \in [Files -> [kind : Kinds, offset : Offsets]]
      <3>1. 0 \in Offsets
        BY AsyncFsAssumption, TimesMonotone DEF Offsets
      <3> QED
        BY ZenonT(60), <1>1, <3>1 DEF TypeOK, Begin
    <2>4. /\ fut' \in [Files -> {"none", "new", "adding", "pending"}]
          /\ state' \in [Files -> {0, OsErr}]
          /\ result' \in [Files -> Bytes \cup {Unset}]
      BY ZenonT(60), <1>1 DEF TypeOK, Begin
    <2> QED
      BY ZenonT(60), <1>1, <2>2, <2>3, <2>4 DEF TypeOK, Begin
  <1>2. ASSUME NEW f \in Files, PollWoken(f) \/ PollSpurious(f)
        PROVE  TypeOK'
    <2>1. /\ UNCHANGED <<pool, op, state, result, ops, worker, outcome>>
          /\ wakes' \in [Files -> Nat] /\ spurious' \in 0..MaxSpurious
      BY ZenonT(60), <1>2, PollFacts
    <2>2. CASE UNCHANGED <<returned, cursor, fut>>
      BY ZenonT(60), <2>1, <2>2 DEF TypeOK
    <2>3. CASE /\ result[f] # Unset /\ Complete(f)
               /\ fut' = [fut EXCEPT ![f] = "none"]
      <3>1. /\ returned' = [returned EXCEPT ![f] = StateResolve(f)]
            /\ \A g \in Files : g # f => cursor'[g] = cursor[g]
            /\ cursor' \in [Files -> Int]
            /\ cursor'[f] \in cursor[f]..(cursor[f] + MaxLen)
        BY ZenonT(60), <2>3, CompleteFacts
      <3>2. \A g \in Files : cursor[g] \in Nat
        BY AsyncFsAssumption DEF TypeOK, Offsets
      <3>3. cursor' \in [Files -> Nat]
        BY <3>1, <3>2, AsyncFsAssumption
      <3>4. cursor' \in [Files -> Offsets]
        BY ZenonT(60), <1>n, <2>1, <3>3 DEF TypeOK
      <3>5. returned' \in [Files -> Results]
        BY ZenonT(60), <3>1, ResolveTypes DEF TypeOK
      <3>6. fut' \in [Files -> {"none", "new", "adding", "pending"}]
        BY ZenonT(60), <2>3 DEF TypeOK
      <3> QED
        BY ZenonT(60), <2>1, <3>4, <3>5, <3>6 DEF TypeOK
    <2> QED
      BY ZenonT(60), <1>2, <2>2, <2>3, PollFacts
  <1>3. ASSUME NEW f \in Files, PollPush(f) \/ PollRelease(f) PROVE TypeOK'
    <2>1. pool' \in QueueOf(Files)
      BY ZenonT(60), <1>3, PushFacts, PermitFacts
         DEF TypeOK, PollPush, PollRelease
    <2> QED
      BY ZenonT(60), <1>3, <2>1 DEF TypeOK, PollPush, PollRelease
  <1>4. ASSUME NEW f \in Files, StrayWake(f) PROVE TypeOK'
    BY <1>4 DEF TypeOK, StrayWake, futVars
  <1>5. ASSUME NEW w \in Workers,
               WorkerStep(w) \/ \E f \in Files : Panic(w, f)
        PROVE  TypeOK'
    <2>1. worker' \in [Workers -> WorkerType] /\ pool' \in QueueOf(Files)
      BY ZenonT(60), <1>5, WorkerTypes
    <2>2. UNCHANGED <<op, cursor, ops, fut, returned, spurious>>
      BY ZenonT(60), <1>5
         DEF WorkerStep, Wait, RemoveOp, Perform, Panic, StoreState,
             StoreResult, Wake, futVars
    <2>3. outcome' \in [Files -> Results]
      <3>1. CASE outcome' = outcome
        BY ZenonT(60), <3>1 DEF TypeOK
      <3>2. ASSUME NEW f \in Files, Perform(w, f)
            PROVE  outcome' \in [Files -> Results]
        <4>1. op[f].kind \in Kinds
          BY ZenonT(60) DEF TypeOK
        <4>2. PICK o \in Outcomes(op[f].kind) :
                outcome' = [outcome EXCEPT ![f] = o]
          BY ZenonT(60), <3>2 DEF Perform
        <4> QED
          BY ZenonT(60), <4>1, <4>2, OutcomeTypes DEF TypeOK
      <3> QED
        BY ZenonT(60), <1>5, <3>1, <3>2
           DEF WorkerStep, Wait, RemoveOp, Panic, StoreState, StoreResult, Wake
    <2>4. /\ state' \in [Files -> {0, OsErr}]
          /\ result' \in [Files -> Bytes \cup {Unset}]
          /\ wakes' \in [Files -> Nat]
      <3>1. CASE UNCHANGED <<state, result, wakes>>
        BY ZenonT(60), <3>1 DEF TypeOK
      <3>2. ASSUME NEW f \in Files, StoreState(w, f) PROVE <2>4!:
        BY ZenonT(60), <3>2 DEF TypeOK, StoreState, Results
      <3>3. ASSUME NEW f \in Files, StoreResult(w, f) PROVE <2>4!:
        BY ZenonT(60), <3>3 DEF TypeOK, StoreResult, Results
      <3>4. ASSUME NEW f \in Files, Wake(w, f) PROVE <2>4!:
        BY <3>4 DEF TypeOK, Wake, futVars
      <3> QED
        BY ZenonT(60), <1>5, <3>1, <3>2, <3>3, <3>4
           DEF WorkerStep, Wait, RemoveOp, Perform, Panic, futVars
    <2> QED
      BY ZenonT(60), <2>1, <2>2, <2>3, <2>4 DEF TypeOK, WorkerType
  <1>6. CASE UNCHANGED vars
    BY ZenonT(60), <1>6 DEF TypeOK, vars, futVars
  <1> QED
    BY ZenonT(60), <1>1, <1>2, <1>3, <1>4, <1>5, <1>6 DEF Next, PollStep
-----------------------------------------------------------------------------
(* Where an operation is.                                                  *)

(* A step that moves no operation. *)
LEMMA SamePlaces ==
  ASSUME Placed, pool'.vals = pool.vals,
         \A w \in Workers, g \in Files : Holds(w, g)' <=> Holds(w, g),
         \A g \in Files : Unresolved(g)' <=> Unresolved(g)
  PROVE  Placed'
  <1>1. \A g \in Files : InPool(g)' <=> InPool(g)
    BY ZenonT(60) DEF InPool
  <1> QED
    BY ZenonT(60), <1>1 DEF Placed

(* What a worker's step makes it hold. *)
LEMMA HoldsFacts ==
  ASSUME TypeOK, NEW w \in Workers, NEW from, NEW to \in WorkerType,
         Worker(w, from, to), NEW g \in Files
  PROVE  /\ Holds(w, g) <=> from.at \in Holding /\ from.file = g
         /\ Holds(w, g)' <=> to.at \in Holding /\ to.file = g
         /\ \A v \in Workers : v # w => (Holds(v, g)' <=> Holds(v, g))
  BY ZenonT(60), WorkerFacts DEF Holds

(* A worker that goes on with its operation, or with none. *)
LEMMA KeepsHolding ==
  ASSUME TypeOK, NEW w \in Workers, NEW from, NEW to \in WorkerType,
         Worker(w, from, to),
         \A g \in Files : (from.at \in Holding /\ from.file = g)
                            <=> (to.at \in Holding /\ to.file = g)
  PROVE  \A v \in Workers, g \in Files : Holds(v, g)' <=> Holds(v, g)
  BY ZenonT(60), HoldsFacts

(* The first poll pushes its operation, which was nowhere. *)
LEMMA PushPlaces ==
  ASSUME TypeOK, Placed, Published, NEW f \in Files, PollPush(f)
  PROVE  Placed'
  <1> DEFINE n == Len(pool.vals)
  <1>1. /\ fut[f] = "new" /\ fut' = [fut EXCEPT ![f] = "adding"]
        /\ pool' = PushBack(pool, f) /\ UNCHANGED <<result, worker>>
    BY ZenonT(60) DEF PollPush
  <1>2. /\ n \in Nat /\ Len(pool'.vals) = n + 1 /\ pool'.vals[n + 1] = f
        /\ \A k \in 1..n : pool'.vals[k] = pool.vals[k]
    BY ZenonT(60), <1>1, PushFacts DEF TypeOK
  <1> HIDE DEF n
  <1>3. /\ ~InPool(f) /\ \A w \in Workers : ~Holds(w, f)
        /\ result[f] = Unset
    BY ZenonT(60), <1>1 DEF Placed, Published, Unresolved
  <1>4. \A w \in Workers, g \in Files : Holds(w, g)' <=> Holds(w, g)
    BY ZenonT(60), <1>1 DEF Holds
  <1>5. /\ Unresolved(f)'
        /\ \A g \in Files : g # f => (Unresolved(g)' <=> Unresolved(g))
    BY ZenonT(60), <1>1, <1>3 DEF Unresolved, TypeOK
  <1>6. \A g \in Files : InPool(g)' <=> InPool(g) \/ g = f
    BY <1>2 DEF InPool, n
  <1>7. \A k, l \in 1..(n + 1) : pool'.vals[k] = pool'.vals[l] => k = l
    <2>1. \A k \in 1..n : pool.vals[k] # f
      BY ZenonT(60), <1>3 DEF InPool, n
    <2>2. \A k, l \in 1..n : pool.vals[k] = pool.vals[l] => k = l
      BY ZenonT(60) DEF Placed, n
    <2>3. \A k \in 1..(n + 1) : k \in 1..n \/ k = n + 1
      BY <1>2
    <2> QED
      BY ZenonT(60), <1>2, <2>1, <2>2, <2>3
  <1> QED
    BY <1>2, <1>3, <1>4, <1>5, <1>6, <1>7 DEF Placed

(* remove() takes an operation from the pool to the worker. *)
LEMMA RemovePlaces ==
  ASSUME TypeOK, Placed, NEW w \in Workers, RemoveOp(w)
  PROVE  Placed'
  <1>0. UNCHANGED <<fut, result>>
    BY ZenonT(60) DEF RemoveOp, futVars
  <1>1. CASE IsEmpty(pool)
    <2>1. Worker(w, [at |-> "remove"], [at |-> "wait"]) /\ pool' = pool
      BY ZenonT(60), <1>1 DEF RemoveOp
    <2>2. \A v \in Workers, g \in Files : Holds(v, g)' <=> Holds(v, g)
      BY <2>1, KeepsHolding DEF WorkerType, Holding
    <2> QED
      BY ZenonT(60), <1>0, <2>1, <2>2, SamePlaces DEF Unresolved
  <1>2. CASE ~IsEmpty(pool)
    <2> DEFINE f == Popped(pool)
               n == Len(pool.vals)
    <2>1. /\ Worker(w, [at |-> "remove"], At("perform", f))
          /\ pool' = PopBack(pool)
      BY ZenonT(60), <1>2 DEF RemoveOp
    <2>2. /\ f \in Files /\ n \in Nat \ {0} /\ f = pool.vals[n]
          /\ Len(pool'.vals) = n - 1
          /\ \A k \in 1..(n - 1) : pool'.vals[k] = pool.vals[k]
      BY ZenonT(60), <1>2, <2>1, PopFacts DEF TypeOK
    <2> HIDE DEF f, n
    <2>3. /\ \A g \in Files : ~Holds(w, g) /\ (Holds(w, g)' <=> g = f)
          /\ \A v \in Workers, g \in Files :
               v # w => (Holds(v, g)' <=> Holds(v, g))
      <3>1. /\ At("perform", f) \in WorkerType
            /\ At("perform", f).at = "perform" /\ At("perform", f).file = f
        BY ZenonT(60), <2>2, AtFacts DEF Holding
      <3> QED
        BY <2>1, <3>1, HoldsFacts DEF Holding
    <2>4. \A k, l \in 1..n : pool.vals[k] = pool.vals[l] => k = l
      BY ZenonT(60) DEF Placed, n
    <2>5. \A k \in 1..(n - 1) : k \in 1..n /\ pool.vals[k] # f
      BY <2>2, <2>4
    <2>6. \A k \in 1..n : k \in 1..(n - 1) \/ k = n
      BY <2>2
    <2>7. InPool(f) /\ \A g \in Files : InPool(g)' <=> InPool(g) /\ g # f
      <3>1. InPool(f)
        <4>1. n \in 1..n
          BY <2>2
        <4> QED
          BY ZenonT(60), <2>2, <4>1 DEF InPool, n
      <3>2. ASSUME NEW g \in Files, InPool(g)' PROVE InPool(g) /\ g # f
        <4>1. PICK k \in 1..(n - 1) : pool'.vals[k] = g
          BY ZenonT(60), <2>2, <3>2 DEF InPool
        <4>2. k \in 1..n /\ pool.vals[k] = g /\ g # f
          BY ZenonT(60), <2>2, <2>5, <4>1
        <4> QED
          BY ZenonT(60), <4>2 DEF InPool, n
      <3>3. ASSUME NEW g \in Files, InPool(g), g # f PROVE InPool(g)'
        <4>1. PICK k \in 1..n : pool.vals[k] = g
          BY ZenonT(60), <3>3 DEF InPool, n
        <4>2. k \in 1..(n - 1)
          BY ZenonT(60), <2>2, <2>6, <3>3, <4>1
        <4> QED
          BY ZenonT(60), <2>2, <4>1, <4>2 DEF InPool
      <3> QED
        BY ZenonT(60), <3>1, <3>2, <3>3
    <2>8. \A k, l \in 1..(n - 1) : pool'.vals[k] = pool'.vals[l] => k = l
      BY ZenonT(60), <2>2, <2>4, <2>5
    <2>9. \A g \in Files : Unresolved(g)' <=> Unresolved(g)
      BY ZenonT(60), <1>0 DEF Unresolved
    <2>10. \A v \in Workers : ~Holds(v, f)
      BY ZenonT(60), <2>2, <2>7 DEF Placed
    <2>11. \A g \in Files, u, v \in Workers :
             Holds(u, g)' /\ Holds(v, g)' => u = v
      BY <2>3, <2>10 DEF Placed
    <2>12. \A g \in Files, v \in Workers : Holds(v, g)' => ~InPool(g)'
      BY ZenonT(60), <2>3, <2>7 DEF Placed
    <2>13. \A g \in Files :
             Unresolved(g)'
               <=> InPool(g)' \/ \E v \in Workers : Holds(v, g)'
      BY <2>3, <2>7, <2>9, <2>10 DEF Placed
    <2> QED
      BY ZenonT(60), <2>2, <2>8, <2>11, <2>12, <2>13 DEF Placed
  <1> QED
    BY ZenonT(60), <1>1, <1>2

(* An operation is in one place after every step. *)
LEMMA PlacedStep ==
  ASSUME TypeOK, Placed, Published, [Next]_vars
  PROVE  Placed'
  <1>t. /\ fut \in [Files -> {"none", "new", "adding", "pending"}]
        /\ result \in [Files -> Bytes \cup {Unset}]
    BY ZenonT(60) DEF TypeOK
  <1>s. ASSUME UNCHANGED worker, pool'.vals = pool.vals,
               \A g \in Files : Unresolved(g)' <=> Unresolved(g)
        PROVE  Placed'
    <2>1. \A v \in Workers, g \in Files : Holds(v, g)' <=> Holds(v, g)
      BY ZenonT(60), <1>s DEF Holds
    <2> QED
      BY ZenonT(60), <1>s, <2>1, SamePlaces
  <1>1. ASSUME NEW f \in Files, NEW kind \in Kinds, Begin(f, kind)
        PROVE  Placed'
    <2>1. /\ fut[f] = "none" /\ fut' = [fut EXCEPT ![f] = "new"]
          /\ result' = [result EXCEPT ![f] = Unset]
          /\ UNCHANGED <<pool, worker>>
      BY ZenonT(60), <1>1 DEF Begin
    <2>2. \A g \in Files : Unresolved(g)' <=> Unresolved(g)
      BY ZenonT(60), <1>t, <2>1 DEF Unresolved
    <2> QED
      BY ZenonT(60), <1>s, <2>1, <2>2
  <1>2. ASSUME NEW f \in Files, PollWoken(f) \/ PollSpurious(f)
        PROVE  Placed'
    <2>1. /\ UNCHANGED <<pool, worker, result>>
          /\ \/ UNCHANGED fut
             \/ result[f] # Unset /\ fut' = [fut EXCEPT ![f] = "none"]
      BY ZenonT(60), <1>2, PollFacts
    <2>2. \A g \in Files : Unresolved(g)' <=> Unresolved(g)
      BY ZenonT(60), <1>t, <2>1 DEF Unresolved
    <2> QED
      BY ZenonT(60), <1>s, <2>1, <2>2
  <1>3. ASSUME NEW f \in Files, PollRelease(f) PROVE Placed'
    <2>1. /\ fut[f] = "adding" /\ fut' = [fut EXCEPT ![f] = "pending"]
          /\ pool' = ReleasePermit(pool) /\ UNCHANGED <<worker, result>>
      BY ZenonT(60), <1>3 DEF PollRelease
    <2>2. pool'.vals = pool.vals
      BY ZenonT(60), <2>1, PermitFacts DEF TypeOK
    <2>3. \A g \in Files : Unresolved(g)' <=> Unresolved(g)
      BY ZenonT(60), <1>t, <2>1 DEF Unresolved
    <2> QED
      BY ZenonT(60), <1>s, <2>1, <2>2, <2>3
  <1>4. ASSUME NEW f \in Files, StrayWake(f) PROVE Placed'
    BY ZenonT(60), <1>s, <1>4 DEF StrayWake, futVars, Unresolved
  <1>5. ASSUME NEW w \in Workers, Wait(w) PROVE Placed'
    <2>1. /\ Worker(w, [at |-> "wait"], [at |-> "remove"])
          /\ Signalled(pool) /\ pool' = TakePermit(pool)
          /\ UNCHANGED <<fut, result>>
      BY ZenonT(60), <1>5 DEF Wait, futVars
    <2>2. pool'.vals = pool.vals
      BY ZenonT(60), <2>1, PermitFacts DEF TypeOK
    <2>3. \A v \in Workers, g \in Files : Holds(v, g)' <=> Holds(v, g)
      BY <2>1, KeepsHolding DEF WorkerType, Holding
    <2> QED
      BY ZenonT(60), <2>1, <2>2, <2>3, SamePlaces DEF Unresolved
  <1>6. ASSUME NEW w \in Workers, NEW f \in Files,
               Perform(w, f) \/ Panic(w, f) \/ StoreState(w, f)
        PROVE  Placed'
    <2>1. PICK from, to \in Holding : Worker(w, At(from, f), At(to, f))
      BY ZenonT(60), <1>6 DEF Perform, Panic, StoreState, Holding
    <2>2. UNCHANGED <<fut, result, pool>>
      BY ZenonT(60), <1>6 DEF Perform, Panic, StoreState, futVars
    <2>3. /\ At(to, f) \in WorkerType
          /\ At(from, f).at \in Holding /\ At(from, f).file = f
          /\ At(to, f).at \in Holding /\ At(to, f).file = f
      BY ZenonT(60), <2>1, AtFacts
    <2>4. \A v \in Workers, g \in Files : Holds(v, g)' <=> Holds(v, g)
      BY ZenonT(60), <2>1, <2>3, KeepsHolding
    <2> QED
      BY ZenonT(60), <2>2, <2>4, SamePlaces DEF Unresolved
  <1>7. ASSUME NEW w \in Workers, NEW f \in Files, StoreResult(w, f)
        PROVE  Placed'
    <2>1. /\ Worker(w, At("storeResult", f), At("wake", f))
          /\ result' = [result EXCEPT ![f] = outcome[f].bytes]
          /\ UNCHANGED <<fut, pool>>
      BY ZenonT(60), <1>7 DEF StoreResult
    <2>h. HolderStep(w, f, "storeResult", "wake")
      BY ZenonT(60), <2>1, HolderPlaces, HolderSteps
    <2>2. /\ worker[w].at = "storeResult" /\ worker'[w].at = "wake"
          /\ worker[w].file = f /\ Holds(w, f)
          /\ \A v \in Workers : v # w => worker'[v] = worker[v] /\ ~Holds(v, f)
      BY ZenonT(60), <2>h DEF HolderStep
    <2>3. outcome[f].bytes # Unset
      BY ZenonT(60), <2>2 DEF Published
    <2>4. \A g \in Files : Unresolved(g)' <=> Unresolved(g) /\ g # f
      BY ZenonT(60), <1>t, <2>1, <2>3 DEF Unresolved
    <2>5. \A v \in Workers, g \in Files : Holds(v, g)' <=> Holds(v, g) /\ g # f
      BY ZenonT(60), <2>2 DEF Holds, Holding
    <2>6. \A g \in Files : InPool(g)' <=> InPool(g)
      BY ZenonT(60), <2>1 DEF InPool
    <2>7. ~InPool(f)
      BY ZenonT(60), <2>2 DEF Placed
    <2> QED
      BY ZenonT(60), <2>1, <2>4, <2>5, <2>6, <2>7 DEF Placed
  <1>8. ASSUME NEW w \in Workers, NEW f \in Files, Wake(w, f) PROVE Placed'
    <2>1. /\ Worker(w, At("wake", f), [at |-> "wait"])
          /\ UNCHANGED <<fut, result, pool>>
      BY ZenonT(60), <1>8 DEF Wake, futVars
    <2>2. At("wake", f).at = "wake"
      BY ZenonT(60), AtFacts
    <2>3. \A v \in Workers, g \in Files : Holds(v, g)' <=> Holds(v, g)
      BY <2>1, <2>2, KeepsHolding DEF WorkerType, Holding
    <2> QED
      BY ZenonT(60), <2>1, <2>3, SamePlaces DEF Unresolved
  <1>9. CASE UNCHANGED vars
    BY ZenonT(60), <1>s, <1>9 DEF vars, futVars, Unresolved
  <1> QED
    BY ZenonT(60), <1>1, <1>2, <1>3, <1>4, <1>5, <1>6, <1>7, <1>8, <1>9,
       PushPlaces, RemovePlaces
       DEF Next, PollStep, WorkerStep

-----------------------------------------------------------------------------
(* The initial states satisfy the invariant. *)
LEMMA InitFs == Init => FsInv
  <1> SUFFICES ASSUME Init PROVE FsInv
    BY ZenonT(60)
  <1>n. /\ MaxOps \in Nat /\ MaxLen \in Nat /\ MaxOps * MaxLen \in Nat
        /\ 0 * MaxLen = 0 /\ MaxSpurious \in Nat
    BY AsyncFsAssumption, TimesMonotone
  <1>p. pool \in QueueOf(Files) /\ Len(pool.vals) = 0
    <2>1. pool = NewQueue
      BY ZenonT(60) DEF Init
    <2> QED
      BY <2>1, MaxPermitsAssumption DEF NewQueue, QueueOf
  <1>o. NoOutcome \in Results
    BY ZenonT(60) DEF NoOutcome, Results
  <1>w. [at |-> "wait"] \in WorkerType
    BY ZenonT(60) DEF WorkerType
  <1>1. TypeOK
    <2>1. /\ fut \in [Files -> {"none", "new", "adding", "pending"}]
          /\ state \in [Files -> {0, OsErr}]
          /\ result \in [Files -> Bytes \cup {Unset}]
          /\ cursor \in [Files -> Offsets]
          /\ ops \in 0..MaxOps /\ spurious \in 0..MaxSpurious
          /\ wakes \in [Files -> Nat]
      BY <1>n DEF Init, Offsets
    <2>2. op \in [Files -> [kind : Kinds, offset : Offsets]]
      BY <1>n DEF Init, Kinds, Offsets
    <2>3. returned \in [Files -> Results] /\ outcome \in [Files -> Results]
      BY ZenonT(60), <1>o DEF Init
    <2>4. worker \in [Workers -> WorkerType]
      BY ZenonT(60), <1>w DEF Init
    <2> QED
      BY ZenonT(60), <1>p, <2>1, <2>2, <2>3, <2>4 DEF TypeOK, WorkerType
  <1>2. \A f \in Files, w \in Workers : ~Holds(w, f)
    BY ZenonT(60) DEF Init, Holds, Holding
  <1>3. Placed
    BY <1>p, <1>2 DEF Init, Placed, InPool, Unresolved
  <1>4. Published
    BY <1>2 DEF Init, Published, ReturnsOutcome, NoOutcome, OsErr
  <1>5. AtCursor
    BY <1>n DEF Init, AtCursor
  <1> QED
    BY ZenonT(60), <1>1, <1>3, <1>4, <1>5 DEF FsInv

(* Every step keeps the invariant. *)
LEMMA FsStep == FsInv /\ [Next]_vars => FsInv'
  <1> SUFFICES ASSUME FsInv, [Next]_vars PROVE FsInv'
    BY ZenonT(60)
  <1>i. TypeOK /\ Placed /\ Published /\ AtCursor
    BY ZenonT(60) DEF FsInv
  <1>1. TypeOK' /\ AtCursor' /\ Placed'
    BY ZenonT(60), <1>i, TypeStep, CursorStep, PlacedStep
  <1>2. CASE UNCHANGED vars
    <2>1. UNCHANGED <<fut, state, result, returned, outcome, worker>>
      BY ZenonT(60), <1>2 DEF vars, futVars
    <2> QED
      BY ZenonT(60), <1>i, <1>1, <2>1, SamePublished DEF FsInv
  <1>3. CASE Next
    <2>1. Published'
      BY ZenonT(60), <1>i, <1>3, FuturePublishes, WorkerPublishes DEF Next
    <2> QED
      BY ZenonT(60), <1>1, <2>1 DEF FsInv
  <1> QED
    BY ZenonT(60), <1>2, <1>3

(* FsInv, place by place, is what OpInOnePlace says of the set of places. *)
LEMMA OnePlace == Placed => OpInOnePlace
  <1> SUFFICES ASSUME Placed, NEW f \in Files
               PROVE  IF Unresolved(f) THEN \E p \in Where(f) : Where(f) = {p}
                                       ELSE Where(f) = {}
    BY ZenonT(60) DEF OpInOnePlace, Unresolved
  <1>1. CASE ~Unresolved(f)
    <2>1. ~InPool(f) /\ \A w \in Workers : ~Holds(w, f)
      BY ZenonT(60), <1>1 DEF Placed
    <2> QED
      BY ZenonT(60), <1>1, <2>1 DEF Where, InPool, Holds
  <1>2. CASE Unresolved(f) /\ InPool(f)
    <2>1. PICK k \in 1..Len(pool.vals) : pool.vals[k] = f
      BY ZenonT(60), <1>2 DEF InPool
    <2>2. \A l \in 1..Len(pool.vals) : pool.vals[l] = f => l = k
      BY ZenonT(60), <2>1 DEF Placed
    <2>3. \A w \in Workers : ~Holds(w, f)
      BY ZenonT(60), <1>2 DEF Placed
    <2>4. Where(f) = {<<"pool", k>>}
      BY ZenonT(60), <2>1, <2>2, <2>3 DEF Where, Holds
    <2> QED
      BY ZenonT(60), <1>2, <2>4
  <1>3. CASE Unresolved(f) /\ ~InPool(f)
    <2>1. PICK w \in Workers : Holds(w, f)
      BY ZenonT(60), <1>3 DEF Placed
    <2>2. \A v \in Workers : Holds(v, f) => v = w
      BY ZenonT(60), <2>1 DEF Placed
    <2>3. Where(f) = {<<"worker", w>>}
      BY ZenonT(60), <1>3, <2>1, <2>2 DEF Where, Holds, InPool
    <2> QED
      BY ZenonT(60), <1>3, <2>3
  <1> QED
    BY ZenonT(60), <1>1, <1>2, <1>3

(* The invariant always holds. *)
LEMMA AlwaysFsInv == Spec => []FsInv
  <1>1. Init => FsInv
    BY ZenonT(60), InitFs
  <1>2. FsInv /\ [Next]_vars => FsInv'
    BY ZenonT(60), FsStep
  <1> QED
    BY <1>1, <1>2, PTL DEF Spec

(* A file's cursor, the offsets and byte counts of its operations and its  *)
(* result atomics stay in range through every interleaving of futures and  *)
(* IoWorkers: the cursor never goes past what was transferred.             *)
THEOREM FsTypeCorrect == Spec => []TypeOK
  <1>1. FsInv => TypeOK
    BY ZenonT(60) DEF FsInv
  <1> QED
    BY <1>1, AlwaysFsInv, PTL

(* For any number of files, workers and operations: an IoWorker writes     *)
(* through the addresses of a future only while that future is waiting,    *)
(* and no two workers have the same operation.                             *)
THEOREM FsOpsInOnePlace == Spec => []OpInOnePlace
  <1>1. FsInv => OpInOnePlace
    BY ZenonT(60), OnePlace DEF FsInv
  <1> QED
    BY <1>1, AlwaysFsInv, PTL

(* An awaited Read, Write or Flush future returns the code and the result  *)
(* of the worker's own file call, although resolve() stores the two apart  *)
(* and the future may be polled between them.                              *)
THEOREM FsReturnsOutcome == Spec => []ReturnsOutcome
  <1>1. FsInv => ReturnsOutcome
    BY ZenonT(60) DEF FsInv, Published
  <1> QED
    BY <1>1, AlwaysFsInv, PTL

(* AsyncFile's cursor moves only when a read() or write() completes with   *)
(* success, from the operation's own offset by the bytes it transferred.   *)
THEOREM FsCursorFollows == Spec => CursorFollowsTransfer
  <1> DEFINE Follows(f) == cursor'[f] # cursor[f] =>
                             /\ op[f].kind \in Stream
                             /\ outcome[f].code = 0
                             /\ cursor'[f] = op[f].offset + outcome[f].bytes
  <1>1. FsInv /\ [Next]_vars => [\A f \in Files : Follows(f)]_vars
    <2> SUFFICES ASSUME FsInv, Next, NEW f \in Files PROVE Follows(f)
      BY ZenonT(60)
    <2>i. TypeOK /\ Published /\ AtCursor
      BY ZenonT(60) DEF FsInv
    <2>1. ASSUME NEW g \in Files, PollWoken(g) \/ PollSpurious(g)
          PROVE  Follows(f)
      <3>1. /\ fut[g] = "pending"
            /\ \/ UNCHANGED cursor
               \/ result[g] # Unset /\ Complete(g)
        BY ZenonT(60), <2>i, <2>1, PollFacts
      <3>2. CASE result[g] # Unset /\ Complete(g)
        <4>1. StateResolve(g) = outcome[g]
          BY ZenonT(60), <2>i, <3>2, ResolvesOutcome
        <4>2. /\ f # g => cursor'[f] = cursor[f]
              /\ cursor'[g] # cursor[g] =>
                   /\ op[g].kind \in Stream /\ outcome[g].code = 0
                   /\ cursor'[g] = cursor[g] + outcome[g].bytes
          BY ZenonT(60), <2>i, <3>2, <4>1, CompleteFacts
        <4>3. op[g].kind \in Stream => op[g].offset = cursor[g]
          BY ZenonT(60), <2>i, <3>1 DEF AtCursor
        <4> QED
          BY ZenonT(60), <4>2, <4>3
      <3> QED
        BY ZenonT(60), <3>1, <3>2
    <2>2. CASE UNCHANGED cursor
      BY ZenonT(60), <2>2
    <2>3. \/ UNCHANGED cursor
          \/ \E g \in Files : PollWoken(g) \/ PollSpurious(g)
      BY ZenonT(60) DEF Next, PollStep, WorkerStep, Begin, PollPush,
         PollRelease, StrayWake, Wait, RemoveOp, Perform, Panic, StoreState,
         StoreResult, Wake, futVars
    <2> QED
      BY ZenonT(60), <2>1, <2>2, <2>3
  <1> QED
    BY <1>1, AlwaysFsInv, PTL DEF Spec, CursorFollowsTransfer
-----------------------------------------------------------------------------
(* No wake is lost.                                                        *)

(* The future is pending, or about to be, although its result is set. *)
Awaits(f) == fut[f] \in {"adding", "pending"} /\ result[f] # Unset

(* Its task has a wake, or the worker has yet to call wake() for it. *)
Owed(f) == wakes[f] > 0 \/ \E w \in Workers : worker[w] = At("wake", f)

(* A future that can complete is going to be polled: the safety that       *)
(* OpsComplete rests on.                                                   *)
ResolvedIsWoken == \A f \in Files : Awaits(f) => Owed(f)

(* A worker's step keeps the wakes owed by the other workers, and those    *)
(* owed by itself unless it is the wake.                                   *)
LEMMA KeepsOwing ==
  ASSUME TypeOK, NEW w \in Workers, NEW from, NEW to \in WorkerType,
         Worker(w, from, to), NEW g \in Files, from # At("wake", g),
         wakes'[g] = wakes[g], Owed(g)
  PROVE  Owed(g)'
  <1>1. CASE wakes[g] > 0
    BY ZenonT(60), <1>1 DEF Owed
  <1>2. ASSUME NEW v \in Workers, worker[v] = At("wake", g) PROVE Owed(g)'
    <2>1. worker'[v] = At("wake", g)
      BY ZenonT(60), <1>2, WorkerFacts
    <2> QED
      BY ZenonT(60), <2>1 DEF Owed, At
  <1> QED
    BY ZenonT(60), <1>1, <1>2 DEF Owed

(* A step of a future, during which no worker moves, creates no debt and   *)
(* takes no wake from another future.                                      *)
LEMMA FutureOwes ==
  ASSUME TypeOK, Published, ResolvedIsWoken, NEW f \in Files,
         \/ \E kind \in Kinds : Begin(f, kind)
         \/ PollPush(f) \/ PollRelease(f)
         \/ PollWoken(f) \/ PollSpurious(f) \/ StrayWake(f)
  PROVE  ResolvedIsWoken'
  <1> USE DEF Awaits
  <1>t. /\ fut \in [Files -> {"none", "new", "adding", "pending"}]
        /\ result \in [Files -> Bytes \cup {Unset}]
        /\ wakes \in [Files -> Nat]
    BY ZenonT(60) DEF TypeOK
  <1> DEFINE Kept == \A g \in Files :
                       Awaits(g)' => Awaits(g) /\ wakes'[g] = wakes[g]
  <1>s. ASSUME UNCHANGED worker, Kept PROVE ResolvedIsWoken'
    <2> SUFFICES ASSUME NEW g \in Files, Awaits(g)' PROVE Owed(g)'
      BY ZenonT(60) DEF ResolvedIsWoken
    <2>1. Owed(g) /\ wakes'[g] = wakes[g]
      BY ZenonT(60), <1>s DEF ResolvedIsWoken
    <2> QED
      BY ZenonT(60), <1>s, <2>1 DEF Owed, At
  <1>1. ASSUME NEW kind \in Kinds, Begin(f, kind)
        PROVE  UNCHANGED worker /\ Kept
    BY ZenonT(60), <1>1, <1>t DEF Begin
  <1>2. ASSUME PollPush(f) PROVE UNCHANGED worker /\ Kept
    <2>1. result[f] = Unset
      BY ZenonT(60), <1>2 DEF PollPush, Published
    <2> QED
      BY ZenonT(60), <1>2, <2>1, <1>t DEF PollPush
  <1>3. ASSUME PollRelease(f) PROVE UNCHANGED worker /\ Kept
    BY ZenonT(60), <1>3, <1>t DEF PollRelease
  <1>4. ASSUME PollWoken(f) \/ PollSpurious(f) PROVE UNCHANGED worker /\ Kept
    <2>1. /\ UNCHANGED <<result, worker>>
          /\ \/ result[f] = Unset /\ UNCHANGED fut
             \/ fut' = [fut EXCEPT ![f] = "none"]
      BY ZenonT(60), <1>4, PollFacts
    <2>2. \A g \in Files : g # f => wakes'[g] = wakes[g]
      BY ZenonT(60), <1>4, <1>t DEF PollWoken, PollSpurious
    <2> QED
      BY ZenonT(60), <2>1, <2>2, <1>t
  <1>5. ASSUME StrayWake(f) PROVE UNCHANGED worker /\ Kept
    BY ZenonT(60), <1>5, <1>t DEF StrayWake, futVars
  <1> QED
    BY ZenonT(60), <1>1, <1>2, <1>3, <1>4, <1>5, <1>s

(* A worker that sets a result comes to owe the wake, and pays it. *)
LEMMA WorkerOwes ==
  ASSUME TypeOK, ResolvedIsWoken, NEW w \in Workers,
         WorkerStep(w) \/ \E f \in Files : Panic(w, f)
  PROVE  ResolvedIsWoken'
  <1> USE DEF Awaits
  <1>s. ASSUME NEW from, NEW to \in WorkerType, Worker(w, from, to),
               \A g \in Files : from # At("wake", g),
               UNCHANGED <<fut, result, wakes>>
        PROVE  ResolvedIsWoken'
    <2> SUFFICES ASSUME NEW g \in Files, Awaits(g)' PROVE Owed(g)'
      BY ZenonT(60) DEF ResolvedIsWoken
    <2>1. Owed(g) /\ wakes'[g] = wakes[g]
      BY ZenonT(60), <1>s DEF ResolvedIsWoken
    <2> QED
      BY ZenonT(60), <1>s, <2>1, KeepsOwing
  <1>1. CASE Wait(w)
    <2>1. [at |-> "remove"] \in WorkerType
      BY ZenonT(60) DEF WorkerType
    <2>2. \A g \in Files : [at |-> "wait"] # At("wake", g)
      BY ZenonT(60) DEF At
    <2>3. /\ Worker(w, [at |-> "wait"], [at |-> "remove"])
          /\ UNCHANGED <<fut, result, wakes>>
      BY ZenonT(60), <1>1 DEF Wait, futVars
    <2> QED
      BY ZenonT(60), <1>s, <2>1, <2>2, <2>3
  <1>2. CASE RemoveOp(w)
    <2> DEFINE to == IF IsEmpty(pool) THEN [at |-> "wait"]
                     ELSE At("perform", Popped(pool))
    <2>1. to \in WorkerType
      <3>1. CASE IsEmpty(pool)
        BY ZenonT(60), <3>1 DEF WorkerType
      <3>2. CASE ~IsEmpty(pool)
        <4>1. Popped(pool) \in Files
          BY ZenonT(60), <1>2, <3>2, PopFacts DEF RemoveOp, TypeOK
        <4> QED
          BY ZenonT(60), <3>2, <4>1, AtFacts DEF Holding
      <3> QED
        BY ZenonT(60), <3>1, <3>2
    <2>2. \A g \in Files : [at |-> "remove"] # At("wake", g)
      BY ZenonT(60) DEF At
    <2>3. /\ Worker(w, [at |-> "remove"], to)
          /\ UNCHANGED <<fut, result, wakes>>
      BY ZenonT(60), <1>2 DEF RemoveOp, futVars
    <2> HIDE DEF to
    <2> QED
      BY ZenonT(60), <1>s, <2>1, <2>2, <2>3
  <1>3. ASSUME NEW f \in Files,
               Perform(w, f) \/ Panic(w, f) \/ StoreState(w, f)
        PROVE  ResolvedIsWoken'
    <2>1. PICK from \in {"perform", "storeState"},
               to \in {"storeState", "dead", "storeResult"} :
            Worker(w, At(from, f), At(to, f))
      BY ZenonT(60), <1>3 DEF Perform, Panic, StoreState
    <2>2. At(to, f) \in WorkerType
      BY ZenonT(60), AtFacts DEF Holding
    <2>3. \A g \in Files : At(from, f) # At("wake", g)
      BY ZenonT(60) DEF At
    <2>4. UNCHANGED <<fut, result, wakes>>
      BY ZenonT(60), <1>3 DEF Perform, Panic, StoreState, futVars
    <2> QED
      BY ZenonT(60), <1>s, <2>1, <2>2, <2>3, <2>4
  <1>4. ASSUME NEW f \in Files, StoreResult(w, f) PROVE ResolvedIsWoken'
    <2>1. /\ Worker(w, At("storeResult", f), At("wake", f))
          /\ result' = [result EXCEPT ![f] = outcome[f].bytes]
          /\ UNCHANGED <<fut, wakes>>
      BY ZenonT(60), <1>4 DEF StoreResult
    <2>2. At("wake", f) \in WorkerType
      BY ZenonT(60), AtFacts
    <2>3. Owed(f)'
      <3>1. worker'[w] = At("wake", f)
        BY ZenonT(60), <2>1, <2>2, WorkerFacts
      <3> QED
        BY ZenonT(60), <3>1 DEF Owed, At
    <2>4. ASSUME NEW g \in Files, g # f, Awaits(g)' PROVE Owed(g)'
      <3>1. Awaits(g) /\ wakes'[g] = wakes[g]
        BY ZenonT(60), <2>1, <2>4 DEF TypeOK
      <3>2. At("storeResult", f) # At("wake", g)
        BY ZenonT(60) DEF At
      <3> QED
        BY <2>1, <2>2, <3>1, <3>2, KeepsOwing DEF ResolvedIsWoken
    <2> QED
      BY ZenonT(60), <2>3, <2>4 DEF ResolvedIsWoken
  <1>5. ASSUME NEW f \in Files, Wake(w, f) PROVE ResolvedIsWoken'
    <2>1. /\ Worker(w, At("wake", f), [at |-> "wait"])
          /\ wakes' = [wakes EXCEPT ![f] = @ + 1]
          /\ UNCHANGED <<fut, result>>
      BY ZenonT(60), <1>5 DEF Wake, futVars
    <2>2. [at |-> "wait"] \in WorkerType
      BY ZenonT(60) DEF WorkerType
    <2>3. Owed(f)'
      BY <2>1 DEF Owed, TypeOK
    <2>4. ASSUME NEW g \in Files, g # f, Awaits(g)' PROVE Owed(g)'
      <3>1. Awaits(g) /\ wakes'[g] = wakes[g]
        BY ZenonT(60), <2>1, <2>4 DEF TypeOK
      <3>2. At("wake", f) # At("wake", g)
        BY ZenonT(60), <2>4 DEF At
      <3> QED
        BY <2>1, <2>2, <3>1, <3>2, KeepsOwing DEF ResolvedIsWoken
    <2> QED
      BY ZenonT(60), <2>3, <2>4 DEF ResolvedIsWoken
  <1> QED
    BY ZenonT(60), <1>1, <1>2, <1>3, <1>4, <1>5 DEF WorkerStep

(* A worker sets the result before it wakes the task, and a poll that uses *)
(* up the wake finds the result: no file operation is left pending with    *)
(* its result set and nobody to wake it, however workers and polls         *)
(* interleave.                                                             *)
THEOREM FsLosesNoWake == Spec => []ResolvedIsWoken
  <1>1. Init => ResolvedIsWoken
    BY ZenonT(60) DEF Init, ResolvedIsWoken, Awaits
  <1>2. FsInv /\ ResolvedIsWoken /\ [Next]_vars => ResolvedIsWoken'
    <2> SUFFICES ASSUME FsInv, ResolvedIsWoken, [Next]_vars
                 PROVE  ResolvedIsWoken'
      OBVIOUS
    <2>1. TypeOK /\ Published
      BY ZenonT(60) DEF FsInv
    <2>2. CASE UNCHANGED vars
      BY ZenonT(60), <2>2 DEF vars, futVars, ResolvedIsWoken, Awaits, Owed, At
    <2> QED
      BY ZenonT(60), <2>1, <2>2, FutureOwes, WorkerOwes DEF Next, PollStep
  <1> QED
    BY <1>1, <1>2, AlwaysFsInv, PTL DEF Spec
=============================================================================
