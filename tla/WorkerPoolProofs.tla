-------------------------- MODULE WorkerPoolProofs --------------------------
(***************************************************************************)
(* The thread pool, for any number of submitters and workers.              *)
(*                                                                         *)
(* The limit: the check of it counts the reserved slots; a submitter       *)
(* pushes its worker to All while it has its slot still, so at every       *)
(* moment the workers in All and those that are only being made are not    *)
(* too many.                                                               *)
(*                                                                         *)
(* The bookkeeping: a worker is in Unused, with one submitter that popped  *)
(* it, or busy; a task is in Tasks, with its submitter, with one worker or *)
(* done.  The signals that pass a worker from one to the other (Invoke,    *)
(* Busy, Stop) and the lock of the sweep are what the invariant is about.  *)
(***************************************************************************)
EXTENDS WorkerPool, FiniteSetTheorems, ListLemmas

(* The slots make the limit inductive: a reservation compares what they number. *)
LimitInv ==
  /\ pc \in [Task -> Places]
  /\ IsFiniteSet(all)
  /\ SlotsReturned
  /\ LimitKept

-----------------------------------------------------------------------------
LEMMA AtFinite ==
  ASSUME NEW labels
  PROVE  IsFiniteSet(At(labels)) /\ Cardinality(At(labels)) \in Nat
<1>1. At(labels) \in SUBSET Task
  BY DEF At
<1>2. IsFiniteSet(At(labels))
  BY <1>1, TaskAssumption, FS_Subset
<1> QED BY <1>2, FS_CardinalityType

LEMMA SlotsCounted ==
  /\ IsFiniteSet(HasSlot) /\ IsFiniteSet(Making)
  /\ Cardinality(HasSlot) \in Nat /\ Cardinality(Making) \in Nat
  /\ Cardinality(Making) <= Cardinality(HasSlot)
<1>1. /\ IsFiniteSet(HasSlot) /\ IsFiniteSet(Making)
      /\ Cardinality(HasSlot) \in Nat /\ Cardinality(Making) \in Nat
  BY AtFinite DEF HasSlot, Making
<1>2. Making \in SUBSET HasSlot
  BY DEF Making, HasSlot, At
<1> QED BY <1>1, <1>2, FS_Subset

(* What a submitter's move does to the submitters at some labels. *)
LEMMA MoveAt ==
  ASSUME pc \in [Task -> Places], NEW k \in Task, NEW l, NEW labels, Goto(k, l)
  PROVE  /\ l \in labels => At(labels)' = At(labels) \cup {k}
         /\ l \notin labels => At(labels)' = At(labels) \ {k}
<1>1. pc' = [pc EXCEPT ![k] = l]
  BY DEF Goto
<1>2. \A j \in Task : pc'[j] = IF j = k THEN l ELSE pc[j]
  BY <1>1
<1> QED BY <1>2 DEF At

LEMMA MoveCounts ==
  ASSUME pc \in [Task -> Places], NEW k \in Task, NEW l \in Places, NEW labels, Goto(k, l)
  PROVE  /\ pc' \in [Task -> Places]
         /\ Cardinality(At(labels)') =
              IF l \in labels
              THEN IF pc[k] \in labels THEN Cardinality(At(labels))
                                       ELSE Cardinality(At(labels)) + 1
              ELSE IF pc[k] \in labels THEN Cardinality(At(labels)) - 1
                                       ELSE Cardinality(At(labels))
<1>1. pc' \in [Task -> Places]
  BY DEF Goto
<1>2. IsFiniteSet(At(labels))
  BY AtFinite
<1>3. k \in At(labels) <=> pc[k] \in labels
  BY DEF At
<1>4. CASE l \in labels
  <2>1. At(labels)' = At(labels) \cup {k}
    BY <1>4, MoveAt
  <2> QED BY <1>1, <1>2, <1>3, <1>4, <2>1, FS_AddElement
<1>5. CASE l \notin labels
  <2>1. At(labels)' = At(labels) \ {k}
    BY <1>5, MoveAt
  <2> QED BY <1>1, <1>2, <1>3, <1>5, <2>1, FS_RemoveElement
<1> QED BY <1>4, <1>5

Slot(l) == l \in {"Create", "Push", "Start", "Release"}
Makes(l) == l \in {"Create", "Push"}

(* The same for the two sets the invariant counts. *)
LEMMA Counts ==
  ASSUME LimitInv, NEW k \in Task, NEW l \in Places, Goto(k, l)
  PROVE  /\ pc' \in [Task -> Places]
         /\ Cardinality(HasSlot') = IF Slot(l)
              THEN IF Slot(pc[k]) THEN Cardinality(HasSlot) ELSE Cardinality(HasSlot) + 1
              ELSE IF Slot(pc[k]) THEN Cardinality(HasSlot) - 1 ELSE Cardinality(HasSlot)
         /\ Cardinality(Making') = IF Makes(l)
              THEN IF Makes(pc[k]) THEN Cardinality(Making) ELSE Cardinality(Making) + 1
              ELSE IF Makes(pc[k]) THEN Cardinality(Making) - 1 ELSE Cardinality(Making)
<1>1. pc \in [Task -> Places]
  BY DEF LimitInv
<1>2. pc' \in [Task -> Places]
  BY <1>1, MoveCounts
<1>3. Cardinality(HasSlot') = IF Slot(l)
        THEN IF Slot(pc[k]) THEN Cardinality(HasSlot) ELSE Cardinality(HasSlot) + 1
        ELSE IF Slot(pc[k]) THEN Cardinality(HasSlot) - 1 ELSE Cardinality(HasSlot)
  BY <1>1, MoveCounts DEF HasSlot, Slot
<1>4. Cardinality(Making') = IF Makes(l)
        THEN IF Makes(pc[k]) THEN Cardinality(Making) ELSE Cardinality(Making) + 1
        ELSE IF Makes(pc[k]) THEN Cardinality(Making) - 1 ELSE Cardinality(Making)
  BY <1>1, MoveCounts DEF Making, Makes
<1> QED BY <1>2, <1>3, <1>4

-----------------------------------------------------------------------------
(* A step that leaves the slots alone and takes workers out of All, if it does anything. *)
LEMMA FewerWorkers ==
  ASSUME LimitInv, UNCHANGED <<pc, creating>>, all' \subseteq all
  PROVE  LimitInv'
<1>1. IsFiniteSet(all) /\ Cardinality(all) \in Nat
  BY FS_CardinalityType DEF LimitInv
<1>2. IsFiniteSet(all') /\ Cardinality(all') \in Nat /\ Cardinality(all') <= Cardinality(all)
  BY <1>1, FS_Subset, FS_CardinalityType
<1>3. HasSlot' = HasSlot /\ Making' = Making
  BY DEF HasSlot, Making, At
<1>4. Cardinality(Making) \in Nat
  BY SlotsCounted
<1>5. Cardinality(all') + Cardinality(Making) <= MaxThreads
  BY <1>1, <1>2, <1>4, LimitAssumption DEF LimitInv, LimitKept
<1> QED BY <1>2, <1>3, <1>5 DEF LimitInv, SlotsReturned, LimitKept

(* A move between labels that have no slot. *)
LEMMA MoveWithoutSlot ==
  ASSUME LimitInv, NEW k \in Task, NEW l \in Places, Goto(k, l),
         ~Slot(pc[k]), ~Slot(l), UNCHANGED <<all, creating>>
  PROVE  LimitInv'
<1>1. ~Makes(pc[k]) /\ ~Makes(l)
  BY DEF Slot, Makes
<1>2. /\ pc' \in [Task -> Places]
      /\ Cardinality(HasSlot') = Cardinality(HasSlot)
      /\ Cardinality(Making') = Cardinality(Making)
  BY <1>1, Counts
<1> QED BY <1>2 DEF LimitInv, SlotsReturned, LimitKept

LEMMA SubmitterWithoutSlot ==
  ASSUME LimitInv, NEW k \in Task,
         \/ QueueTask(k) \/ Loop(k) \/ FindNobody(k) \/ PopUnused(k) \/ Withdraw(k)
         \/ Register(k) \/ WaitEnds(k) \/ Take(k) \/ PutBack(k) \/ Invoke(k)
         \/ SetInvoke(k) \/ InvokeEnds(k)
  PROVE  LimitInv'
<1>1. PICK l \in Places : Goto(k, l) /\ ~Slot(l)
  BY DEF Places, Slot, QueueTask, Loop, FindNobody, PopUnused, Withdraw, Register, WaitEnds,
         Take, PutBack, Invoke, SetInvoke, InvokeEnds
<1>2. ~Slot(pc[k])
  BY DEF Slot, QueueTask, Loop, FindNobody, PopUnused, Withdraw, Register, WaitEnds,
         Take, PutBack, Invoke, SetInvoke, InvokeEnds
<1>3. UNCHANGED <<all, creating>>
  BY DEF poolVars, QueueTask, Loop, FindNobody, PopUnused, Withdraw, Register, WaitEnds,
         Take, PutBack, Invoke, SetInvoke, InvokeEnds
<1> QED BY <1>1, <1>2, <1>3, MoveWithoutSlot

(* The limit is compared with All and all slots, of which Making has some. *)
LEMMA ReserveStep ==
  ASSUME LimitInv, NEW k \in Task, ReserveWorkerSlot(k)
  PROVE  LimitInv'
<1>1. pc[k] = "Reserve" /\ UNCHANGED all
  BY DEF ReserveWorkerSlot
<1>2. CASE stopping \/ Full
  <2>1. PICK l \in Places : Goto(k, l) /\ ~Slot(l)
    BY <1>2 DEF ReserveWorkerSlot, Places, Slot
  <2>2. UNCHANGED creating
    BY <1>2 DEF ReserveWorkerSlot
  <2>3. ~Slot(pc[k])
    BY <1>1 DEF Slot
  <2> QED BY <1>1, <2>1, <2>2, <2>3, MoveWithoutSlot
<1>3. CASE ~(stopping \/ Full)
  <2>1. Goto(k, "Create") /\ creating' = creating + 1
    BY <1>3 DEF ReserveWorkerSlot
  <2>2. /\ Slot("Create") /\ Makes("Create") /\ ~Slot(pc[k]) /\ ~Makes(pc[k])
        /\ "Create" \in Places
    BY <1>1 DEF Slot, Makes, Places
  <2>3. /\ pc' \in [Task -> Places]
        /\ Cardinality(HasSlot') = Cardinality(HasSlot) + 1
        /\ Cardinality(Making') = Cardinality(Making) + 1
    BY <2>1, <2>2, Counts
  <2>4. /\ Cardinality(all) \in Nat /\ Cardinality(HasSlot) \in Nat
        /\ Cardinality(Making) \in Nat /\ Cardinality(Making) <= Cardinality(HasSlot)
    BY SlotsCounted, FS_CardinalityType DEF LimitInv
  <2>5. Cardinality(all) + Cardinality(HasSlot) < MaxThreads
    BY <1>3, <2>4, LimitAssumption DEF Full, LimitInv, SlotsReturned
  <2>6. Cardinality(all) + (Cardinality(Making) + 1) <= MaxThreads
    BY <2>4, <2>5, LimitAssumption
  <2> QED BY <1>1, <2>1, <2>3, <2>6 DEF LimitInv, SlotsReturned, LimitKept
<1> QED BY <1>2, <1>3

LEMMA CreateStep ==
  ASSUME LimitInv, NEW k \in Task, Create(k)
  PROVE  LimitInv'
<1>1. pc[k] = "Create" /\ UNCHANGED <<all, creating>>
  BY DEF Create
<1>2. PICK l \in {"Push", "Release"} : Goto(k, l)
  BY DEF Create
<1>3. l \in Places /\ Slot(l) /\ Slot(pc[k]) /\ Makes(pc[k])
  BY <1>1 DEF Places, Slot, Makes
<1>4. /\ pc' \in [Task -> Places] /\ Cardinality(HasSlot') = Cardinality(HasSlot)
      /\ \/ Cardinality(Making') = Cardinality(Making)
         \/ Cardinality(Making') = Cardinality(Making) - 1
  BY <1>2, <1>3, Counts
<1>5. Cardinality(all) \in Nat /\ Cardinality(Making) \in Nat
  BY SlotsCounted, FS_CardinalityType DEF LimitInv
<1>6. Cardinality(all) + Cardinality(Making') <= MaxThreads
  BY <1>4, <1>5, LimitAssumption DEF LimitInv, LimitKept
<1> QED BY <1>1, <1>4, <1>6 DEF LimitInv, SlotsReturned, LimitKept

(* All grows by the worker that was being made. *)
LEMMA CreateWorkerStep ==
  ASSUME LimitInv, NEW k \in Task, CreateWorker(k)
  PROVE  LimitInv'
<1>1. pc[k] = "Push" /\ Goto(k, "Start") /\ UNCHANGED creating
  BY DEF CreateWorker
<1>2. PICK w \in Worker : all' = all \cup {w}
  BY DEF CreateWorker
<1>3. /\ "Start" \in Places /\ Slot("Start") /\ ~Makes("Start")
      /\ Slot(pc[k]) /\ Makes(pc[k])
  BY <1>1 DEF Places, Slot, Makes
<1>4. /\ pc' \in [Task -> Places] /\ Cardinality(HasSlot') = Cardinality(HasSlot)
      /\ Cardinality(Making') = Cardinality(Making) - 1
  BY <1>1, <1>3, Counts
<1>5. IsFiniteSet(all) /\ Cardinality(all) \in Nat /\ Cardinality(Making) \in Nat
  BY SlotsCounted, FS_CardinalityType DEF LimitInv
<1>6. /\ IsFiniteSet(all') /\ Cardinality(all') \in Nat
      /\ Cardinality(all') <= Cardinality(all) + 1
  BY <1>2, <1>5, FS_AddElement
<1>7. Cardinality(all') + Cardinality(Making') <= MaxThreads
  BY <1>4, <1>5, <1>6, LimitAssumption DEF LimitInv, LimitKept
<1> QED BY <1>1, <1>4, <1>6, <1>7 DEF LimitInv, SlotsReturned, LimitKept

LEMMA StartStep ==
  ASSUME LimitInv, NEW k \in Task, Start(k) \/ StartFails(k)
  PROVE  LimitInv'
<1>1. pc[k] = "Start" /\ Goto(k, "Release") /\ UNCHANGED creating /\ all' \subseteq all
  BY DEF Start, StartFails, poolVars
<1>2. /\ "Release" \in Places /\ Slot("Release") /\ ~Makes("Release")
      /\ Slot(pc[k]) /\ ~Makes(pc[k])
  BY <1>1 DEF Places, Slot, Makes
<1>3. /\ pc' \in [Task -> Places] /\ Cardinality(HasSlot') = Cardinality(HasSlot)
      /\ Cardinality(Making') = Cardinality(Making)
  BY <1>1, <1>2, Counts
<1>4. IsFiniteSet(all) /\ Cardinality(all) \in Nat /\ Cardinality(Making) \in Nat
  BY SlotsCounted, FS_CardinalityType DEF LimitInv
<1>5. IsFiniteSet(all') /\ Cardinality(all') \in Nat /\ Cardinality(all') <= Cardinality(all)
  BY <1>1, <1>4, FS_Subset, FS_CardinalityType
<1>6. Cardinality(all') + Cardinality(Making') <= MaxThreads
  BY <1>3, <1>4, <1>5, LimitAssumption DEF LimitInv, LimitKept
<1> QED BY <1>1, <1>3, <1>5, <1>6 DEF LimitInv, SlotsReturned, LimitKept

LEMMA ReleaseStep ==
  ASSUME LimitInv, NEW k \in Task, ReleaseWorkerSlot(k)
  PROVE  LimitInv'
<1>1. /\ pc[k] = "Release" /\ Goto(k, "Returned") /\ creating' = creating - 1
      /\ UNCHANGED all
  BY DEF ReleaseWorkerSlot
<1>2. /\ "Returned" \in Places /\ ~Slot("Returned") /\ ~Makes("Returned")
      /\ Slot(pc[k]) /\ ~Makes(pc[k])
  BY <1>1 DEF Places, Slot, Makes
<1>3. /\ pc' \in [Task -> Places] /\ Cardinality(HasSlot') = Cardinality(HasSlot) - 1
      /\ Cardinality(Making') = Cardinality(Making)
  BY <1>1, <1>2, Counts
<1> QED BY <1>1, <1>3 DEF LimitInv, SlotsReturned, LimitKept

LEMMA OtherStep ==
  ASSUME LimitInv,
         \/ \E w \in Worker : WorkerStep(w) \/ Expire(w)
         \/ Sweep \/ StopUnused \/ SetStopping \/ StopStep
         \/ UNCHANGED vars
  PROVE  LimitInv'
<1>1. CASE \E w \in Worker : WorkerStep(w) \/ Expire(w)
  <2>1. UNCHANGED <<pc, creating, all>>
    BY <1>1 DEF WorkerStep, CallbackReturns, ClaimTask, ClaimNothing, CB_OnFree, Invoked,
                Exit, OnTimer, CB_OnTimer, Expire, poolVars
  <2> QED BY <2>1, FewerWorkers
<1>2. CASE Sweep \/ StopUnused
  <2>1. UNCHANGED <<pc, creating>> /\ all' \subseteq all
    BY <1>2 DEF Sweep, StopExpired, EraseExpired, SweepEnds, StopUnused, poolVars
  <2> QED BY <2>1, FewerWorkers
<1>3. CASE SetStopping \/ StopStep
  <2>1. UNCHANGED <<pc, creating>> /\ all' \subseteq all
    BY <1>3 DEF SetStopping, StopStep, StopWorker, StopJoin, StopClear, poolVars
  <2> QED BY <2>1, FewerWorkers
<1>4. CASE UNCHANGED vars
  <2>1. UNCHANGED <<pc, creating, all>>
    BY <1>4 DEF vars, poolVars
  <2> QED BY <2>1, FewerWorkers
<1> QED BY <1>1, <1>2, <1>3, <1>4

-----------------------------------------------------------------------------
LEMMA LimitInit == Init => LimitInv
<1> SUFFICES ASSUME Init PROVE LimitInv
  OBVIOUS
<1>1. pc \in [Task -> Places]
  BY DEF Init, Places
<1>2. HasSlot = {} /\ Making = {} /\ all = {} /\ creating = 0
  BY DEF Init, HasSlot, Making, At
<1>3. Cardinality({}) = 0 /\ IsFiniteSet({})
  BY FS_EmptySet
<1> QED BY <1>1, <1>2, <1>3, LimitAssumption DEF LimitInv, SlotsReturned, LimitKept

LEMMA LimitNext == LimitInv /\ [Next]_vars => LimitInv'
<1> SUFFICES ASSUME LimitInv, [Next]_vars PROVE LimitInv'
  OBVIOUS
<1>1. CASE \E k \in Task : Submitter(k)
  <2>1. PICK k \in Task : Submitter(k)
    BY <1>1
  <2> QED BY <2>1, SubmitterWithoutSlot, ReserveStep, CreateStep, CreateWorkerStep, StartStep,
             ReleaseStep DEF Submitter
<1>2. CASE ~(\E k \in Task : Submitter(k))
  BY <1>2, OtherStep DEF Next
<1> QED BY <1>1, <1>2

(* Whatever submitters, workers, sweeps and Stop do, All and the workers being made are *)
(* at most MaxThreads (ReserveWorkerSlot and ReleaseWorkerSlot, Pool.cpp 197-215).      *)
THEOREM MaxThreadsIsKept == Spec => [](LimitKept /\ SlotsReturned)
<1>1. LimitInv => LimitKept /\ SlotsReturned
  BY DEF LimitInv
<1> QED BY <1>1, LimitInit, LimitNext, PTL DEF Spec

-----------------------------------------------------------------------------
Resting == {"Wait", "OnTimer", "Sweep", "Exited", "Joined"}
OwnerPlaces == {"Take", "PutBack", "Invoke", "InvokeLock"}
NotBegun == {"New", "Push", "Start", "Invoke"}
NotQueued ==
  {"New", "Push", "Start", "Release", "PutBack", "Invoke", "InvokeLock", "InvokeWait"}

CreatingBounded == creating \in 0..Cardinality(Task)

(* Who is in the lock: nobody once the pool is stopping; what a sweep joins is idle. *)
PhaseInv ==
  /\ stopping <=> spc # "Idle"
  /\ stopping => lock = Nobody
  /\ spc = "Join" => target \in Worker
  /\ ~stopping /\ target # NoWorker => lock # Nobody /\ target \in ToSet(unused)
  /\ lock \in Worker => wpc[lock] = "Sweep"

(* The lists have no repetitions, and agree with where the submitters are. *)
ListInv ==
  /\ IsInjective(queue) /\ IsInjective(unused) /\ IsInjective(waiters)
  /\ \A k \in Task : k \in ToSet(waiters) <=> pc[k] = "Blocked"
  /\ \A k \in Task : k \in ToSet(queue) => pc[k] \notin NotQueued

(* Before Stop, only the worker that is swept is told to stop, and All has every worker. *)
HaltInv ==
  \A w \in Worker :
    /\ w \in halt => stopping \/ w = target
    /\ wpc[w] = "Joined" => stopping
    /\ ~stopping /\ wpc[w] # "None" => w \in all

(* What a worker has to do: a task while it calls it or is invoked with it. *)
WorkInv ==
  \A w \in Worker :
    /\ wpc[w] \in {"None", "Created", "Idle", "Free"} => callback[w] = NoTask
    /\ wpc[w] = "Call" => callback[w] # NoTask
    /\ w \in invoke => w \notin busy /\ callback[w] # NoTask /\ wpc[w] \in Resting
    /\ w \in ToSet(unused) => callback[w] = NoTask /\ wpc[w] \in Resting

(* What a submitter has popped is resting and nobody else's, until it is invoked. *)
OwnInv ==
  /\ \A k \in Task :
       /\ pc[k] \in OwnerPlaces =>
            /\ worker[k] \in Worker /\ wpc[worker[k]] \in Resting
            /\ worker[k] \notin invoke /\ worker[k] \notin ToSet(unused)
       /\ pc[k] = "Start" => worker[k] \in Worker /\ wpc[worker[k]] = "Created"
       /\ pc[k] \in {"Take", "PutBack", "Invoke"} => callback[worker[k]] = NoTask
       /\ pc[k] = "InvokeLock" => callback[worker[k]] = k
       /\ pc[k] = "InvokeWait" =>
            /\ worker[k] \in Worker
            /\ worker[k] \in invoke \/ wpc[worker[k]] \in {"Call", "Idle"}
  /\ \A k1, k2 \in Task :
       /\ pc[k1] \in OwnerPlaces \cup {"Start"} /\ pc[k2] \in OwnerPlaces \cup {"Start"}
       /\ worker[k1] = worker[k2]
       => k1 = k2

(* An invoked or busy worker has its submitter waiting, with StateLock. *)
Awaited(w) == \E k \in Task : pc[k] = "InvokeWait" /\ worker[k] = w
BusyInv == \A w \in Worker : w \in invoke \cup busy => stopping \/ Awaited(w)

(* A task that a worker has, or had, is nowhere else. *)
Begun(k) ==
  /\ pc[k] \notin NotBegun
  /\ k \in given \/ pc[k] \in {"InvokeLock", "InvokeWait"}
  /\ k \notin ToSet(queue)
FateInv ==
  /\ \A k \in signalled : Begun(k)
  /\ \A w \in Worker :
       callback[w] # NoTask => Begun(callback[w]) /\ callback[w] \notin signalled
  /\ \A w1, w2 \in Worker : callback[w1] = callback[w2] /\ callback[w1] # NoTask => w1 = w2

(* The inductive invariant of the bookkeeping. *)
PoolInv ==
  TypeOK /\ PhaseInv /\ ListInv /\ HaltInv /\ WorkInv /\ OwnInv /\ BusyInv /\ FateInv

-----------------------------------------------------------------------------
(* One lemma per action: every part of the invariant that it can disturb. *)

LEMMA QueueTaskSound ==
  ASSUME PoolInv, NEW k \in Task, QueueTask(k)
  PROVE  PoolInv'
<1>1. /\ queue' \in Seq(Task) /\ IsInjective(queue')
      /\ ToSet(queue)' = ToSet(queue) \cup {k}
  BY NamesAssumption, AppendNode DEF PoolInv, ListInv, TypeOK, OwnInv, WorkInv,
     PhaseInv, HaltInv, OwnerPlaces, NotQueued, Resting, QueueTask, Goto, Queued,
     freeVars, sweepVars, workerVars, expiryVars, stopVars
<1>2. TypeOK'
  BY <1>1 DEF PoolInv, TypeOK, Places, QueueTask, Goto, Queued, freeVars, sweepVars,
     workerVars, expiryVars, stopVars
<1>3. ListInv'
  BY <1>1 DEF PoolInv, TypeOK, ListInv, NotQueued, WorkInv, OwnInv, Resting,
     OwnerPlaces, QueueTask, Goto, Queued, freeVars
<1>4. OwnInv'
  BY <1>1 DEF PoolInv, TypeOK, OwnInv, WorkInv, ListInv, FateInv, Resting, OwnerPlaces,
     NotQueued, HaltInv, PhaseInv, QueueTask, Goto, workerVars
<1>5. BusyInv'
  BY <1>1 DEF PoolInv, TypeOK, BusyInv, Awaited, OwnInv, WorkInv, HaltInv, PhaseInv,
     Resting, QueueTask, Goto, workerVars, stopVars
<1>6. FateInv'
  BY <1>1 DEF PoolInv, TypeOK, FateInv, Begun, NotBegun, OwnInv, WorkInv, ListInv,
     NotQueued, OwnerPlaces, Resting, QueueTask, Goto, Queued, workerVars
<1>7. PhaseInv' /\ HaltInv' /\ WorkInv'
  BY DEF PoolInv, PhaseInv, HaltInv, WorkInv, QueueTask, sweepVars, workerVars, stopVars
<1> QED BY <1>2, <1>3, <1>4, <1>5, <1>6, <1>7 DEF PoolInv

LEMMA LoopSound ==
  ASSUME PoolInv, NEW k \in Task, Loop(k)
  PROVE  PoolInv'
<1>1. TypeOK'
  BY DEF PoolInv, TypeOK, Places, Loop, Goto, poolVars, freeVars, sweepVars, taskVars,
     workerVars, expiryVars, stopVars
<1>2. ListInv'
  BY DEF PoolInv, TypeOK, ListInv, NotQueued, WorkInv, OwnInv, Resting, OwnerPlaces,
     Loop, Goto, poolVars, freeVars
<1>3. OwnInv'
  BY DEF PoolInv, TypeOK, OwnInv, WorkInv, ListInv, FateInv, Resting, OwnerPlaces,
     NotQueued, HaltInv, PhaseInv, Loop, Goto, poolVars, taskVars, workerVars
<1>4. BusyInv'
  BY DEF PoolInv, TypeOK, BusyInv, Awaited, OwnInv, WorkInv, HaltInv, PhaseInv, Resting,
     Loop, Goto, taskVars, workerVars, stopVars
<1>5. FateInv'
  BY DEF PoolInv, TypeOK, FateInv, Begun, NotBegun, OwnInv, WorkInv, ListInv, NotQueued,
     OwnerPlaces, Resting, Loop, Goto, poolVars, taskVars, workerVars
<1>6. PhaseInv' /\ HaltInv' /\ WorkInv'
  BY DEF PoolInv, PhaseInv, HaltInv, WorkInv, Loop, poolVars, sweepVars, workerVars,
     stopVars
<1> QED BY <1>1, <1>2, <1>3, <1>4, <1>5, <1>6 DEF PoolInv

LEMMA FindNobodySound ==
  ASSUME PoolInv, NEW k \in Task, FindNobody(k)
  PROVE  PoolInv'
<1>1. TypeOK'
  BY DEF PoolInv, TypeOK, Places, FindNobody, Goto, poolVars, freeVars, sweepVars,
     taskVars, workerVars, expiryVars, stopVars
<1>2. ListInv'
  BY DEF PoolInv, TypeOK, ListInv, NotQueued, WorkInv, OwnInv, Resting, OwnerPlaces,
     FindNobody, Goto, poolVars, freeVars
<1>3. OwnInv'
  BY DEF PoolInv, TypeOK, OwnInv, WorkInv, ListInv, FateInv, Resting, OwnerPlaces,
     NotQueued, HaltInv, PhaseInv, FindNobody, Goto, poolVars, taskVars, workerVars
<1>4. BusyInv'
  BY DEF PoolInv, TypeOK, BusyInv, Awaited, OwnInv, WorkInv, HaltInv, PhaseInv, Resting,
     FindNobody, Goto, taskVars, workerVars, stopVars
<1>5. FateInv'
  BY DEF PoolInv, TypeOK, FateInv, Begun, NotBegun, OwnInv, WorkInv, ListInv, NotQueued,
     OwnerPlaces, Resting, FindNobody, Goto, poolVars, taskVars, workerVars
<1>6. PhaseInv' /\ HaltInv' /\ WorkInv'
  BY DEF PoolInv, PhaseInv, HaltInv, WorkInv, FindNobody, poolVars, sweepVars,
     workerVars, stopVars
<1> QED BY <1>1, <1>2, <1>3, <1>4, <1>5, <1>6 DEF PoolInv

LEMMA PopUnusedSound ==
  ASSUME PoolInv, NEW k \in Task, PopUnused(k)
  PROVE  PoolInv'
<1>1. /\ armed' \subseteq Worker /\ expired' \subseteq Worker /\ ticking' \subseteq Worker
      /\ timer' \in BOOLEAN /\ lock' \in {Nobody, k}
  BY DEF PoolInv, TypeOK, PopUnused, CancelExpireTimer, CancelTimer, expiryVars,
     Unlocked
<1>2. /\ unused' \in Seq(Worker) /\ IsInjective(unused')
      /\ Head(unused) \in ToSet(unused)
      /\ Head(unused) \in Worker
      /\ ToSet(unused)' = ToSet(unused) \ {Head(unused)}
  BY NamesAssumption, TailNode DEF PoolInv, ListInv, TypeOK, OwnInv, WorkInv, PhaseInv,
     HaltInv, OwnerPlaces, NotQueued, Resting, PopUnused, Goto, Unlocked, CancelTimer,
     CancelExpireTimer, freeVars, workerVars, stopVars
<1>3. TypeOK'
  BY <1>1, <1>2 DEF PoolInv, TypeOK, Places, PopUnused, Goto, CancelTimer,
     CancelExpireTimer, freeVars, workerVars, stopVars
<1>4. PhaseInv'
  <2>1. /\ lock = Nobody /\ (stopping => lock' = Nobody) /\ lock' \notin Worker
        /\ UNCHANGED <<stopping, spc, target, wpc>>
    BY <1>1, NamesAssumption DEF PopUnused, Unlocked, workerVars, stopVars
  <2> QED BY <2>1 DEF PoolInv, PhaseInv
<1>5. ListInv'
  BY <1>2 DEF PoolInv, TypeOK, ListInv, NotQueued, WorkInv, OwnInv, Resting,
     OwnerPlaces, PopUnused, Goto, freeVars
<1>6. WorkInv'
  BY <1>2 DEF PoolInv, TypeOK, WorkInv, OwnInv, Resting, OwnerPlaces, HaltInv, PhaseInv,
     BusyInv, Awaited, PopUnused, workerVars
<1>7. OwnInv'
  BY <1>2 DEF PoolInv, TypeOK, OwnInv, WorkInv, ListInv, FateInv, Resting, OwnerPlaces,
     NotQueued, HaltInv, PhaseInv, PopUnused, Goto, workerVars
<1>8. BusyInv'
  BY <1>2 DEF PoolInv, TypeOK, BusyInv, Awaited, OwnInv, WorkInv, HaltInv, PhaseInv,
     Resting, PopUnused, Goto, workerVars, stopVars
<1>9. FateInv'
  BY <1>2 DEF PoolInv, TypeOK, FateInv, Begun, NotBegun, OwnInv, WorkInv, ListInv,
     NotQueued, OwnerPlaces, Resting, PopUnused, Goto, workerVars
<1>10. HaltInv'
  BY DEF PoolInv, HaltInv, PopUnused, workerVars, stopVars
<1> QED BY <1>3, <1>4, <1>5, <1>6, <1>7, <1>8, <1>9, <1>10 DEF PoolInv

LEMMA ReserveWorkerSlotSound ==
  ASSUME PoolInv, NEW k \in Task, ReserveWorkerSlot(k), CreatingBounded'
  PROVE  PoolInv'
<1>1. TypeOK'
  BY DEF PoolInv, TypeOK, Places, CreatingBounded, ReserveWorkerSlot, Goto, freeVars,
     sweepVars, taskVars, workerVars, expiryVars, stopVars
<1>2. ListInv'
  BY DEF PoolInv, TypeOK, ListInv, NotQueued, WorkInv, OwnInv, Resting, OwnerPlaces,
     ReserveWorkerSlot, Goto, freeVars
<1>3. OwnInv'
  BY DEF PoolInv, TypeOK, OwnInv, WorkInv, ListInv, FateInv, Resting, OwnerPlaces,
     NotQueued, HaltInv, PhaseInv, ReserveWorkerSlot, Goto, taskVars, workerVars
<1>4. BusyInv'
  BY DEF PoolInv, TypeOK, BusyInv, Awaited, OwnInv, WorkInv, HaltInv, PhaseInv, Resting,
     ReserveWorkerSlot, Goto, taskVars, workerVars, stopVars
<1>5. FateInv'
  BY NamesAssumption DEF PoolInv, TypeOK, FateInv, Begun, NotBegun, OwnInv, WorkInv,
     ListInv, NotQueued, OwnerPlaces, Resting, ReserveWorkerSlot, Goto, Unlocked,
     freeVars, sweepVars, taskVars, workerVars, expiryVars, stopVars
<1>6. PhaseInv' /\ HaltInv' /\ WorkInv'
  BY DEF PoolInv, PhaseInv, HaltInv, WorkInv, ReserveWorkerSlot, sweepVars, workerVars,
     stopVars
<1> QED BY <1>1, <1>2, <1>3, <1>4, <1>5, <1>6 DEF PoolInv

LEMMA CreateSound ==
  ASSUME PoolInv, NEW k \in Task, Create(k)
  PROVE  PoolInv'
<1>1. /\ queue' \in Seq(Task) /\ IsInjective(queue')
      /\ ToSet(queue)' = ToSet(queue) \ {k}
  BY NamesAssumption, RemoveNode DEF PoolInv, ListInv, TypeOK, OwnInv, WorkInv,
     PhaseInv, HaltInv, OwnerPlaces, NotQueued, Resting, Create, Goto, Dequeued,
     Claimed, freeVars, sweepVars, taskVars, workerVars, expiryVars, stopVars
<1>2. TypeOK'
  BY <1>1 DEF PoolInv, TypeOK, Places, Create, Goto, Dequeued, Claimed, freeVars,
     sweepVars, taskVars, workerVars, expiryVars, stopVars
<1>3. ListInv'
  BY <1>1 DEF PoolInv, TypeOK, ListInv, NotQueued, WorkInv, OwnInv, Resting,
     OwnerPlaces, Create, Goto, Dequeued, Claimed, freeVars
<1>4. OwnInv'
  <2>1. CASE Dequeued(k) /\ Goto(k, "Push")
    BY NamesAssumption, <1>1, <2>1 DEF PoolInv, TypeOK, OwnInv, WorkInv, ListInv,
       FateInv, Resting, OwnerPlaces, NotQueued, HaltInv, PhaseInv, Create, Goto,
       Dequeued, Claimed, freeVars, sweepVars, taskVars, workerVars, expiryVars,
       stopVars
  <2>2. CASE Claimed(k) /\ Goto(k, "Release")
    BY NamesAssumption, <1>1, <2>2 DEF PoolInv, TypeOK, OwnInv, WorkInv, ListInv,
       FateInv, Resting, OwnerPlaces, NotQueued, HaltInv, PhaseInv, Create, Goto,
       Dequeued, Claimed, freeVars, sweepVars, taskVars, workerVars, expiryVars,
       stopVars
  <2> QED BY <2>1, <2>2 DEF Create
<1>5. BusyInv'
  BY <1>1 DEF PoolInv, TypeOK, BusyInv, Awaited, OwnInv, WorkInv, HaltInv, PhaseInv,
     Resting, Create, Goto, taskVars, workerVars, stopVars
<1>6. FateInv'
  BY <1>1 DEF PoolInv, TypeOK, FateInv, Begun, NotBegun, OwnInv, WorkInv, ListInv,
     NotQueued, OwnerPlaces, Resting, Create, Goto, Dequeued, Claimed, taskVars,
     workerVars
<1>7. PhaseInv' /\ HaltInv' /\ WorkInv'
  BY DEF PoolInv, PhaseInv, HaltInv, WorkInv, Create, sweepVars, workerVars, stopVars
<1> QED BY <1>2, <1>3, <1>4, <1>5, <1>6, <1>7 DEF PoolInv

LEMMA CreateWorkerSound ==
  ASSUME PoolInv, NEW k \in Task, CreateWorker(k)
  PROVE  PoolInv'
<1>1. TypeOK'
  BY DEF PoolInv, TypeOK, Places, CreateWorker, Goto, Becomes, freeVars, sweepVars,
     expiryVars, stopVars
<1>2. PhaseInv'
  BY DEF PoolInv, TypeOK, PhaseInv, HaltInv, OwnInv, WorkInv, Resting, CreateWorker,
     Becomes, Unlocked, sweepVars, stopVars
<1>3. ListInv'
  BY DEF PoolInv, TypeOK, ListInv, NotQueued, WorkInv, OwnInv, Resting, OwnerPlaces,
     CreateWorker, Goto, freeVars
<1>4. HaltInv'
  BY DEF PoolInv, TypeOK, HaltInv, PhaseInv, CreateWorker, Becomes, sweepVars, stopVars
<1>5. WorkInv'
  BY DEF PoolInv, TypeOK, WorkInv, OwnInv, Resting, OwnerPlaces, HaltInv, PhaseInv,
     BusyInv, Awaited, CreateWorker, Becomes
<1>6. OwnInv'
  <2>1. PICK w \in Worker : /\ wpc[w] = "None" /\ wpc' = [wpc EXCEPT ![w] = "Created"]
                            /\ worker' = [worker EXCEPT ![k] = w]
    BY DEF CreateWorker, Becomes
  <2>2. /\ pc[k] = "Push" /\ pc' = [pc EXCEPT ![k] = "Start"]
        /\ UNCHANGED <<invoke, unused, callback>>
    BY DEF CreateWorker, Goto
  <2>3. \A j \in Task : /\ pc[j] \in OwnerPlaces => wpc[worker[j]] # "None"
                        /\ pc[j] = "Start" => wpc[worker[j]] # "None"
    BY DEF PoolInv, OwnInv, Resting
  <2> QED BY <2>1, <2>2, <2>3 DEF PoolInv, TypeOK, OwnInv, OwnerPlaces, Resting
<1>7. BusyInv'
  BY DEF PoolInv, TypeOK, BusyInv, Awaited, OwnInv, WorkInv, HaltInv, PhaseInv, Resting,
     CreateWorker, Goto, stopVars
<1>8. FateInv'
  BY DEF PoolInv, TypeOK, FateInv, Begun, NotBegun, OwnInv, WorkInv, ListInv, NotQueued,
     OwnerPlaces, Resting, CreateWorker, Goto
<1> QED BY <1>1, <1>2, <1>3, <1>4, <1>5, <1>6, <1>7, <1>8 DEF PoolInv

LEMMA StartSound ==
  ASSUME PoolInv, NEW k \in Task, Start(k)
  PROVE  PoolInv'
<1>1. TypeOK'
  BY DEF PoolInv, TypeOK, Places, Start, Goto, Becomes, poolVars, freeVars, sweepVars,
     expiryVars, stopVars
<1>2. PhaseInv'
  BY DEF PoolInv, TypeOK, PhaseInv, HaltInv, OwnInv, WorkInv, Resting, Start, Becomes,
     poolVars, sweepVars, stopVars
<1>3. ListInv'
  BY DEF PoolInv, TypeOK, ListInv, NotQueued, WorkInv, OwnInv, Resting, OwnerPlaces,
     Start, Goto, poolVars, freeVars
<1>4. HaltInv'
  BY DEF PoolInv, OwnInv, TypeOK, HaltInv, PhaseInv, Start, Becomes, poolVars,
     sweepVars, stopVars
<1>5. WorkInv'
  BY NamesAssumption DEF PoolInv, TypeOK, WorkInv, OwnInv, Resting, OwnerPlaces,
     HaltInv, PhaseInv, BusyInv, Awaited, Start, Goto, Becomes, poolVars, freeVars,
     sweepVars, expiryVars, stopVars
<1>6. OwnInv'
  BY DEF PoolInv, TypeOK, OwnInv, WorkInv, ListInv, FateInv, Resting, OwnerPlaces,
     NotQueued, HaltInv, PhaseInv, Start, Goto, Becomes, poolVars
<1>7. BusyInv'
  BY DEF PoolInv, TypeOK, BusyInv, Awaited, OwnInv, WorkInv, HaltInv, PhaseInv, Resting,
     Start, Goto, stopVars
<1>8. FateInv'
  BY DEF PoolInv, TypeOK, FateInv, Begun, NotBegun, OwnInv, WorkInv, ListInv, NotQueued,
     OwnerPlaces, Resting, Start, Goto, poolVars
<1> QED BY <1>1, <1>2, <1>3, <1>4, <1>5, <1>6, <1>7, <1>8 DEF PoolInv

LEMMA StartFailsSound ==
  ASSUME PoolInv, NEW k \in Task, StartFails(k)
  PROVE  PoolInv'
<1>1. TypeOK'
  BY DEF PoolInv, TypeOK, Places, StartFails, Goto, Becomes, freeVars, sweepVars,
     taskVars, expiryVars, stopVars
<1>2. PhaseInv'
  BY DEF PoolInv, TypeOK, PhaseInv, HaltInv, OwnInv, WorkInv, Resting, StartFails,
     Becomes, Unlocked, sweepVars, stopVars
<1>3. ListInv'
  BY DEF PoolInv, TypeOK, ListInv, NotQueued, WorkInv, OwnInv, Resting, OwnerPlaces,
     StartFails, Goto, freeVars
<1>4. HaltInv'
  BY DEF PoolInv, TypeOK, HaltInv, PhaseInv, StartFails, Becomes, sweepVars, stopVars
<1>5. WorkInv'
  BY DEF PoolInv, TypeOK, WorkInv, OwnInv, Resting, OwnerPlaces, HaltInv, PhaseInv,
     BusyInv, Awaited, StartFails, Becomes
<1>6. OwnInv'
  BY DEF PoolInv, TypeOK, OwnInv, WorkInv, ListInv, FateInv, Resting, OwnerPlaces,
     NotQueued, HaltInv, PhaseInv, StartFails, Goto, Becomes, taskVars
<1>7. BusyInv'
  BY DEF PoolInv, TypeOK, BusyInv, Awaited, OwnInv, WorkInv, HaltInv, PhaseInv, Resting,
     StartFails, Goto, taskVars, stopVars
<1>8. FateInv'
  BY DEF PoolInv, TypeOK, FateInv, Begun, NotBegun, OwnInv, WorkInv, ListInv, NotQueued,
     OwnerPlaces, Resting, StartFails, Goto, taskVars
<1> QED BY <1>1, <1>2, <1>3, <1>4, <1>5, <1>6, <1>7, <1>8 DEF PoolInv

LEMMA ReleaseWorkerSlotSound ==
  ASSUME PoolInv, NEW k \in Task, ReleaseWorkerSlot(k), CreatingBounded'
  PROVE  PoolInv'
<1>1. /\ told' \subseteq Task /\ waiters' \in Seq(Task) /\ free' \in BOOLEAN
  <2>1. waiters # <<>> => Head(waiters) \in Task
    BY TailNode DEF PoolInv, TypeOK
  <2> QED BY <2>1 DEF PoolInv, TypeOK, SetFree, ReleaseWorkerSlot
<1>2. TypeOK'
  BY <1>1 DEF PoolInv, TypeOK, Places, CreatingBounded, ReleaseWorkerSlot, Goto,
     SetFree, sweepVars, taskVars, workerVars, expiryVars, stopVars
<1>3. ListInv'
  BY DEF PoolInv, TypeOK, ListInv, NotQueued, WorkInv, OwnInv, Resting, OwnerPlaces,
     ReleaseWorkerSlot, Goto, SetFree
<1>4. OwnInv'
  BY DEF PoolInv, TypeOK, OwnInv, WorkInv, ListInv, FateInv, Resting, OwnerPlaces,
     NotQueued, HaltInv, PhaseInv, ReleaseWorkerSlot, Goto, taskVars, workerVars
<1>5. BusyInv'
  BY DEF PoolInv, TypeOK, BusyInv, Awaited, OwnInv, WorkInv, HaltInv, PhaseInv, Resting,
     ReleaseWorkerSlot, Goto, taskVars, workerVars, stopVars
<1>6. FateInv'
  BY DEF PoolInv, TypeOK, FateInv, Begun, NotBegun, OwnInv, WorkInv, ListInv, NotQueued,
     OwnerPlaces, Resting, ReleaseWorkerSlot, Goto, taskVars, workerVars
<1>7. PhaseInv' /\ HaltInv' /\ WorkInv'
  BY DEF PoolInv, PhaseInv, HaltInv, WorkInv, ReleaseWorkerSlot, sweepVars, workerVars,
     stopVars
<1> QED BY <1>2, <1>3, <1>4, <1>5, <1>6, <1>7 DEF PoolInv

LEMMA WithdrawSound ==
  ASSUME PoolInv, NEW k \in Task, Withdraw(k)
  PROVE  PoolInv'
<1>1. /\ queue' \in Seq(Task) /\ IsInjective(queue')
      /\ ToSet(queue)' = ToSet(queue) \ {k}
  BY NamesAssumption, RemoveNode DEF PoolInv, ListInv, TypeOK, OwnInv, WorkInv,
     PhaseInv, HaltInv, OwnerPlaces, NotQueued, Resting, Withdraw, Goto, Dequeued,
     Claimed, freeVars, sweepVars, taskVars, workerVars, expiryVars, stopVars
<1>2. TypeOK'
  BY <1>1 DEF PoolInv, TypeOK, Places, Withdraw, Goto, Dequeued, Claimed, freeVars,
     sweepVars, taskVars, workerVars, expiryVars, stopVars
<1>3. ListInv'
  BY <1>1 DEF PoolInv, TypeOK, ListInv, NotQueued, WorkInv, OwnInv, Resting,
     OwnerPlaces, Withdraw, Goto, Dequeued, Claimed, freeVars
<1>4. OwnInv'
  BY <1>1 DEF PoolInv, TypeOK, OwnInv, WorkInv, ListInv, FateInv, Resting, OwnerPlaces,
     NotQueued, HaltInv, PhaseInv, Withdraw, Goto, taskVars, workerVars
<1>5. BusyInv'
  BY <1>1 DEF PoolInv, TypeOK, BusyInv, Awaited, OwnInv, WorkInv, HaltInv, PhaseInv,
     Resting, Withdraw, Goto, taskVars, workerVars, stopVars
<1>6. FateInv'
  BY <1>1 DEF PoolInv, TypeOK, FateInv, Begun, NotBegun, OwnInv, WorkInv, ListInv,
     NotQueued, OwnerPlaces, Resting, Withdraw, Goto, Dequeued, Claimed, taskVars,
     workerVars
<1>7. PhaseInv' /\ HaltInv' /\ WorkInv'
  BY DEF PoolInv, PhaseInv, HaltInv, WorkInv, Withdraw, sweepVars, workerVars, stopVars
<1> QED BY <1>2, <1>3, <1>4, <1>5, <1>6, <1>7 DEF PoolInv

LEMMA RegisterSound ==
  ASSUME PoolInv, NEW k \in Task, Register(k)
  PROVE  PoolInv'
<1>1. k \notin ToSet(waiters)
  BY DEF PoolInv, ListInv, Register
<1>2. waiters' # waiters => /\ waiters' \in Seq(Task) /\ IsInjective(waiters')
                            /\ ToSet(waiters') = ToSet(waiters) \cup {k}
  <2>1. /\ Append(waiters, k) \in Seq(Task) /\ IsInjective(Append(waiters, k))
        /\ ToSet(Append(waiters, k)) = ToSet(waiters) \cup {k}
    BY <1>1, AppendNode DEF PoolInv, ListInv, TypeOK
  <2>2. waiters' # waiters => waiters' = Append(waiters, k)
    BY DEF Register, freeVars
  <2> QED BY <2>1, <2>2
<1>3. TypeOK'
  BY <1>2 DEF PoolInv, TypeOK, Places, Register, Goto, poolVars, freeVars, sweepVars,
     taskVars, workerVars, expiryVars, stopVars
<1>4. ListInv'
  BY <1>2 DEF PoolInv, TypeOK, ListInv, NotQueued, WorkInv, OwnInv, Resting,
     OwnerPlaces, Register, Goto, poolVars, freeVars
<1>5. OwnInv'
  <2>1. CASE stopping /\ Goto(k, "Returned") /\ UNCHANGED freeVars
    BY NamesAssumption, <1>2, <2>1 DEF PoolInv, TypeOK, OwnInv, WorkInv, ListInv,
       FateInv, Resting, OwnerPlaces, NotQueued, HaltInv, PhaseInv, Register, Goto,
       poolVars, freeVars, sweepVars, taskVars, workerVars, expiryVars, stopVars
  <2>2. CASE /\ ~stopping /\ free /\ Goto(k, "Loop")
             /\ free' = FALSE /\ UNCHANGED <<waiters, told>>
    BY NamesAssumption, <1>2, <2>2 DEF PoolInv, TypeOK, OwnInv, WorkInv, ListInv,
       FateInv, Resting, OwnerPlaces, NotQueued, HaltInv, PhaseInv, Register, Goto,
       poolVars, freeVars, sweepVars, taskVars, workerVars, expiryVars, stopVars
  <2>3. CASE /\ ~stopping /\ ~free /\ Goto(k, "Blocked")
             /\ waiters' = Append(waiters, k) /\ UNCHANGED <<free, told>>
    BY NamesAssumption, <1>2, <2>3 DEF PoolInv, TypeOK, OwnInv, WorkInv, ListInv,
       FateInv, Resting, OwnerPlaces, NotQueued, HaltInv, PhaseInv, Register, Goto,
       poolVars, freeVars, sweepVars, taskVars, workerVars, expiryVars, stopVars
  <2> QED BY <2>1, <2>2, <2>3 DEF Register
<1>6. BusyInv'
  BY <1>2 DEF PoolInv, TypeOK, BusyInv, Awaited, OwnInv, WorkInv, HaltInv, PhaseInv,
     Resting, Register, Goto, taskVars, workerVars, stopVars
<1>7. FateInv'
  <2>1. CASE stopping /\ Goto(k, "Returned") /\ UNCHANGED freeVars
    BY NamesAssumption, <1>2, <2>1 DEF PoolInv, TypeOK, FateInv, Begun, NotBegun,
       OwnInv, WorkInv, ListInv, NotQueued, OwnerPlaces, Resting, Register, Goto,
       poolVars, freeVars, sweepVars, taskVars, workerVars, expiryVars, stopVars
  <2>2. CASE /\ ~stopping /\ free /\ Goto(k, "Loop")
             /\ free' = FALSE /\ UNCHANGED <<waiters, told>>
    BY NamesAssumption, <1>2, <2>2 DEF PoolInv, TypeOK, FateInv, Begun, NotBegun,
       OwnInv, WorkInv, ListInv, NotQueued, OwnerPlaces, Resting, Register, Goto,
       poolVars, freeVars, sweepVars, taskVars, workerVars, expiryVars, stopVars
  <2>3. CASE /\ ~stopping /\ ~free /\ Goto(k, "Blocked")
             /\ waiters' = Append(waiters, k) /\ UNCHANGED <<free, told>>
    BY NamesAssumption, <1>2, <2>3 DEF PoolInv, TypeOK, FateInv, Begun, NotBegun,
       OwnInv, WorkInv, ListInv, NotQueued, OwnerPlaces, Resting, Register, Goto,
       poolVars, freeVars, sweepVars, taskVars, workerVars, expiryVars, stopVars
  <2> QED BY <2>1, <2>2, <2>3 DEF Register
<1>8. PhaseInv' /\ HaltInv' /\ WorkInv'
  BY DEF PoolInv, PhaseInv, HaltInv, WorkInv, Register, poolVars, sweepVars, workerVars,
     stopVars
<1> QED BY <1>3, <1>4, <1>5, <1>6, <1>7, <1>8 DEF PoolInv

LEMMA WaitEndsSound ==
  ASSUME PoolInv, NEW k \in Task, WaitEnds(k)
  PROVE  PoolInv'
<1>1. /\ waiters' \in Seq(Task) /\ IsInjective(waiters')
      /\ ToSet(waiters)' = ToSet(waiters) \ {k}
  BY NamesAssumption, RemoveNode DEF PoolInv, ListInv, TypeOK, OwnInv, WorkInv,
     PhaseInv, HaltInv, OwnerPlaces, NotQueued, Resting, WaitEnds, Goto, poolVars,
     sweepVars, taskVars, workerVars, expiryVars, stopVars
<1>2. TypeOK'
  BY <1>1 DEF PoolInv, TypeOK, Places, WaitEnds, Goto, poolVars, sweepVars, taskVars,
     workerVars, expiryVars, stopVars
<1>3. ListInv'
  BY <1>1 DEF PoolInv, TypeOK, ListInv, NotQueued, WorkInv, OwnInv, Resting,
     OwnerPlaces, WaitEnds, Goto, poolVars
<1>4. /\ pc[k] = "Blocked" /\ pc'[k] \in {"Loop", "Returned"}
      /\ \A j \in Task : j # k => pc'[j] = pc[j]
      /\ UNCHANGED <<queue, given, signalled, callback, worker, invoke, busy, stopping, wpc, unused>>
  BY DEF PoolInv, TypeOK, WaitEnds, Goto, poolVars, taskVars, workerVars, stopVars
<1>5. OwnInv'
  <2>1. \A j \in Task : pc'[j] \in OwnerPlaces \cup {"Start", "InvokeWait"} => pc'[j] = pc[j]
    BY <1>4 DEF OwnerPlaces
  <2> QED BY <1>4, <2>1 DEF PoolInv, OwnInv, OwnerPlaces
<1>6. BusyInv'
  BY <1>4 DEF PoolInv, BusyInv, Awaited
<1>7. FateInv'
  <2>1. \A j \in Task : Begun(j) => Begun(j)'
    BY <1>4 DEF Begun, NotBegun
  <2>2. \A w \in Worker : callback[w] \in Task \cup {NoTask}
    BY DEF PoolInv, TypeOK
  <2>3. signalled \subseteq Task
    BY DEF PoolInv, TypeOK
  <2> QED BY <1>4, <2>1, <2>2, <2>3 DEF PoolInv, FateInv
<1>8. PhaseInv' /\ HaltInv' /\ WorkInv'
  BY DEF PoolInv, PhaseInv, HaltInv, WorkInv, WaitEnds, poolVars, sweepVars, workerVars,
     stopVars
<1> QED BY <1>2, <1>3, <1>5, <1>6, <1>7, <1>8 DEF PoolInv

LEMMA TakeSound ==
  ASSUME PoolInv, NEW k \in Task, Take(k)
  PROVE  PoolInv'
<1>1. /\ queue' \in Seq(Task) /\ IsInjective(queue')
      /\ ToSet(queue)' = ToSet(queue) \ {k}
  BY NamesAssumption, RemoveNode DEF PoolInv, ListInv, TypeOK, OwnInv, WorkInv,
     PhaseInv, HaltInv, OwnerPlaces, NotQueued, Resting, Take, Goto, Dequeued, Claimed,
     freeVars, sweepVars, taskVars, workerVars, expiryVars, stopVars
<1>2. TypeOK'
  BY <1>1 DEF PoolInv, TypeOK, Places, Take, Goto, Dequeued, Claimed, freeVars,
     sweepVars, taskVars, workerVars, expiryVars, stopVars
<1>3. ListInv'
  BY <1>1 DEF PoolInv, TypeOK, ListInv, NotQueued, WorkInv, OwnInv, Resting,
     OwnerPlaces, Take, Goto, Dequeued, Claimed, freeVars
<1>4. OwnInv'
  <2>1. CASE Dequeued(k) /\ Goto(k, "Invoke")
    BY NamesAssumption, <1>1, <2>1 DEF PoolInv, TypeOK, OwnInv, WorkInv, ListInv,
       FateInv, Resting, OwnerPlaces, NotQueued, HaltInv, PhaseInv, Take, Goto,
       Dequeued, Claimed, freeVars, sweepVars, taskVars, workerVars, expiryVars,
       stopVars
  <2>2. CASE Claimed(k) /\ Goto(k, "PutBack")
    BY NamesAssumption, <1>1, <2>2 DEF PoolInv, TypeOK, OwnInv, WorkInv, ListInv,
       FateInv, Resting, OwnerPlaces, NotQueued, HaltInv, PhaseInv, Take, Goto,
       Dequeued, Claimed, freeVars, sweepVars, taskVars, workerVars, expiryVars,
       stopVars
  <2> QED BY <2>1, <2>2 DEF Take
<1>5. BusyInv'
  BY <1>1 DEF PoolInv, TypeOK, BusyInv, Awaited, OwnInv, WorkInv, HaltInv, PhaseInv,
     Resting, Take, Goto, taskVars, workerVars, stopVars
<1>6. FateInv'
  BY <1>1 DEF PoolInv, TypeOK, FateInv, Begun, NotBegun, OwnInv, WorkInv, ListInv,
     NotQueued, OwnerPlaces, Resting, Take, Goto, Dequeued, Claimed, taskVars,
     workerVars
<1>7. PhaseInv' /\ HaltInv' /\ WorkInv'
  BY DEF PoolInv, PhaseInv, HaltInv, WorkInv, Take, sweepVars, workerVars, stopVars
<1> QED BY <1>2, <1>3, <1>4, <1>5, <1>6, <1>7 DEF PoolInv

LEMMA PutBackSound ==
  ASSUME PoolInv, NEW k \in Task, PutBack(k)
  PROVE  PoolInv'
<1>1. /\ unused' \in Seq(Worker) /\ IsInjective(unused')
      /\ ToSet(unused)' = ToSet(unused) \cup {worker[k]}
  BY NamesAssumption, AppendNode DEF PoolInv, ListInv, TypeOK, OwnInv, WorkInv,
     PhaseInv, HaltInv, OwnerPlaces, NotQueued, Resting, PutBack, Goto, Unlocked,
     freeVars, sweepVars, taskVars, workerVars, expiryVars, stopVars
<1>2. TypeOK'
  BY <1>1 DEF PoolInv, TypeOK, Places, PutBack, Goto, freeVars, sweepVars, taskVars,
     workerVars, expiryVars, stopVars
<1>3. PhaseInv'
  BY <1>1 DEF PoolInv, TypeOK, PhaseInv, HaltInv, OwnInv, WorkInv, Resting, PutBack,
     Unlocked, sweepVars, workerVars, stopVars
<1>4. ListInv'
  BY <1>1 DEF PoolInv, TypeOK, ListInv, NotQueued, WorkInv, OwnInv, Resting,
     OwnerPlaces, PutBack, Goto, freeVars
<1>5. WorkInv'
  BY <1>1 DEF PoolInv, TypeOK, WorkInv, OwnInv, Resting, OwnerPlaces, HaltInv, PhaseInv,
     BusyInv, Awaited, PutBack, workerVars
<1>6. OwnInv'
  BY <1>1 DEF PoolInv, TypeOK, OwnInv, WorkInv, ListInv, FateInv, Resting, OwnerPlaces,
     NotQueued, HaltInv, PhaseInv, PutBack, Goto, taskVars, workerVars
<1>7. BusyInv'
  BY <1>1 DEF PoolInv, TypeOK, BusyInv, Awaited, OwnInv, WorkInv, HaltInv, PhaseInv,
     Resting, PutBack, Goto, taskVars, workerVars, stopVars
<1>8. FateInv'
  BY <1>1 DEF PoolInv, TypeOK, FateInv, Begun, NotBegun, OwnInv, WorkInv, ListInv,
     NotQueued, OwnerPlaces, Resting, PutBack, Goto, taskVars, workerVars
<1>9. HaltInv'
  BY DEF PoolInv, HaltInv, PutBack, sweepVars, workerVars, stopVars
<1> QED BY <1>2, <1>3, <1>4, <1>5, <1>6, <1>7, <1>8, <1>9 DEF PoolInv

LEMMA InvokeSound ==
  ASSUME PoolInv, NEW k \in Task, Invoke(k)
  PROVE  PoolInv'
<1>1. TypeOK'
  <2>1. worker[k] \in Worker
    BY DEF PoolInv, OwnInv, OwnerPlaces, Invoke
  <2>2. callback' \in [Worker -> Task \cup {NoTask}]
    BY <2>1 DEF PoolInv, TypeOK, Invoke
  <2>3. pc' \in [Task -> Places]
    BY DEF PoolInv, TypeOK, Places, Invoke, Goto
  <2> QED BY <2>2, <2>3 DEF PoolInv, TypeOK, Invoke, poolVars, freeVars, sweepVars, taskVars,
             expiryVars, stopVars
<1>2. ListInv'
  BY DEF PoolInv, TypeOK, ListInv, NotQueued, WorkInv, OwnInv, Resting, OwnerPlaces,
     Invoke, Goto, poolVars, freeVars
<1>3. WorkInv'
  BY NamesAssumption DEF PoolInv, TypeOK, WorkInv, OwnInv, Resting, OwnerPlaces,
     HaltInv, PhaseInv, BusyInv, Awaited, Invoke, Goto, HasThread, poolVars, freeVars,
     sweepVars, taskVars, expiryVars, stopVars
<1>4. OwnInv'
  BY DEF PoolInv, TypeOK, OwnInv, WorkInv, ListInv, FateInv, Resting, OwnerPlaces,
     NotQueued, HaltInv, PhaseInv, Invoke, Goto, HasThread, poolVars, taskVars
<1>5. BusyInv'
  BY DEF PoolInv, TypeOK, BusyInv, Awaited, OwnInv, WorkInv, HaltInv, PhaseInv, Resting,
     Invoke, Goto, taskVars, stopVars
<1>6. FateInv'
  <2>1. CASE ~HasThread(worker[k]) /\ Goto(k, "PutBack") /\ UNCHANGED callback
    BY NamesAssumption, <2>1 DEF PoolInv, TypeOK, FateInv, Begun, NotBegun, OwnInv,
       WorkInv, ListInv, NotQueued, OwnerPlaces, Resting, Invoke, Goto, HasThread,
       poolVars, freeVars, sweepVars, taskVars, expiryVars, stopVars
  <2>2. CASE /\ HasThread(worker[k]) /\ Goto(k, "InvokeLock")
             /\ callback' = [callback EXCEPT ![worker[k]] = k]
    BY NamesAssumption, <2>2 DEF PoolInv, TypeOK, FateInv, Begun, NotBegun, OwnInv,
       WorkInv, ListInv, NotQueued, OwnerPlaces, Resting, Invoke, Goto, HasThread,
       poolVars, freeVars, sweepVars, taskVars, expiryVars, stopVars
  <2> QED BY <2>1, <2>2 DEF Invoke
<1>7. PhaseInv' /\ HaltInv'
  BY DEF PoolInv, PhaseInv, HaltInv, Invoke, poolVars, sweepVars, stopVars
<1> QED BY <1>1, <1>2, <1>3, <1>4, <1>5, <1>6, <1>7 DEF PoolInv

LEMMA SetInvokeSound ==
  ASSUME PoolInv, NEW k \in Task, SetInvoke(k)
  PROVE  PoolInv'
<1>1. TypeOK'
  BY DEF PoolInv, OwnInv, OwnerPlaces, TypeOK, Places, SetInvoke, Goto, poolVars,
     freeVars, sweepVars, taskVars, expiryVars, stopVars
<1>2. ListInv'
  BY DEF PoolInv, TypeOK, ListInv, NotQueued, WorkInv, OwnInv, Resting, OwnerPlaces,
     SetInvoke, Goto, poolVars, freeVars
<1>3. WorkInv'
  BY NamesAssumption DEF PoolInv, TypeOK, WorkInv, OwnInv, Resting, OwnerPlaces,
     HaltInv, PhaseInv, BusyInv, Awaited, SetInvoke, Goto, poolVars, freeVars,
     sweepVars, taskVars, expiryVars, stopVars
<1>4. OwnInv'
  BY DEF PoolInv, TypeOK, OwnInv, WorkInv, ListInv, FateInv, Resting, OwnerPlaces,
     NotQueued, HaltInv, PhaseInv, SetInvoke, Goto, poolVars, taskVars
<1>5. BusyInv'
  BY DEF PoolInv, TypeOK, BusyInv, Awaited, OwnInv, WorkInv, HaltInv, PhaseInv, Resting,
     SetInvoke, Goto, taskVars, stopVars
<1>6. FateInv'
  BY DEF PoolInv, TypeOK, FateInv, Begun, NotBegun, OwnInv, WorkInv, ListInv, NotQueued,
     OwnerPlaces, Resting, SetInvoke, Goto, poolVars, taskVars
<1>7. PhaseInv' /\ HaltInv'
  BY DEF PoolInv, PhaseInv, HaltInv, SetInvoke, poolVars, sweepVars, stopVars
<1> QED BY <1>1, <1>2, <1>3, <1>4, <1>5, <1>6, <1>7 DEF PoolInv

LEMMA InvokeEndsSound ==
  ASSUME PoolInv, NEW k \in Task, InvokeEnds(k)
  PROVE  PoolInv'
<1>1. TypeOK'
  BY DEF PoolInv, TypeOK, Places, InvokeEnds, Goto, poolVars, freeVars, sweepVars,
     expiryVars, stopVars
<1>2. ListInv'
  BY DEF PoolInv, TypeOK, ListInv, NotQueued, WorkInv, OwnInv, Resting, OwnerPlaces,
     InvokeEnds, Goto, poolVars, freeVars
<1>3. WorkInv'
  BY DEF PoolInv, TypeOK, WorkInv, OwnInv, Resting, OwnerPlaces, HaltInv, PhaseInv,
     BusyInv, Awaited, InvokeEnds, poolVars
<1>4. OwnInv'
  BY DEF PoolInv, TypeOK, OwnInv, WorkInv, ListInv, FateInv, Resting, OwnerPlaces,
     NotQueued, HaltInv, PhaseInv, InvokeEnds, Goto, poolVars
<1>5. BusyInv'
  BY NamesAssumption DEF PoolInv, TypeOK, BusyInv, Awaited, OwnInv, WorkInv, HaltInv,
     PhaseInv, Resting, InvokeEnds, Goto, poolVars, freeVars, sweepVars, expiryVars,
     stopVars
<1>6. FateInv'
  BY DEF PoolInv, TypeOK, FateInv, Begun, NotBegun, OwnInv, WorkInv, ListInv, NotQueued,
     OwnerPlaces, Resting, InvokeEnds, Goto, poolVars
<1>7. PhaseInv' /\ HaltInv'
  BY DEF PoolInv, PhaseInv, HaltInv, InvokeEnds, poolVars, sweepVars, stopVars
<1> QED BY <1>1, <1>2, <1>3, <1>4, <1>5, <1>6, <1>7 DEF PoolInv

LEMMA CallbackReturnsSound ==
  ASSUME PoolInv, NEW w \in Worker, CallbackReturns(w)
  PROVE  PoolInv'
<1>1. TypeOK'
  BY DEF PoolInv, WorkInv, TypeOK, CallbackReturns, Becomes, poolVars, freeVars,
     sweepVars, expiryVars, stopVars
<1>2. PhaseInv'
  BY DEF PoolInv, TypeOK, PhaseInv, HaltInv, OwnInv, WorkInv, Resting, CallbackReturns,
     Becomes, poolVars, sweepVars, stopVars
<1>3. HaltInv'
  BY DEF PoolInv, TypeOK, HaltInv, PhaseInv, CallbackReturns, Becomes, poolVars,
     sweepVars, stopVars
<1>4. WorkInv'
  BY DEF PoolInv, TypeOK, WorkInv, OwnInv, Resting, OwnerPlaces, HaltInv, PhaseInv,
     BusyInv, Awaited, CallbackReturns, Becomes, poolVars
<1>5. OwnInv'
  BY DEF PoolInv, TypeOK, OwnInv, WorkInv, ListInv, FateInv, Resting, OwnerPlaces,
     NotQueued, HaltInv, PhaseInv, CallbackReturns, Becomes, poolVars
<1>6. FateInv'
  BY DEF PoolInv, TypeOK, FateInv, Begun, NotBegun, OwnInv, WorkInv, ListInv, NotQueued,
     OwnerPlaces, Resting, CallbackReturns, poolVars
<1>7. ListInv' /\ BusyInv'
  BY DEF PoolInv, ListInv, BusyInv, Awaited, CallbackReturns, poolVars, freeVars,
     stopVars
<1> QED BY <1>1, <1>2, <1>3, <1>4, <1>5, <1>6, <1>7 DEF PoolInv

LEMMA ClaimTaskSound ==
  ASSUME PoolInv, NEW w \in Worker, ClaimTask(w)
  PROVE  PoolInv'
<1>1. /\ queue' \in Seq(Task) /\ IsInjective(queue')
      /\ Head(queue) \in ToSet(queue)
      /\ Head(queue) \in Task
      /\ ToSet(queue)' = ToSet(queue) \ {Head(queue)}
  BY NamesAssumption, TailNode DEF PoolInv, ListInv, TypeOK, OwnInv, WorkInv, PhaseInv,
     HaltInv, OwnerPlaces, NotQueued, Resting, ClaimTask, Becomes, StateUnlocked,
     freeVars, sweepVars, expiryVars, stopVars
<1>2. TypeOK'
  BY <1>1 DEF PoolInv, TypeOK, ClaimTask, Becomes, freeVars, sweepVars, expiryVars,
     stopVars
<1>3. PhaseInv'
  BY <1>1 DEF PoolInv, TypeOK, PhaseInv, HaltInv, OwnInv, WorkInv, Resting, ClaimTask,
     Becomes, sweepVars, stopVars
<1>4. ListInv'
  BY <1>1 DEF PoolInv, TypeOK, ListInv, NotQueued, WorkInv, OwnInv, Resting,
     OwnerPlaces, ClaimTask, StateUnlocked, freeVars
<1>5. HaltInv'
  BY <1>1 DEF PoolInv, TypeOK, HaltInv, PhaseInv, ClaimTask, Becomes, sweepVars,
     stopVars
<1>6. WorkInv'
  BY NamesAssumption, <1>1 DEF PoolInv, TypeOK, WorkInv, OwnInv, Resting, OwnerPlaces,
     HaltInv, PhaseInv, BusyInv, Awaited, ClaimTask, Becomes, StateUnlocked, freeVars,
     sweepVars, expiryVars, stopVars
<1>7. OwnInv'
  BY <1>1 DEF PoolInv, TypeOK, OwnInv, WorkInv, ListInv, FateInv, Resting, OwnerPlaces,
     NotQueued, HaltInv, PhaseInv, ClaimTask, Becomes, StateUnlocked
<1>8. FateInv'
  BY <1>1 DEF PoolInv, TypeOK, FateInv, Begun, NotBegun, OwnInv, WorkInv, ListInv,
     NotQueued, OwnerPlaces, Resting, ClaimTask, StateUnlocked
<1>9. BusyInv'
  BY DEF PoolInv, BusyInv, Awaited, ClaimTask, stopVars
<1> QED BY <1>2, <1>3, <1>4, <1>5, <1>6, <1>7, <1>8, <1>9 DEF PoolInv

LEMMA ClaimNothingSound ==
  ASSUME PoolInv, NEW w \in Worker, ClaimNothing(w)
  PROVE  PoolInv'
<1>1. TypeOK'
  BY DEF PoolInv, TypeOK, ClaimNothing, Becomes, poolVars, freeVars, sweepVars,
     taskVars, expiryVars, stopVars
<1>2. PhaseInv'
  BY DEF PoolInv, TypeOK, PhaseInv, HaltInv, OwnInv, WorkInv, Resting, ClaimNothing,
     Becomes, poolVars, sweepVars, stopVars
<1>3. HaltInv'
  BY DEF PoolInv, TypeOK, HaltInv, PhaseInv, ClaimNothing, Becomes, poolVars, sweepVars,
     stopVars
<1>4. WorkInv'
  BY DEF PoolInv, TypeOK, WorkInv, OwnInv, Resting, OwnerPlaces, HaltInv, PhaseInv,
     BusyInv, Awaited, ClaimNothing, Becomes, poolVars
<1>5. OwnInv'
  BY DEF PoolInv, TypeOK, OwnInv, WorkInv, ListInv, FateInv, Resting, OwnerPlaces,
     NotQueued, HaltInv, PhaseInv, ClaimNothing, Becomes, StateUnlocked, poolVars,
     taskVars
<1>6. ListInv' /\ BusyInv' /\ FateInv'
  BY DEF PoolInv, ListInv, BusyInv, FateInv, Begun, Awaited, ClaimNothing, poolVars,
     freeVars, taskVars, stopVars
<1> QED BY <1>1, <1>2, <1>3, <1>4, <1>5, <1>6 DEF PoolInv

LEMMA CB_OnFreeSound ==
  ASSUME PoolInv, NEW w \in Worker, CB_OnFree(w)
  PROVE  PoolInv'
<1>1. /\ told' \subseteq Task /\ waiters' \in Seq(Task) /\ free' \in BOOLEAN
  <2>1. waiters # <<>> => Head(waiters) \in Task
    BY TailNode DEF PoolInv, TypeOK
  <2> QED BY <2>1 DEF PoolInv, TypeOK, SetFree, CB_OnFree
<1>2. /\ unused' \in Seq(Worker) /\ IsInjective(unused')
      /\ ToSet(unused)' = ToSet(unused) \cup {w}
  <2>1. w \notin ToSet(unused) /\ unused' = <<w>> \o unused
    BY DEF PoolInv, WorkInv, Resting, CB_OnFree
  <2> QED BY <2>1, PrependNode DEF PoolInv, ListInv, TypeOK
<1>3. TypeOK'
  <2>1. armed' \subseteq Worker /\ ticking' \subseteq Worker /\ timer' \in BOOLEAN
    BY DEF PoolInv, TypeOK, CB_OnFree
  <2>2. wpc' = [wpc EXCEPT ![w] = "Wait"]
    BY DEF CB_OnFree, Becomes
  <2>3. UNCHANGED <<mode, queue, all, creating, lock, target, pc, taskVars, callback, invoke,
                    busy, halt, stopped, expired, stopVars>>
    BY DEF CB_OnFree
  <2> QED BY <1>1, <1>2, <2>1, <2>2, <2>3 DEF PoolInv, TypeOK, taskVars, stopVars
<1>4. PhaseInv'
  BY <1>2 DEF PoolInv, TypeOK, PhaseInv, HaltInv, OwnInv, WorkInv, Resting, CB_OnFree,
     Becomes, Unlocked, stopVars
<1>5. ListInv'
  BY <1>2 DEF PoolInv, TypeOK, ListInv, NotQueued, WorkInv, OwnInv, Resting,
     OwnerPlaces, CB_OnFree, SetFree
<1>6. HaltInv'
  BY <1>2 DEF PoolInv, TypeOK, HaltInv, PhaseInv, CB_OnFree, Becomes, stopVars
<1>7. WorkInv'
  <2>1. /\ wpc[w] = "Free" /\ wpc' = [wpc EXCEPT ![w] = "Wait"]
        /\ UNCHANGED <<callback, invoke, busy>>
    BY DEF CB_OnFree, Becomes
  <2> QED BY <1>2, <2>1 DEF PoolInv, TypeOK, WorkInv, Resting
<1>8. OwnInv'
  BY NamesAssumption, <1>2 DEF PoolInv, TypeOK, OwnInv, WorkInv, ListInv, FateInv,
     Resting, OwnerPlaces, NotQueued, HaltInv, PhaseInv, CB_OnFree, Becomes, Unlocked,
     SetFree, taskVars, stopVars
<1>9. BusyInv' /\ FateInv'
  BY DEF PoolInv, BusyInv, FateInv, Begun, Awaited, CB_OnFree, taskVars, stopVars
<1> QED BY <1>3, <1>4, <1>5, <1>6, <1>7, <1>8, <1>9 DEF PoolInv

LEMMA InvokedSound ==
  ASSUME PoolInv, NEW w \in Worker, Invoked(w)
  PROVE  PoolInv'
<1>1. TypeOK'
  BY DEF PoolInv, TypeOK, Invoked, Becomes, poolVars, freeVars, sweepVars, taskVars,
     expiryVars, stopVars
<1>2. PhaseInv'
  BY DEF PoolInv, TypeOK, PhaseInv, HaltInv, OwnInv, WorkInv, Resting, Invoked, Becomes,
     poolVars, sweepVars, stopVars
<1>3. HaltInv'
  BY DEF PoolInv, TypeOK, HaltInv, PhaseInv, Invoked, Becomes, poolVars, sweepVars,
     stopVars
<1>4. WorkInv'
  BY DEF PoolInv, TypeOK, WorkInv, OwnInv, Resting, OwnerPlaces, HaltInv, PhaseInv,
     BusyInv, Awaited, Invoked, Becomes, poolVars
<1>5. OwnInv'
  BY DEF PoolInv, TypeOK, OwnInv, WorkInv, ListInv, FateInv, Resting, OwnerPlaces,
     NotQueued, HaltInv, PhaseInv, Invoked, Becomes, poolVars, taskVars
<1>6. BusyInv'
  BY DEF PoolInv, TypeOK, BusyInv, Awaited, OwnInv, WorkInv, HaltInv, PhaseInv, Resting,
     Invoked, taskVars, stopVars
<1>7. ListInv' /\ FateInv'
  BY DEF PoolInv, ListInv, FateInv, Begun, Invoked, poolVars, freeVars, taskVars
<1> QED BY <1>1, <1>2, <1>3, <1>4, <1>5, <1>6, <1>7 DEF PoolInv

LEMMA ExitSound ==
  ASSUME PoolInv, NEW w \in Worker, Exit(w)
  PROVE  PoolInv'
<1>1. TypeOK'
  BY DEF PoolInv, TypeOK, Exit, Becomes, poolVars, freeVars, sweepVars, taskVars,
     expiryVars, stopVars
<1>2. PhaseInv'
  BY DEF PoolInv, TypeOK, PhaseInv, HaltInv, OwnInv, WorkInv, Resting, Exit, Becomes,
     poolVars, sweepVars, stopVars
<1>3. HaltInv'
  BY DEF PoolInv, TypeOK, HaltInv, PhaseInv, Exit, Becomes, poolVars, sweepVars,
     stopVars
<1>4. WorkInv'
  BY DEF PoolInv, TypeOK, WorkInv, OwnInv, Resting, OwnerPlaces, HaltInv, PhaseInv,
     BusyInv, Awaited, Exit, Becomes, poolVars
<1>5. OwnInv'
  BY DEF PoolInv, TypeOK, OwnInv, WorkInv, ListInv, FateInv, Resting, OwnerPlaces,
     NotQueued, HaltInv, PhaseInv, Exit, Becomes, poolVars, taskVars
<1>6. ListInv' /\ BusyInv' /\ FateInv'
  BY DEF PoolInv, ListInv, BusyInv, FateInv, Begun, Awaited, Exit, poolVars, freeVars,
     taskVars, stopVars
<1> QED BY <1>1, <1>2, <1>3, <1>4, <1>5, <1>6 DEF PoolInv

LEMMA OnTimerSound ==
  ASSUME PoolInv, NEW w \in Worker, OnTimer(w)
  PROVE  PoolInv'
<1>1. TypeOK'
  BY DEF PoolInv, TypeOK, OnTimer, Becomes, poolVars, freeVars, taskVars, expiryVars,
     stopVars
<1>2. PhaseInv'
  BY DEF PoolInv, TypeOK, PhaseInv, HaltInv, OwnInv, WorkInv, Resting, OnTimer, Becomes,
     poolVars, stopVars
<1>3. HaltInv'
  BY DEF PoolInv, TypeOK, HaltInv, PhaseInv, OnTimer, Becomes, poolVars, stopVars
<1>4. WorkInv'
  BY DEF PoolInv, TypeOK, WorkInv, OwnInv, Resting, OwnerPlaces, HaltInv, PhaseInv,
     BusyInv, Awaited, OnTimer, Becomes, poolVars
<1>5. OwnInv'
  BY DEF PoolInv, TypeOK, OwnInv, WorkInv, ListInv, FateInv, Resting, OwnerPlaces,
     NotQueued, HaltInv, PhaseInv, OnTimer, Becomes, poolVars, taskVars
<1>6. ListInv' /\ BusyInv' /\ FateInv'
  BY DEF PoolInv, ListInv, BusyInv, FateInv, Begun, Awaited, OnTimer, poolVars,
     freeVars, taskVars, stopVars
<1> QED BY <1>1, <1>2, <1>3, <1>4, <1>5, <1>6 DEF PoolInv

LEMMA CB_OnTimerSound ==
  ASSUME PoolInv, NEW w \in Worker, CB_OnTimer(w)
  PROVE  PoolInv'
<1>1. TypeOK'
  BY DEF PoolInv, TypeOK, CB_OnTimer, Becomes, CancelTimer, poolVars, freeVars,
     taskVars, expiryVars, stopVars
<1>2. PhaseInv'
  <2>1. CASE Becomes(w, "Wait") /\ UNCHANGED <<lock, timer>>
    BY NamesAssumption, <2>1 DEF PoolInv, TypeOK, PhaseInv, HaltInv, OwnInv, WorkInv,
       Resting, CB_OnTimer, Becomes, Unlocked, CancelTimer, poolVars, freeVars,
       taskVars, expiryVars, stopVars
  <2>2. CASE Unlocked /\ stopping /\ CancelTimer /\ Becomes(w, "Wait") /\ UNCHANGED lock
    BY NamesAssumption, <2>2 DEF PoolInv, TypeOK, PhaseInv, HaltInv, OwnInv, WorkInv,
       Resting, CB_OnTimer, Becomes, Unlocked, CancelTimer, poolVars, freeVars,
       taskVars, expiryVars, stopVars
  <2>3. CASE Unlocked /\ ~stopping /\ CancelTimer /\ Becomes(w, "Sweep") /\ lock' = w
    BY NamesAssumption, <2>3 DEF PoolInv, TypeOK, PhaseInv, HaltInv, OwnInv, WorkInv,
       Resting, CB_OnTimer, Becomes, Unlocked, CancelTimer, poolVars, freeVars,
       taskVars, expiryVars, stopVars
  <2> QED BY <2>1, <2>2, <2>3 DEF CB_OnTimer
<1>3. HaltInv'
  <2>1. CASE Becomes(w, "Wait") /\ UNCHANGED <<lock, timer>>
    BY NamesAssumption, <2>1 DEF PoolInv, TypeOK, HaltInv, PhaseInv, CB_OnTimer,
       Becomes, Unlocked, CancelTimer, poolVars, freeVars, taskVars, expiryVars,
       stopVars
  <2>2. CASE Unlocked /\ stopping /\ CancelTimer /\ Becomes(w, "Wait") /\ UNCHANGED lock
    BY NamesAssumption, <2>2 DEF PoolInv, TypeOK, HaltInv, PhaseInv, CB_OnTimer,
       Becomes, Unlocked, CancelTimer, poolVars, freeVars, taskVars, expiryVars,
       stopVars
  <2>3. CASE Unlocked /\ ~stopping /\ CancelTimer /\ Becomes(w, "Sweep") /\ lock' = w
    BY NamesAssumption, <2>3 DEF PoolInv, TypeOK, HaltInv, PhaseInv, CB_OnTimer,
       Becomes, Unlocked, CancelTimer, poolVars, freeVars, taskVars, expiryVars,
       stopVars
  <2> QED BY <2>1, <2>2, <2>3 DEF CB_OnTimer
<1>4. WorkInv'
  <2>1. CASE Becomes(w, "Wait") /\ UNCHANGED <<lock, timer>>
    BY NamesAssumption, <2>1 DEF PoolInv, TypeOK, WorkInv, OwnInv, Resting, OwnerPlaces,
       HaltInv, PhaseInv, BusyInv, Awaited, CB_OnTimer, Becomes, Unlocked, CancelTimer,
       poolVars, freeVars, taskVars, expiryVars, stopVars
  <2>2. CASE Unlocked /\ stopping /\ CancelTimer /\ Becomes(w, "Wait") /\ UNCHANGED lock
    BY NamesAssumption, <2>2 DEF PoolInv, TypeOK, WorkInv, OwnInv, Resting, OwnerPlaces,
       HaltInv, PhaseInv, BusyInv, Awaited, CB_OnTimer, Becomes, Unlocked, CancelTimer,
       poolVars, freeVars, taskVars, expiryVars, stopVars
  <2>3. CASE Unlocked /\ ~stopping /\ CancelTimer /\ Becomes(w, "Sweep") /\ lock' = w
    BY NamesAssumption, <2>3 DEF PoolInv, TypeOK, WorkInv, OwnInv, Resting, OwnerPlaces,
       HaltInv, PhaseInv, BusyInv, Awaited, CB_OnTimer, Becomes, Unlocked, CancelTimer,
       poolVars, freeVars, taskVars, expiryVars, stopVars
  <2> QED BY <2>1, <2>2, <2>3 DEF CB_OnTimer
<1>5. OwnInv'
  <2>1. CASE Becomes(w, "Wait") /\ UNCHANGED <<lock, timer>>
    BY NamesAssumption, <2>1 DEF PoolInv, TypeOK, OwnInv, WorkInv, ListInv, FateInv,
       Resting, OwnerPlaces, NotQueued, HaltInv, PhaseInv, CB_OnTimer, Becomes,
       Unlocked, CancelTimer, poolVars, freeVars, taskVars, expiryVars, stopVars
  <2>2. CASE Unlocked /\ stopping /\ CancelTimer /\ Becomes(w, "Wait") /\ UNCHANGED lock
    BY NamesAssumption, <2>2 DEF PoolInv, TypeOK, OwnInv, WorkInv, ListInv, FateInv,
       Resting, OwnerPlaces, NotQueued, HaltInv, PhaseInv, CB_OnTimer, Becomes,
       Unlocked, CancelTimer, poolVars, freeVars, taskVars, expiryVars, stopVars
  <2>3. CASE Unlocked /\ ~stopping /\ CancelTimer /\ Becomes(w, "Sweep") /\ lock' = w
    BY NamesAssumption, <2>3 DEF PoolInv, TypeOK, OwnInv, WorkInv, ListInv, FateInv,
       Resting, OwnerPlaces, NotQueued, HaltInv, PhaseInv, CB_OnTimer, Becomes,
       Unlocked, CancelTimer, poolVars, freeVars, taskVars, expiryVars, stopVars
  <2> QED BY <2>1, <2>2, <2>3 DEF CB_OnTimer
<1>6. ListInv' /\ BusyInv' /\ FateInv'
  BY DEF PoolInv, ListInv, BusyInv, FateInv, Begun, Awaited, CB_OnTimer, poolVars,
     freeVars, taskVars, stopVars
<1> QED BY <1>1, <1>2, <1>3, <1>4, <1>5, <1>6 DEF PoolInv

LEMMA ExpireSound ==
  ASSUME PoolInv, NEW w \in Worker, Expire(w)
  PROVE  PoolInv'
<1>1. TypeOK'
  BY DEF PoolInv, TypeOK, Expire, poolVars, freeVars, sweepVars, taskVars, workerVars,
     stopVars
<1>2. PhaseInv' /\ ListInv' /\ HaltInv' /\ WorkInv' /\ OwnInv' /\ BusyInv' /\ FateInv'
  BY DEF PoolInv, PhaseInv, ListInv, HaltInv, WorkInv, OwnInv, BusyInv, FateInv, Begun,
     Awaited, Expire, poolVars, freeVars, sweepVars, taskVars, workerVars, stopVars
<1> QED BY <1>1, <1>2 DEF PoolInv

LEMMA StopExpiredSound ==
  ASSUME PoolInv, StopExpired
  PROVE  PoolInv'
<1>1. TypeOK'
  BY NamesAssumption DEF PoolInv, TypeOK, StopExpired, Unlocked, Surplus, poolVars,
     freeVars, taskVars, expiryVars, stopVars
<1>2. PhaseInv'
  BY DEF PoolInv, TypeOK, PhaseInv, HaltInv, OwnInv, WorkInv, Resting, StopExpired,
     Unlocked, Surplus, poolVars, stopVars
<1>3. HaltInv'
  BY NamesAssumption DEF PoolInv, TypeOK, HaltInv, PhaseInv, StopExpired, Unlocked,
     Surplus, poolVars, freeVars, taskVars, expiryVars, stopVars
<1>4. ListInv' /\ WorkInv' /\ OwnInv' /\ BusyInv' /\ FateInv'
  BY DEF PoolInv, ListInv, WorkInv, OwnInv, BusyInv, FateInv, Begun, Awaited,
     StopExpired, poolVars, freeVars, taskVars, stopVars
<1> QED BY <1>1, <1>2, <1>3, <1>4 DEF PoolInv

LEMMA EraseExpiredSound ==
  ASSUME PoolInv, EraseExpired
  PROVE  PoolInv'
<1>1. /\ unused' \in Seq(Worker) /\ IsInjective(unused')
      /\ ToSet(unused)' = ToSet(unused) \ {target}
  BY NamesAssumption, RemoveNode DEF PoolInv, ListInv, TypeOK, OwnInv, WorkInv,
     PhaseInv, HaltInv, OwnerPlaces, NotQueued, Resting, EraseExpired, Becomes,
     Unlocked, freeVars, taskVars, stopVars
<1>2. TypeOK'
  BY <1>1 DEF PoolInv, TypeOK, EraseExpired, Becomes, freeVars, taskVars, stopVars
<1>3. PhaseInv'
  BY <1>1 DEF PoolInv, TypeOK, PhaseInv, HaltInv, OwnInv, WorkInv, Resting,
     EraseExpired, Becomes, Unlocked, stopVars
<1>4. ListInv'
  BY <1>1 DEF PoolInv, TypeOK, ListInv, NotQueued, WorkInv, OwnInv, Resting,
     OwnerPlaces, EraseExpired, freeVars
<1>5. HaltInv'
  BY <1>1 DEF PoolInv, TypeOK, HaltInv, PhaseInv, EraseExpired, Becomes, stopVars
<1>6. WorkInv'
  BY NamesAssumption, <1>1 DEF PoolInv, TypeOK, WorkInv, OwnInv, Resting, OwnerPlaces,
     HaltInv, PhaseInv, BusyInv, Awaited, EraseExpired, Becomes, Unlocked, freeVars,
     taskVars, stopVars
<1>7. OwnInv'
  BY NamesAssumption, <1>1 DEF PoolInv, TypeOK, OwnInv, WorkInv, ListInv, FateInv,
     Resting, OwnerPlaces, NotQueued, HaltInv, PhaseInv, EraseExpired, Becomes,
     Unlocked, freeVars, taskVars, stopVars
<1>8. BusyInv'
  BY <1>1 DEF PoolInv, TypeOK, BusyInv, Awaited, OwnInv, WorkInv, HaltInv, PhaseInv,
     Resting, EraseExpired, taskVars, stopVars
<1>9. FateInv'
  BY DEF PoolInv, FateInv, Begun, EraseExpired, taskVars
<1> QED BY <1>2, <1>3, <1>4, <1>5, <1>6, <1>7, <1>8, <1>9 DEF PoolInv

LEMMA SweepEndsSound ==
  ASSUME PoolInv, SweepEnds
  PROVE  PoolInv'
<1>1. TypeOK'
  BY DEF PoolInv, TypeOK, SweepEnds, poolVars, freeVars, taskVars, expiryVars, stopVars
<1>2. PhaseInv'
  BY NamesAssumption DEF PoolInv, TypeOK, PhaseInv, HaltInv, OwnInv, WorkInv, Resting,
     SweepEnds, Unlocked, Surplus, poolVars, freeVars, taskVars, expiryVars, stopVars
<1>3. HaltInv'
  BY DEF PoolInv, TypeOK, HaltInv, PhaseInv, SweepEnds, poolVars, stopVars
<1>4. WorkInv'
  BY DEF PoolInv, TypeOK, WorkInv, OwnInv, Resting, OwnerPlaces, HaltInv, PhaseInv,
     BusyInv, Awaited, SweepEnds, Surplus, poolVars
<1>5. OwnInv'
  BY DEF PoolInv, TypeOK, OwnInv, WorkInv, ListInv, FateInv, Resting, OwnerPlaces,
     NotQueued, HaltInv, PhaseInv, SweepEnds, Surplus, poolVars, taskVars
<1>6. ListInv' /\ BusyInv' /\ FateInv'
  BY DEF PoolInv, ListInv, BusyInv, FateInv, Begun, Awaited, SweepEnds, poolVars,
     freeVars, taskVars, stopVars
<1> QED BY <1>1, <1>2, <1>3, <1>4, <1>5, <1>6 DEF PoolInv

LEMMA StopUnusedSound ==
  ASSUME PoolInv, StopUnused
  PROVE  PoolInv'
<1>1. ToSet(unused) \subseteq Worker
  BY NodesTyped DEF PoolInv, TypeOK
<1>2. TypeOK'
  BY <1>1 DEF PoolInv, TypeOK, StopUnused, CancelTimer, poolVars, freeVars, taskVars,
     workerVars, stopVars
<1>3. PhaseInv'
  BY NamesAssumption DEF PoolInv, TypeOK, PhaseInv, HaltInv, OwnInv, WorkInv, Resting,
     StopUnused, Unlocked, CancelTimer, poolVars, freeVars, taskVars, workerVars,
     stopVars
<1>4. ListInv' /\ HaltInv' /\ WorkInv' /\ OwnInv' /\ BusyInv' /\ FateInv'
  BY DEF PoolInv, ListInv, HaltInv, WorkInv, OwnInv, BusyInv, FateInv, Begun, Awaited,
     StopUnused, poolVars, freeVars, taskVars, workerVars, stopVars
<1> QED BY <1>2, <1>3, <1>4 DEF PoolInv

LEMMA SetStoppingSound ==
  ASSUME PoolInv, SetStopping
  PROVE  PoolInv'
<1>1. TypeOK'
  BY DEF PoolInv, TypeOK, SetStopping, poolVars, freeVars, sweepVars, taskVars,
     workerVars, expiryVars
<1>2. PhaseInv'
  BY DEF PoolInv, TypeOK, PhaseInv, HaltInv, OwnInv, WorkInv, Resting, SetStopping,
     Unlocked, poolVars, sweepVars, workerVars
<1>3. HaltInv'
  BY DEF PoolInv, TypeOK, HaltInv, PhaseInv, SetStopping, poolVars, sweepVars,
     workerVars
<1>4. BusyInv'
  BY DEF PoolInv, TypeOK, BusyInv, Awaited, OwnInv, WorkInv, HaltInv, PhaseInv, Resting,
     SetStopping, taskVars, workerVars
<1>5. ListInv' /\ WorkInv' /\ OwnInv' /\ FateInv'
  BY DEF PoolInv, ListInv, WorkInv, OwnInv, FateInv, Begun, SetStopping, poolVars,
     freeVars, taskVars, workerVars
<1> QED BY <1>1, <1>2, <1>3, <1>4, <1>5 DEF PoolInv

LEMMA StopWorkerSound ==
  ASSUME PoolInv, NEW w \in Worker, StopWorker(w)
  PROVE  PoolInv'
<1>1. TypeOK'
  BY DEF PoolInv, TypeOK, StopWorker, poolVars, freeVars, taskVars, expiryVars
<1>2. PhaseInv'
  BY DEF PoolInv, TypeOK, PhaseInv, HaltInv, OwnInv, WorkInv, Resting, StopWorker,
     HasThread, poolVars
<1>3. HaltInv'
  BY DEF PoolInv, TypeOK, HaltInv, PhaseInv, StopWorker, HasThread, poolVars
<1>4. ListInv' /\ WorkInv' /\ OwnInv' /\ BusyInv' /\ FateInv'
  BY DEF PoolInv, ListInv, WorkInv, OwnInv, BusyInv, FateInv, Begun, Awaited,
     StopWorker, poolVars, freeVars, taskVars
<1> QED BY <1>1, <1>2, <1>3, <1>4 DEF PoolInv

LEMMA StopJoinSound ==
  ASSUME PoolInv, StopJoin
  PROVE  PoolInv'
<1>1. TypeOK'
  BY DEF PoolInv, PhaseInv, TypeOK, StopJoin, Becomes, poolVars, freeVars, taskVars,
     expiryVars
<1>2. PhaseInv'
  BY DEF PoolInv, TypeOK, PhaseInv, HaltInv, OwnInv, WorkInv, Resting, StopJoin,
     Becomes, poolVars
<1>3. HaltInv'
  BY DEF PoolInv, TypeOK, HaltInv, PhaseInv, StopJoin, Becomes, poolVars
<1>4. WorkInv'
  BY DEF PoolInv, TypeOK, WorkInv, OwnInv, Resting, OwnerPlaces, HaltInv, PhaseInv,
     BusyInv, Awaited, StopJoin, Becomes, poolVars
<1>5. OwnInv'
  BY DEF PoolInv, TypeOK, OwnInv, WorkInv, ListInv, FateInv, Resting, OwnerPlaces,
     NotQueued, HaltInv, PhaseInv, StopJoin, Becomes, poolVars, taskVars
<1>6. ListInv' /\ BusyInv' /\ FateInv'
  BY DEF PoolInv, ListInv, BusyInv, FateInv, Begun, Awaited, StopJoin, poolVars,
     freeVars, taskVars
<1> QED BY <1>1, <1>2, <1>3, <1>4, <1>5, <1>6 DEF PoolInv

LEMMA StopClearSound ==
  ASSUME PoolInv, StopClear
  PROVE  PoolInv'
<1>1. /\ unused' \in Seq(Worker) /\ IsInjective(unused')
      /\ ToSet(unused)' = {}
  BY NamesAssumption, EmptySeq DEF PoolInv, ListInv, TypeOK, OwnInv, WorkInv, PhaseInv,
     HaltInv, OwnerPlaces, NotQueued, Resting, StopClear, Unlocked, freeVars, sweepVars,
     taskVars, workerVars, expiryVars, ToSet, IsInjective
<1>2. TypeOK'
  BY <1>1 DEF PoolInv, TypeOK, StopClear, freeVars, sweepVars, taskVars, workerVars,
     expiryVars
<1>3. PhaseInv'
  BY <1>1 DEF PoolInv, TypeOK, PhaseInv, HaltInv, OwnInv, WorkInv, Resting, StopClear,
     Unlocked, sweepVars, workerVars
<1>4. ListInv'
  BY <1>1 DEF PoolInv, TypeOK, ListInv, NotQueued, WorkInv, OwnInv, Resting,
     OwnerPlaces, StopClear, freeVars
<1>5. HaltInv'
  BY <1>1 DEF PoolInv, TypeOK, HaltInv, PhaseInv, StopClear, sweepVars, workerVars
<1>6. WorkInv'
  BY <1>1 DEF PoolInv, TypeOK, WorkInv, OwnInv, Resting, OwnerPlaces, HaltInv, PhaseInv,
     BusyInv, Awaited, StopClear, workerVars
<1>7. OwnInv'
  BY <1>1 DEF PoolInv, TypeOK, OwnInv, WorkInv, ListInv, FateInv, Resting, OwnerPlaces,
     NotQueued, HaltInv, PhaseInv, StopClear, taskVars, workerVars
<1>8. BusyInv' /\ FateInv'
  BY DEF PoolInv, BusyInv, FateInv, Begun, Awaited, StopClear, taskVars, workerVars
<1> QED BY <1>2, <1>3, <1>4, <1>5, <1>6, <1>7, <1>8 DEF PoolInv

-----------------------------------------------------------------------------
LEMMA PoolInit == Init => PoolInv
<1> SUFFICES ASSUME Init PROVE PoolInv
  OBVIOUS
<1>1. ToSet(queue) = {} /\ ToSet(unused) = {} /\ ToSet(waiters) = {}
  BY EmptySeq DEF Init, ToSet
<1>2. IsInjective(queue) /\ IsInjective(unused) /\ IsInjective(waiters)
  BY EmptySeq DEF Init, IsInjective
<1>3. 0 \in 0..Cardinality(Task)
  BY TaskAssumption, FS_CardinalityType
<1>4. TypeOK
  BY <1>3, EmptySeq DEF Init, TypeOK, Places
<1>5. PhaseInv
  BY NamesAssumption DEF Init, PhaseInv
<1>6. ListInv
  BY <1>1, <1>2 DEF Init, ListInv
<1>7. HaltInv /\ WorkInv /\ BusyInv
  BY <1>1 DEF Init, HaltInv, WorkInv, BusyInv
<1>8. OwnInv
  BY DEF Init, OwnInv, OwnerPlaces
<1>9. FateInv
  BY DEF Init, FateInv
<1> QED BY <1>4, <1>5, <1>6, <1>7, <1>8, <1>9 DEF PoolInv

LEMMA PoolNext == PoolInv /\ CreatingBounded' /\ [Next]_vars => PoolInv'
<1> SUFFICES ASSUME PoolInv, CreatingBounded', [Next]_vars PROVE PoolInv'
  OBVIOUS
<1>1. CASE \E k \in Task : Submitter(k)
  <2>1. PICK k \in Task : Submitter(k)
    BY <1>1
  <2> QED BY <2>1, QueueTaskSound, LoopSound, FindNobodySound, PopUnusedSound,
             ReserveWorkerSlotSound, CreateSound, CreateWorkerSound, StartSound,
             StartFailsSound, ReleaseWorkerSlotSound, WithdrawSound, RegisterSound,
             WaitEndsSound, TakeSound, PutBackSound, InvokeSound, SetInvokeSound,
             InvokeEndsSound DEF Submitter
<1>2. CASE \E w \in Worker : WorkerStep(w) \/ Expire(w)
  BY <1>2, CallbackReturnsSound, ClaimTaskSound, ClaimNothingSound, CB_OnFreeSound,
     InvokedSound, ExitSound, OnTimerSound, CB_OnTimerSound, ExpireSound DEF WorkerStep
<1>3. CASE Sweep \/ StopUnused
  BY <1>3, StopExpiredSound, EraseExpiredSound, SweepEndsSound, StopUnusedSound DEF Sweep
<1>4. CASE SetStopping \/ StopStep
  BY <1>4, SetStoppingSound, StopWorkerSound, StopJoinSound, StopClearSound DEF StopStep
<1>5. CASE UNCHANGED vars
  BY <1>5 DEF vars, poolVars, freeVars, sweepVars, taskVars, workerVars, expiryVars, stopVars,
     PoolInv, TypeOK, PhaseInv, ListInv, HaltInv, WorkInv, OwnInv, BusyInv, Awaited, FateInv,
     Begun
<1> QED BY <1>1, <1>2, <1>3, <1>4, <1>5 DEF Next

(* The slots bound CreatingWorkers. *)
LEMMA SlotsBound == LimitInv => CreatingBounded
<1>1. HasSlot \in SUBSET Task
  BY DEF HasSlot, At
<1>2. Cardinality(HasSlot) \in Nat /\ Cardinality(Task) \in Nat
      /\ Cardinality(HasSlot) <= Cardinality(Task)
  BY <1>1, TaskAssumption, FS_Subset, FS_CardinalityType
<1> QED BY <1>2 DEF LimitInv, SlotsReturned, CreatingBounded

LEMMA AtMostOne ==
  ASSUME NEW S, \A x, y \in S : x = y
  PROVE  Cardinality(S) \in Nat /\ Cardinality(S) <= 1
<1>1. CASE S = {}
  BY <1>1, FS_EmptySet
<1>2. CASE S # {}
  <2>1. PICK x \in S : S = {x}
    BY <1>2
  <2> QED BY <2>1, FS_Singleton
<1> QED BY <1>1, <1>2

LEMMA IdleWorkers == PoolInv => IdleWorkersAreIdle
<1> SUFFICES ASSUME PoolInv PROVE IdleWorkersAreIdle
  OBVIOUS
<1>1. IsInjective(unused)
  BY DEF PoolInv, ListInv
<1>2. ASSUME NEW w \in ToSet(unused)
      PROVE  /\ Owner(w) = {} /\ callback[w] = NoTask /\ w \notin invoke
             /\ \/ stopping
                \/ w \in all \ busy /\ wpc[w] \in {"Wait", "OnTimer", "Sweep", "Exited"}
  <2>1. w \in Worker
    BY NodesTyped DEF PoolInv, TypeOK
  <2>2. callback[w] = NoTask /\ w \notin invoke /\ wpc[w] \in Resting
    BY <2>1 DEF PoolInv, WorkInv
  <2>3. Owner(w) = {}
    BY <2>1 DEF PoolInv, OwnInv, OwnerPlaces, Owner, At
  <2>4. ~stopping => w \in all /\ wpc[w] \in {"Wait", "OnTimer", "Sweep", "Exited"}
    BY <2>1, <2>2 DEF PoolInv, HaltInv, Resting
  <2>5. ~stopping => w \notin busy
    <3>1. ~Awaited(w)
      BY <2>2 DEF PoolInv, OwnInv, Awaited, Resting
    <3> QED BY <2>1, <3>1 DEF PoolInv, BusyInv
  <2> QED BY <2>2, <2>3, <2>4, <2>5
<1>3. ASSUME NEW w \in Worker PROVE Cardinality(Owner(w)) <= 1
  <2>1. \A k1, k2 \in Owner(w) : k1 = k2
    BY DEF PoolInv, OwnInv, OwnerPlaces, Owner, At
  <2> QED BY <2>1, AtMostOne
<1> QED BY <1>1, <1>2, <1>3 DEF IdleWorkersAreIdle

LEMMA TasksRunOnce == PoolInv => RunOnce
<1> SUFFICES ASSUME PoolInv, NEW k \in Task
             PROVE  LET doers == {w \in Worker : callback[w] = k} IN
                    /\ k \in ToSet(queue) =>
                         /\ doers = {} /\ k \notin signalled
                         /\ pc[k] \notin {"Push", "Start", "Invoke"}
                    /\ Cardinality(doers) + Cardinality({k} \cap signalled) <= 1
                    /\ pc[k] \in {"Push", "Start", "Invoke"} => doers = {} /\ k \notin signalled
                    /\ pc[k] = "Returned" /\ k \notin given => doers = {} /\ k \notin signalled
  BY DEF RunOnce
<1> DEFINE doers == {w \in Worker : callback[w] = k}
<1>1. k # NoTask
  BY NamesAssumption
<1>2. doers # {} => Begun(k) /\ k \notin signalled
  BY <1>1 DEF PoolInv, FateInv
<1>3. k \in signalled => Begun(k)
  BY DEF PoolInv, FateInv
<1>4. \A v, w \in doers : v = w
  BY <1>1 DEF PoolInv, FateInv
<1>5. k \in ToSet(queue) => pc[k] \notin {"Push", "Start", "Invoke"}
  BY DEF PoolInv, ListInv, NotQueued, NotBegun
<1> HIDE DEF doers
<1>6. Cardinality(doers) + Cardinality({k} \cap signalled) <= 1
  <2>1. Cardinality(doers) \in Nat /\ Cardinality(doers) <= 1 /\ Cardinality({}) = 0
    BY <1>4, AtMostOne, FS_EmptySet
  <2>2. CASE k \in signalled
    <3>1. doers = {} /\ {k} \cap signalled = {k}
      BY <1>2, <2>2
    <3>2. Cardinality({k}) = 1
      BY FS_Singleton
    <3>3. Cardinality({k} \cap signalled) = 1
      BY <3>1, <3>2, Zenon
    <3> QED BY <2>1, <3>1, <3>3
  <2>3. CASE k \notin signalled
    <3>1. {k} \cap signalled = {}
      BY <2>3
    <3> QED BY <2>1, <3>1
  <2> QED BY <2>2, <2>3
<1>7. /\ k \in ToSet(queue) =>
           doers = {} /\ k \notin signalled /\ pc[k] \notin {"Push", "Start", "Invoke"}
      /\ pc[k] \in {"Push", "Start", "Invoke"} => doers = {} /\ k \notin signalled
      /\ pc[k] = "Returned" /\ k \notin given => doers = {} /\ k \notin signalled
  BY <1>2, <1>3, <1>5 DEF Begun, NotBegun
<1> QED BY <1>6, <1>7 DEF doers

(* Whatever the order of submitters, workers, expiry, sweeps and Stop: reserved slots   *)
(* are given back, an idle worker belongs to nobody and has nothing to do, so that      *)
(* Locked_StopExpired may join it and Worker::Invoke finds no callback, and a task is   *)
(* run once, and never after its submitter was refused (Run2, Pool.cpp, and Worker.cpp). *)
THEOREM BookkeepingIsSound == Spec => []PoolSound
<1>1. Init => LimitInv /\ PoolInv
  BY LimitInit, PoolInit
<1>2. LimitInv /\ PoolInv /\ [Next]_vars => (LimitInv /\ PoolInv)'
  <2> SUFFICES ASSUME LimitInv, PoolInv, [Next]_vars PROVE LimitInv' /\ PoolInv'
    OBVIOUS
  <2>1. LimitInv'
    BY LimitNext
  <2>2. CreatingBounded'
    BY <2>1, SlotsBound, PTL
  <2> QED BY <2>1, <2>2, PoolNext
<1>3. LimitInv /\ PoolInv => PoolSound
  BY IdleWorkers, TasksRunOnce DEF PoolSound, PoolInv, LimitInv
<1> QED BY <1>1, <1>2, <1>3, PTL DEF Spec
=============================================================================
