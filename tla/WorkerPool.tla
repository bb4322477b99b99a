----------------------------- MODULE WorkerPool -----------------------------
(***************************************************************************)
(* The thread pool (ThreadPool/Pool.cpp, Worker.cpp): submitters in Run or *)
(* TryRun, the workers' threads, the sweep that stops expired idle workers *)
(* and Stop.                                                               *)
(*                                                                         *)
(* A task is one call of Run or TryRun, made by a thread of its own.  A    *)
(* section under Pool::Lock or Pool::TaskLock is one step; only the sweep  *)
(* joins threads under Lock, and `lock' says who is in it.  The StateLock  *)
(* of a worker is held by the worker in NotifyIdle and by the submitter    *)
(* that waits in Invoke.                                                   *)
(*                                                                         *)
(* Events are used as SyncEvent shows them to be: StopEvent stays set,     *)
(* FreeEvent hands a signal to the oldest wait that is registered, also to *)
(* one that has its signal already and has not unregistered yet, and keeps *)
(* it only if none is.  The thread handle of a task is a duplicate of the  *)
(* worker's IdleEvent: it is signalled when the task's callback is over.   *)
(***************************************************************************)
EXTENDS Naturals, Sequences, SequencesExt, FiniteSets

CONSTANTS
  Task,              \* calls of Run and TryRun
  Worker,            \* Worker objects; one that was destroyed may be made again
  MaxThreads,
  MaxUnusedThreads,
  Modes,             \* the overflow modes, one for the life of the pool
  Trying,            \* bound: the tasks that may be submitted by TryRun; any may be by Run
  Nobody, App, NoTask, NoWorker

ASSUME TaskAssumption == IsFiniteSet(Task)
ASSUME LimitAssumption == MaxThreads \in Nat \ {0} /\ MaxUnusedThreads \in Nat
ASSUME ModesAssumption == Modes \subseteq {"WAIT", "FAIL"} /\ Trying \subseteq Task
ASSUME NamesAssumption ==
  /\ NoTask \notin Task /\ NoWorker \notin Worker
  /\ {Nobody, App} \cap (Task \cup Worker) = {} /\ Nobody # App
  /\ Task \cap Worker = {}

VARIABLES
  mode,       \* Pool::Mode
  queue,      \* Pool::Tasks
  all,        \* Pool::All, as a set
  unused,     \* Pool::Unused
  creating,   \* Pool::CreatingWorkers
  stopping,   \* Pool::Stopping, and the signal of Pool::StopEvent
  free,       \* the signal of FreeEvent
  waiters,    \* the submitters registered with FreeEvent
  told,       \* those of them FreeEvent was handed to
  lock,       \* who is in Locked_StopExpired
  target,     \* the worker that is being joined, by the sweep or by Stop
  timer,      \* the management timer is set or signalled
  pc,         \* where Run2 is for a task
  patient,    \* the call is Run, not TryRun
  worker,     \* its `t', or the worker it creates
  given,      \* the tasks whose Run has a ThreadHandle to return
  signalled,  \* the tasks whose ThreadHandle is signalled
  wpc,        \* where a worker's thread is
  callback,   \* Worker::Callback
  invoke, busy, halt,  \* the signals of InvokeEvent, BusyEvent and StopEvent
  armed, expired,      \* ExpireTimerArmed, the signal of ExpireTimer
  ticking,    \* ExpireTimer is set, or the timer thread is about to signal it
  stopped,    \* Worker::Stopped
  spc         \* Stop

poolVars   == <<queue, all, unused, creating>>
freeVars   == <<free, waiters, told>>
sweepVars  == <<lock, target, timer>>
taskVars   == <<patient, worker, given, signalled>>
workerVars == <<wpc, callback, invoke, busy, halt, stopped>>
expiryVars == <<armed, expired, ticking>>
stopVars   == <<stopping, spc>>
vars == <<mode, poolVars, freeVars, sweepVars, pc, taskVars, workerVars, expiryVars, stopVars>>

-----------------------------------------------------------------------------
Goto(k, l) == pc' = [pc EXCEPT ![k] = l]
Becomes(w, l) == wpc' = [wpc EXCEPT ![w] = l]
Patient(k) == mode = "WAIT" /\ patient[k]     \* Run waits for a worker
Unlocked == lock = Nobody
HasThread(w) == wpc[w] \notin {"None", "Created", "Joined"}

Init ==
  /\ mode \in Modes
  /\ queue = <<>> /\ all = {} /\ unused = <<>> /\ creating = 0
  /\ free = FALSE /\ waiters = <<>> /\ told = {}
  /\ lock = Nobody /\ target = NoWorker /\ timer = FALSE
  /\ pc = [k \in Task |-> "New"] /\ patient = [k \in Task |-> FALSE]
  /\ worker = [k \in Task |-> NoWorker]
  /\ given = {} /\ signalled = {}
  /\ wpc = [w \in Worker |-> "None"] /\ callback = [w \in Worker |-> NoTask]
  /\ invoke = {} /\ busy = {} /\ halt = {} /\ stopped = {}
  /\ armed = {} /\ expired = {} /\ ticking = {}
  /\ stopping = FALSE /\ spc = "Idle"

(* SetEvent(FreeEvent) *)
SetFree ==
  IF waiters = <<>>
  THEN free' = TRUE /\ UNCHANGED <<waiters, told>>
  ELSE told' = told \cup {Head(waiters)} /\ UNCHANGED <<free, waiters>>

-----------------------------------------------------------------------------
(* Run and TryRun: RunInternal, Run2 *)

Queued(k) == queue' = Append(queue, k)

QueueTask(k) ==
  /\ pc[k] = "New"
  /\ Queued(k)
  /\ \E run \in BOOLEAN : (run \/ k \in Trying) /\ patient' = [patient EXCEPT ![k] = run]
  /\ Goto(k, "Loop")
  /\ UNCHANGED <<mode, all, unused, creating, freeVars, sweepVars, worker, given,
                 signalled, workerVars, expiryVars, stopVars>>

(* the loop is left without a worker when the pool is stopping *)
Loop(k) ==
  /\ pc[k] = "Loop"
  /\ Goto(k, IF stopping THEN "Withdraw" ELSE "PopUnused")
  /\ UNCHANGED <<mode, poolVars, freeVars, sweepVars, taskVars, workerVars, expiryVars,
                 stopVars>>

Full == Cardinality(all) + creating >= MaxThreads

(* nobody is idle: wait, be rejected, or make a worker *)
FindNobody(k) ==
  /\ pc[k] = "PopUnused" /\ Unlocked /\ unused = <<>>
  /\ Goto(k, IF ~Full THEN "Reserve" ELSE IF Patient(k) THEN "Wait" ELSE "Withdraw")
  /\ UNCHANGED <<mode, poolVars, freeVars, sweepVars, taskVars, workerVars, expiryVars,
                 stopVars>>

(* CancelExpireTimer: the timer thread may be past the point where it can be cancelled *)
CancelExpireTimer(w) ==
  IF w \in armed
  THEN armed' = armed \ {w} /\ expired' = expired \ {w} /\ ticking' \in {ticking, ticking \ {w}}
  ELSE UNCHANGED expiryVars

(* CancelWaitableTimer does not take a signal back *)
CancelTimer == timer' \in {timer, FALSE}

(* Run, not TryRun, may have to sweep; Locked_StopExpired returns when stopping *)
PopUnused(k) ==
  /\ pc[k] = "PopUnused" /\ Unlocked /\ unused # <<>>
  /\ worker' = [worker EXCEPT ![k] = Head(unused)]
  /\ unused' = Tail(unused)
  /\ CancelExpireTimer(Head(unused))
  /\ \/ UNCHANGED <<lock, timer>>
     \/ patient[k] /\ CancelTimer /\ lock' = IF stopping THEN Nobody ELSE k
  /\ Goto(k, "Take")
  /\ UNCHANGED <<mode, queue, all, creating, freeVars, target, patient, given, signalled,
                 workerVars, stopVars>>

(* Mutant of ReserveWorkerSlot: the workers being created are not counted. *)
ReserveUncounted(k) ==
  /\ pc[k] = "Reserve" /\ Unlocked
  /\ IF stopping \/ Cardinality(all) >= MaxThreads
     THEN Goto(k, IF Patient(k) THEN "Loop" ELSE "Withdraw") /\ UNCHANGED creating
     ELSE Goto(k, "Create") /\ creating' = creating + 1
  /\ UNCHANGED <<mode, queue, all, unused, freeVars, sweepVars, taskVars, workerVars,
                 expiryVars, stopVars>>

ReserveWorkerSlot(k) ==
  /\ pc[k] = "Reserve" /\ Unlocked
  /\ IF stopping \/ Full
     THEN Goto(k, IF Patient(k) THEN "Loop" ELSE "Withdraw") /\ UNCHANGED creating
     ELSE Goto(k, "Create") /\ creating' = creating + 1
  /\ UNCHANGED <<mode, queue, all, unused, freeVars, sweepVars, taskVars, workerVars,
                 expiryVars, stopVars>>

(* DequeueTask: true if nobody has claimed the task *)
Dequeued(k) == k \in ToSet(queue) /\ queue' = RemoveFirst(queue, k)
Claimed(k) == k \notin ToSet(queue) /\ UNCHANGED queue

(* Run2 with a reserved slot: the task is still queued, or a worker has claimed it *)
Create(k) ==
  /\ pc[k] = "Create"
  /\ \/ Dequeued(k) /\ Goto(k, "Push")
     \/ Claimed(k) /\ Goto(k, "Release")
  /\ UNCHANGED <<mode, all, unused, creating, freeVars, sweepVars, taskVars, workerVars,
                 expiryVars, stopVars>>

(* CreateWorker as far as Push(All, t) *)
CreateWorker(k) ==
  /\ pc[k] = "Push" /\ Unlocked
  /\ \E w \in Worker :
       /\ wpc[w] = "None"
       /\ all' = all \cup {w}
       /\ worker' = [worker EXCEPT ![k] = w]
       /\ Becomes(w, "Created")
  /\ Goto(k, "Start")
  /\ UNCHANGED <<mode, queue, unused, creating, freeVars, sweepVars, patient, given,
                 signalled, callback, invoke, busy, halt, stopped, expiryVars, stopVars>>

(* Worker::Start: the thread runs the callback first *)
Start(k) ==
  LET w == worker[k] IN
  /\ pc[k] = "Start"
  /\ callback' = [callback EXCEPT ![w] = k]
  /\ Becomes(w, "Call")
  /\ given' = given \cup {k}
  /\ Goto(k, "Release")
  /\ UNCHANGED <<mode, poolVars, freeVars, sweepVars, patient, worker, signalled, invoke,
                 busy, halt, stopped, expiryVars, stopVars>>

(* std::thread could not be made: the worker leaves All, Run returns no handle *)
StartFails(k) ==
  LET w == worker[k] IN
  /\ pc[k] = "Start" /\ Unlocked
  /\ all' = all \ {w}
  /\ Becomes(w, "None")
  /\ stopped' = stopped \ {w}
  /\ Goto(k, "Release")
  /\ UNCHANGED <<mode, queue, unused, creating, freeVars, sweepVars, taskVars, callback,
                 invoke, busy, halt, expiryVars, stopVars>>

ReleaseWorkerSlot(k) ==
  /\ pc[k] = "Release" /\ Unlocked
  /\ creating' = creating - 1
  /\ SetFree
  /\ Goto(k, "Returned")
  /\ UNCHANGED <<mode, queue, all, unused, sweepVars, taskVars, workerVars, expiryVars,
                 stopVars>>

(* the task is rejected, or was claimed and Run returns its handle *)
Withdraw(k) ==
  /\ pc[k] = "Withdraw"
  /\ Dequeued(k) \/ Claimed(k)
  /\ Goto(k, "Returned")
  /\ UNCHANGED <<mode, all, unused, creating, freeVars, sweepVars, taskVars, workerVars,
                 expiryVars, stopVars>>

(* WaitForMultipleObjects(StopEvent, FreeEvent): a stop, a signal, or a registration *)
Register(k) ==
  /\ pc[k] = "Wait"
  /\ \/ stopping /\ Goto(k, "Returned") /\ UNCHANGED freeVars
     \/ ~stopping /\ free /\ Goto(k, "Loop") /\ free' = FALSE /\ UNCHANGED <<waiters, told>>
     \/ /\ ~stopping /\ ~free
        /\ Goto(k, "Blocked") /\ waiters' = Append(waiters, k) /\ UNCHANGED <<free, told>>
  /\ UNCHANGED <<mode, poolVars, sweepVars, taskVars, workerVars, expiryVars, stopVars>>

(* the wait is over and unregisters; a stop leaves the task in the queue *)
WaitEnds(k) ==
  /\ pc[k] = "Blocked"
  /\ \/ k \in told /\ Goto(k, "Loop")
     \/ stopping /\ Goto(k, "Returned")
  /\ waiters' = RemoveFirst(waiters, k) /\ told' = told \ {k}
  /\ UNCHANGED <<mode, poolVars, free, sweepVars, taskVars, workerVars, expiryVars, stopVars>>

(* a worker was popped; the sweep, if any, is over *)
Take(k) ==
  /\ pc[k] = "Take" /\ lock # k
  /\ \/ Dequeued(k) /\ Goto(k, "Invoke")
     \/ Claimed(k) /\ Goto(k, "PutBack")
  /\ UNCHANGED <<mode, all, unused, creating, freeVars, sweepVars, taskVars, workerVars,
                 expiryVars, stopVars>>

(* Push(Unused, t) *)
PutBack(k) ==
  /\ pc[k] = "PutBack" /\ Unlocked
  /\ unused' = Append(unused, worker[k])
  /\ Goto(k, "Returned")
  /\ UNCHANGED <<mode, queue, all, creating, freeVars, sweepVars, taskVars, workerVars,
                 expiryVars, stopVars>>

(* Worker::Invoke before StateLock; a worker that was stopped has no Thread *)
Invoke(k) ==
  LET w == worker[k] IN
  /\ pc[k] = "Invoke"
  /\ \/ ~HasThread(w) /\ Goto(k, "PutBack") /\ UNCHANGED callback
     \/ HasThread(w) /\ Goto(k, "InvokeLock") /\ callback' = [callback EXCEPT ![w] = k]
  /\ UNCHANGED <<mode, poolVars, freeVars, sweepVars, taskVars, wpc, invoke, busy, halt,
                 stopped, expiryVars, stopVars>>

(* StateLock is had: the worker has left NotifyIdle *)
SetInvoke(k) ==
  LET w == worker[k] IN
  /\ pc[k] = "InvokeLock" /\ wpc[w] # "Free"
  /\ busy' = busy \ {w} /\ invoke' = invoke \cup {w}
  /\ Goto(k, "InvokeWait")
  /\ UNCHANGED <<mode, poolVars, freeVars, sweepVars, taskVars, wpc, callback, halt, stopped,
                 expiryVars, stopVars>>

InvokeEnds(k) ==
  LET w == worker[k] IN
  /\ pc[k] = "InvokeWait" /\ w \in busy \cup halt
  /\ busy' = busy \ {w}
  /\ given' = given \cup {k}
  /\ Goto(k, "Returned")
  /\ UNCHANGED <<mode, poolVars, freeVars, sweepVars, patient, worker, signalled, wpc,
                 callback, invoke, halt, stopped, expiryVars, stopVars>>

-----------------------------------------------------------------------------
(* The thread of a worker: EntryPoint *)

(* IdleEvent is set, and a new one made *)
CallbackReturns(w) ==
  /\ wpc[w] = "Call"
  /\ signalled' = signalled \cup {callback[w]}
  /\ callback' = [callback EXCEPT ![w] = NoTask]
  /\ Becomes(w, "Idle")
  /\ UNCHANGED <<mode, poolVars, freeVars, sweepVars, pc, patient, worker, given, invoke,
                 busy, halt, stopped, expiryVars, stopVars>>

(* Mutant of StateUnlocked: NotifyIdle does not take the lock. *)
StateNotLocked(w) == TRUE
StateUnlocked(w) == \A k \in Task : pc[k] = "InvokeWait" => worker[k] # w

(* CB_OnFree in FAIL mode claims the oldest task, if it gets TaskLock *)
ClaimTask(w) ==
  /\ wpc[w] = "Idle" /\ StateUnlocked(w) /\ mode = "FAIL" /\ queue # <<>>
  /\ queue' = Tail(queue)
  /\ given' = given \cup {Head(queue)}
  /\ callback' = [callback EXCEPT ![w] = Head(queue)]
  /\ Becomes(w, "Call")
  /\ UNCHANGED <<mode, all, unused, creating, freeVars, sweepVars, pc, patient, worker,
                 signalled, invoke, busy, halt, stopped, expiryVars, stopVars>>

ClaimNothing(w) ==
  /\ wpc[w] = "Idle" /\ StateUnlocked(w)
  /\ Becomes(w, "Free")
  /\ UNCHANGED <<mode, poolVars, freeVars, sweepVars, pc, taskVars, callback, invoke, busy,
                 halt, stopped, expiryVars, stopVars>>

(* the rest of CB_OnFree: the worker is idle, and will expire if it is one too many *)
CB_OnFree(w) ==
  /\ wpc[w] = "Free" /\ Unlocked
  /\ unused' = <<w>> \o unused
  /\ IF Len(unused) + 1 > MaxUnusedThreads
     THEN armed' = armed \cup {w} /\ ticking' = ticking \cup {w} /\ timer' = TRUE
     ELSE UNCHANGED <<armed, ticking, timer>>
  /\ SetFree
  /\ Becomes(w, "Wait")
  /\ UNCHANGED <<mode, queue, all, creating, lock, target, pc, taskVars, callback, invoke,
                 busy, halt, stopped, expired, stopVars>>

(* the wait for StopEvent, InvokeEvent and the management timer *)
Invoked(w) ==
  /\ wpc[w] = "Wait" /\ w \in invoke
  /\ invoke' = invoke \ {w} /\ busy' = busy \cup {w}
  /\ Becomes(w, "Call")
  /\ UNCHANGED <<mode, poolVars, freeVars, sweepVars, pc, taskVars, callback, halt, stopped,
                 expiryVars, stopVars>>

Exit(w) ==
  /\ wpc[w] = "Wait" /\ w \in halt
  /\ Becomes(w, "Exited")
  /\ UNCHANGED <<mode, poolVars, freeVars, sweepVars, pc, taskVars, callback, invoke, busy,
                 halt, stopped, expiryVars, stopVars>>

OnTimer(w) ==
  /\ wpc[w] = "Wait" /\ timer
  /\ timer' = FALSE
  /\ Becomes(w, "OnTimer")
  /\ UNCHANGED <<mode, poolVars, freeVars, lock, target, pc, taskVars, callback, invoke, busy,
                 halt, stopped, expiryVars, stopVars>>

(* CB_OnTimer: Lock is tried; the sweep, unless the pool is stopping *)
CB_OnTimer(w) ==
  /\ wpc[w] = "OnTimer"
  /\ \/ Becomes(w, "Wait") /\ UNCHANGED <<lock, timer>>
     \/ Unlocked /\ stopping /\ CancelTimer /\ Becomes(w, "Wait") /\ UNCHANGED lock
     \/ Unlocked /\ ~stopping /\ CancelTimer /\ Becomes(w, "Sweep") /\ lock' = w
  /\ UNCHANGED <<mode, poolVars, freeVars, target, pc, taskVars, callback, invoke, busy, halt,
                 stopped, expiryVars, stopVars>>

-----------------------------------------------------------------------------
(* The expiry of idle workers *)

(* the timer thread signals ExpireTimer, now or after the timer was cancelled *)
Expire(w) ==
  /\ w \in ticking
  /\ expired' = expired \cup {w} /\ ticking' = ticking \ {w}
  /\ UNCHANGED <<mode, poolVars, freeVars, sweepVars, pc, taskVars, workerVars, armed,
                 stopVars>>

StopUnused ==
  /\ Unlocked
  /\ armed' = armed \cup ToSet(unused) /\ expired' = expired \cup ToSet(unused)
  /\ UNCHANGED ticking
  /\ CancelTimer /\ lock' = IF stopping THEN Nobody ELSE App
  /\ UNCHANGED <<mode, poolVars, freeVars, target, pc, taskVars, workerVars, stopVars>>

(* Locked_StopExpired: the idle workers that are to be stopped *)
Surplus == {w \in ToSet(unused) : w \in expired /\ w # lock}

(* Worker::Stop as far as the join *)
StopExpired ==
  /\ ~Unlocked /\ target = NoWorker
  /\ \E w \in Surplus : target' = w /\ halt' = halt \cup {w}
  /\ UNCHANGED <<mode, poolVars, freeVars, lock, timer, pc, taskVars, wpc, callback, invoke,
                 busy, stopped, expiryVars, stopVars>>

(* Mutant of EraseExpired: the worker stays in Unused. *)
EraseFromAll ==
  /\ ~Unlocked /\ target # NoWorker /\ wpc[target] = "Exited"
  /\ all' = all \ {target}
  /\ Becomes(target, "None")
  /\ halt' = halt \ {target} /\ busy' = busy \ {target}
  /\ armed' = armed \ {target} /\ expired' = expired \ {target}
  /\ ticking' = ticking \ {target}
  /\ target' = NoWorker
  /\ UNCHANGED <<mode, queue, unused, creating, freeVars, lock, timer, pc, taskVars, callback,
                 invoke, stopped, stopVars>>

(* the thread is joined and the last references are dropped *)
EraseExpired ==
  /\ ~Unlocked /\ target # NoWorker /\ wpc[target] = "Exited"
  /\ unused' = RemoveFirst(unused, target) /\ all' = all \ {target}
  /\ Becomes(target, "None")
  /\ halt' = halt \ {target} /\ busy' = busy \ {target}
  /\ armed' = armed \ {target} /\ expired' = expired \ {target}
  /\ ticking' = ticking \ {target}
  /\ target' = NoWorker
  /\ UNCHANGED <<mode, queue, creating, freeVars, lock, timer, pc, taskVars, callback, invoke,
                 stopped, stopVars>>

(* nobody else is expired; a worker that swept and is expired itself sets the timer *)
SweepEnds ==
  /\ ~Unlocked /\ target = NoWorker /\ Surplus = {}
  /\ lock' = Nobody
  /\ timer' = (timer \/ lock \in ToSet(unused) \cap expired)
  /\ wpc' = [w \in Worker |-> IF w = lock THEN "Wait" ELSE wpc[w]]
  /\ UNCHANGED <<mode, poolVars, freeVars, target, pc, taskVars, callback, invoke, busy, halt,
                 stopped, expiryVars, stopVars>>

-----------------------------------------------------------------------------
(* Stop *)

SetStopping ==
  /\ spc = "Idle" /\ Unlocked
  /\ stopping' = TRUE /\ spc' = "Walk"
  /\ UNCHANGED <<mode, poolVars, freeVars, sweepVars, pc, taskVars, workerVars, expiryVars>>

(* Mutant of StopWorker: StopEvent is not set. *)
JoinWorker(w) ==
  /\ spc = "Walk" /\ w \in all \ stopped
  /\ IF HasThread(w)
     THEN target' = w /\ spc' = "Join" /\ UNCHANGED stopped
     ELSE stopped' = stopped \cup {w} /\ UNCHANGED <<target, spc>>
  /\ UNCHANGED <<mode, poolVars, freeVars, lock, timer, pc, taskVars, wpc, callback, invoke,
                 busy, halt, expiryVars, stopping>>

(* Worker::Stop of the next worker; one that has no thread yet is only marked *)
StopWorker(w) ==
  /\ spc = "Walk" /\ w \in all \ stopped
  /\ IF HasThread(w)
     THEN halt' = halt \cup {w} /\ target' = w /\ spc' = "Join" /\ UNCHANGED stopped
     ELSE stopped' = stopped \cup {w} /\ UNCHANGED <<halt, target, spc>>
  /\ UNCHANGED <<mode, poolVars, freeVars, lock, timer, pc, taskVars, wpc, callback, invoke,
                 busy, expiryVars, stopping>>

StopJoin ==
  /\ spc = "Join" /\ wpc[target] = "Exited"
  /\ stopped' = stopped \cup {target}
  /\ Becomes(target, "Joined")
  /\ target' = NoWorker /\ spc' = "Walk"
  /\ UNCHANGED <<mode, poolVars, freeVars, lock, timer, pc, taskVars, callback, invoke,
                 busy, halt, expiryVars, stopping>>

(* the lists are cleared *)
StopClear ==
  /\ spc = "Walk" /\ all \subseteq stopped /\ Unlocked
  /\ all' = {} /\ unused' = <<>>
  /\ spc' = "Stopped"
  /\ UNCHANGED <<mode, queue, creating, freeVars, sweepVars, pc, taskVars, workerVars,
                 expiryVars, stopping>>

-----------------------------------------------------------------------------
Submitter(k) ==
  \/ QueueTask(k) \/ Loop(k) \/ FindNobody(k) \/ PopUnused(k)
  \/ ReserveWorkerSlot(k) \/ Create(k) \/ CreateWorker(k) \/ Start(k) \/ StartFails(k)
  \/ ReleaseWorkerSlot(k) \/ Withdraw(k) \/ Register(k) \/ WaitEnds(k)
  \/ Take(k) \/ PutBack(k) \/ Invoke(k) \/ SetInvoke(k) \/ InvokeEnds(k)

WorkerStep(w) ==
  \/ CallbackReturns(w) \/ ClaimTask(w) \/ ClaimNothing(w) \/ CB_OnFree(w)
  \/ Invoked(w) \/ Exit(w) \/ OnTimer(w) \/ CB_OnTimer(w)

Sweep == StopExpired \/ EraseExpired \/ SweepEnds
StopStep == StopJoin \/ StopClear \/ \E w \in Worker : StopWorker(w)

Next ==
  \/ \E k \in Task : Submitter(k)
  \/ \E w \in Worker : WorkerStep(w) \/ Expire(w)
  \/ Sweep \/ StopUnused
  \/ SetStopping \/ StopStep

Spec == Init /\ [][Next]_vars


(* A callback returns, and the management timer fires seldom enough for a thread that *)
(* waits for Lock, or for an event beside the timer, to get it in between.            *)
Fairness ==
  /\ \A k \in Task : SF_vars(pc[k] # "New" /\ Submitter(k))
  /\ \A w \in Worker : SF_vars(WorkerStep(w) /\ wpc[w] \in {"Call", "Idle", "Free"})
                       /\ SF_vars(Invoked(w)) /\ SF_vars(Exit(w)) /\ WF_vars(CB_OnTimer(w))
  /\ WF_vars(Sweep) /\ WF_vars(StopStep)

FairSpec == Spec /\ Fairness

-----------------------------------------------------------------------------
(* Properties *)

Places == {"New", "Loop", "PopUnused", "Reserve", "Create", "Push", "Start", "Release",
           "Withdraw", "Wait", "Blocked", "Take", "PutBack", "Invoke", "InvokeLock",
           "InvokeWait", "Returned"}

(* The types of the variables. *)
TypeOK ==
  /\ mode \in Modes
  /\ queue \in Seq(Task) /\ all \subseteq Worker /\ unused \in Seq(Worker)
  /\ creating \in 0..Cardinality(Task)
  /\ free \in BOOLEAN /\ waiters \in Seq(Task) /\ told \subseteq Task
  /\ lock \in {Nobody, App} \cup Task \cup Worker /\ target \in Worker \cup {NoWorker}
  /\ timer \in BOOLEAN
  /\ pc \in [Task -> Places] /\ patient \in [Task -> BOOLEAN]
  /\ worker \in [Task -> Worker \cup {NoWorker}]
  /\ given \subseteq Task /\ signalled \subseteq Task
  /\ wpc \in [Worker -> {"None", "Created", "Call", "Idle", "Free", "Wait", "OnTimer",
                         "Sweep", "Exited", "Joined"}]
  /\ callback \in [Worker -> Task \cup {NoTask}]
  /\ invoke \subseteq Worker /\ busy \subseteq Worker /\ halt \subseteq Worker
  /\ armed \subseteq Worker /\ expired \subseteq Worker /\ ticking \subseteq Worker
  /\ stopped \subseteq Worker
  /\ stopping \in BOOLEAN /\ spc \in {"Idle", "Walk", "Join", "Stopped"}

At(labels) == {k \in Task : pc[k] \in labels}

(* the submitters that have a slot, and those of them whose worker is not in All yet *)
HasSlot == At({"Create", "Push", "Start", "Release"})
Making == At({"Create", "Push"})

(* Concurrent submitters never make more workers than MaxThreads, those they still *)
(* have to push to All included; the check and the push are in different sections  *)
(* (the comment in Run2, Pool.cpp 377-379).                                        *)
LimitKept == Cardinality(all) + Cardinality(Making) <= MaxThreads

(* A reserved slot is given back whichever way Run2 ends, and once only. *)
SlotsReturned == creating = Cardinality(HasSlot)

(* the submitter that has popped a worker, until the worker has the callback *)
Owner(w) == {k \in At({"Take", "PutBack", "Invoke", "InvokeLock"}) : worker[k] = w}

(* A worker in Unused is there once, belongs to no submitter and has nothing to do, and *)
(* two submitters never have the same worker: what Worker::Invoke asserts, and why      *)
(* Locked_StopExpired may join an idle worker's thread under Lock.                      *)
IdleWorkersAreIdle ==
  /\ IsInjective(unused)
  /\ \A w \in ToSet(unused) :
       /\ Owner(w) = {} /\ callback[w] = NoTask /\ w \notin invoke
       /\ stopping \/ (w \in all \ busy /\ wpc[w] \in {"Wait", "OnTimer", "Sweep", "Exited"})
  /\ \A w \in Worker : Cardinality(Owner(w)) <= 1

(* A task is in one place: in Tasks, with its submitter, with one worker, or done. A task *)
(* that was refused, with no handle for its submitter, never reaches a worker.            *)
RunOnce ==
  \A k \in Task :
    LET doers == {w \in Worker : callback[w] = k} IN
    /\ k \in ToSet(queue) =>
         doers = {} /\ k \notin signalled /\ pc[k] \notin {"Push", "Start", "Invoke"}
    /\ Cardinality(doers) + Cardinality({k} \cap signalled) <= 1
    /\ pc[k] \in {"Push", "Start", "Invoke"} => doers = {} /\ k \notin signalled
    /\ pc[k] = "Returned" /\ k \notin given => doers = {} /\ k \notin signalled

(* The bookkeeping of the pool is sound: types, slots, the ownership of workers and the *)
(* fate of tasks (the parts above).                                                     *)
PoolSound == TypeOK /\ SlotsReturned /\ IdleWorkersAreIdle /\ RunOnce

(* Run and TryRun return, also when several submitters wait for workers on FreeEvent,  *)
(* workers expire, threads cannot be made and the pool is stopped.  Each task is       *)
(* submitted once, so in the end no call is under way; the same form is used for the   *)
(* properties below.                                                                   *)
RunReturns == <>[](At({"New", "Returned"}) = Task)

(* A handle that Run has returned is signalled, unless the pool is stopped. *)
HandleIsSignalled == <>[](stopping \/ given \subseteq signalled)

(* Every call of Run comes to its end, for its caller and for who waits for its handle. *)
RunCompletes == RunReturns /\ HandleIsSignalled

(* Stop joins every worker and returns, whatever submitters do meanwhile. *)
StopReturns == <>[](spc \in {"Idle", "Stopped"})
=============================================================================
