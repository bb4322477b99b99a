----------------------------- MODULE TaskQueue -----------------------------
(***************************************************************************)
(* Task::Queue (TaskQueue.cpp, TaskQueueItem.cpp): a list of items under a *)
(* mutex, one worker thread, any number of clients that schedule and       *)
(* cancel, and Stop, which another thread calls, possibly more than once,  *)
(* but never two threads at a time and never from a task: it joins the     *)
(* worker.  A section under Queue::Lock is one step.  The completion event *)
(* of an item is an Event that is only ever set (SyncEvent), here a        *)
(* membership in `completed'.                                              *)
(***************************************************************************)
EXTENDS Sequences, SequencesExt

CONSTANTS
  Task,     \* items, each scheduled once
  Client,   \* threads that call Schedule and Cancel
  NoTask

ASSUME TaskAssumption == NoTask \notin Task

VARIABLES
  items,          \* Queue::Items
  stopRequested,  \* Queue::StopRequested
  completed,      \* the items whose Completed event is set
  submitted,      \* the items that were handed to Schedule
  ran,            \* the items the worker popped
  qpc, wtask,     \* the worker and its local `item'
  cpc, ctask,     \* a client inside Schedule and its `item'
  spc, pending    \* the thread in Stop and what is left of its `pending'

queueVars  == <<items, stopRequested>>
workerVars == <<qpc, wtask, ran>>
clientVars == <<cpc, ctask, submitted>>
stopVars   == <<spc, pending>>
taskVars == <<queueVars, completed, workerVars, clientVars, stopVars>>

TaskInit ==
  /\ items = <<>> /\ stopRequested = FALSE
  /\ completed = {} /\ submitted = {} /\ ran = {}
  /\ qpc = "PopItem" /\ wtask = NoTask
  /\ cpc = [c \in Client |-> "Idle"] /\ ctask = [c \in Client |-> NoTask]
  /\ spc = "Idle" /\ pending = <<>>

(* Mutant of NotifyOne: nobody is notified. *)
NotifyNobody == UNCHANGED qpc

(* Queue::Wakeup.notify_one; only the worker waits for it *)
NotifyOne == qpc' = IF qpc = "Waiting" THEN "PopItem" ELSE qpc

-----------------------------------------------------------------------------
(* Schedule, the section under the lock: refused, out of memory, or queued *)

Enter(c, i) ==
  /\ cpc[c] = "Idle" /\ i \notin submitted
  /\ submitted' = submitted \cup {i}

GoInside(c, i, l) ==
  /\ cpc' = [cpc EXCEPT ![c] = l]
  /\ ctask' = [ctask EXCEPT ![c] = i]

ScheduleStopped(c, i) ==
  /\ Enter(c, i) /\ stopRequested
  /\ GoInside(c, i, "Refuse")
  /\ UNCHANGED <<queueVars, completed, workerVars, stopVars>>

(* push_back throws: the item is cancelled and the exception leaves Schedule *)
ScheduleThrows(c, i) ==
  /\ Enter(c, i) /\ ~stopRequested
  /\ completed' = completed \cup {i}
  /\ UNCHANGED <<queueVars, workerVars, cpc, ctask, stopVars>>

SchedulePush(c, i) ==
  /\ Enter(c, i) /\ ~stopRequested
  /\ items' = Append(items, i)
  /\ IF items = <<>> THEN GoInside(c, i, "Notify") ELSE UNCHANGED <<cpc, ctask>>
  /\ UNCHANGED <<stopRequested, completed, workerVars, stopVars>>

Schedule(c, i) == ScheduleStopped(c, i) \/ ScheduleThrows(c, i) \/ SchedulePush(c, i)

(* Schedule, after the lock is released *)
ScheduleEnd(c) ==
  /\ \/ cpc[c] = "Refuse" /\ completed' = completed \cup {ctask[c]} /\ UNCHANGED qpc
     \/ cpc[c] = "Notify" /\ NotifyOne /\ UNCHANGED completed
  /\ GoInside(c, NoTask, "Idle")
  /\ UNCHANGED <<queueVars, wtask, ran, submitted, stopVars>>

Cancel(c, i) ==
  /\ cpc[c] = "Idle" /\ i \in ToSet(items)     \* otherwise it does nothing
  /\ completed' = completed \cup {i}
  /\ items' = RemoveFirst(items, i)
  /\ UNCHANGED <<stopRequested, workerVars, clientVars, stopVars>>

-----------------------------------------------------------------------------
(* The worker *)

(* Mutant of PopItem: the last item is popped. *)
PopBack ==
  /\ qpc = "PopItem"
  /\ \/ stopRequested /\ qpc' = "Exited" /\ UNCHANGED <<items, wtask, ran>>
     \/ ~stopRequested /\ items = <<>> /\ qpc' = "Waiting" /\ UNCHANGED <<items, wtask, ran>>
     \/ /\ ~stopRequested /\ items # <<>>
        /\ wtask' = Last(items) /\ ran' = ran \cup {Last(items)}
        /\ items' = Front(items)
        /\ qpc' = "Invoke"
  /\ UNCHANGED <<stopRequested, completed, clientVars, stopVars>>

(* the wait on Wakeup and what follows it, until Lock is released *)
PopItem ==
  /\ qpc = "PopItem"
  /\ \/ stopRequested /\ qpc' = "Exited" /\ UNCHANGED <<items, wtask, ran>>
     \/ ~stopRequested /\ items = <<>> /\ qpc' = "Waiting" /\ UNCHANGED <<items, wtask, ran>>
     \/ /\ ~stopRequested /\ items # <<>>
        /\ wtask' = Head(items) /\ ran' = ran \cup {Head(items)}
        /\ items' = Tail(items)
        /\ qpc' = "Invoke"
  /\ UNCHANGED <<stopRequested, completed, clientVars, stopVars>>

SpuriousWakeup ==
  /\ qpc = "Waiting"
  /\ qpc' = "PopItem"
  /\ UNCHANGED <<queueVars, completed, wtask, ran, clientVars, stopVars>>

(* the callback returns and the event is set *)
Invoke ==
  /\ qpc = "Invoke"
  /\ completed' = completed \cup {wtask}
  /\ qpc' = "PopItem" /\ wtask' = NoTask
  /\ UNCHANGED <<queueVars, ran, clientVars, stopVars>>

-----------------------------------------------------------------------------
(* Stop *)

(* Mutant of StopSwap: the items are dropped instead of being taken over. *)
StopClears ==
  /\ spc \in {"Idle", "Stopped"}
  /\ stopRequested' = TRUE
  /\ items' = <<>>
  /\ spc' = "Cancel"
  /\ UNCHANGED <<pending, completed, workerVars, clientVars>>

StopSwap ==
  /\ spc \in {"Idle", "Stopped"}
  /\ stopRequested' = TRUE
  /\ pending' = items /\ items' = <<>>
  /\ spc' = "Cancel"
  /\ UNCHANGED <<completed, workerVars, clientVars>>

StopCancel ==
  /\ spc = "Cancel" /\ pending # <<>>
  /\ completed' = completed \cup {Head(pending)}
  /\ pending' = Tail(pending)
  /\ UNCHANGED <<queueVars, workerVars, clientVars, spc>>

StopNotify ==
  /\ spc = "Cancel" /\ pending = <<>>
  /\ NotifyOne
  /\ spc' = "Join"
  /\ UNCHANGED <<queueVars, completed, wtask, ran, clientVars, pending>>

StopJoin ==
  /\ spc = "Join" /\ qpc = "Exited"
  /\ spc' = "Stopped"
  /\ UNCHANGED <<queueVars, completed, workerVars, clientVars, pending>>

StopStep == StopCancel \/ StopNotify \/ StopJoin

-----------------------------------------------------------------------------
TaskNext ==
  \/ \E c \in Client, i \in Task : Schedule(c, i) \/ Cancel(c, i)
  \/ \E c \in Client : ScheduleEnd(c)
  \/ PopItem \/ Invoke \/ SpuriousWakeup
  \/ StopSwap \/ StopStep

TaskSpec == TaskInit /\ [][TaskNext]_taskVars

(* Threads run, and a task returns; nobody has to schedule, to cancel or to stop. *)
TaskFairSpec ==
  /\ TaskSpec
  /\ WF_taskVars(PopItem) /\ WF_taskVars(Invoke) /\ WF_taskVars(StopStep)
  /\ \A c \in Client : WF_taskVars(ScheduleEnd(c))

-----------------------------------------------------------------------------
(* The type invariant. *)
TaskTypeOK ==
  /\ items \in Seq(Task) /\ pending \in Seq(Task)
  /\ stopRequested \in BOOLEAN
  /\ completed \subseteq Task /\ submitted \subseteq Task /\ ran \subseteq Task
  /\ qpc \in {"PopItem", "Waiting", "Invoke", "Exited"}
  /\ wtask \in Task \cup {NoTask}
  /\ cpc \in [Client -> {"Idle", "Refuse", "Notify"}]
  /\ ctask \in [Client -> Task \cup {NoTask}]
  /\ spc \in {"Idle", "Cancel", "Join", "Stopped"}

(* the tasks that a Schedule has refused and not cancelled yet *)
Refused == {ctask[c] : c \in {d \in Client : cpc[d] = "Refuse"}}

(* No task is forgotten: one that was handed to Schedule is completed, or somebody *)
(* still has it and will complete it.  ~Item waits for completion without a        *)
(* timeout, so a task nobody completes blocks whoever drops its last reference     *)
(* (TaskQueue.cpp:74-75).                                                          *)
NoTaskForgotten ==
  submitted = completed \cup ToSet(items) \cup ToSet(pending) \cup Refused
                \cup ({wtask} \ {NoTask})

Contract == INSTANCE TaskContract WITH
  queue <- items, running <- wtask, stopped <- stopRequested,
  withdrawn <- submitted \ (ToSet(items) \cup ran)

(* Task::Queue keeps the promises of TaskContract: tasks run in the order of       *)
(* scheduling, one at a time, once, and not after they were withdrawn; and every   *)
(* task that is queued is run or withdrawn and completed (TaskQueue.cpp:53-144).   *)
KeepsContract == Contract!FairSpec

(* A task has one fate: it is queued once, or run, or withdrawn, and the event of  *)
(* a task that is queued or running is not set (TaskQueueItem.cpp:28-37).          *)
OneFate == Contract!OneFate

(* Every task that was handed to the queue is completed, also by a queue that is   *)
(* never stopped: ~Item, which waits for it without a timeout, returns             *)
(* (TaskQueueItem.cpp:23-26).                                                      *)
EveryTaskCompletes == Contract!EveryTaskCompletes

(* Stop returns: the worker sees StopRequested or is woken for it, and the task it *)
(* is running is waited for (TaskQueue.cpp:35-38).                                 *)
StopReturns == spc # "Idle" ~> spc = "Stopped"

(* Nobody waits for ever: not who drops an item, and not who stops the queue (the  *)
(* two above).                                                                     *)
WaitsEnd == EveryTaskCompletes /\ StopReturns

-----------------------------------------------------------------------------
(* The inductive invariant: NoTaskForgotten, and where a task cannot be. *)

(* A queued task is queued once and is neither run, nor completed, nor given up. *)
Queued ==
  /\ IsInjective(items)
  /\ ToSet(items) \cap (ran \cup completed \cup ToSet(pending) \cup Refused) = {}

(* The worker has a task exactly while it invokes it; the others it took are completed. *)
Taken ==
  /\ (wtask # NoTask) = (qpc = "Invoke")
  /\ ran \ {wtask} \subseteq completed
  /\ wtask # NoTask => wtask \in ran \ completed

(* What was given up is not run. *)
GivenUp ==
  /\ ran \cap (ToSet(pending) \cup Refused) = {}
  /\ spc # "Cancel" => pending = <<>>
  /\ \A c \in Client : (ctask[c] # NoTask) = (cpc[c] # "Idle")

TaskInv == TaskTypeOK /\ NoTaskForgotten /\ Queued /\ Taken /\ GivenUp
=============================================================================
