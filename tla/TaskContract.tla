---------------------------- MODULE TaskContract ----------------------------
(***************************************************************************)
(* What Task::Queue promises (TaskQueue.h): a task that is scheduled is    *)
(* either run once, in the order of scheduling and never two at a time, or *)
(* withdrawn (cancelled, refused, or still queued when the queue stops)    *)
(* and then never run; in both cases its completion event is set.          *)
(***************************************************************************)
EXTENDS Sequences, SequencesExt

CONSTANTS Task, NoTask

VARIABLES
  queue,      \* accepted tasks, in order
  running,    \* the task being run, or NoTask
  ran,        \* the tasks that are or were run
  withdrawn,  \* the tasks that will not be run
  completed,  \* the tasks whose completion event is set
  stopped

vars == <<queue, running, ran, withdrawn, completed, stopped>>

Fresh(i) == i \in Task \ (ToSet(queue) \cup ran \cup withdrawn)

Init ==
  /\ queue = <<>> /\ running = NoTask
  /\ ran = {} /\ withdrawn = {} /\ completed = {}
  /\ stopped = FALSE

Accept(i) ==
  /\ Fresh(i) /\ ~stopped
  /\ queue' = Append(queue, i)
  /\ UNCHANGED <<running, ran, withdrawn, completed, stopped>>

(* the queue is stopped, or out of memory *)
Refuse(i) ==
  /\ Fresh(i)
  /\ withdrawn' = withdrawn \cup {i}
  /\ completed' \in {completed, completed \cup {i}}
  /\ UNCHANGED <<queue, running, ran, stopped>>

Start ==
  /\ queue # <<>> /\ running = NoTask
  /\ running' = Head(queue)
  /\ ran' = ran \cup {Head(queue)}
  /\ queue' = Tail(queue)
  /\ UNCHANGED <<withdrawn, completed, stopped>>

Finish ==
  /\ running # NoTask
  /\ completed' = completed \cup {running}
  /\ running' = NoTask
  /\ UNCHANGED <<queue, ran, withdrawn, stopped>>

Withdraw(i) ==
  /\ i \in ToSet(queue)
  /\ queue' = RemoveFirst(queue, i)
  /\ withdrawn' = withdrawn \cup {i}
  /\ completed' = completed \cup {i}
  /\ UNCHANGED <<running, ran, stopped>>

Stop ==
  /\ stopped' = TRUE
  /\ withdrawn' = withdrawn \cup ToSet(queue)
  /\ queue' = <<>>
  /\ UNCHANGED <<running, ran, completed>>

Complete(i) ==
  /\ i \in withdrawn \ completed
  /\ completed' = completed \cup {i}
  /\ UNCHANGED <<queue, running, ran, withdrawn, stopped>>

Next ==
  \/ \E i \in Task : Accept(i) \/ Refuse(i) \/ Withdraw(i) \/ Complete(i)
  \/ Start \/ Finish \/ Stop

Spec == Init /\ [][Next]_vars
FairSpec ==
  /\ Spec
  /\ WF_vars(Start) /\ WF_vars(Finish)
  /\ \A i \in Task : WF_vars(Complete(i))

-----------------------------------------------------------------------------
(* The type invariant. *)
TypeOK ==
  /\ queue \in Seq(Task)
  /\ running \in Task \cup {NoTask}
  /\ ran \subseteq Task /\ withdrawn \subseteq Task /\ completed \subseteq Task
  /\ stopped \in BOOLEAN

(* A task has one fate: it is queued once, or run, or withdrawn, and the event of   *)
(* a task that is queued or running is not set (TaskQueueItem.cpp:28-37).           *)
OneFate ==
  /\ IsInjective(queue)
  /\ ran \cap withdrawn = {}
  /\ ToSet(queue) \cap (ran \cup withdrawn) = {}
  /\ completed = (ran \ {running}) \cup (completed \cap withdrawn)
  /\ running # NoTask => running \in ran

(* Every task that was handed to the queue is completed: ~Item, which waits for it *)
(* without a timeout, returns (TaskQueueItem.cpp:23-26).                           *)
EveryTaskCompletes ==
  \A i \in Task : (i \in ToSet(queue) \cup ran \cup withdrawn) ~> (i \in completed)
=============================================================================
