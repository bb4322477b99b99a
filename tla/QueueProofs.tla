----------------------------- MODULE QueueProofs -----------------------------
(***************************************************************************)
(* Proofs about the two queues with one worker.                            *)
(*                                                                         *)
(* TaskQueue: no task is forgotten, and every step is a step of            *)
(* TaskContract, for any number of tasks and clients.                      *)
(*                                                                         *)
(* TimerQueue: the list and the worker are sound, and the worker never     *)
(* oversleeps a due timer, for any timers and delays.                      *)
(***************************************************************************)
EXTENDS TaskQueue, TimerQueue, ListLemmas

-----------------------------------------------------------------------------
(* The task queue *)

(* Entering or leaving Schedule moves one client. *)
LEMMA ClientMoves ==
  ASSUME TaskInv, NEW c \in Client, NEW i \in Task \cup {NoTask},
         NEW l \in {"Idle", "Refuse", "Notify"}, (i # NoTask) = (l # "Idle"), GoInside(c, i, l)
  PROVE  /\ cpc' \in [Client -> {"Idle", "Refuse", "Notify"}]
         /\ ctask' \in [Client -> Task \cup {NoTask}]
         /\ \A d \in Client : (ctask'[d] # NoTask) = (cpc'[d] # "Idle")
         /\ cpc[c] # "Refuse" /\ l = "Refuse" => Refused' = Refused \cup {i}
         /\ cpc[c] # "Refuse" /\ l # "Refuse" => Refused' = Refused
         /\ l # "Refuse" => /\ Refused' \subseteq Refused
                            /\ Refused \subseteq Refused' \cup {ctask[c]}
<1>1. /\ cpc'[c] = l /\ ctask'[c] = i
      /\ \A d \in Client : d # c => cpc'[d] = cpc[d] /\ ctask'[d] = ctask[d]
      /\ cpc' \in [Client -> {"Idle", "Refuse", "Notify"}]
      /\ ctask' \in [Client -> Task \cup {NoTask}]
  BY DEF GoInside, TaskInv, TaskTypeOK
<1>2. \A d \in Client : (ctask'[d] # NoTask) = (cpc'[d] # "Idle")
  BY <1>1 DEF TaskInv, GivenUp
<1>3. \A x : x \in Refused <=> \E d \in Client : cpc[d] = "Refuse" /\ ctask[d] = x
  BY DEF Refused
<1>4. \A x : x \in Refused' <=> \E d \in Client : cpc'[d] = "Refuse" /\ ctask'[d] = x
  BY DEF Refused
<1>5. ASSUME cpc[c] # "Refuse", l = "Refuse" PROVE Refused' = Refused \cup {i}
  BY <1>1, <1>3, <1>4, <1>5
<1>6. ASSUME cpc[c] # "Refuse", l # "Refuse" PROVE Refused' = Refused
  BY <1>1, <1>3, <1>4, <1>6
<1>7. ASSUME l # "Refuse" PROVE Refused' \subseteq Refused /\ Refused \subseteq Refused' \cup {ctask[c]}
  BY <1>1, <1>3, <1>4, <1>7
<1> QED BY <1>1, <1>2, <1>5, <1>6, <1>7

(* A refused or notifying client has a task, and what it has is refused. *)
LEMMA RefusedTask ==
  ASSUME TaskInv, NEW c \in Client
  PROVE  /\ cpc[c] = "Refuse" => ctask[c] \in Refused /\ ctask[c] \in Task
         /\ Refused \subseteq Task
<1>1. \A d \in Client : cpc[d] = "Refuse" => ctask[d] \in Task
  BY DEF TaskInv, GivenUp, TaskTypeOK
<1> QED BY <1>1 DEF Refused

LEMMA ScheduleStep == ASSUME TaskInv, NEW c \in Client, NEW i \in Task, Schedule(c, i) PROVE TaskInv'
<1>1. /\ cpc[c] = "Idle" /\ i \notin submitted /\ submitted' = submitted \cup {i}
      /\ UNCHANGED <<stopRequested, qpc, wtask, ran, spc, pending>>
  BY DEF Schedule, ScheduleStopped, ScheduleThrows, SchedulePush, Enter, queueVars, workerVars,
         stopVars
<1>2. /\ i \notin completed /\ i \notin ToSet(items) /\ i \notin ToSet(pending)
      /\ i \notin Refused /\ i # wtask /\ i \notin ran
  BY <1>1, TaskAssumption DEF TaskInv, NoTaskForgotten, Taken
<1>3. CASE ScheduleStopped(c, i)
  <2>1. UNCHANGED <<items, completed>> /\ GoInside(c, i, "Refuse")
    BY <1>3 DEF ScheduleStopped, queueVars
  <2>2. /\ cpc' \in [Client -> {"Idle", "Refuse", "Notify"}]
        /\ ctask' \in [Client -> Task \cup {NoTask}]
        /\ \A d \in Client : (ctask'[d] # NoTask) = (cpc'[d] # "Idle")
        /\ Refused' = Refused \cup {i}
    BY <1>1, <2>1, ClientMoves, TaskAssumption
  <2>3. TaskTypeOK'
    BY <1>1, <2>1, <2>2 DEF TaskInv, TaskTypeOK
  <2>4. NoTaskForgotten' /\ Queued' /\ Taken' /\ GivenUp'
    BY <1>1, <1>2, <2>1, <2>2 DEF TaskInv, NoTaskForgotten, Queued, Taken, GivenUp
  <2> QED BY <2>3, <2>4 DEF TaskInv
<1>4. CASE ScheduleThrows(c, i)
  <2>1. UNCHANGED <<items, cpc, ctask>> /\ completed' = completed \cup {i} /\ Refused' = Refused
    BY <1>4 DEF ScheduleThrows, queueVars, Refused
  <2>2. TaskTypeOK'
    BY <1>1, <2>1 DEF TaskInv, TaskTypeOK
  <2>3. NoTaskForgotten' /\ Queued' /\ Taken' /\ GivenUp'
    BY <1>1, <1>2, <2>1 DEF TaskInv, NoTaskForgotten, Queued, Taken, GivenUp
  <2> QED BY <2>2, <2>3 DEF TaskInv
<1>5. CASE SchedulePush(c, i)
  <2>1. /\ items' = Append(items, i) /\ completed' = completed
        /\ GoInside(c, i, "Notify") \/ UNCHANGED <<cpc, ctask>>
    BY <1>5 DEF SchedulePush
  <2>2. /\ cpc' \in [Client -> {"Idle", "Refuse", "Notify"}]
        /\ ctask' \in [Client -> Task \cup {NoTask}]
        /\ \A d \in Client : (ctask'[d] # NoTask) = (cpc'[d] # "Idle")
        /\ Refused' = Refused
    <3>1. CASE GoInside(c, i, "Notify")
      BY <1>1, <3>1, ClientMoves, TaskAssumption
    <3>2. CASE UNCHANGED <<cpc, ctask>>
      BY <3>2 DEF TaskInv, TaskTypeOK, GivenUp, Refused
    <3> QED BY <2>1, <3>1, <3>2
  <2>3. /\ items' \in Seq(Task) /\ ToSet(items') = ToSet(items) \cup {i}
        /\ IsInjective(items')
    BY <1>2, <2>1, AppendNode DEF TaskInv, TaskTypeOK, Queued
  <2>4. TaskTypeOK'
    BY <1>1, <2>1, <2>2, <2>3 DEF TaskInv, TaskTypeOK
  <2>5. NoTaskForgotten' /\ Queued' /\ Taken' /\ GivenUp'
    BY <1>1, <1>2, <2>1, <2>2, <2>3 DEF TaskInv, NoTaskForgotten, Queued, Taken, GivenUp
  <2> QED BY <2>4, <2>5 DEF TaskInv
<1> QED BY <1>3, <1>4, <1>5 DEF Schedule

LEMMA ScheduleEndStep == ASSUME TaskInv, NEW c \in Client, ScheduleEnd(c) PROVE TaskInv'
<1>1. /\ UNCHANGED <<items, stopRequested, wtask, ran, submitted, spc, pending>>
      /\ GoInside(c, NoTask, "Idle")
      /\ \/ cpc[c] = "Refuse" /\ completed' = completed \cup {ctask[c]} /\ qpc' = qpc
         \/ cpc[c] = "Notify" /\ NotifyOne /\ completed' = completed
  BY DEF ScheduleEnd, queueVars, stopVars
<1>2. /\ cpc' \in [Client -> {"Idle", "Refuse", "Notify"}]
      /\ ctask' \in [Client -> Task \cup {NoTask}]
      /\ \A d \in Client : (ctask'[d] # NoTask) = (cpc'[d] # "Idle")
      /\ cpc[c] # "Refuse" => Refused' = Refused
      /\ Refused' \subseteq Refused /\ Refused \subseteq Refused' \cup {ctask[c]}
  BY <1>1, ClientMoves
<1>3. CASE cpc[c] = "Refuse"
  <2>1. ctask[c] \in Refused /\ ctask[c] \in Task
    BY <1>3, RefusedTask
  <2>2. completed' = completed \cup {ctask[c]} /\ qpc' = qpc
    BY <1>1, <1>3
  <2>3. TaskTypeOK'
    BY <1>1, <1>2, <2>1, <2>2 DEF TaskInv, TaskTypeOK
  <2>4. NoTaskForgotten'
    BY <1>1, <1>2, <2>1, <2>2 DEF TaskInv, NoTaskForgotten
  <2>5. Queued' /\ GivenUp'
    BY <1>1, <1>2, <2>1, <2>2 DEF TaskInv, Queued, GivenUp
  <2>6. Taken'
    BY <1>1, <2>1, <2>2 DEF TaskInv, Taken, GivenUp
  <2> QED BY <2>3, <2>4, <2>5, <2>6 DEF TaskInv
<1>4. CASE cpc[c] = "Notify"
  <2>1. Refused' = Refused /\ completed' = completed
    BY <1>1, <1>2, <1>4
  <2>2. qpc' \in {"PopItem", "Waiting", "Invoke", "Exited"} /\ (qpc' = "Invoke") = (qpc = "Invoke")
    BY <1>1, <1>4 DEF NotifyOne, TaskInv, TaskTypeOK
  <2>3. TaskTypeOK' /\ NoTaskForgotten' /\ Queued' /\ GivenUp'
    BY <1>1, <1>2, <2>1, <2>2 DEF TaskInv, TaskTypeOK, NoTaskForgotten, Queued, GivenUp
  <2>4. Taken'
    BY <1>1, <2>1, <2>2 DEF TaskInv, Taken
  <2> QED BY <2>3, <2>4 DEF TaskInv
<1> QED BY <1>1, <1>3, <1>4

LEMMA TaskCancelStep == ASSUME TaskInv, NEW c \in Client, NEW i \in Task, Cancel(c, i) PROVE TaskInv'
<1>1. /\ i \in ToSet(items) /\ completed' = completed \cup {i}
      /\ items' = RemoveFirst(items, i)
      /\ UNCHANGED <<stopRequested, qpc, wtask, ran, cpc, ctask, submitted, spc, pending>>
  BY DEF Cancel, workerVars, clientVars, stopVars
<1>2. /\ items' \in Seq(Task) /\ ToSet(items') = ToSet(items) \ {i}
      /\ IsInjective(items')
  BY <1>1, RemoveNode DEF TaskInv, TaskTypeOK, Queued
<1>3. Refused' = Refused
  BY <1>1 DEF Refused
<1>4. TaskTypeOK' /\ NoTaskForgotten'
  BY <1>1, <1>2, <1>3 DEF TaskInv, TaskTypeOK, NoTaskForgotten
<1>5. Queued' /\ GivenUp'
  BY <1>1, <1>2, <1>3 DEF TaskInv, Queued, GivenUp
<1>6. Taken'
  BY <1>1 DEF TaskInv, Queued, Taken
<1> QED BY <1>4, <1>5, <1>6 DEF TaskInv

LEMMA TaskWorkerStep == ASSUME TaskInv, PopItem \/ Invoke \/ SpuriousWakeup PROVE TaskInv'
<1>1. /\ UNCHANGED <<stopRequested, cpc, ctask, submitted, spc, pending>> /\ Refused' = Refused
      /\ qpc \in {"PopItem", "Invoke", "Waiting"}
  BY DEF PopItem, Invoke, SpuriousWakeup, queueVars, clientVars, stopVars, Refused
<1>2. CASE PopItem /\ wtask' # wtask
  <2>1. /\ qpc = "PopItem" /\ qpc' = "Invoke" /\ items # <<>> /\ completed' = completed
        /\ wtask' = Head(items) /\ ran' = ran \cup {Head(items)} /\ items' = Tail(items)
    BY <1>2 DEF PopItem
  <2>2. /\ Head(items) \in Task /\ Head(items) \in ToSet(items) /\ items' \in Seq(Task)
        /\ ToSet(items) = ToSet(items') \cup {Head(items)}
        /\ IsInjective(items') /\ Head(items) \notin ToSet(items')
    BY <2>1, TailNode DEF TaskInv, TaskTypeOK, Queued
  <2>3. wtask = NoTask
    BY <2>1 DEF TaskInv, Taken
  <2>4. TaskTypeOK'
    BY <1>1, <2>1, <2>2 DEF TaskInv, TaskTypeOK
  <2>5. NoTaskForgotten'
    BY <1>1, <2>1, <2>2, <2>3, TaskAssumption DEF TaskInv, NoTaskForgotten
  <2>6. Queued' /\ GivenUp'
    BY <1>1, <2>1, <2>2 DEF TaskInv, Queued, GivenUp
  <2>7. Taken'
    BY <2>1, <2>2, <2>3, TaskAssumption DEF TaskInv, Taken, Queued, TaskTypeOK
  <2> QED BY <2>4, <2>5, <2>6, <2>7 DEF TaskInv
<1>3. CASE PopItem /\ wtask' = wtask
  <2>1. qpc = "PopItem" /\ wtask = NoTask /\ completed' = completed
    BY <1>3 DEF PopItem, TaskInv, Taken
  <2>2. /\ UNCHANGED <<items, wtask, ran>> /\ qpc' \in {"Exited", "Waiting"}
    <3>1. ASSUME items # <<>>, wtask' = Head(items) PROVE FALSE
      <4>1. Head(items) \in Task
        BY <3>1, TailNode DEF TaskInv, TaskTypeOK
      <4> QED BY <1>3, <2>1, <3>1, <4>1, TaskAssumption
    <3> QED BY <1>3, <3>1 DEF PopItem
  <2>3. TaskTypeOK' /\ NoTaskForgotten' /\ Queued' /\ GivenUp'
    BY <1>1, <2>1, <2>2 DEF TaskInv, TaskTypeOK, NoTaskForgotten, Queued, GivenUp
  <2>4. Taken'
    BY <2>1, <2>2 DEF TaskInv, Taken
  <2> QED BY <2>3, <2>4 DEF TaskInv
<1>4. CASE Invoke
  <2>1. /\ qpc = "Invoke" /\ qpc' = "PopItem" /\ wtask' = NoTask
        /\ completed' = completed \cup {wtask} /\ UNCHANGED <<items, ran>>
    BY <1>4 DEF Invoke, queueVars
  <2>2. wtask \in ran /\ wtask # NoTask /\ wtask \in Task
    BY <2>1 DEF TaskInv, Taken, TaskTypeOK
  <2>3. TaskTypeOK' /\ NoTaskForgotten'
    BY <1>1, <2>1, <2>2 DEF TaskInv, TaskTypeOK, NoTaskForgotten
  <2>4. Queued' /\ GivenUp'
    BY <1>1, <2>1, <2>2 DEF TaskInv, Queued, GivenUp
  <2>5. Taken'
    BY <2>1 DEF TaskInv, Taken
  <2> QED BY <2>3, <2>4, <2>5 DEF TaskInv
<1>5. CASE SpuriousWakeup
  <2>1. qpc = "Waiting" /\ qpc' = "PopItem" /\ UNCHANGED <<items, completed, wtask, ran>>
    BY <1>5 DEF SpuriousWakeup, queueVars
  <2>2. TaskTypeOK' /\ NoTaskForgotten' /\ Queued' /\ GivenUp'
    BY <1>1, <2>1 DEF TaskInv, TaskTypeOK, NoTaskForgotten, Queued, GivenUp
  <2>3. Taken'
    BY <2>1 DEF TaskInv, Taken
  <2> QED BY <2>2, <2>3 DEF TaskInv
<1> QED BY <1>2, <1>3, <1>4, <1>5

LEMMA StoppingStep == ASSUME TaskInv, StopSwap \/ StopStep PROVE TaskInv'
<1>1. /\ UNCHANGED <<wtask, ran, cpc, ctask, submitted>> /\ Refused' = Refused
  BY DEF StopSwap, StopStep, StopCancel, StopNotify, StopJoin, workerVars, clientVars, Refused
<1>2. CASE StopSwap
  <2>1. /\ stopRequested' = TRUE /\ pending' = items /\ items' = <<>> /\ spc' = "Cancel"
        /\ UNCHANGED <<completed, qpc>>
    BY <1>2 DEF StopSwap, workerVars
  <2>2. pending = <<>>
    BY <1>2 DEF StopSwap, TaskInv, GivenUp
  <2>3. /\ items' \in Seq(Task) /\ ToSet(items') = {} /\ IsInjective(items') /\ ToSet(pending) = {}
    BY <2>1, <2>2, EmptySeq DEF ToSet, IsInjective
  <2>4. TaskTypeOK' /\ NoTaskForgotten' /\ Queued'
    BY <1>1, <2>1, <2>3 DEF TaskInv, TaskTypeOK, NoTaskForgotten, Queued
  <2>5. Taken'
    BY <1>1, <2>1 DEF TaskInv, Taken
  <2>6. GivenUp'
    BY <1>1, <2>1 DEF TaskInv, GivenUp, Queued
  <2> QED BY <2>4, <2>5, <2>6 DEF TaskInv
<1>3. CASE StopCancel
  <2>1. /\ pending # <<>> /\ completed' = completed \cup {Head(pending)}
        /\ pending' = Tail(pending) /\ UNCHANGED <<items, stopRequested, qpc, spc>>
        /\ spc = "Cancel"
    BY <1>3 DEF StopCancel, queueVars, workerVars
  <2>2. /\ Head(pending) \in Task /\ pending' \in Seq(Task)
        /\ ToSet(pending) = ToSet(pending') \cup {Head(pending)}
    BY <2>1, TailNode DEF TaskInv, TaskTypeOK
  <2>3. TaskTypeOK' /\ NoTaskForgotten'
    BY <1>1, <2>1, <2>2 DEF TaskInv, TaskTypeOK, NoTaskForgotten
  <2>4. Queued' /\ GivenUp'
    BY <1>1, <2>1, <2>2 DEF TaskInv, Queued, GivenUp
  <2>5. Taken'
    BY <1>1, <2>1, <2>2 DEF TaskInv, Taken, GivenUp
  <2> QED BY <2>3, <2>4, <2>5 DEF TaskInv
<1>4. CASE StopNotify \/ StopJoin
  <2>1. /\ UNCHANGED <<items, stopRequested, completed, pending>>
        /\ qpc' \in {"PopItem", "Waiting", "Invoke", "Exited"}
        /\ (qpc' = "Invoke") = (qpc = "Invoke")
        /\ spc' \in {"Join", "Stopped"}
        /\ pending = <<>>
    BY <1>4 DEF StopNotify, StopJoin, NotifyOne, queueVars, workerVars, TaskInv, TaskTypeOK, GivenUp
  <2>2. TaskTypeOK' /\ NoTaskForgotten' /\ Queued' /\ GivenUp'
    BY <1>1, <2>1 DEF TaskInv, TaskTypeOK, NoTaskForgotten, Queued, GivenUp
  <2>3. Taken'
    BY <1>1, <2>1 DEF TaskInv, Taken
  <2> QED BY <2>2, <2>3 DEF TaskInv
<1> QED BY <1>2, <1>3, <1>4 DEF StopStep

-----------------------------------------------------------------------------
LEMMA TaskInitStep == TaskInit => TaskInv
<1> SUFFICES ASSUME TaskInit PROVE TaskInv
  OBVIOUS
<1>1. /\ \A q \in {items, pending} : q \in Seq(Task) /\ ToSet(q) = {} /\ IsInjective(q)
      /\ Refused = {}
  <2>1. <<>> \in Seq(Task) /\ ToSet(<<>>) = {} /\ IsInjective(<<>>)
    BY EmptySeq DEF ToSet, IsInjective
  <2> QED BY <2>1 DEF TaskInit, Refused
<1>2. TaskTypeOK /\ NoTaskForgotten /\ Queued /\ Taken /\ GivenUp
  BY <1>1 DEF TaskInit, TaskTypeOK, NoTaskForgotten, Queued, Taken, GivenUp
<1> QED BY <1>2 DEF TaskInv

LEMMA TaskNextStep == TaskInv /\ [TaskNext]_taskVars => TaskInv'
<1> SUFFICES ASSUME TaskInv, [TaskNext]_taskVars PROVE TaskInv'
  OBVIOUS
<1>1. CASE UNCHANGED taskVars
  BY <1>1 DEF taskVars, queueVars, workerVars, clientVars, stopVars, TaskInv, TaskTypeOK, NoTaskForgotten,
              Queued, Taken, GivenUp, Refused
<1> QED BY <1>1, ScheduleStep, TaskCancelStep, ScheduleEndStep, TaskWorkerStep, StoppingStep DEF TaskNext

(* The inductive invariant: at every step of TaskQueue.cpp a task is in one place. *)
THEOREM TaskInvariance == TaskSpec => []TaskInv
<1> QED BY TaskInitStep, TaskNextStep, PTL DEF TaskSpec

(* No task is forgotten: a task that was handed to Schedule is completed, or held by *)
(* the queue, by Stop, by the worker or by the Schedule that refuses it.             *)
THEOREM TasksAreNotForgotten == TaskSpec => []NoTaskForgotten
<1>1. TaskInv => NoTaskForgotten
  BY DEF TaskInv
<1> QED BY TaskInvariance, <1>1, PTL

-----------------------------------------------------------------------------
(* TaskQueue implements TaskContract. *)

(* The instance has copies of the library's operators: they are the same functions. *)
LEMMA SameOperators ==
  /\ \A q : Contract!ToSet(q) = ToSet(q)
  /\ \A q : Contract!IsInjective(q) = IsInjective(q)
  /\ \A q, x : Contract!RemoveFirst(q, x) = RemoveFirst(q, x)
<1>1. \A q : Contract!ToSet(q) = ToSet(q)
  BY DEF ToSet, Contract!ToSet
<1>2. \A q : Contract!IsInjective(q) = IsInjective(q)
  BY DEF IsInjective, Contract!IsInjective
<1>3. ASSUME NEW q, NEW x PROVE Contract!RemoveFirst(q, x) = RemoveFirst(q, x)
  <2>1. \A S : Contract!Min(S) = Min(S)
    BY DEF Min, Contract!Min
  <2>2. Contract!SelectInSeq(q, LAMBDA v : v = x) = SelectInSeq(q, LAMBDA v : v = x)
    BY <2>1 DEF SelectInSeq, Contract!SelectInSeq
  <2>3. \A k : Contract!RemoveAt(q, k) = RemoveAt(q, k)
    BY DEF RemoveAt, Contract!RemoveAt
  <2> QED BY <2>2, <2>3 DEF RemoveFirst, Contract!RemoveFirst
<1> QED BY <1>1, <1>2, <1>3

LEMMA InitMaps == TaskInit => Contract!Init
<1>1. ToSet(<<>>) = {}
  BY EmptySeq DEF ToSet
<1> QED BY <1>1 DEF TaskInit, Contract!Init

(* the tasks that will not be run *)
Given == submitted \ (ToSet(items) \cup ran)

LEMMA StepMaps == TaskInv /\ [TaskNext]_taskVars => [Contract!Next]_(Contract!vars)
<1> SUFFICES ASSUME TaskInv, [TaskNext]_taskVars PROVE Contract!Next \/ UNCHANGED Contract!vars
  OBVIOUS
<1> USE DEF Given
<1>0. /\ ToSet(items) \subseteq submitted /\ completed \subseteq submitted
      /\ ToSet(items) \cap (ran \cup completed) = {}
  BY DEF TaskInv, NoTaskForgotten, Queued
<1>1. ASSUME NEW c \in Client, NEW i \in Task, Schedule(c, i)
      PROVE  Contract!Next \/ UNCHANGED Contract!vars
  <2>1. /\ i \notin submitted /\ submitted' = submitted \cup {i}
        /\ UNCHANGED <<stopRequested, wtask, ran>>
    BY <1>1 DEF Schedule, ScheduleStopped, ScheduleThrows, SchedulePush, Enter, queueVars,
                workerVars
  <2>2. i \notin ToSet(items) /\ i \notin ran /\ ran \subseteq submitted
    BY <2>1, <1>0, TaskAssumption DEF TaskInv, TaskTypeOK, Taken, NoTaskForgotten
  <2>3. Contract!Fresh(i)
    BY <2>1, <2>2, SameOperators DEF Contract!Fresh
  <2>4. CASE ScheduleStopped(c, i) \/ ScheduleThrows(c, i)
    <3>1. items' = items /\ completed' \in {completed, completed \cup {i}}
      BY <2>4 DEF ScheduleStopped, ScheduleThrows, queueVars
    <3>2. Given' = Given \cup {i}
      BY <2>1, <2>2, <3>1
    <3>3. Contract!Refuse(i)
      BY <2>1, <2>3, <3>1, <3>2 DEF Contract!Refuse
    <3> QED BY <3>3 DEF Contract!Next
  <2>5. CASE SchedulePush(c, i)
    <3>1. items' = Append(items, i) /\ completed' = completed /\ ~stopRequested
      BY <2>5 DEF SchedulePush, Enter
    <3>2. ToSet(items') = ToSet(items) \cup {i}
      BY <3>1, AppendNode DEF TaskInv, TaskTypeOK
    <3>3. Given' = Given
      BY <2>1, <3>2
    <3>4. Contract!Accept(i)
      BY <2>1, <2>3, <3>1, <3>3 DEF Contract!Accept
    <3> QED BY <3>4 DEF Contract!Next
  <2> QED BY <1>1, <2>4, <2>5 DEF Schedule
<1>2. ASSUME NEW c \in Client, ScheduleEnd(c)
      PROVE  Contract!Next \/ UNCHANGED Contract!vars
  <2>1. UNCHANGED <<items, stopRequested, wtask, ran, submitted>>
    BY <1>2 DEF ScheduleEnd, queueVars
  <2>2. CASE cpc[c] = "Refuse"
    <3>1. completed' = completed \cup {ctask[c]} /\ ctask[c] \in Refused /\ ctask[c] \in Task
      BY <1>2, <2>2, RefusedTask DEF ScheduleEnd
    <3>2. ctask[c] \in Given
      BY <3>1 DEF TaskInv, NoTaskForgotten, Queued, GivenUp
    <3>3. CASE ctask[c] \in completed
      BY <2>1, <3>1, <3>3 DEF Contract!vars
    <3>4. CASE ctask[c] \notin completed
      <4>1. Contract!Complete(ctask[c])
        BY <2>1, <3>1, <3>2, <3>4 DEF Contract!Complete
      <4> QED BY <3>1, <4>1 DEF Contract!Next
    <3> QED BY <3>3, <3>4
  <2>3. CASE cpc[c] # "Refuse"
    BY <1>2, <2>1, <2>3 DEF ScheduleEnd, Contract!vars
  <2> QED BY <2>2, <2>3
<1>3. ASSUME NEW c \in Client, NEW i \in Task, Cancel(c, i)
      PROVE  Contract!Next \/ UNCHANGED Contract!vars
  <2>1. /\ i \in ToSet(items) /\ completed' = completed \cup {i}
        /\ items' = RemoveFirst(items, i)
        /\ UNCHANGED <<stopRequested, wtask, ran, submitted>>
    BY <1>3 DEF Cancel, workerVars, clientVars
  <2>2. ToSet(items') = ToSet(items) \ {i}
    BY <2>1, RemoveNode DEF TaskInv, TaskTypeOK, Queued
  <2>3. Given' = Given \cup {i}
    BY <1>0, <2>1, <2>2
  <2>4. Contract!Withdraw(i)
    BY <2>1, <2>3, SameOperators DEF Contract!Withdraw
  <2> QED BY <2>4 DEF Contract!Next
<1>4. CASE PopItem /\ wtask' # wtask
  <2>1. /\ qpc = "PopItem" /\ items # <<>>
        /\ wtask' = Head(items) /\ ran' = ran \cup {Head(items)} /\ items' = Tail(items)
        /\ UNCHANGED <<stopRequested, completed, submitted>>
    BY <1>4 DEF PopItem, clientVars
  <2>2. wtask = NoTask
    BY <2>1 DEF TaskInv, Taken
  <2>3. ToSet(items) = ToSet(items') \cup {Head(items)}
    BY <2>1, TailNode DEF TaskInv, TaskTypeOK
  <2>4. Given' = Given
    BY <2>1, <2>3
  <2>5. Contract!Start
    BY <2>1, <2>2, <2>4 DEF Contract!Start
  <2> QED BY <2>5 DEF Contract!Next
<1>5. CASE PopItem /\ wtask' = wtask
  <2>1. wtask = NoTask
    BY <1>5 DEF PopItem, TaskInv, Taken
  <2>2. ASSUME items # <<>>, wtask' = Head(items) PROVE FALSE
    <3>1. Head(items) \in Task
      BY <2>2, TailNode DEF TaskInv, TaskTypeOK
    <3> QED BY <1>5, <2>1, <2>2, <3>1, TaskAssumption
  <2>3. UNCHANGED <<items, wtask, ran, completed, stopRequested, submitted>>
    BY <1>5, <2>2 DEF PopItem, clientVars
  <2> QED BY <2>3 DEF Contract!vars
<1>6. CASE Invoke
  <2>1. /\ wtask' = NoTask /\ completed' = completed \cup {wtask} /\ wtask # NoTask
        /\ UNCHANGED <<items, stopRequested, ran, submitted>>
    BY <1>6 DEF Invoke, queueVars, clientVars, TaskInv, Taken
  <2>2. Contract!Finish
    BY <2>1 DEF Contract!Finish
  <2> QED BY <2>2 DEF Contract!Next
<1>7. CASE StopSwap
  <2>1. /\ stopRequested' = TRUE /\ items' = <<>>
        /\ UNCHANGED <<completed, wtask, ran, submitted>>
    BY <1>7 DEF StopSwap, workerVars, clientVars
  <2>2. ToSet(items') = {}
    BY <2>1, EmptySeq DEF ToSet
  <2>3. Given' = Given \cup ToSet(items)
    BY <1>0, <2>1, <2>2
  <2>4. Contract!Stop
    BY <2>1, <2>3, SameOperators DEF Contract!Stop
  <2> QED BY <2>4 DEF Contract!Next
<1>8. CASE StopCancel
  <2>1. /\ pending # <<>> /\ completed' = completed \cup {Head(pending)}
        /\ UNCHANGED <<items, stopRequested, wtask, ran, submitted>>
    BY <1>8 DEF StopCancel, queueVars, workerVars, clientVars
  <2>2. Head(pending) \in ToSet(pending) /\ Head(pending) \in Task
    BY <2>1, TailNode DEF TaskInv, TaskTypeOK
  <2>3. Head(pending) \in Given
    BY <2>2 DEF TaskInv, NoTaskForgotten, Queued, GivenUp
  <2>4. CASE Head(pending) \in completed
    BY <2>1, <2>4 DEF Contract!vars
  <2>5. CASE Head(pending) \notin completed
    <3>1. Contract!Complete(Head(pending))
      BY <2>1, <2>3, <2>5 DEF Contract!Complete
    <3> QED BY <2>2, <3>1 DEF Contract!Next
  <2> QED BY <2>4, <2>5
<1>9. CASE SpuriousWakeup \/ StopNotify \/ StopJoin \/ UNCHANGED taskVars
  <2>1. UNCHANGED <<items, stopRequested, completed, wtask, ran, submitted>>
    BY <1>9 DEF SpuriousWakeup, StopNotify, StopJoin, taskVars, queueVars, workerVars, clientVars
  <2> QED BY <2>1 DEF Contract!vars
<1> QED BY <1>1, <1>2, <1>3, <1>4, <1>5, <1>6, <1>7, <1>8, <1>9 DEF TaskNext, StopStep

(* The queue keeps the promises of TaskContract: tasks run in order, one at a time,  *)
(* at most once, and never after they were withdrawn.                                *)
THEOREM Refinement == TaskSpec => Contract!Spec
<1> QED BY InitMaps, StepMaps, TaskInvariance, PTL DEF TaskSpec, Contract!Spec

(* A task has one fate (TaskContract!OneFate), for any number of tasks and clients.  *)
THEOREM TasksHaveOneFate == TaskSpec => []OneFate
<1>1. ASSUME TaskInv PROVE OneFate
  <2>1. completed \subseteq ran \cup Given /\ completed \cap {wtask} = {}
    BY <1>1, TaskAssumption DEF TaskInv, TaskTypeOK, NoTaskForgotten, Queued, Taken, Given
  <2>2. completed = (ran \ {wtask}) \cup (completed \cap Given)
    BY <1>1, <2>1 DEF TaskInv, Taken, Given
  <2> QED BY <1>1, <2>2, SameOperators DEF TaskInv, Queued, Taken, OneFate, Contract!OneFate, Given
<1> QED BY TaskInvariance, <1>1, PTL

-----------------------------------------------------------------------------
(* The timer queue *)

LEMMA Empty == <<>> \in Seq(Timer) /\ Len(<<>>) = 0 /\ ToSet(<<>>) = {} /\ IsInjective(<<>>)
BY EmptySeq DEF ToSet, IsInjective

LEMMA QueuedTimer == ASSUME NEW q \in Seq(Timer) PROVE ToSet(q) \subseteq Timer
BY ElementOfSeq, LenProperties DEF ToSet

LEMMA NoWakeTyped == NoWake \in [set: BOOLEAN, left: 0..FOREVER] /\ ~NoWake.set
<1>1. 0 \in 0..FOREVER
  BY DelayAssumption
<1> QED BY <1>1 DEF NoWake

Entries == [due: Nat, left: Nat, period: Nat, callback: BOOLEAN]

(* Taking a timer out of the list. *)
LEMMA CancelTimerFacts ==
  ASSUME IInv, NEW t \in Timer, IsQueued(t), CancelTimer(t)
  PROVE  /\ queue' \in Seq(Timer) /\ ToSet(queue') = ToSet(queue) \ {t} /\ queue # <<>>
         /\ ListSound' /\ count' \in Nat
         /\ entry' \in [Timer -> Entries] /\ NotLate'
         /\ \A u \in ToSet(queue') : entry'[u] = entry[u]
<1>1. /\ queue' = RemoveFirst(queue, t) /\ entry' = [entry EXCEPT ![t] = Gone]
      /\ count' = count - 1
  BY DEF CancelTimer
<1>2. t \in ToSet(queue) /\ queue \in Seq(Timer) /\ IsInjective(queue) /\ count = Len(queue)
  BY DEF IsQueued, IInv, TypeOK, ListSound
<1>3. /\ queue' \in Seq(Timer) /\ ToSet(queue') = ToSet(queue) \ {t} /\ IsInjective(queue')
      /\ Len(queue') = Len(queue) - 1
  BY <1>1, <1>2, RemoveNode
<1>4. Len(queue') \in Nat /\ count' = Len(queue')
  BY <1>1, <1>2, <1>3, LenProperties
<1>5. queue # <<>>
  BY <1>2, Empty
<1>6. Gone \in Entries /\ Gone.due <= Gone.left
  BY DEF Gone, Entries
<1>7. entry' \in [Timer -> Entries] /\ NotLate' /\ \A u \in Timer : u # t => entry'[u] = entry[u]
  BY <1>1, <1>6 DEF IInv, TypeOK, NotLate, Entries
<1>8. ToSet(queue') \subseteq Timer \ {t}
  BY <1>2, <1>3, QueuedTimer
<1> QED BY <1>3, <1>4, <1>5, <1>7, <1>8 DEF ListSound

(* A wake-up for a new due time keeps the worker from sleeping past it. *)
LEMMA WakeFacts ==
  ASSUME IInv, NEW delay \in Nat \ {0}, WakeForEarlierTimer(delay)
  PROVE  /\ wake' \in [set: BOOLEAN, left: 0..FOREVER] /\ evUpdate' \in BOOLEAN
         /\ wpc = "Wait" /\ ~evUpdate' =>
              ~evUpdate /\ wake' = wake /\ sleep # FOREVER /\ sleep <= delay
<1>0. /\ wake \in [set: BOOLEAN, left: 0..FOREVER] /\ evUpdate \in BOOLEAN
      /\ sleep \in 0..FOREVER /\ FOREVER \in Nat \ {0, 1}
  BY DelayAssumption DEF IInv, TypeOK
<1>1. CASE wake.set /\ Earlier(delay)
  BY <1>0, <1>1, NoWakeTyped DEF WakeForEarlierTimer
<1>2. CASE ~(wake.set /\ Earlier(delay))
  <2>1. wake' = wake /\ evUpdate' = evUpdate
    BY <1>2 DEF WakeForEarlierTimer, wakeVars
  <2>2. ASSUME wpc = "Wait", ~evUpdate PROVE sleep # FOREVER /\ sleep <= delay
    <3>1. CASE wake.set
      <4>1. ~Earlier(delay)
        BY <1>2, <3>1
      <4>2. wake.left # FOREVER /\ (delay >= FOREVER \/ delay >= sleep)
        BY <1>0, <4>1 DEF Earlier
      <4>3. sleep # FOREVER
        BY <2>2, <3>1, <4>2 DEF IInv, WakeProtocol
      <4> QED BY <1>0, <4>2, <4>3
    <3>2. CASE ~wake.set
      <4>1. sleep = 0
        BY <2>2, <3>2 DEF IInv, WakeProtocol
      <4> QED BY <1>0, <4>1
    <3> QED BY <3>1, <3>2
  <2> QED BY <1>0, <2>1, <2>2
<1> QED BY <1>1, <1>2

(* Setting a timer, whether it is in the list or not. *)
LEMMA SetTimerFacts ==
  ASSUME IInv, NEW t \in Timer, SetTimer(t)
  PROVE  /\ queue' \in Seq(Timer) /\ queue' # <<>>
         /\ ListSound' /\ count' \in Nat
         /\ entry' \in [Timer -> Entries] /\ NotLate'
         /\ wake' \in [set: BOOLEAN, left: 0..FOREVER] /\ evUpdate' \in BOOLEAN
         /\ wpc = "None" => UNCHANGED wakeVars
         /\ wpc = "Wait" /\ ~evUpdate' =>
              /\ ~evUpdate /\ wake' = wake
              /\ \A u \in ToSet(queue') : sleep # FOREVER /\ sleep <= entry'[u].left
<1>0. /\ queue \in Seq(Timer) /\ IsInjective(queue) /\ count = Len(queue) /\ count \in Nat
      /\ entry \in [Timer -> Entries] /\ ToSet(queue) \subseteq Timer
      /\ wake \in [set: BOOLEAN, left: 0..FOREVER] /\ evUpdate \in BOOLEAN
  BY ElementOfSeq DEF IInv, TypeOK, ListSound, ToSet, Entries
<1>1. PICK delay \in Delays, period \in Delays \cup {0}, callback \in BOOLEAN :
        Reschedule(t, delay) \/ Insert(t, delay, period, callback)
  BY DEF SetTimer
<1>2. delay \in Nat \ {0} /\ period \in Nat
  BY DelayAssumption
<1>3. CASE Reschedule(t, delay)
  <2>1. /\ t \in ToSet(queue) /\ WakeForEarlierTimer(delay) /\ UNCHANGED <<queue, count>>
        /\ entry' = [entry EXCEPT ![t].due = delay, ![t].left = delay]
    BY <1>3 DEF Reschedule, IsQueued
  <2>2. /\ entry'[t].due = delay /\ entry'[t].left = delay /\ entry' \in [Timer -> Entries]
        /\ \A u \in Timer : u # t => entry'[u] = entry[u]
    BY <1>0, <1>2, <2>1 DEF Entries
  <2>3. NotLate'
    BY <1>2, <2>2 DEF IInv, NotLate
  <2>4. queue # <<>> /\ wpc # "None"
    BY <2>1, Empty DEF IInv, TimersHaveWorker
  <2>5. /\ wake' \in [set: BOOLEAN, left: 0..FOREVER] /\ evUpdate' \in BOOLEAN
        /\ wpc = "Wait" /\ ~evUpdate' =>
              ~evUpdate /\ wake' = wake /\ sleep # FOREVER /\ sleep <= delay
    BY <1>2, <2>1, WakeFacts
  <2>6. ASSUME wpc = "Wait", ~evUpdate', NEW u \in ToSet(queue')
        PROVE  sleep # FOREVER /\ sleep <= entry'[u].left
    BY <1>0, <2>1, <2>2, <2>5, <2>6 DEF IInv, NoOversleep
  <2>7. ListSound'
    BY <1>0, <2>1 DEF ListSound
  <2> QED BY <1>0, <2>1, <2>2, <2>3, <2>4, <2>5, <2>6, <2>7
<1>4. CASE Insert(t, delay, period, callback)
  <2> DEFINE e == [due |-> delay, left |-> delay, period |-> period, callback |-> callback]
  <2>1. /\ t \notin ToSet(queue) /\ queue' = Append(queue, t) /\ count' = count + 1
        /\ entry' = [entry EXCEPT ![t] = e]
        /\ IF wpc = "None" THEN UNCHANGED wakeVars ELSE WakeForEarlierTimer(delay)
    BY <1>4 DEF Insert, IsQueued
  <2>2. /\ queue' \in Seq(Timer) /\ ToSet(queue') = ToSet(queue) \cup {t} /\ IsInjective(queue')
        /\ Len(queue') = Len(queue) + 1
    BY <1>0, <2>1, AppendNode
  <2>3. ListSound' /\ count' \in Nat /\ queue' # <<>>
    BY <1>0, <2>1, <2>2, Empty DEF ListSound
  <2>4. e \in Entries /\ e.due = delay /\ e.left = delay
    BY <1>2 DEF Entries
  <2> HIDE DEF e
  <2>5. /\ entry' \in [Timer -> Entries] /\ entry'[t] = e
        /\ \A u \in Timer : u # t => entry'[u] = entry[u]
    BY <1>0, <2>1, <2>4
  <2>6. NotLate'
    BY <1>2, <2>4, <2>5 DEF IInv, NotLate
  <2>7. /\ wake' \in [set: BOOLEAN, left: 0..FOREVER] /\ evUpdate' \in BOOLEAN
        /\ wpc = "Wait" /\ ~evUpdate' =>
              ~evUpdate /\ wake' = wake /\ sleep # FOREVER /\ sleep <= delay
    <3>1. CASE wpc = "None"
      BY <1>0, <2>1, <3>1 DEF wakeVars
    <3>2. CASE wpc # "None"
      BY <1>2, <2>1, <3>2, WakeFacts
    <3> QED BY <3>1, <3>2
  <2>8. ASSUME wpc = "Wait", ~evUpdate', NEW u \in ToSet(queue')
        PROVE  sleep # FOREVER /\ sleep <= entry'[u].left
    <3>1. CASE u = t
      BY <2>4, <2>5, <2>7, <2>8, <3>1
    <3>2. CASE u # t
      BY <1>0, <2>2, <2>5, <2>7, <2>8, <3>2 DEF IInv, NoOversleep
    <3> QED BY <3>1, <3>2
  <2> QED BY <2>1, <2>2, <2>3, <2>5, <2>6, <2>7, <2>8
<1> QED BY <1>1, <1>3, <1>4

-----------------------------------------------------------------------------
(* Time *)

LEMMA CloserFacts ==
  /\ \A n \in Nat : Closer(n) \in Nat
  /\ \A m, n \in Nat : m <= n => Closer(m) <= Closer(n) /\ Closer(m) <= n
  /\ \A n \in 0..FOREVER : /\ SleepLess(n) \in 0..FOREVER
                           /\ (SleepLess(n) = FOREVER) = (n = FOREVER)
                           /\ n # FOREVER => SleepLess(n) = Closer(n)
                           /\ n = 0 => SleepLess(n) = 0
BY DelayAssumption DEF Closer, SleepLess

LEMMA TimeStep == ASSUME IInv, Tick \/ AdjustClock PROVE IInv'
<1>0. /\ entry \in [Timer -> Entries] /\ wake \in [set: BOOLEAN, left: 0..FOREVER]
      /\ sleep \in 0..FOREVER /\ ToSet(queue) \subseteq Timer /\ FOREVER \in Nat \ {0, 1}
  BY ElementOfSeq, DelayAssumption DEF IInv, TypeOK, ToSet, Entries
<1>1. /\ UNCHANGED <<queue, count, evUpdate, evStop, stopping, wpc, firing, open, held>>
      /\ wake' = [wake EXCEPT !.left = SleepLess(@)]
  BY DEF Tick, AdjustClock, WakeCloser, handleVars
<1>2. /\ wake' \in [set: BOOLEAN, left: 0..FOREVER] /\ wake'.set = wake.set
      /\ (wake'.left = FOREVER) = (wake.left = FOREVER)
  BY <1>0, <1>1, CloserFacts
<1>3. /\ entry' \in [Timer -> Entries] /\ sleep' \in 0..FOREVER
      /\ \A t \in Timer : entry'[t].due <= entry'[t].left
      /\ (sleep' = FOREVER) = (sleep = FOREVER) /\ (sleep = 0 => sleep' = 0)
      /\ \A t \in Timer : sleep # FOREVER /\ sleep <= entry[t].left => sleep' <= entry'[t].left
  <2>1. \A t \in Timer : entry[t].due \in Nat /\ entry[t].left \in Nat
                         /\ entry[t].due <= entry[t].left
    BY <1>0 DEF Entries, IInv, NotLate
  <2>2. CASE Tick
    <3>1. /\ sleep' = SleepLess(sleep)
          /\ entry' = [t \in Timer |-> [entry[t] EXCEPT !.due = Closer(@), !.left = Closer(@)]]
      BY <2>2 DEF Tick
    <3>2. \A t \in Timer : /\ entry'[t] \in Entries
                           /\ entry'[t].due = Closer(entry[t].due)
                           /\ entry'[t].left = Closer(entry[t].left)
      BY <1>0, <3>1, <2>1, CloserFacts DEF Entries
    <3>3. entry' \in [Timer -> Entries]
      BY <3>1, <3>2
    <3>4. ASSUME NEW t \in Timer, sleep # FOREVER, sleep <= entry[t].left
          PROVE  sleep' <= entry'[t].left
      <4>1. sleep \in Nat /\ entry[t].left \in Nat
        BY <1>0, <2>1
      <4>2. Closer(sleep) <= Closer(entry[t].left)
        BY <3>4, <4>1, CloserFacts
      <4>3. sleep' = Closer(sleep)
        BY <1>0, <3>1, <3>4, CloserFacts
      <4> QED BY <3>2, <4>2, <4>3
    <3>5. \A t \in Timer : entry'[t].due <= entry'[t].left
      BY <2>1, <3>2, CloserFacts
    <3>6. sleep' \in 0..FOREVER /\ (sleep' = FOREVER) = (sleep = FOREVER) /\ (sleep = 0 => sleep' = 0)
      BY <1>0, <3>1, CloserFacts
    <3> QED BY <3>3, <3>4, <3>5, <3>6
  <2>3. CASE AdjustClock
    <3>1. /\ sleep' = sleep
          /\ entry' = [t \in Timer |-> [entry[t] EXCEPT !.due = Closer(@)]]
      BY <2>3 DEF AdjustClock
    <3>2. \A t \in Timer : /\ entry'[t] \in Entries
                           /\ entry'[t].due = Closer(entry[t].due)
                           /\ entry'[t].left = entry[t].left
      BY <1>0, <3>1, <2>1, CloserFacts DEF Entries
    <3>3. entry' \in [Timer -> Entries]
      BY <3>1, <3>2
    <3>4. \A t \in Timer : entry'[t].due <= entry'[t].left
      BY <2>1, <3>2, CloserFacts
    <3> QED BY <1>0, <3>1, <3>2, <3>3, <3>4
  <2> QED BY <2>2, <2>3
<1>4. TypeOK'
  BY <1>1, <1>2, <1>3 DEF IInv, TypeOK, Entries
<1>5. ListSound' /\ TimersHaveWorker' /\ StopProtocol' /\ Firing'
  BY <1>1, <1>2 DEF IInv, ListSound, TimersHaveWorker, StopProtocol, Firing
<1>6. NoOversleep'
  BY <1>0, <1>1, <1>3 DEF IInv, NoOversleep
<1>7. WakeProtocol' /\ NotLate'
  BY <1>1, <1>2, <1>3 DEF IInv, WakeProtocol, NotLate
<1> QED BY <1>4, <1>5, <1>6, <1>7 DEF IInv

-----------------------------------------------------------------------------
(* The clients *)

LEMMA SetStep == ASSUME IInv, NEW t \in Timer, SetWaitableTimer(t) PROVE IInv'
<1>1. /\ ~stopping /\ SetTimer(t) /\ wpc' = (IF wpc = "None" THEN "Sleep" ELSE wpc)
      /\ UNCHANGED <<evStop, stopping, sleep, firing, open, held>>
  BY DEF SetWaitableTimer, handleVars
<1>2. /\ queue' \in Seq(Timer) /\ queue' # <<>>
      /\ ListSound' /\ count' \in Nat
      /\ entry' \in [Timer -> Entries] /\ NotLate'
      /\ wake' \in [set: BOOLEAN, left: 0..FOREVER] /\ evUpdate' \in BOOLEAN
      /\ wpc = "None" => UNCHANGED wakeVars
      /\ wpc = "Wait" /\ ~evUpdate' =>
           /\ ~evUpdate /\ wake' = wake
           /\ \A u \in ToSet(queue') : sleep # FOREVER /\ sleep <= entry'[u].left
  BY <1>1, SetTimerFacts
<1>3. TypeOK'
  BY <1>1, <1>2 DEF IInv, TypeOK, Entries
<1>4. TimersHaveWorker' /\ StopProtocol' /\ Firing'
  BY <1>1 DEF IInv, TimersHaveWorker, StopProtocol, Firing
<1>5. NoOversleep' /\ WakeProtocol'
  BY <1>1, <1>2 DEF IInv, NoOversleep, WakeProtocol
<1> QED BY <1>2, <1>3, <1>4, <1>5 DEF IInv

(* A step that takes t out of the list and leaves the wake-ups and the worker alone. *)
LEMMA RemovalStep ==
  ASSUME IInv, NEW t \in Timer, IsQueued(t), CancelTimer(t), ~stopping,
         UNCHANGED <<evUpdate, wake, sleep, wpc, firing, held>>,
         open' \subseteq open,
         stopping' = evStop', stopping' \in BOOLEAN, stopping' => queue' = <<>>
  PROVE  IInv'
<1>1. /\ queue' \in Seq(Timer) /\ ToSet(queue') = ToSet(queue) \ {t} /\ queue # <<>>
      /\ ListSound' /\ count' \in Nat
      /\ entry' \in [Timer -> Entries] /\ NotLate'
      /\ \A u \in ToSet(queue') : entry'[u] = entry[u]
  BY CancelTimerFacts
<1>2. TypeOK'
  BY <1>1 DEF IInv, TypeOK, Entries
<1>3. wpc \notin {"None", "Exited", "JoinsItself"}
  BY <1>1 DEF IInv, TimersHaveWorker
<1>4. TimersHaveWorker' /\ StopProtocol' /\ Firing'
  BY <1>3 DEF IInv, TimersHaveWorker, StopProtocol, Firing
<1>5. NoOversleep' /\ WakeProtocol'
  BY <1>1 DEF IInv, NoOversleep, WakeProtocol
<1> QED BY <1>1, <1>2, <1>4, <1>5 DEF IInv

LEMMA CancelStep ==
  ASSUME IInv, NEW t \in Timer, CancelWaitableTimer(t) \/ CancelLast(t) PROVE IInv'
<1>1. CASE CancelWaitableTimer(t)
  <2>1. /\ IsQueued(t) /\ CancelTimer(t) /\ ~stopping
        /\ UNCHANGED <<evUpdate, wake, evStop, stopping, sleep, wpc, firing, open, held>>
    BY <1>1 DEF CancelWaitableTimer, wakeVars, handleVars
  <2>2. stopping' = evStop' /\ stopping' \in BOOLEAN /\ ~stopping' /\ open' \subseteq open
    BY <2>1 DEF IInv, StopProtocol, TypeOK
  <2> QED BY <2>1, <2>2, RemovalStep
<1>2. CASE CancelLast(t)
  <2>1. /\ IsQueued(t) /\ CancelTimer(t) /\ ~stopping /\ queue' = <<>>
        /\ UNCHANGED <<evUpdate, wake, sleep, wpc, firing, open, held>>
        /\ stopping' = TRUE /\ evStop' = TRUE
    BY <1>2 DEF CancelLast, wakeVars, handleVars
  <2> QED BY <2>1, RemovalStep
<1> QED BY <1>1, <1>2

LEMMA CloseStep == ASSUME IInv, NEW t \in Timer, OnCloseHandle(t) PROVE IInv'
<1>1. /\ ~stopping /\ open' = open \ {t}
      /\ UNCHANGED <<evUpdate, wake, evStop, stopping, sleep, wpc, firing, held>>
      /\ evStop = stopping /\ stopping \in BOOLEAN
  BY DEF OnCloseHandle, wakeVars, IInv, StopProtocol, TypeOK
<1>2. CASE IsQueued(t)
  <2>1. CancelTimer(t)
    BY <1>2 DEF OnCloseHandle
  <2>2. stopping' = evStop' /\ stopping' \in BOOLEAN /\ ~stopping' /\ open' \subseteq open
    BY <1>1
  <2> QED BY <1>1, <1>2, <2>1, <2>2, RemovalStep
<1>3. CASE ~IsQueued(t)
  <2>1. UNCHANGED <<queue, entry, count>>
    BY <1>3 DEF OnCloseHandle, listVars
  <2> QED BY <1>1, <2>1 DEF IInv, TypeOK, ListSound, TimersHaveWorker, NoOversleep,
              StopProtocol, WakeProtocol, NotLate, Firing
<1> QED BY <1>2, <1>3

LEMMA OtherClientStep == ASSUME IInv, Stop \/ (\E t \in Timer : Drop(t)) PROVE IInv'
<1>1. CASE Stop
  <2>1. /\ stopping /\ ~stopping' /\ ~evStop' /\ queue' = <<>> /\ count' = 0
        /\ entry' = [t \in Timer |-> Gone] /\ wake' = NoWake /\ ~evUpdate'
        /\ stopping' \in BOOLEAN /\ evStop' \in BOOLEAN /\ evUpdate' \in BOOLEAN
        /\ wpc = "Exited" /\ wpc' = "None" /\ sleep' = 0 /\ UNCHANGED <<firing, open, held>>
    BY <1>1 DEF Stop, handleVars
  <2>2. queue' \in Seq(Timer) /\ ListSound'
    BY <2>1, Empty DEF ListSound
  <2>3. Gone \in Entries /\ Gone.due <= Gone.left
    BY DEF Gone, Entries
  <2>4. entry' \in [Timer -> Entries] /\ NotLate'
    BY <2>1, <2>3 DEF NotLate
  <2>5. wake' \in [set: BOOLEAN, left: 0..FOREVER] /\ ~wake'.set /\ sleep' \in 0..FOREVER
    BY <2>1, DelayAssumption DEF NoWake
  <2>6. TypeOK'
    BY <2>1, <2>2, <2>4, <2>5 DEF IInv, TypeOK, Entries
  <2>7. TimersHaveWorker' /\ NoOversleep' /\ StopProtocol' /\ WakeProtocol' /\ Firing'
    BY <2>1, <2>5 DEF IInv, TimersHaveWorker, NoOversleep, StopProtocol, WakeProtocol, Firing
  <2> QED BY <2>2, <2>4, <2>6, <2>7 DEF IInv
<1>2. ASSUME NEW t \in Timer, Drop(t) PROVE IInv'
  BY <1>2 DEF Drop, listVars, wakeVars, IInv, TypeOK, ListSound, TimersHaveWorker, NoOversleep,
              StopProtocol, WakeProtocol, NotLate, Firing
<1> QED BY <1>1, <1>2

-----------------------------------------------------------------------------
(* The worker *)

(* The earliest due time is a lower bound of the due times. *)
LEMMA Earliest ==
  ASSUME IInv, queue # <<>>
  PROVE  EarliestDue \in Nat /\ \A t \in ToSet(queue) : EarliestDue <= entry[t].due
<1> DEFINE T == {entry[t].due : t \in ToSet(queue)}
<1>1. ToSet(queue) \subseteq Timer
  BY ElementOfSeq DEF IInv, TypeOK, ToSet
<1>2. T \in SUBSET Nat
  BY <1>1 DEF IInv, TypeOK
<1>3. T # {}
  <2>1. 1 \in DOMAIN queue
    BY LenProperties, EmptySeq DEF IInv, TypeOK
  <2> QED BY <2>1 DEF ToSet
<1>4. \A n \in Nat : (\A t \in ToSet(queue) : n <= entry[t].due) = (\A m \in T : n <= m)
  OBVIOUS
<1>5. EarliestDue = CHOOSE n \in T : \A m \in T : n <= m
  BY DEF EarliestDue
<1> HIDE DEF T
<1>6. (CHOOSE n \in T : \A m \in T : n <= m) \in T
      /\ \A m \in T : (CHOOSE n \in T : \A k \in T : n <= k) <= m
  BY <1>2, <1>3, LeastIndex
<1> QED BY <1>2, <1>4, <1>5, <1>6 DEF T

LEMMA SleepStep == ASSUME IInv, GetSleepTime PROVE IInv'
<1>1. /\ UNCHANGED <<queue, entry, count, evUpdate, evStop, stopping, firing, open, held>>
      /\ wpc = "Sleep" /\ wpc' = "Wait" /\ ~stopping
  BY DEF GetSleepTime, Becomes, listVars, handleVars
<1>2. FOREVER \in Nat \ {0, 1}
  BY DelayAssumption
<1>3. /\ sleep' \in 0..FOREVER /\ wake' \in [set: BOOLEAN, left: 0..FOREVER]
      /\ wake'.set \/ sleep' = 0
      /\ wake'.set => (wake'.left = FOREVER) = (sleep' = FOREVER)
      /\ \A t \in ToSet(queue) : sleep' # FOREVER /\ sleep' <= entry[t].left
  <2>1. CASE queue = <<>>
    <3>1. sleep' = FOREVER /\ wake' = Wake(FOREVER) /\ ToSet(queue) = {}
      BY <2>1, Empty DEF GetSleepTime
    <3> QED BY <1>2, <3>1 DEF Wake
  <2>2. CASE queue # <<>>
    <3> DEFINE n == EarliestDue
    <3>1. n \in Nat /\ \A t \in ToSet(queue) : n <= entry[t].due
      BY <2>2, Earliest
    <3>2. sleep' = Bounded(n) /\ wake' = IF n = 0 THEN NoWake ELSE Wake(Bounded(n))
      BY <2>2 DEF GetSleepTime
    <3> HIDE DEF n
    <3>3. /\ Bounded(n) \in 0..FOREVER /\ Bounded(n) # FOREVER /\ Bounded(n) <= n
          /\ n = 0 => Bounded(n) = 0
      BY <1>2, <3>1 DEF Bounded
    <3>4. \A t \in ToSet(queue) : entry[t].due \in Nat /\ entry[t].left \in Nat
                                  /\ entry[t].due <= entry[t].left
      BY ElementOfSeq DEF IInv, TypeOK, NotLate, ToSet
    <3>5. \A t \in ToSet(queue) : Bounded(n) <= entry[t].left
      BY <1>2, <3>1, <3>3, <3>4
    <3> QED BY <1>2, <3>2, <3>3, <3>5 DEF NoWake, Wake
  <2> QED BY <2>1, <2>2
<1>4. TypeOK'
  BY <1>1, <1>3 DEF IInv, TypeOK
<1>5. ListSound' /\ TimersHaveWorker' /\ StopProtocol' /\ NotLate' /\ Firing'
  BY <1>1 DEF IInv, ListSound, TimersHaveWorker, StopProtocol, NotLate, Firing
<1>6. NoOversleep' /\ WakeProtocol'
  BY <1>1, <1>3 DEF NoOversleep, WakeProtocol
<1> QED BY <1>4, <1>5, <1>6 DEF IInv

LEMMA SignallStep == ASSUME IInv, SignallOne PROVE IInv'
<1>1. PICK k \in DOMAIN queue :
        /\ entry[queue[k]].due = 0
        /\ IF entry[queue[k]].period = 0
           THEN CancelTimer(queue[k])
           ELSE /\ queue' = Requeue(queue[k])
                /\ entry' = [entry EXCEPT ![queue[k]].due = entry[queue[k]].period,
                                          ![queue[k]].left = entry[queue[k]].period]
                /\ UNCHANGED count
        /\ firing' = [timer |-> queue[k], periodic |-> entry[queue[k]].period # 0]
        /\ wpc' = IF entry[queue[k]].callback THEN "Call" ELSE "Fire"
  BY DEF SignallOne, Becomes
<1> DEFINE t == queue[k]
<1>2. /\ UNCHANGED <<evUpdate, evStop, stopping, sleep, open, held>> /\ wake' = NoWake
      /\ wpc = "Signal" /\ ~stopping
  BY DEF SignallOne, handleVars
<1>3. t \in Timer /\ t \in ToSet(queue)
  BY ElementOfSeq, LenProperties DEF ToSet, IInv, TypeOK
<1>4. /\ queue' \in Seq(Timer) /\ ListSound' /\ count' \in Nat
      /\ entry' \in [Timer -> Entries] /\ NotLate'
  <2>1. CASE entry[t].period = 0
    BY <1>1, <1>3, <2>1, CancelTimerFacts DEF IsQueued
  <2>2. CASE entry[t].period # 0
    <3> DEFINE r == RemoveFirst(queue, t)
    <3>1. queue \in Seq(Timer) /\ IsInjective(queue) /\ count = Len(queue) /\ count \in Nat
      BY DEF IInv, TypeOK, ListSound
    <3>2. /\ r \in Seq(Timer) /\ ToSet(r) = ToSet(queue) \ {t} /\ IsInjective(r)
          /\ Len(r) = Len(queue) - 1
      BY <1>3, <3>1, RemoveNode
    <3>3. queue' = Append(r, t) /\ count' = count
      BY <1>1, <2>2 DEF Requeue
    <3> HIDE DEF r
    <3>4. queue' \in Seq(Timer) /\ IsInjective(queue') /\ Len(queue') = Len(r) + 1
      BY <1>3, <3>2, <3>3, AppendNode
    <3>5. ListSound'
      BY <3>1, <3>2, <3>3, <3>4 DEF ListSound
    <3>6. entry \in [Timer -> Entries] /\ entry[t].period \in Nat
      BY <1>3 DEF IInv, TypeOK, Entries
    <3>7. entry' = [entry EXCEPT ![t].due = entry[t].period, ![t].left = entry[t].period]
      BY <1>1, <2>2
    <3>8. /\ entry' \in [Timer -> Entries] /\ entry'[t].due = entry'[t].left
          /\ entry'[t].due \in Nat /\ \A u \in Timer : u # t => entry'[u] = entry[u]
      BY <1>3, <3>6, <3>7 DEF Entries
    <3>9. NotLate'
      BY <3>8 DEF IInv, NotLate
    <3> QED BY <3>1, <3>3, <3>4, <3>5, <3>8, <3>9
  <2> QED BY <2>1, <2>2
<1>5. firing' \in [timer: Timer \cup {NoTimer}, periodic: BOOLEAN] /\ firing'.timer # NoTimer
  BY <1>1, <1>3, TimerAssumption
<1>6. wake' \in [set: BOOLEAN, left: 0..FOREVER] /\ ~wake'.set
  BY <1>2, NoWakeTyped
<1>7. wpc' \in {"Call", "Fire"}
  BY <1>1
<1>8. TypeOK'
  BY <1>2, <1>4, <1>5, <1>6, <1>7 DEF IInv, TypeOK, Entries
<1>9. TimersHaveWorker' /\ StopProtocol' /\ Firing' /\ NoOversleep' /\ WakeProtocol'
  BY <1>2, <1>5, <1>7 DEF IInv, TimersHaveWorker, StopProtocol, Firing, NoOversleep, WakeProtocol
<1> QED BY <1>4, <1>8, <1>9 DEF IInv

LEMMA CallbackStep == ASSUME IInv, NEW t \in Timer \cup {NoTimer}, CallbackOp(t) PROVE IInv'
<1> DEFINE last == queue' = <<>> /\ queue # <<>>
<1>1. /\ wpc = "CallWaits" /\ ~stopping /\ t \in open \cup {firing.timer}
      /\ wpc' = (IF last THEN "JoinsItself" ELSE "Fire") /\ stopping' = last /\ evStop' = last
      /\ UNCHANGED <<sleep, firing, open, held>>
      /\ \/ SetTimer(t)
         \/ IsQueued(t) /\ CancelTimer(t) /\ UNCHANGED wakeVars
         \/ UNCHANGED <<listVars, wakeVars>>
  BY DEF CallbackOp, Becomes, handleVars
<1>2. t \in Timer
  <2>1. firing.timer # NoTimer /\ firing.timer \in Timer \cup {NoTimer}
    BY <1>1 DEF IInv, Firing, TypeOK
  <2> QED BY <1>1, <2>1 DEF IInv, TypeOK
<1>3. /\ queue' \in Seq(Timer) /\ ListSound' /\ count' \in Nat
      /\ entry' \in [Timer -> Entries] /\ NotLate'
      /\ wake' \in [set: BOOLEAN, left: 0..FOREVER] /\ evUpdate' \in BOOLEAN
  <2>1. CASE SetTimer(t)
    BY <1>2, <2>1, SetTimerFacts
  <2>2. CASE IsQueued(t) /\ CancelTimer(t) /\ UNCHANGED wakeVars
    <3>1. wake' \in [set: BOOLEAN, left: 0..FOREVER] /\ evUpdate' \in BOOLEAN
      BY <2>2 DEF wakeVars, IInv, TypeOK
    <3> QED BY <1>2, <2>2, <3>1, CancelTimerFacts
  <2>3. CASE UNCHANGED <<listVars, wakeVars>>
    BY <2>3 DEF listVars, wakeVars, IInv, TypeOK, ListSound, NotLate, Entries
  <2> QED BY <1>1, <2>1, <2>2, <2>3
<1>4. last \in BOOLEAN /\ (last => queue' = <<>>) /\ (~last => (queue' = <<>> => queue = <<>>))
  OBVIOUS
<1> HIDE DEF last
<1>5. TypeOK'
  BY <1>1, <1>3, <1>4 DEF IInv, TypeOK, Entries
<1>6. TimersHaveWorker' /\ StopProtocol' /\ Firing' /\ NoOversleep' /\ WakeProtocol'
  BY <1>1, <1>4 DEF IInv, TimersHaveWorker, StopProtocol, Firing, NoOversleep, WakeProtocol
<1> QED BY <1>3, <1>5, <1>6 DEF IInv

LEMMA OtherWorkerStep ==
  ASSUME IInv, \/ Exit \/ WaitEnds \/ SignallTimersGivesUp \/ NothingDue
               \/ CallbackReturns \/ CallbackCalls \/ SignalFromTimerQueue
  PROVE  IInv'
<1>1. /\ UNCHANGED <<queue, entry, count, evStop, stopping, sleep, open, held>>
      /\ wpc' \in {"Exited", "Signal", "Sleep", "Fire", "CallWaits"}
      /\ wpc' = "Exited" => evStop
      /\ wpc # "None"
      /\ evUpdate' \in BOOLEAN
      /\ wake' \in {wake, NoWake}
  BY DEF Exit, WaitEnds, SignallTimersGivesUp, NothingDue, CallbackReturns, CallbackCalls,
         SignalFromTimerQueue, TryLockFails, Becomes, listVars, wakeVars, handleVars, IInv, TypeOK
<1>2. /\ firing' \in [timer: Timer \cup {NoTimer}, periodic: BOOLEAN]
      /\ Firing'
  <2>1. CASE SignalFromTimerQueue
    BY <2>1 DEF SignalFromTimerQueue, Becomes, Firing, NoFiring
  <2>2. CASE CallbackReturns \/ CallbackCalls
    BY <2>2 DEF CallbackReturns, CallbackCalls, Becomes, IInv, TypeOK, Firing
  <2>3. CASE Exit \/ WaitEnds \/ SignallTimersGivesUp \/ NothingDue
    <3>1. firing' = firing /\ wpc \in {"Sleep", "Wait", "Signal"} /\ wpc' \in {"Exited", "Signal", "Sleep"}
      BY <2>3 DEF Exit, WaitEnds, SignallTimersGivesUp, NothingDue, Becomes
    <3> QED BY <3>1 DEF IInv, TypeOK, Firing
  <2> QED BY <2>1, <2>2, <2>3
<1>3. wake' \in [set: BOOLEAN, left: 0..FOREVER]
  BY <1>1, NoWakeTyped DEF IInv, TypeOK
<1>4. TypeOK'
  BY <1>1, <1>2, <1>3 DEF IInv, TypeOK
<1>5. ListSound' /\ NotLate' /\ NoOversleep' /\ WakeProtocol'
  BY <1>1 DEF IInv, ListSound, NotLate, NoOversleep, WakeProtocol
<1>6. TimersHaveWorker' /\ StopProtocol'
  BY <1>1 DEF IInv, TimersHaveWorker, StopProtocol
<1> QED BY <1>2, <1>4, <1>5, <1>6 DEF IInv

-----------------------------------------------------------------------------
LEMMA InitStep == Init => IInv
<1> SUFFICES ASSUME Init PROVE IInv
  OBVIOUS
<1>1. queue \in Seq(Timer) /\ ListSound
  BY Empty DEF Init, ListSound
<1>2. entry \in [Timer -> Entries] /\ NotLate
  BY DEF Init, Gone, Entries, NotLate
<1>3. TypeOK
  <2>1. firing \in [timer: Timer \cup {NoTimer}, periodic: BOOLEAN]
    BY DEF Init, NoFiring
  <2>2. wake \in [set: BOOLEAN, left: 0..FOREVER] /\ sleep \in 0..FOREVER
    BY DelayAssumption, NoWakeTyped DEF Init
  <2> QED BY <1>1, <1>2, <2>1, <2>2 DEF Init, TypeOK, Entries
<1>4. TimersHaveWorker /\ NoOversleep /\ WakeProtocol /\ Firing
  BY DEF Init, TimersHaveWorker, NoOversleep, WakeProtocol, Firing, NoFiring
<1>5. StopProtocol
  BY NoWakeTyped DEF Init, StopProtocol
<1> QED BY <1>1, <1>2, <1>3, <1>4, <1>5 DEF IInv

LEMMA NextStep == IInv /\ [Next]_vars => IInv'
<1> SUFFICES ASSUME IInv, [Next]_vars PROVE IInv'
  OBVIOUS
<1>1. CASE UNCHANGED vars
  BY <1>1 DEF vars, listVars, wakeVars, handleVars, IInv, TypeOK, ListSound, TimersHaveWorker,
              NoOversleep, StopProtocol, WakeProtocol, NotLate, Firing
<1>2. ASSUME NEW t \in Timer, ClientStep(t) PROVE IInv'
  BY <1>2, SetStep, CancelStep, CloseStep, OtherClientStep DEF ClientStep
<1>3. CASE WorkerStep
  BY <1>3, SleepStep, SignallStep, CallbackStep, OtherWorkerStep DEF WorkerStep
<1> QED BY <1>1, <1>2, <1>3, TimeStep, OtherClientStep, OtherWorkerStep DEF Next

(* The inductive invariant of the timer queue, of which the next two are parts. *)
THEOREM Invariance == Spec => []IInv
<1> QED BY InitStep, NextStep, PTL DEF Spec

(* The worker never sleeps past the moment a timer was promised for without an     *)
(* update on its way, whatever was set, cancelled or closed while it was asleep.   *)
THEOREM NeverOversleeps == Spec => []NoOversleep
<1>1. IInv => NoOversleep
  BY DEF IInv
<1> QED BY Invariance, <1>1, PTL

(* A timer that is set always has a thread that will signal it. *)
THEOREM TimersAreServed == Spec => []TimersHaveWorker
<1>1. IInv => TimersHaveWorker
  BY DEF IInv
<1> QED BY Invariance, <1>1, PTL

(* QueuedTimers counts the list. *)
THEOREM ListIsSound == Spec => []ListSound
<1>1. IInv => ListSound
  BY DEF IInv
<1> QED BY Invariance, <1>1, PTL
=============================================================================
