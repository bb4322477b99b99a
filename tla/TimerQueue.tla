----------------------------- MODULE TimerQueue -----------------------------
(***************************************************************************)
(* Waitable timers (Timer/API.cpp, TimerQueue.cpp, WaitableTimer.cpp): a   *)
(* list of timers, one worker thread that sleeps until the earliest due    *)
(* time, the callbacks it runs, and the clients that set, cancel and close *)
(* timers.  The functions of the API hold TimerQueue::Lock throughout, so  *)
(* each is one step, but for the CancelWaitableTimer that empties the list *)
(* and joins the worker under the lock: `stopping' is the time it does.    *)
(*                                                                         *)
(* Times are what is left until a moment, not moments: Tick brings all of  *)
(* them closer and a moment that has passed is at 0.  Due times and        *)
(* WakeDeadline are wall time, the sleep of the worker and                 *)
(* WakeSteadyDeadline are steady time, and AdjustClock is the wall clock   *)
(* being set forward.  A tick is longer than a step of the worker between  *)
(* reading the clock and beginning its wait.                               *)
(***************************************************************************)
EXTENDS Naturals, Sequences, SequencesExt, FiniteSets

CONSTANTS
  Timer,        \* WaitableTimer objects
  Droppable,    \* the timers no HEvent of which is kept by the clients
  Delays,       \* due times and periods given to SetWaitableTimer
  FOREVER,      \* the sleep that never ends; finite sleeps are shorter
  CallbackOps,  \* what a callback calls: "Set", "Cancel"
  NoTimer

ASSUME TimerAssumption == NoTimer \notin Timer /\ Droppable \subseteq Timer
ASSUME DelayAssumption == Delays \subseteq Nat \ {0} /\ FOREVER \in Nat \ {0, 1}

VARIABLES
  queue,     \* TimerQueue::Queue
  entry,     \* the fields of the Timer of a queued timer
  count,     \* QueuedTimers
  evUpdate,  \* the signal of EvUpdate
  evStop,    \* the signal of EvStop
  stopping,  \* a client holds Lock and joins the worker
  wake,      \* WakeDeadline, FOREVER for UINT64_MAX
  sleep,     \* what is left of the worker's wait; WakeSteadyDeadline
  wpc,       \* where the worker is; "None" when there is no thread
  firing,    \* the timer it has taken out of the list, and whether it is periodic
  open,      \* the timers a client can use
  held       \* the timers a client has an HEvent of

listVars   == <<queue, entry, count>>
wakeVars   == <<evUpdate, wake>>
handleVars == <<open, held>>
vars == <<listVars, wakeVars, evStop, stopping, sleep, wpc, firing, handleVars>>

NoWake == [set |-> FALSE, left |-> 0]                \* WakeDeadline == 0
(* Mutant of Wake: a sleep that never ends is taken for no sleep. *)
WakeUnlessForEver(n) == [set |-> n # FOREVER, left |-> n]
Wake(n) == [set |-> TRUE, left |-> n]
Gone == [due |-> 0, left |-> 0, period |-> 0, callback |-> FALSE]
NoFiring == [timer |-> NoTimer, periodic |-> FALSE]

IsQueued(t) == t \in ToSet(queue)
InCallback == wpc \in {"Call", "CallWaits"}

(* the references to t: the clients', the list's, and those the worker still holds *)
Alive(t) ==
  \/ t \in held \/ IsQueued(t)
  \/ firing.timer = t /\ (firing.periodic \/ InCallback)

Init ==
  /\ queue = <<>> /\ entry = [t \in Timer |-> Gone] /\ count = 0
  /\ evUpdate = FALSE /\ evStop = FALSE /\ stopping = FALSE
  /\ wake = NoWake /\ sleep = 0
  /\ wpc = "None" /\ firing = NoFiring
  /\ open = Timer /\ held = Timer

-----------------------------------------------------------------------------
(* Time *)

Closer(n) == IF n = 0 THEN 0 ELSE n - 1

(* FOREVER never ends *)
SleepLess(n) == IF n = FOREVER THEN n ELSE Closer(n)

WakeCloser == [wake EXCEPT !.left = SleepLess(@)]

Tick ==
  /\ entry' = [t \in Timer |->
                 [entry[t] EXCEPT !.due = Closer(@), !.left = Closer(@)]]
  /\ wake' = WakeCloser
  /\ sleep' = SleepLess(sleep)
  /\ UNCHANGED <<queue, count, evUpdate, evStop, stopping, wpc, firing, handleVars>>

(* the wall clock is set forward; `left' and the sleep are steady time *)
AdjustClock ==
  /\ entry' = [t \in Timer |-> [entry[t] EXCEPT !.due = Closer(@)]]
  /\ wake' = WakeCloser
  /\ UNCHANGED <<queue, count, evUpdate, evStop, stopping, sleep, wpc, firing, handleVars>>

-----------------------------------------------------------------------------
(* What is done under Lock, by a client or by a callback *)

Earlier(delay) ==
  \/ wake.left = FOREVER \/ delay < wake.left
  \/ delay < FOREVER /\ delay < sleep

WakeForEarlierTimer(delay) ==
  IF wake.set /\ Earlier(delay)
  THEN wake' = NoWake /\ evUpdate' = TRUE
  ELSE UNCHANGED wakeVars

(* the timer is in the list: its period and callback stay as they are *)
Reschedule(t, delay) ==
  /\ IsQueued(t)
  /\ entry' = [entry EXCEPT ![t].due = delay, ![t].left = delay]
  /\ WakeForEarlierTimer(delay)
  /\ UNCHANGED <<queue, count>>

Insert(t, delay, period, callback) ==
  /\ ~IsQueued(t)
  /\ queue' = Append(queue, t)
  /\ count' = count + 1
  /\ entry' = [entry EXCEPT ![t] =
                 [due |-> delay, left |-> delay, period |-> period, callback |-> callback]]
  /\ IF wpc = "None" THEN UNCHANGED wakeVars ELSE WakeForEarlierTimer(delay)

SetTimer(t) ==
  \E delay \in Delays, period \in Delays \cup {0}, callback \in BOOLEAN :
    Reschedule(t, delay) \/ Insert(t, delay, period, callback)

(* the Timer of t is taken out of the list and destroyed *)
CancelTimer(t) ==
  /\ queue' = RemoveFirst(queue, t)
  /\ entry' = [entry EXCEPT ![t] = Gone]
  /\ count' = count - 1

-----------------------------------------------------------------------------
(* The clients *)

SetWaitableTimer(t) ==
  /\ ~stopping /\ t \in open
  /\ SetTimer(t)
  /\ wpc' = IF wpc = "None" THEN "Sleep" ELSE wpc    \* Thread == nullptr
  /\ UNCHANGED <<evStop, stopping, sleep, firing, handleVars>>

CancelWaitableTimer(t) ==
  /\ ~stopping /\ t \in open /\ IsQueued(t)     \* otherwise it returns false
  /\ CancelTimer(t) /\ queue' # <<>>
  /\ UNCHANGED <<wakeVars, evStop, stopping, sleep, wpc, firing, handleVars>>

(* the list is empty now: queue.reset(), as far as the join in ~TimerQueue *)
CancelLast(t) ==
  /\ ~stopping /\ t \in open /\ IsQueued(t)
  /\ CancelTimer(t) /\ queue' = <<>>
  /\ stopping' = TRUE /\ evStop' = TRUE
  /\ UNCHANGED <<wakeVars, sleep, wpc, firing, handleVars>>

(* Mutant of Stop: the thread that was joined is not forgotten. *)
StopKeepsThread ==
  /\ stopping /\ wpc = "Exited"
  /\ stopping' = FALSE /\ evStop' = FALSE
  /\ queue' = <<>> /\ entry' = [t \in Timer |-> Gone] /\ count' = 0
  /\ wake' = NoWake /\ evUpdate' = FALSE
  /\ UNCHANGED <<wpc, sleep, firing, handleVars>>

(* the worker is joined; the next TimerQueue has events of its own *)
Stop ==
  /\ stopping /\ wpc = "Exited"
  /\ stopping' = FALSE /\ evStop' = FALSE
  /\ queue' = <<>> /\ entry' = [t \in Timer |-> Gone] /\ count' = 0
  /\ wake' = NoWake /\ evUpdate' = FALSE
  /\ wpc' = "None" /\ sleep' = 0
  /\ UNCHANGED <<firing, handleVars>>

(* WaitableTimer::OnCloseHandle *)
OnCloseHandle(t) ==
  /\ ~stopping /\ t \in open
  /\ IF IsQueued(t) THEN CancelTimer(t) ELSE UNCHANGED listVars
  /\ open' = open \ {t}
  /\ UNCHANGED <<wakeVars, evStop, stopping, sleep, wpc, firing, held>>

(* the last HEvent of a client goes, with or without CloseHandle *)
Drop(t) ==
  /\ t \in held \cap Droppable
  /\ held' = held \ {t} /\ open' = open \ {t}
  /\ UNCHANGED <<listVars, wakeVars, evStop, stopping, sleep, wpc, firing>>

-----------------------------------------------------------------------------
(* The worker *)

Becomes(l) == wpc' = l

(* Mutant of TryLockFails: EvStop is not looked at. *)
TryLockForEver == FALSE

(* TryLock: the lock is held by who has set EvStop *)
TryLockFails == stopping /\ evStop

EarliestDue == CHOOSE n \in {entry[t].due : t \in ToSet(queue)} :
                 \A t \in ToSet(queue) : n <= entry[t].due

(* long delays are slept in steps *)
Bounded(n) == IF n >= FOREVER THEN FOREVER - 1 ELSE n

(* GetSleepTime, and the wait begins *)
GetSleepTime ==
  /\ wpc = "Sleep" /\ ~stopping
  /\ \/ queue = <<>> /\ sleep' = FOREVER /\ wake' = Wake(FOREVER)
     \/ /\ queue # <<>>
        /\ sleep' = Bounded(EarliestDue)
        /\ wake' = IF EarliestDue = 0 THEN NoWake ELSE Wake(Bounded(EarliestDue))
  /\ Becomes("Wait")
  /\ UNCHANGED <<listVars, evUpdate, evStop, stopping, firing, handleVars>>

Exit ==
  /\ wpc = "Sleep" /\ TryLockFails
  /\ Becomes("Exited")
  /\ UNCHANGED <<listVars, wakeVars, evStop, stopping, sleep, firing, handleVars>>

(* WaitForMultipleObjects; one that times out may have taken the update with it *)
WaitEnds ==
  /\ wpc = "Wait"
  /\ \/ evStop /\ Becomes("Exited") /\ UNCHANGED evUpdate
     \/ evUpdate /\ Becomes("Signal") /\ evUpdate' = FALSE
     \/ sleep = 0 /\ Becomes("Signal") /\ evUpdate' \in {evUpdate, FALSE}
  /\ UNCHANGED <<listVars, wake, evStop, stopping, sleep, firing, handleVars>>

SignallTimersGivesUp ==
  /\ wpc = "Signal" /\ TryLockFails
  /\ Becomes("Sleep")
  /\ UNCHANGED <<listVars, wakeVars, evStop, stopping, sleep, firing, handleVars>>

NothingDue ==
  /\ wpc = "Signal" /\ ~stopping
  /\ \A t \in ToSet(queue) : entry[t].due > 0
  /\ wake' = NoWake
  /\ Becomes("Sleep")
  /\ UNCHANGED <<listVars, evUpdate, evStop, stopping, sleep, firing, handleVars>>

(* Mutant of Requeue: a periodic timer goes back to the head of the list. *)
RequeueFirst(t) == <<t>> \o RemoveFirst(queue, t)
Requeue(t) == Append(RemoveFirst(queue, t), t)

(* the first timer of the list that is due leaves it, or is due a period from now *)
SignallOne ==
  /\ wpc = "Signal" /\ ~stopping
  /\ \E k \in DOMAIN queue :
       LET t == queue[k]
           period == entry[t].period
       IN  /\ entry[t].due = 0
           /\ \A j \in 1..(k - 1) : entry[queue[j]].due > 0
           /\ IF period = 0
              THEN CancelTimer(t)
              ELSE /\ queue' = Requeue(t)
                   /\ entry' = [entry EXCEPT ![t].due = period, ![t].left = period]
                   /\ UNCHANGED count
           /\ firing' = [timer |-> t, periodic |-> period # 0]
           /\ Becomes(IF entry[t].callback THEN "Call" ELSE "Fire")
  /\ wake' = NoWake
  /\ UNCHANGED <<evUpdate, evStop, stopping, sleep, handleVars>>

(* the callback is over, or calls a function of the API *)
CallbackReturns ==
  /\ wpc = "Call"
  /\ Becomes("Fire")
  /\ UNCHANGED <<listVars, wakeVars, evStop, stopping, sleep, firing, handleVars>>

CallbackCalls ==
  /\ wpc = "Call" /\ CallbackOps # {}
  /\ Becomes("CallWaits")
  /\ UNCHANGED <<listVars, wakeVars, evStop, stopping, sleep, firing, handleVars>>

(* the lock is had; cancelling the last timer joins the worker from itself *)
CallbackOp(t) ==
  /\ wpc = "CallWaits" /\ ~stopping
  /\ t \in open \cup {firing.timer}
  /\ \/ "Set" \in CallbackOps /\ SetTimer(t)
     \/ "Cancel" \in CallbackOps /\ IsQueued(t) /\ CancelTimer(t) /\ UNCHANGED wakeVars
     \/ "Cancel" \in CallbackOps /\ ~IsQueued(t) /\ UNCHANGED <<listVars, wakeVars>>
  /\ LET last == queue' = <<>> /\ queue # <<>> IN
     /\ Becomes(IF last THEN "JoinsItself" ELSE "Fire")
     /\ stopping' = last /\ evStop' = last
  /\ UNCHANGED <<sleep, firing, handleVars>>

(* SignalFromTimerQueue, through a plain pointer; without the timer it is undefined *)
SignalFromTimerQueue ==
  /\ wpc = "Fire" /\ Alive(firing.timer)
  /\ firing' = NoFiring
  /\ Becomes("Signal")
  /\ UNCHANGED <<listVars, wakeVars, evStop, stopping, sleep, handleVars>>

WorkerStep ==
  \/ GetSleepTime \/ Exit \/ WaitEnds
  \/ SignallTimersGivesUp \/ NothingDue \/ SignallOne
  \/ CallbackReturns \/ (\E t \in Timer : CallbackOp(t)) \/ SignalFromTimerQueue

-----------------------------------------------------------------------------
ClientStep(t) ==
  \/ SetWaitableTimer(t) \/ CancelWaitableTimer(t) \/ CancelLast(t)
  \/ OnCloseHandle(t) \/ Drop(t)

Next ==
  \/ \E t \in Timer : ClientStep(t)
  \/ Stop
  \/ WorkerStep \/ CallbackCalls
  \/ Tick \/ AdjustClock

Spec == Init /\ [][Next]_vars

(* Time passes, the worker runs, and a client whose worker has gone returns; *)
(* nobody has to set, to cancel or to close, or to adjust the clock.         *)
FairSpec == Spec /\ WF_vars(Tick) /\ WF_vars(WorkerStep) /\ WF_vars(Stop)

-----------------------------------------------------------------------------
(* The type invariant. *)
TypeOK ==
  /\ queue \in Seq(Timer)
  /\ entry \in [Timer -> [due: Nat, left: Nat, period: Nat, callback: BOOLEAN]]
  /\ count \in Nat
  /\ evUpdate \in BOOLEAN /\ evStop \in BOOLEAN /\ stopping \in BOOLEAN
  /\ wake \in [set: BOOLEAN, left: 0..FOREVER]
  /\ sleep \in 0..FOREVER
  /\ wpc \in {"None", "Sleep", "Wait", "Signal", "Call", "CallWaits", "Fire", "Exited",
              "JoinsItself"}
  /\ firing \in [timer: Timer \cup {NoTimer}, periodic: BOOLEAN]
  /\ open \subseteq held /\ held \subseteq Timer

(* A timer is in the list once and QueuedTimers counts the list, whichever of      *)
(* cancel, close, expiry and the stop of the queue takes it out (the tests compare *)
(* QueuedTimers with 0 after each of them).                                        *)
ListSound == IsInjective(queue) /\ count = Len(queue)

(* A timer that is set has a thread that will signal it: the queue that is being   *)
(* stopped is empty and stays empty until its thread is joined, and the next timer *)
(* starts a new one (API.cpp:38-68, TimerQueue.cpp:39-52, 115-118).                *)
TimersHaveWorker ==
  queue # <<>> => ~stopping /\ wpc \notin {"None", "Exited", "JoinsItself"}

(* The worker never sleeps past the moment a timer was promised for, unless it has *)
(* been told to wake: also when the timer was set after it had chosen its sleep,   *)
(* when an earlier update was coalesced with this one, when the sleep was cut into *)
(* steps, and when the wall clock was set forward (TimerQueue.cpp:54-79, 192-216). *)
NoOversleep ==
  wpc = "Wait" /\ ~evUpdate =>
    \A t \in ToSet(queue) : sleep # FOREVER /\ sleep <= entry[t].left

(* the worker is about to signal a timer that has been destroyed *)
Dangles == wpc = "Fire" /\ ~Alive(firing.timer)

(* A timer that is due is signalled, or is set again or cancelled first: none is   *)
(* starved by timers that are due more often.  Nothing is asked once Dangles.      *)
DueTimersFire ==
  \A t \in Timer :
    (IsQueued(t) /\ entry[t].due = 0)
      ~> (firing.timer = t \/ ~IsQueued(t) \/ entry[t].due > 0 \/ Dangles)

(* The CancelWaitableTimer that empties the list returns: the worker it joins sees *)
(* EvStop wherever it is and does not insist on the lock (TimerQueue.cpp:149-171).  *)
(* Only a callback that itself wants the lock, or joins its own thread, stops it.  *)
CancelReturns == stopping ~> (~stopping \/ Dangles \/ wpc \in {"CallWaits", "JoinsItself"})

-----------------------------------------------------------------------------
(* The inductive invariant. *)

(* Lock is held by the client that has set EvStop, and the worker ends for it alone. *)
StopProtocol ==
  /\ stopping = evStop
  /\ stopping => queue = <<>> /\ wpc # "None"
  /\ wpc \in {"Exited", "JoinsItself"} => stopping
  /\ wpc = "None" => ~wake.set /\ ~evUpdate

(* A wait that no update has reached can still be interrupted, or is over.         *)
WakeProtocol ==
  wpc = "Wait" /\ ~evUpdate =>
    /\ wake.set \/ sleep = 0
    /\ wake.set => (wake.left = FOREVER) = (sleep = FOREVER)

(* On the wall clock a timer is never due later than it was promised. *)
NotLate == \A t \in Timer : entry[t].due <= entry[t].left

(* The worker has a timer in its hands exactly while it calls back and signals. *)
Firing ==
  (firing.timer # NoTimer) = (wpc \in {"Call", "CallWaits", "Fire", "JoinsItself"})

IInv ==
  /\ TypeOK /\ ListSound /\ TimersHaveWorker /\ NoOversleep
  /\ StopProtocol /\ WakeProtocol /\ NotLate /\ Firing
=============================================================================
