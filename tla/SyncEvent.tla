------------------------------ MODULE SyncEvent ------------------------------
(***************************************************************************)
(* The event objects of Syncme and the two functions that wait on them     *)
(* (Event.cpp, Event/Wait.cpp, Event/API.cpp).                             *)
(*                                                                         *)
(* An Event is a handle; all duplicates of a handle share one EventState   *)
(* (here: an element of Object).  Everything Event does is done under the  *)
(* mutex of the EventState, so a member function of Event is one action,   *)
(* except OnCloseHandle: it calls back into wait contexts node by node and *)
(* a thread released by the first callback may go on while the loop holds  *)
(* the mutex, so it is a sequence of steps, and `lock' says which handle's *)
(* OnCloseHandle is in its loop.  The other loop of callbacks, SetEvent on *)
(* a manual-reset event, is one step: what it leaves for a later callback  *)
(* (bits, FirstSignalled) is read by no step a thread can take before it   *)
(* has passed UnregisterWait, which needs the mutex.                       *)
(*                                                                         *)
(* Waiter is the set of threads.  A thread is inside at most one call:     *)
(* WaitForMultipleObjects (Register .. Return) or WaitForSingleObject      *)
(* (Enter .. GetClosing).  A node of its WaitContext is <<t, i>>.  The     *)
(* timeout is left out of a call: a wait may expire whenever it blocks,    *)
(* and FOREVER is the wait that never does.                                *)
(***************************************************************************)
EXTENDS Naturals, Sequences, SequencesExt, FiniteSets

CONSTANTS
  Handle,        \* Event instances (HEvent points to one)
  Object,        \* EventState instances
  Notification,  \* the manual-reset ones; the others are auto-reset
  Waiter,        \* threads that wait
  Arrays,        \* the EventArrays given to WaitForMultipleObjects
  Singles,       \* the handles given to WaitForSingleObject
  NoObject,      \* "this Event instance does not exist"
  NoHandle       \* "nobody is in the loop of OnCloseHandle"

ASSUME ObjectAssumption == Notification \subseteq Object /\ NoObject \notin Object
ASSUME HandleAssumption == NoHandle \notin Handle
ASSUME ArraysAssumption ==
  /\ Singles \subseteq Handle
  /\ Arrays \subseteq Seq(Handle)
  /\ \A a \in Arrays : Len(a) > 0

VARIABLES
  object,     \* Event::State of each handle, NoObject before creation and after ~Event
  closing,    \* Event::Closing
  signalled,  \* EventState::Signalled
  waits,      \* EventState::WaitsHead..WaitsTail, the list of registered nodes
  lock,       \* the handle whose OnCloseHandle loop holds EventState::Lock
  linked,     \* the indices i of a thread's Nodes with Owner # nullptr
  pending,    \* WaitContext::Pending, as the set of its true indices
  bits,       \* WaitContext::Bits, as the set of its true indices
  first,      \* WaitContext::FirstSignalled, 0 for "none yet" (Bits.size() in the code)
  failed,     \* WaitContext::Failed
  done,       \* WaitContext::Signalled
  pc,         \* where the thread is
  call,       \* the arguments of its call
  idx,        \* the loop index of WaitForMultipleObjects
  unreg,      \* what is left of pendingIndices in WaitContext::Wait
  expired     \* rc = TIMEOUT (multiple), f = false (single)

eventVars  == <<object, closing, signalled, waits, lock>>
contextVars == <<linked, pending, bits, first, failed, done>>
threadVars == <<pc, call, idx, unreg, expired>>
vars == <<eventVars, contextVars, threadVars>>

NoCall == [events |-> <<>>, waitAll |-> FALSE]
Call == [events: Arrays \cup {<<h>> : h \in Singles}, waitAll: BOOLEAN]

RegisterPcs == {"Register", "Mark", "Completed"}
MultiPcs  == RegisterPcs \cup {"Block", "Collect", "Unregister"}
CvPcs     == {"CvBlocked", "CvAwake"}
SinglePcs == {"Enter", "GetClosing"} \cup CvPcs

-----------------------------------------------------------------------------
Live(h) == object[h] # NoObject
Free(h) == lock[object[h]] = NoHandle          \* EventState::Lock can be taken
ClosingBy(h) == lock[object[h]] = h
Indices(t) == DOMAIN call[t].events
HandleOf(t, i) == call[t].events[i]
ObjectOf(t, i) == object[HandleOf(t, i)]
Uses(t, h) == \E i \in Indices(t) : HandleOf(t, i) = h
OnCondition(o) == {t \in Waiter : pc[t] = "CvBlocked" /\ ObjectOf(t, 1) = o}

(* Mutant of NotifyAll and NotifyOne: nobody is notified. *)
NotifyNobody(o) == UNCHANGED pc

(* EventState::Condition.notify_all and notify_one *)
NotifyAll(o) == pc' = [t \in Waiter |-> IF t \in OnCondition(o) THEN "CvAwake" ELSE pc[t]]
NotifyOne(o) ==
  \/ OnCondition(o) = {} /\ UNCHANGED pc
  \/ \E t \in OnCondition(o) : pc' = [pc EXCEPT ![t] = "CvAwake"]

(* Mutant of UnlinkWait: the neighbours keep pointing to the node. *)
UnlinkNothing(o, node) == waits
UnlinkWait(o, node) == [waits EXCEPT ![o] = RemoveFirst(@, node)]
LinkWait(o, node)   == [waits EXCEPT ![o] = Append(@, node)]

(* Mutants of Completes: a failure does not complete a wait-all; any event does. *)
CompletesWithoutFailure(t, told, isFailed) == ~call[t].waitAll \/ told = Indices(t)
CompletesWithAny(t, told, isFailed) == TRUE

(* the bits `told' complete the wait of t *)
Completes(t, told, isFailed) == ~call[t].waitAll \/ told = Indices(t) \/ isFailed

(* WaitContext::EventSignalled for every node of S.  Nodes of one context in one *)
(* list are in index order, so the first callback is the one with least index.   *)
EventSignalled(S, isFailed) ==
  LET hit(t) == {i \in Indices(t) : <<t, i>> \in S}
      told(t) == bits[t] \cup hit(t)
  IN  /\ bits' = [t \in Waiter |-> told(t)]
      /\ first' = [t \in Waiter |->
                     IF first[t] = 0 /\ hit(t) # {}
                     THEN CHOOSE i \in hit(t) : \A j \in hit(t) : i <= j
                     ELSE first[t]]
      /\ done' = [t \in Waiter |->
                    done[t] \/ (hit(t) # {} /\ Completes(t, told(t), isFailed))]
      /\ failed' = [t \in Waiter |-> failed[t] \/ (isFailed /\ hit(t) # {})]
      /\ pending' = [t \in Waiter |-> pending[t] \ {i \in hit(t) : isFailed}]

Init ==
  /\ object = [h \in Handle |-> NoObject]
  /\ closing = [h \in Handle |-> FALSE]
  /\ signalled = [o \in Object |-> FALSE]
  /\ waits = [o \in Object |-> <<>>]
  /\ lock = [o \in Object |-> NoHandle]
  /\ linked = [t \in Waiter |-> {}]
  /\ pending = [t \in Waiter |-> {}]
  /\ bits = [t \in Waiter |-> {}]
  /\ first = [t \in Waiter |-> 0]
  /\ failed = [t \in Waiter |-> FALSE]
  /\ done = [t \in Waiter |-> FALSE]
  /\ pc = [t \in Waiter |-> "Idle"]
  /\ call = [t \in Waiter |-> NoCall]
  /\ idx = [t \in Waiter |-> 0]
  /\ unreg = [t \in Waiter |-> {}]
  /\ expired = [t \in Waiter |-> FALSE]

-----------------------------------------------------------------------------
(* The life of a handle and the operations on it, called by any thread. *)

(* CreateNotificationEvent, CreateSynchronizationEvent *)
CreateEvent(h, o) ==
  /\ ~Live(h)
  /\ \A g \in Handle : object[g] # o
  /\ object' = [object EXCEPT ![h] = o]
  /\ closing' = [closing EXCEPT ![h] = FALSE]
  /\ \E b \in BOOLEAN : signalled' = [signalled EXCEPT ![o] = b]
  /\ UNCHANGED <<waits, lock, contextVars, threadVars>>

(* DuplicateHandle: returns no handle when h is closing *)
Duplicate(h, d) ==
  /\ Live(h) /\ Free(h) /\ ~closing[h]
  /\ ~Live(d)
  /\ object' = [object EXCEPT ![d] = object[h]]
  /\ closing' = [closing EXCEPT ![d] = FALSE]
  /\ UNCHANGED <<signalled, waits, lock, contextVars, threadVars>>

(* ~Event: the last HEvent is gone.  The EventArray of a wait holds one. *)
Destroy(h) ==
  /\ Live(h) /\ Free(h)
  /\ \A t \in Waiter : ~Uses(t, h)
  /\ object' = [object EXCEPT ![h] = NoObject]
  /\ closing' = [closing EXCEPT ![h] = FALSE]
  /\ UNCHANGED <<signalled, waits, lock, contextVars, threadVars>>

(* Mutant of Recipients: an auto-reset event tells all of its list. *)
RecipientsAll(o)  == ToSet(waits[o])

(* the registered nodes SetEvent tells: all of them, or the oldest if it resets *)
Recipients(o) ==
  IF o \in Notification \/ waits[o] = <<>> THEN ToSet(waits[o]) ELSE {Head(waits[o])}

(* an auto-reset signal is handed over to a registered node, or else stays set *)
SetEvent(h) ==
  LET o == object[h] IN
  /\ Live(h) /\ Free(h)
  /\ signalled' = [signalled EXCEPT ![o] = o \in Notification \/ waits[o] = <<>>]
  /\ EventSignalled(Recipients(o), FALSE)
  /\ \/ o \in Notification /\ NotifyAll(o)
     \/ o \notin Notification /\ waits[o] = <<>> /\ NotifyOne(o)
     \/ o \notin Notification /\ waits[o] # <<>> /\ UNCHANGED pc
  /\ UNCHANGED <<object, closing, waits, lock, linked, call, idx, unreg, expired>>

ResetEvent(h) ==
  /\ Live(h) /\ Free(h)
  /\ signalled' = [signalled EXCEPT ![object[h]] = FALSE]
  /\ UNCHANGED <<object, closing, waits, lock, contextVars, threadVars>>

(* CloseHandle, up to the loop: Closing is set and the condition notified *)
OnCloseHandle(h) ==
  /\ Live(h) /\ Free(h) /\ ~closing[h]
  /\ closing' = [closing EXCEPT ![h] = TRUE]
  /\ lock' = [lock EXCEPT ![object[h]] = h]
  /\ NotifyAll(object[h])
  /\ UNCHANGED <<object, signalled, waits, contextVars, call, idx, unreg, expired>>

(* Mutant of Owned: the owner of the nodes is not compared. *)
OwnedByAnybody(h) == DOMAIN waits[object[h]]

Owned(h) == {k \in DOMAIN waits[object[h]] :
               LET node == waits[object[h]][k] IN HandleOf(node[1], node[2]) = h}

(* One round of the loop: the first node owned by h is unlinked and told *)
CloseNode(h) ==
  LET o == object[h] IN
  /\ Live(h) /\ ClosingBy(h)
  /\ \E k \in Owned(h) :
       LET t == waits[o][k][1]
           i == waits[o][k][2]
       IN  /\ \A j \in Owned(h) : k <= j
           /\ waits' = UnlinkWait(o, <<t, i>>)
           /\ linked' = [linked EXCEPT ![t] = @ \ {i}]
           /\ EventSignalled({<<t, i>>}, TRUE)
  /\ UNCHANGED <<object, closing, signalled, lock, threadVars>>

CloseEnd(h) ==
  /\ Live(h) /\ ClosingBy(h)
  /\ Owned(h) = {}
  /\ lock' = [lock EXCEPT ![object[h]] = NoHandle]
  /\ UNCHANGED <<object, closing, signalled, waits, contextVars, threadVars>>

-----------------------------------------------------------------------------
(* WaitForMultipleObjects *)

Goto(t, l) == pc' = [pc EXCEPT ![t] = l]

(* the WaitContext is constructed *)
StartMultiple(t) ==
  /\ pc[t] = "Idle"
  /\ \E a \in Arrays, all \in BOOLEAN :
       /\ \A i \in DOMAIN a : Live(a[i])
       /\ call' = [call EXCEPT ![t] = [events |-> a, waitAll |-> all]]
  /\ idx' = [idx EXCEPT ![t] = 1]
  /\ Goto(t, "Register")
  /\ UNCHANGED <<eventVars, contextVars, unreg, expired>>

(* Event::RegisterWait on a closing handle: the node is not linked *)
Refuse(t) ==
  /\ closing[HandleOf(t, idx[t])]
  /\ EventSignalled({<<t, idx[t]>>}, TRUE)
  /\ UNCHANGED <<waits, linked, signalled>>

Link(t) ==
  LET i == idx[t]
      o == ObjectOf(t, i)
  IN
  /\ ~closing[HandleOf(t, i)]
  /\ waits' = LinkWait(o, <<t, i>>)
  /\ linked' = [linked EXCEPT ![t] = @ \cup {i}]
  /\ IF signalled[o]
     THEN /\ signalled' = [signalled EXCEPT ![o] = o \in Notification]
          /\ EventSignalled({<<t, i>>}, FALSE)
     ELSE UNCHANGED <<signalled, pending, bits, first, failed, done>>

RegisterWait(t) ==
  /\ pc[t] = "Register" /\ Free(HandleOf(t, idx[t]))
  /\ Refuse(t) \/ Link(t)
  /\ Goto(t, "Mark")
  /\ UNCHANGED <<object, closing, lock, call, idx, unreg, expired>>

MarkRegistered(t) ==
  /\ pc[t] = "Mark"
  /\ pending' = [pending EXCEPT ![t] = @ \cup {idx[t]}]
  /\ Goto(t, "Completed")
  /\ UNCHANGED <<eventVars, linked, bits, first, failed, done, call, idx, unreg, expired>>

HasNext(t) == ~done[t] /\ idx[t] < Len(call[t].events)

(* `if (context.Completed(...)) break' and the loop condition *)
Completed(t) ==
  /\ pc[t] = "Completed"
  /\ \/ ~HasNext(t) /\ Goto(t, "Block") /\ UNCHANGED idx
     \/ HasNext(t) /\ Goto(t, "Register") /\ idx' = [idx EXCEPT ![t] = @ + 1]
  /\ UNCHANGED <<eventVars, contextVars, call, unreg, expired>>

(* WaitContext::Wait: Signalled is set, at once or later *)
Wake(t) ==
  /\ pc[t] = "Block" /\ done[t]
  /\ Goto(t, "Collect")
  /\ UNCHANGED <<eventVars, contextVars, call, idx, unreg, expired>>

(* wait_for evaluates its predicate once more, so it expires only when ~done *)
Expire(t) ==
  /\ pc[t] = "Block" /\ ~done[t]
  /\ expired' = [expired EXCEPT ![t] = TRUE]
  /\ Goto(t, "Collect")
  /\ UNCHANGED <<eventVars, contextVars, call, idx, unreg>>

Collect(t) ==
  /\ pc[t] = "Collect"
  /\ unreg' = [unreg EXCEPT ![t] = pending[t]]
  /\ pending' = [pending EXCEPT ![t] = {}]
  /\ Goto(t, "Unregister")
  /\ UNCHANGED <<eventVars, linked, bits, first, failed, done, call, idx, expired>>

(* Event::UnregisterWait of the next pending index; false when Owner is not this *)
UnregisterWait(t) ==
  /\ pc[t] = "Unregister"
  /\ \E i \in unreg[t] :
       /\ \A j \in unreg[t] : i <= j
       /\ Free(HandleOf(t, i))
       /\ IF i \in linked[t]
          THEN /\ waits' = UnlinkWait(ObjectOf(t, i), <<t, i>>)
               /\ linked' = [linked EXCEPT ![t] = @ \ {i}]
          ELSE UNCHANGED <<waits, linked>>
       /\ unreg' = [unreg EXCEPT ![t] = @ \ {i}]
  /\ UNCHANGED <<object, closing, signalled, lock, pending, bits, first, failed, done,
                 pc, call, idx, expired>>

Result(t) == IF failed[t] THEN "FAILED" ELSE IF expired[t] THEN "TIMEOUT" ELSE "OBJECT"

(* the call returns Result(t) and the WaitContext is destroyed *)
Return(t) ==
  /\ pc[t] = "Unregister" /\ unreg[t] = {}
  /\ Goto(t, "Idle")
  /\ call' = [call EXCEPT ![t] = NoCall]
  /\ idx' = [idx EXCEPT ![t] = 0]
  /\ expired' = [expired EXCEPT ![t] = FALSE]
  /\ bits' = [bits EXCEPT ![t] = {}]
  /\ first' = [first EXCEPT ![t] = 0]
  /\ failed' = [failed EXCEPT ![t] = FALSE]
  /\ done' = [done EXCEPT ![t] = FALSE]
  /\ UNCHANGED <<eventVars, linked, pending, unreg>>

-----------------------------------------------------------------------------
(* WaitForSingleObject: Event::Wait, then GetClosing *)

StartSingle(t) ==
  /\ pc[t] = "Idle"
  /\ \E h \in Singles :
       /\ Live(h)
       /\ call' = [call EXCEPT ![t] = [events |-> <<h>>, waitAll |-> FALSE]]
  /\ Goto(t, "Enter")
  /\ UNCHANGED <<eventVars, contextVars, idx, unreg, expired>>

(* the predicate of the condition variable *)
Ready(t) == signalled[ObjectOf(t, 1)] \/ closing[HandleOf(t, 1)]

(* Event::Wait leaves with f: an auto-reset signal is consumed *)
LeaveWait(t) ==
  LET o == ObjectOf(t, 1) IN
  /\ signalled' = [signalled EXCEPT
       ![o] = @ /\ (o \in Notification \/ closing[HandleOf(t, 1)])]
  /\ expired' = [expired EXCEPT ![t] = ~Ready(t)]
  /\ Goto(t, "GetClosing")

(* Enter, and the re-evaluation of the predicate after a wakeup *)
EvaluateWait(t) ==
  /\ pc[t] \in {"Enter", "CvAwake"} /\ Free(HandleOf(t, 1))
  /\ IF Ready(t)
     THEN LeaveWait(t)
     ELSE Goto(t, "CvBlocked") /\ UNCHANGED <<signalled, expired>>
  /\ UNCHANGED <<object, closing, waits, lock, contextVars, call, idx, unreg>>

(* wait_for gives up; it returns the predicate *)
ExpireWait(t) ==
  /\ pc[t] \in CvPcs /\ Free(HandleOf(t, 1))
  /\ LeaveWait(t)
  /\ UNCHANGED <<object, closing, waits, lock, contextVars, call, idx, unreg>>

SpuriousWakeup(t) ==
  /\ pc[t] = "CvBlocked"
  /\ Goto(t, "CvAwake")
  /\ UNCHANGED <<eventVars, contextVars, call, idx, unreg, expired>>

(* `if (event->GetClosing()) return FAILED', and the return *)
ReturnSingle(t) ==
  /\ pc[t] = "GetClosing" /\ Free(HandleOf(t, 1))
  /\ Goto(t, "Idle")
  /\ call' = [call EXCEPT ![t] = NoCall]
  /\ expired' = [expired EXCEPT ![t] = FALSE]
  /\ UNCHANGED <<eventVars, contextVars, idx, unreg>>

-----------------------------------------------------------------------------
CloseStep(h) == CloseNode(h) \/ CloseEnd(h)

HandleStep(h) ==
  \/ \E o \in Object : CreateEvent(h, o)
  \/ \E d \in Handle : Duplicate(h, d)
  \/ Destroy(h)
  \/ SetEvent(h) \/ ResetEvent(h)
  \/ OnCloseHandle(h) \/ CloseStep(h)

(* what a thread that is inside a call does next of its own *)
WaitStep(t) ==
  \/ RegisterWait(t) \/ MarkRegistered(t) \/ Completed(t)
  \/ Wake(t) \/ Collect(t) \/ UnregisterWait(t) \/ Return(t)
  \/ EvaluateWait(t) \/ ReturnSingle(t)

ThreadStep(t) ==
  \/ StartMultiple(t) \/ StartSingle(t)
  \/ WaitStep(t)
  \/ Expire(t) \/ ExpireWait(t) \/ SpuriousWakeup(t)

Next ==
  \/ \E h \in Handle : HandleStep(h)
  \/ \E t \in Waiter : ThreadStep(t)

Spec == Init /\ [][Next]_vars

(* A thread that can run runs, and one that keeps finding the mutex free gets it; *)
(* nobody has to start a wait, to signal or to close, and no timeout is assumed.  *)
Fairness ==
  /\ \A h \in Handle : WF_vars(CloseStep(h))
  /\ \A t \in Waiter : SF_vars(WaitStep(t))

FairSpec == Spec /\ Fairness

-----------------------------------------------------------------------------
(* Properties *)

(* The type invariant. *)
TypeOK ==
  /\ object \in [Handle -> Object \cup {NoObject}]
  /\ closing \in [Handle -> BOOLEAN]
  /\ signalled \in [Object -> BOOLEAN]
  /\ waits \in [Object -> Seq(Waiter \X Nat)]
  /\ lock \in [Object -> Handle \cup {NoHandle}]
  /\ failed \in [Waiter -> BOOLEAN]
  /\ done \in [Waiter -> BOOLEAN]
  /\ expired \in [Waiter -> BOOLEAN]
  /\ pc \in [Waiter -> {"Idle"} \cup MultiPcs \cup SinglePcs]
  /\ call \in [Waiter -> Call \cup {NoCall}]
  /\ linked \in [Waiter -> SUBSET Nat]
  /\ pending \in [Waiter -> SUBSET Nat]
  /\ bits \in [Waiter -> SUBSET Nat]
  /\ unreg \in [Waiter -> SUBSET Nat]
  /\ first \in [Waiter -> Nat]
  /\ idx \in [Waiter -> Nat]
  /\ \A t \in Waiter :
       /\ linked[t] \cup pending[t] \cup bits[t] \cup unreg[t] \subseteq Indices(t)
       /\ {first[t], idx[t]} \subseteq Indices(t) \cup {0}

(* what the context of t knows it may have to unregister *)
Cleanup(t) == pending[t] \cup unreg[t] \cup (IF pc[t] = "Mark" THEN {idx[t]} ELSE {})

(* A node in the intrusive list of an event is a node of a WaitContext that still  *)
(* exists, its Owner is a live handle of that event, and the context still knows   *)
(* that it has to unregister it: the list never holds a pointer into the stack of  *)
(* a wait that has returned, whatever races with registering and unregistering     *)
(* (Event.cpp:239-294, Wait.cpp:137-154).                                          *)
NodesAlive ==
  \A o \in Object : \A n \in ToSet(waits[o]) :
    LET t == n[1]
        i == n[2]
    IN  /\ pc[t] \in MultiPcs
        /\ i \in Indices(t) /\ ObjectOf(t, i) = o
        /\ i \in linked[t]
        /\ i \in Cleanup(t)

(* Owner tells exactly which nodes are in a list, and none is in one twice: no     *)
(* node is relinked while it is still threaded (the assertion of Event.cpp:244).   *)
OwnerMeansListed ==
  /\ \A t \in Waiter : \A i \in linked[t] : <<t, i>> \in ToSet(waits[ObjectOf(t, i)])
  /\ \A o \in Object : IsInjective(waits[o])

(* assert(f || events[i]->GetClosing()) of WaitContext::Wait (Wait.cpp:153): an    *)
(* UnregisterWait finds its node gone only if OnCloseHandle took it.               *)
UnregisterAssert ==
  \A t \in Waiter : \A i \in unreg[t] :
    i \in linked[t] \/ closing[HandleOf(t, i)]

(* The assertion of ~Event (Event.cpp:98-99) for a handle that was closed: no node *)
(* is owned by it once its OnCloseHandle is over.                                  *)
ClosedOwnsNothing ==
  \A t \in Waiter : \A i \in linked[t] :
    closing[HandleOf(t, i)] => ClosingBy(HandleOf(t, i))

(* A registered node has been told of the signal of its event: an auto-reset event *)
(* is never left signalled past a registered waiter, and a manual-reset one is not *)
(* signalled without the waiter's bit being set (Event.cpp:169-178, 272-278).      *)
NoMissedSignal ==
  \A t \in Waiter : \A i \in linked[t] :
    signalled[ObjectOf(t, i)] => ObjectOf(t, i) \in Notification /\ i \in bits[t]

(* A thread blocks only when nothing it waits for has happened: every node of its  *)
(* array is registered and the bits it has do not complete the wait.  A close that *)
(* falls between two registrations must not be slept through.                      *)
NoSleepWhenSatisfied ==
  \A t \in Waiter : pc[t] = "Block" /\ ~done[t] =>
    /\ linked[t] = Indices(t)
    /\ bits[t] # Indices(t)
    /\ bits[t] = {} \/ call[t].waitAll
    /\ \A i \in Indices(t) : closing[HandleOf(t, i)] => ClosingBy(HandleOf(t, i))

(* What WaitForMultipleObjects returns is true: OBJECT_0 + i names a signalled     *)
(* event, all of them for a wait-all; FAILED a closed handle; and a wait that      *)
(* failed is not reported as a timeout (Wait.cpp:156-162).                         *)
ResultSound ==
  \A t \in Waiter : pc[t] = "Unregister" /\ unreg[t] = {} =>
    /\ Result(t) = "OBJECT" =>
         /\ first[t] \in bits[t]
         /\ call[t].waitAll => bits[t] = Indices(t)
    /\ Result(t) = "FAILED" <=> \E i \in bits[t] : closing[HandleOf(t, i)] /\ failed[t]

(* the waits that this step satisfies through the auto-reset event o *)
SatisfiedBy(o) ==
  {t \in Waiter :
     \/ \E i \in bits'[t] \ bits[t] : ObjectOf(t, i) = o /\ ~failed'[t]
     \/ pc[t] \in CvPcs \cup {"Enter"} /\ pc'[t] = "GetClosing" /\ ObjectOf(t, 1) = o
         /\ ~expired'[t] /\ ~closing[HandleOf(t, 1)]}

(* A signal of an auto-reset event releases one wait: a step satisfies at most one *)
(* waiter through it, and then leaves it not signalled (Event.cpp:174-178,         *)
(* 233-234, 272-278).                                                              *)
AutoResetReleasesOne ==
  [][\A o \in Object \ Notification :
       SatisfiedBy(o) # {} => Cardinality(SatisfiedBy(o)) = 1 /\ ~signalled'[o]]_vars

(* Closing a handle is independent of its duplicates (the test                     *)
(* duplicate_close_is_independent): a registration ends by its own thread's        *)
(* UnregisterWait or because its own handle is closing, and a signal is not lost   *)
(* or made by a close.                                                             *)
CloseIsIndependent ==
  [][/\ \A t \in Waiter : \A i \in linked[t] \ linked'[t] :
          i \in unreg[t] \/ closing[HandleOf(t, i)]
     /\ closing' # closing /\ object' = object => signalled' = signalled]_vars

(* A signal that stays set reaches whoever waits for it: a thread waiting on one   *)
(* handle returns, or the signal is gone (consumed by another waiter or reset), so *)
(* notify_one never wakes only a thread that cannot take the signal.               *)
SignalReachesWaiter ==
  \A t \in Waiter, o \in Object :
    (pc[t] \in SinglePcs /\ ObjectOf(t, 1) = o /\ signalled[o])
      ~> (pc[t] = "Idle" \/ ~signalled[o])

(* Closing a handle releases every thread whose wait uses it, wherever the thread  *)
(* is: before, between or after its registrations, or in a condition wait.         *)
CloseReleasesWaiters ==
  \A t \in Waiter, h \in Handle :
    (closing[h] /\ Uses(t, h)) ~> pc[t] = "Idle"

-----------------------------------------------------------------------------
(* The inductive invariant: the safety properties above, strengthened. *)

(* The EventArray of a call keeps its handles alive. *)
UsesLive == \A t \in Waiter : \A i \in Indices(t) : Live(HandleOf(t, i))

(* Only a closing handle of the event is in the loop of OnCloseHandle. *)
LockOwner ==
  \A o \in Object : lock[o] # NoHandle =>
    object[lock[o]] = o /\ closing[lock[o]]

(* What each phase of WaitForMultipleObjects has to clean up: a thread outside it  *)
(* has no context and nothing pending, the node about to be registered is neither  *)
(* linked nor pending, and pendingIndices is taken from Pending once.              *)
Phases ==
  \A t \in Waiter :
    /\ pc[t] \notin MultiPcs =>
         /\ pending[t] = {} /\ bits[t] = {}
         /\ first[t] = 0 /\ idx[t] = 0 /\ ~done[t] /\ ~failed[t]
    /\ pc[t] # "Unregister" => unreg[t] = {}
    /\ pc[t] = "Unregister" => pending[t] = {}
    /\ pc[t] \in RegisterPcs =>
         /\ idx[t] \in Indices(t)
         /\ \A i \in pending[t] \cup linked[t] :
              i < idx[t] \/ (i = idx[t] /\ pc[t] # "Register")

(* A registration that is still to be cleaned up is linked, or its handle is closing. *)
Accounted ==
  \A t \in Waiter : \A i \in Cleanup(t) :
    i \in linked[t] \/ closing[HandleOf(t, i)]

IInv ==
  /\ TypeOK /\ UsesLive /\ LockOwner /\ Phases
  /\ NodesAlive /\ OwnerMeansListed /\ Accounted /\ ClosedOwnsNothing /\ NoMissedSignal

(* What a context has been told decides how its wait ends: FirstSignalled is one of *)
(* the bits, Signalled is set exactly when the bits complete the wait, and Failed   *)
(* only for a handle that is closing.                                               *)
Told(t) ==
  /\ first[t] \in bits[t] \cup {0} /\ (bits[t] # {} => first[t] # 0)
  /\ done[t] <=> bits[t] # {} /\ Completes(t, bits[t], failed[t])
  /\ failed[t] => \E i \in bits[t] : closing[HandleOf(t, i)]

(* A wait goes on to its results when it is done or has expired. *)
Ended(t) == pc[t] \in {"Collect", "Unregister"} => done[t] \/ expired[t]

(* the indices the loop of WaitForMultipleObjects has passed *)
Passed(t) ==
  CASE pc[t] \in RegisterPcs -> {i \in Indices(t) : i < idx[t] \/ (i = idx[t] /\ pc[t] # "Register")}
    [] pc[t] = "Block"       -> Indices(t)
    [] OTHER                 -> {}

(* A wait that nothing has completed yet is registered with all it has passed, and *)
(* it blocks having passed an index.                                               *)
Registered(t) ==
  /\ done[t] \/ Passed(t) \subseteq linked[t]
  /\ pc[t] = "Block" => idx[t] \in Indices(t)

Outcomes == \A t \in Waiter : Told(t) /\ Ended(t) /\ Registered(t)

(* The invariant from which the results follow. *)
ResultInv == IInv /\ Outcomes
=============================================================================
