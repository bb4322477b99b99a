---------------------------- MODULE SocketEvents ----------------------------
(***************************************************************************)
(* Socket events (Sockets/SocketEvent.cpp), the one queue that watches     *)
(* them with epoll (SocketEventQueue.cpp), WaitManager::AddSocketEvent     *)
(* (WaitManager.cpp, the part for Linux) and CreateSocketEvent (API.cpp).  *)
(*                                                                         *)
(* Each event has a socket of its own, a thread that creates it, waits for *)
(* it and takes what was noted, and another thread that closes it.  The    *)
(* queue's worker turns what epoll_wait returns into signals.  A section   *)
(* under DataLock is one step, RemoveLock is held through several: by a    *)
(* thread that adds an event, which may have to wait until the worker has  *)
(* made its list longer, and by one that closes the last event, which      *)
(* joins the worker.                                                       *)
(*                                                                         *)
(* An Event itself is `signalled' (an auto-reset one), specified in        *)
(* SyncEvent.  An event that is destroyed leaves its address to the next   *)
(* one, so that a record of it may still be in the worker's hands.         *)
(***************************************************************************)
EXTENDS Naturals, Sequences, FiniteSets, Functions

CONSTANTS
  SocketEvent,  \* the events, by the address of their object
  Masks,        \* the masks that events are created with
  Busy,         \* bound: the events whose sockets anything happens to; they have a TxQueue
  GROW_SIZE,    \* how much longer the worker makes its list of epoll events
  MaxChanges,   \* bound: things that happen to the sockets
  MaxWaits,     \* bound: waits that are started
  MaxCreated    \* bound: events that are created

(* every caller asks for EVENT_READ: BasicSocket (Socket.cpp) and the example *)
ASSUME MasksAssumption ==
  Masks \subseteq SUBSET {"READ", "WRITE", "CLOSE"} /\ \A mask \in Masks : "READ" \in mask
ASSUME GrowAssumption == GROW_SIZE \in Nat \ {0, 1}
ASSUME BoundsAssumption == Busy \subseteq SocketEvent /\ {MaxChanges, MaxWaits, MaxCreated} \subseteq Nat

VARIABLES
  sock,       \* the sockets: data to read, the peer's FIN, broken, output queued, room to write
  EventMask, Events, signalled,
  pc,         \* the thread that uses an event
  seen,       \* the mask it has read in GetEvents and is about to write
  cpc,        \* the thread that closes it
  exists,     \* there is an instance of the queue
  Queue,      \* its events: TRUE for one that is active
  interest,   \* its epoll set: what an event is armed for, {} when it is disarmed
  size,       \* the length of its list Events
  EvStop, EvGrowDone,
  control,    \* the datagrams in its control socket
  wpc,        \* its worker
  batch,      \* what epoll_wait returned and the worker has not processed
  firing,     \* the event it is about to signal, under DataLock
  used        \* what is used up of the bounds

eventVars  == <<EventMask, Events, signalled>>
threadVars == <<pc, seen, cpc>>
queueVars  == <<exists, Queue, interest, size>>
stopVars   == <<EvStop, EvGrowDone, control>>
workerVars == <<wpc, batch, firing>>
vars == <<sock, eventVars, threadVars, queueVars, stopVars, workerVars, used>>

-----------------------------------------------------------------------------
NewSocket == [data |-> FALSE, fin |-> FALSE, broken |-> FALSE, tx |-> FALSE, room |-> TRUE]

Init ==
  /\ sock = [e \in SocketEvent |-> NewSocket]
  /\ EventMask = [e \in SocketEvent |-> {}] /\ Events = [e \in SocketEvent |-> {}]
  /\ signalled = [e \in SocketEvent |-> FALSE]
  /\ pc = [e \in SocketEvent |-> "New"] /\ seen = [e \in SocketEvent |-> {}]
  /\ cpc = [e \in SocketEvent |-> "Open"]
  /\ exists = FALSE /\ Queue = [e \in {} |-> TRUE] /\ interest = [e \in SocketEvent |-> {}]
  /\ size = GROW_SIZE /\ EvStop = FALSE /\ EvGrowDone = FALSE /\ control = <<>>
  /\ wpc = "None" /\ batch = {} /\ firing = {}
  /\ used = [changes |-> 0, waits |-> 0, created |-> 0]

Queued == DOMAIN Queue

Adding == {"Append", "Grow"}

(* RemoveLock is held while an event is added and while the worker is joined; DataLock, for longer
   than one step, by a worker that signals an event *)
RemoveLockIsFree == \A e \in SocketEvent : pc[e] \notin Adding /\ cpc[e] # "Join"
DataLockIsFree == wpc # "Fire"

-----------------------------------------------------------------------------
(* The kernel: what a socket is ready for. *)
When(condition, bit) == IF condition THEN {bit} ELSE {}
Ready(e) == When(sock[e].data \/ sock[e].fin, "READ") \cup When(sock[e].room, "WRITE")
            \cup When(sock[e].fin, "CLOSE")

(* ExpectWrite and GetPollEvent: output is waited for only while there is some *)
GetPollEvent(e) == EventMask[e] \ When(~sock[e].tx, "WRITE")

(* what poll() answers in AddSocketEvent: it is asked for POLLHUP, which comes unasked
   too, and not for the peer's FIN *)
Polled(e) == (GetPollEvent(e) \cap (Ready(e) \ {"CLOSE"})) \cup When(sock[e].broken, "CLOSE")

(* The peer and the network. *)
Arrives(e) == /\ ~sock[e].data /\ ~sock[e].fin
              /\ sock' = [sock EXCEPT ![e].data = TRUE]
PeerCloses(e) == /\ ~sock[e].fin
                 /\ sock' = [sock EXCEPT ![e].fin = TRUE]
Breaks(e) == /\ ~sock[e].broken
             /\ sock' = [sock EXCEPT ![e].fin = TRUE, ![e].broken = TRUE, ![e].room = TRUE]
Fills(e) == /\ sock[e].room /\ ~sock[e].broken
            /\ sock' = [sock EXCEPT ![e].room = FALSE]
Drains(e) == /\ ~sock[e].room
             /\ sock' = [sock EXCEPT ![e].room = TRUE]

(* TxQueue becomes empty or is not any more. *)
Writes(e) == sock' = [sock EXCEPT ![e].tx = ~@]

Uses(what, bound) == used[what] < bound /\ used' = [used EXCEPT ![what] = @ + 1]
Environment(e) ==
  /\ e \in Busy /\ pc[e] # "New" /\ cpc[e] = "Open" /\ Uses("changes", MaxChanges)
  /\ Arrives(e) \/ PeerCloses(e) \/ Breaks(e) \/ Fills(e) \/ Drains(e) \/ Writes(e)
  /\ UNCHANGED <<eventVars, threadVars, queueVars, stopVars, workerVars>>

-----------------------------------------------------------------------------
(* FireEvents of an event: what is not in its mask is left out, and an
   earlier note that nobody has taken is overwritten *)
FireEvents(e, events) ==
  IF events \cap EventMask[e] = {} THEN UNCHANGED <<Events, signalled>>
  ELSE /\ Events' = [Events EXCEPT ![e] = events \cap EventMask[e]]
       /\ signalled' = [signalled EXCEPT ![e] = TRUE]

Goes(e, to) == pc' = [pc EXCEPT ![e] = to]

(* CreateSocketEvent, up to the call of AddSocketEvent *)
CreateSocketEvent(e, mask) ==
  /\ pc[e] = "New" /\ RemoveLockIsFree /\ Uses("created", MaxCreated)
  /\ EventMask' = [EventMask EXCEPT ![e] = mask]
  /\ exists' = TRUE
  /\ Goes(e, "Append")
  /\ UNCHANGED <<sock, Events, signalled, seen, cpc, Queue, interest, size, stopVars, workerVars>>

(* one entry of the list is used for the control socket *)
HasRoom == Cardinality(Queued) + 1 + 1 <= size

Arm(e) == interest' = [interest EXCEPT ![e] = GetPollEvent(e)]

(* Append; the thread of the worker starts with the first event *)
Append1(e) ==
  /\ pc[e] = "Append" /\ DataLockIsFree
  /\ IF HasRoom
     THEN /\ IF GetPollEvent(e) = {} THEN UNCHANGED <<Queue, interest, wpc>>
             ELSE /\ Arm(e)
                  /\ Queue' = [x \in Queued \cup {e} |-> IF x = e THEN TRUE ELSE Queue[x]]
                  /\ wpc' = IF wpc = "None" THEN "Check" ELSE wpc
          /\ Goes(e, "Idle")
          /\ UNCHANGED stopVars
     ELSE /\ EvGrowDone' = FALSE /\ control' = Append(control, "@grow")
          /\ Goes(e, "Grow")
          /\ UNCHANGED <<Queue, interest, wpc, EvStop>>
  /\ UNCHANGED <<sock, eventVars, seen, cpc, exists, size, batch, firing, used>>

(* AddSocketEvent goes round again once the list is longer *)
Grown(e) ==
  /\ pc[e] = "Grow" /\ EvGrowDone
  /\ Goes(e, "Append")
  /\ UNCHANGED <<sock, eventVars, seen, cpc, queueVars, stopVars, workerVars, used>>

-----------------------------------------------------------------------------
(* Wait and RegisterWait: the socket is polled, then the event activated, *)
(* then the event waited for.                                             *)
StartWait(e) ==
  /\ pc[e] = "Idle" /\ Uses("waits", MaxWaits)
  /\ FireEvents(e, Polled(e))
  /\ Goes(e, IF Polled(e) = {} THEN "Activate" ELSE "Register")
  /\ UNCHANGED <<sock, EventMask, seen, cpc, queueVars, stopVars, workerVars>>

(* nothing is done for an event that is active already *)
Inactive(e) == e \in Queued /\ ~Queue[e]

ActivateEvent(e) ==
  /\ pc[e] = "Activate" /\ RemoveLockIsFree /\ DataLockIsFree
  /\ IF Inactive(e) /\ GetPollEvent(e) # {}
     THEN Arm(e) /\ Queue' = [Queue EXCEPT ![e] = TRUE]
     ELSE UNCHANGED <<interest, Queue>>
  /\ Goes(e, "Register")
  /\ UNCHANGED <<sock, eventVars, seen, cpc, exists, size, stopVars, workerVars, used>>

(* The event was closed, or is signalled, or the thread waits for it. *)
Register(e) ==
  /\ pc[e] = "Register"
  /\ CASE cpc[e] = "Closed" -> Goes(e, "Idle") /\ UNCHANGED signalled
       [] cpc[e] # "Closed" /\ signalled[e] -> Goes(e, "Idle") /\ signalled' = [signalled EXCEPT ![e] = FALSE]
       [] OTHER -> Goes(e, "Wait") /\ UNCHANGED signalled
  /\ UNCHANGED <<sock, EventMask, Events, seen, cpc, queueVars, stopVars, workerVars, used>>

Wake(e) ==
  /\ pc[e] = "Wait"
  /\ signalled[e] \/ cpc[e] = "Closed"
  /\ signalled' = [signalled EXCEPT ![e] = FALSE]
  /\ Goes(e, "Idle")
  /\ UNCHANGED <<sock, EventMask, Events, seen, cpc, queueVars, stopVars, workerVars, used>>

Timeout(e) ==
  /\ pc[e] = "Wait"
  /\ Goes(e, "Idle")
  /\ UNCHANGED <<sock, eventVars, seen, cpc, queueVars, stopVars, workerVars, used>>

-----------------------------------------------------------------------------
(* GetEvents: after CLOSE the event is watched for the rest of its mask.  *)
(* The mask is read and written with no lock.  The thread reads what has  *)
(* arrived at any time.                                                   *)
Reads(e) ==
  /\ pc[e] = "Idle" /\ sock[e].data
  /\ sock' = [sock EXCEPT ![e].data = FALSE]
  /\ UNCHANGED <<eventVars, threadVars, queueVars, stopVars, workerVars, used>>

GetEvents(e) ==
  /\ pc[e] = "Idle" /\ Events[e] # {}
  /\ Events' = [Events EXCEPT ![e] = {}]
  /\ IF "CLOSE" \in Events[e]
     THEN seen' = [seen EXCEPT ![e] = EventMask[e]] /\ Goes(e, "Unmask")
     ELSE UNCHANGED <<seen, pc>>
  /\ UNCHANGED <<sock, EventMask, signalled, cpc, queueVars, stopVars, workerVars, used>>

Unmask(e) ==
  /\ pc[e] = "Unmask"
  /\ EventMask' = [EventMask EXCEPT ![e] = seen[e] \ {"CLOSE"}]
  /\ seen' = [seen EXCEPT ![e] = {}]
  /\ Goes(e, "Update")
  /\ UNCHANGED <<sock, Events, signalled, cpc, queueVars, stopVars, workerVars, used>>

(* RemoveSocketEvent *)
RemoveSocketEvent(e) ==
  /\ Queue' = Restrict(Queue, Queued \ {e})
  /\ interest' = [interest EXCEPT ![e] = {}]

(* only an event that was there is added again *)
UpdateLeadsTo(e) == IF e \in Queued THEN "Append" ELSE "Idle"

Update(e) ==
  /\ pc[e] = "Update" /\ RemoveLockIsFree /\ DataLockIsFree
  /\ RemoveSocketEvent(e)
  /\ Goes(e, IF exists THEN UpdateLeadsTo(e) ELSE "Idle")
  /\ UNCHANGED <<sock, eventVars, seen, cpc, exists, size, stopVars, workerVars, used>>

-----------------------------------------------------------------------------
(* OnCloseHandle: the mask is emptied, the event removed, the queue        *)
(* destroyed with its last event, and those who wait are told.             *)
CloseHandle(e) ==
  /\ cpc[e] = "Open" /\ pc[e] \notin {"New"} \cup Adding
  /\ EventMask' = [EventMask EXCEPT ![e] = {}]
  /\ cpc' = [cpc EXCEPT ![e] = "Remove"]
  /\ UNCHANGED <<sock, Events, signalled, pc, seen, queueVars, stopVars, workerVars, used>>

LastOne(e) == Queued \subseteq {e}

(* OnCloseHandle uses the instance without looking whether there is one.  There is none if the event's
   own thread has taken it out and, finding the mask empty, not put it back (GetEvents), and then the
   last of the others was closed: the process ends there. *)
Crashed == \E e \in SocketEvent : cpc[e] = "Remove" /\ ~exists

(* Mutant of StopQueue: the worker is not told. *)
StopQueueSilently == EvStop' = TRUE /\ UNCHANGED control

StopQueue == EvStop' = TRUE /\ control' = Append(control, "@exit")

Remove(e) ==
  /\ cpc[e] = "Remove" /\ RemoveLockIsFree /\ DataLockIsFree
  /\ RemoveSocketEvent(e)
  /\ IF LastOne(e)
     THEN StopQueue /\ cpc' = [cpc EXCEPT ![e] = "Join"]
     ELSE UNCHANGED <<EvStop, control>> /\ cpc' = [cpc EXCEPT ![e] = "Removed"]
  /\ UNCHANGED <<sock, eventVars, pc, seen, exists, size, EvGrowDone, workerVars, used>>

(* the worker is joined and the instance gone *)
Join(e) ==
  /\ cpc[e] = "Join" /\ wpc = "Exit"
  /\ exists' = FALSE /\ size' = GROW_SIZE
  /\ EvStop' = FALSE /\ EvGrowDone' = FALSE /\ control' = <<>>
  /\ wpc' = "None" /\ batch' = {}
  /\ cpc' = [cpc EXCEPT ![e] = "Removed"]
  /\ UNCHANGED <<sock, eventVars, pc, seen, Queue, interest, firing, used>>

(* Event::OnCloseHandle *)
EventCloses(e) ==
  /\ cpc[e] = "Removed"
  /\ cpc' = [cpc EXCEPT ![e] = "Closed"]
  /\ UNCHANGED <<sock, eventVars, pc, seen, queueVars, stopVars, workerVars, used>>

(* The last reference goes; the address is used for another event. *)
Destroyed(e) ==
  /\ cpc[e] = "Closed" /\ pc[e] = "Idle"
  /\ sock' = [sock EXCEPT ![e] = NewSocket]
  /\ EventMask' = [EventMask EXCEPT ![e] = {}] /\ Events' = [Events EXCEPT ![e] = {}]
  /\ signalled' = [signalled EXCEPT ![e] = FALSE]
  /\ Goes(e, "New") /\ cpc' = [cpc EXCEPT ![e] = "Open"]
  /\ UNCHANGED <<seen, queueVars, stopVars, workerVars, used>>

-----------------------------------------------------------------------------
(* The worker: what epoll_wait returns is disarmed (EPOLLONESHOT), the     *)
(* control socket is not.                                                  *)
Control == "control"
ASSUME ControlAssumption == Control \notin SocketEvent

Due == {e \in Queued : interest[e] \cap Ready(e) # {}}

WorkerChecks ==
  /\ wpc = "Check"
  /\ wpc' = IF EvStop THEN "Exit" ELSE "Poll"
  /\ UNCHANGED <<sock, eventVars, threadVars, queueVars, stopVars, batch, firing, used>>

EpollWait ==
  /\ wpc = "Poll" /\ (Due # {} \/ control # <<>>)
  /\ batch' = {<<e, interest[e] \cap Ready(e)>> : e \in Due}
              \cup (IF control = <<>> THEN {} ELSE {<<Control, {Head(control)}>>})
  /\ interest' = [e \in SocketEvent |-> IF e \in Due THEN {} ELSE interest[e]]
  /\ control' = IF control = <<>> THEN <<>> ELSE Tail(control)
  /\ wpc' = "Batch"
  /\ UNCHANGED <<sock, eventVars, threadVars, exists, Queue, size, EvStop, EvGrowDone, firing, used>>

(* Mutant of IsKnown: that the event was removed meanwhile is not looked at. *)
IsKnownOrNot(e) == TRUE

IsKnown(e) == e \in Queued

(* Mutant of Marked: the event stays active. *)
StillMarked(e) == Queue

(* the event is no longer active: epoll has disarmed it *)
Marked(e) == [x \in Queued |-> x # e /\ Queue[x]]

(* FireEvents of the queue takes DataLock, marks the event inactive and looks at its mask... *)
FireOne(b) ==
  LET e == b[1] IN
  /\ wpc = "Batch" /\ b \in batch /\ e # Control
  /\ batch' = batch \ {b}
  /\ IF IsKnown(e)
     THEN /\ Queue' = Marked(e)
          /\ IF b[2] \cap EventMask[e] = {} THEN UNCHANGED <<wpc, firing>>
             ELSE wpc' = "Fire" /\ firing' = {b}
     ELSE UNCHANGED <<Queue, wpc, firing>>
  /\ UNCHANGED <<sock, eventVars, threadVars, exists, interest, size, stopVars, used>>

(* ... and signals it *)
Signal ==
  /\ wpc = "Fire"
  /\ \E b \in firing :
       /\ Events' = [Events EXCEPT ![b[1]] = b[2] \cap EventMask[b[1]]]
       /\ signalled' = [signalled EXCEPT ![b[1]] = TRUE]
  /\ wpc' = "Batch" /\ firing' = {}
  /\ UNCHANGED <<sock, EventMask, threadVars, queueVars, stopVars, batch, used>>

NewSize == ((size + 1) \div GROW_SIZE + 1) * GROW_SIZE

(* the command is obeyed when the rest of the batch has been processed *)
Obey ==
  /\ wpc = "Batch" /\ \A b \in batch : b[1] = Control
  /\ batch' = {}
  /\ CASE <<Control, {"@exit"}>> \in batch -> wpc' = "Exit" /\ UNCHANGED <<size, EvGrowDone>>
       [] <<Control, {"@grow"}>> \in batch -> wpc' = "Check" /\ size' = NewSize /\ EvGrowDone' = TRUE
       [] OTHER -> wpc' = "Check" /\ UNCHANGED <<size, EvGrowDone>>
  /\ UNCHANGED <<sock, eventVars, threadVars, exists, Queue, interest, EvStop, control, firing, used>>

Worker == WorkerChecks \/ EpollWait \/ (\E b \in batch : FireOne(b)) \/ Signal \/ Obey

-----------------------------------------------------------------------------
Continues(e) == Append1(e) \/ Grown(e) \/ Register(e) \/ Wake(e) \/ Unmask(e) \/ Join(e) \/ EventCloses(e)
TakesRemoveLock(e) == ActivateEvent(e) \/ Update(e) \/ Remove(e)

User(e) == \/ \E mask \in Masks : CreateSocketEvent(e, mask)
           \/ StartWait(e) \/ Timeout(e) \/ Reads(e) \/ GetEvents(e) \/ CloseHandle(e) \/ Destroyed(e)

Next == /\ ~Crashed
        /\ \/ Worker
           \/ \E e \in SocketEvent : Environment(e) \/ User(e) \/ Continues(e) \/ TakesRemoveLock(e)

Spec == Init /\ [][Next]_vars

(* A thread that is in a call runs on, and so does the worker; nobody has to call, nothing has to
   arrive, and a wait need not time out.  Every such step uses something up, so that it is enough if
   one of them is taken as long as there is one. *)
Progress == Worker \/ \E e \in SocketEvent : Continues(e) \/ TakesRemoveLock(e)
FairSpec == Spec /\ WF_vars(~Crashed /\ Progress)

-----------------------------------------------------------------------------
(* TYPE INVARIANT. *)
TypeOK ==
  /\ sock \in [SocketEvent -> [data : BOOLEAN, fin : BOOLEAN, broken : BOOLEAN, tx : BOOLEAN, room : BOOLEAN]]
  /\ {EventMask, Events, seen, interest} \subseteq [SocketEvent -> SUBSET {"READ", "WRITE", "CLOSE"}]
  /\ signalled \in [SocketEvent -> BOOLEAN]
  /\ pc \in [SocketEvent -> {"New", "Append", "Grow", "Idle", "Activate", "Register", "Wait", "Unmask", "Update"}]
  /\ cpc \in [SocketEvent -> {"Open", "Remove", "Join", "Removed", "Closed"}]
  /\ exists \in BOOLEAN /\ Queued \subseteq SocketEvent /\ \A e \in Queued : Queue[e] \in BOOLEAN
  /\ size \in Nat /\ EvStop \in BOOLEAN /\ EvGrowDone \in BOOLEAN
  /\ Len(control) <= 1 /\ \A i \in 1..Len(control) : control[i] \in {"@exit", "@grow"}
  /\ wpc \in {"None", "Check", "Poll", "Batch", "Fire", "Exit"}
  /\ \A b \in batch : b[1] \in SocketEvent \cup {Control}
  /\ Cardinality(firing) = IF wpc = "Fire" THEN 1 ELSE 0

(* A thread that waits for an event whose socket has something to read, or was closed by the peer, is
   about to be told: the event is signalled, or armed for it, or in the worker's hands.  (Output that
   becomes possible is not promised: an event that was armed while nothing was queued stays so.) *)
Readable(e) == (EventMask[e] \cap Ready(e)) \ {"WRITE"}
InHand(e) == \/ signalled[e]
             \/ interest[e] \cap Ready(e) # {}
             \/ \E b \in batch \cup firing : b[1] = e
NoMissedReadiness ==
  \A e \in SocketEvent :
    pc[e] = "Wait" /\ cpc[e] = "Open" /\ Readable(e) # {} => InHand(e)

(* An event that is marked active is armed or in the worker's hands, so that leaving it as it is
   when it is activated loses nothing; one that is armed is in the queue. *)
ActiveMeansArmed ==
  \A e \in SocketEvent :
    /\ e \in Queued /\ Queue[e] => interest[e] # {} \/ \E b \in batch : b[1] = e
    /\ interest[e] # {} => e \in Queued

(* The worker signals only an event that is in the queue, and an event whose close has removed it
   never comes back, whatever its own thread is doing: no object is signalled after its end. *)
OnlyLiveEventsFire ==
  /\ \A b \in firing : b[1] \in Queued
  /\ \A e \in SocketEvent : cpc[e] \in {"Removed", "Closed"} \/ pc[e] = "New" => e \notin Queued /\ interest[e] = {}

(* Whenever no one is adding or closing an event, every event that is open is in the queue, and nothing
   but events that are not removed yet; a queue with events has an instance whose worker runs, and an
   instance is not left behind when the last event is gone. *)
InstanceServesItsEvents ==
  LET Alive == {e \in SocketEvent : pc[e] # "New" /\ cpc[e] \in {"Open", "Remove"}} IN
  RemoveLockIsFree =>
    /\ {e \in Alive : cpc[e] = "Open" /\ pc[e] # "Update"} \subseteq Queued /\ Queued \subseteq Alive
    /\ Queued # {} => exists /\ wpc \notin {"None", "Exit"}
    /\ exists => Alive # {}

(* The worker's list has room for every event and the control socket: one epoll_wait returns all that
   is ready. *)
ListHasRoom == exists => Cardinality(Queued) + 1 <= size

(* No event is added to a queue that is being stopped (Append would refuse it and no one would be told). *)
NothingAddedToStopped == EvStop => \A e \in SocketEvent : pc[e] \notin Adding

(* The queue, its worker and the events agree: an event is in the queue and armed exactly while it may
   be signalled, and is signalled when it must be (the parts above). *)
QueueSound ==
  /\ TypeOK /\ NoMissedReadiness /\ ActiveMeansArmed /\ OnlyLiveEventsFire
  /\ InstanceServesItsEvents /\ ListHasRoom /\ NothingAddedToStopped

(* Readiness that lasts ends the wait; what was noted need not be the last word. *)
ReadinessEndsWait ==
  \A e \in SocketEvent :
    (pc[e] = "Wait" /\ Readable(e) # {})
      ~> (pc[e] # "Wait" \/ Readable(e) = {} \/ Crashed)

(* Creating and closing an event come to their end, though the one waits for the worker to make
   room and the other for its exit, both with RemoveLock held; a close ends every wait.  *)
CallsReturn ==
  \A e \in SocketEvent :
    (pc[e] \in Adding \/ cpc[e] # "Open")
      ~> \/ Crashed
         \/ pc[e] \notin Adding \cup {"Wait"} /\ cpc[e] \in {"Open", "Closed"}
=============================================================================
