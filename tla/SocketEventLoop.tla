-------------------------- MODULE SocketEventLoop --------------------------
(***************************************************************************)
(* The socket event loop on epoll (SocketEventLoopLinux.cpp): sockets with *)
(* the events they are watched for, the results that are pending, and one  *)
(* thread that calls Wait again and again until it is told to stop.  Its   *)
(* interest is level-triggered: what is ready stays so until the owner of  *)
(* the socket has used it.                                                 *)
(*                                                                         *)
(* A section under Lock is one step, and so is a system call.  The owners  *)
(* add, update, remove and close their sockets at any moment, also between *)
(* epoll_wait and the events it returned; a socket is closed before or     *)
(* after it is removed, and its descriptor is used again.                  *)
(***************************************************************************)
EXTENDS Naturals, Sequences, FiniteSets

CONSTANTS
  Skt,         \* Socket objects; one that is in no entry stands for a new one too
  Fd,          \* descriptors
  Masks,       \* the sets of events that Add and Update are given
  Readiness,   \* what a descriptor may be ready for
  NoSocket, NoFd, StopEvent

ASSUME NamesAssumption ==
  /\ NoSocket \notin Skt /\ NoFd \notin Fd /\ StopEvent \notin Fd \cup {NoFd}
ASSUME MasksAssumption ==
  /\ Masks \subseteq SUBSET {"READ", "WRITE", "CLOSE"}
  /\ Readiness \subseteq SUBSET {"IN", "OUT", "RDHUP", "HUP"}

VARIABLES
  handle,    \* Socket::Handle
  entries,   \* Entries
  pending,   \* PendingResults
  stopping,  \* Stopping
  eventfd,   \* the descriptor StopEvent is readable
  stop,      \* a call of Stop: "No", "Stored" once Stopping is set, "Done"
  result,    \* the result of the last Wait
  wpc,       \* the thread in Wait
  batch,     \* what epoll_wait returned and Wait has not processed
  ready,     \* the kernel's side of a descriptor
  interest   \* the epoll set

ownVars    == <<handle, entries>>
wakeVars   == <<stopping, eventfd, stop>>
kernelVars == <<ready, interest>>
waitVars   == <<result, wpc, batch>>
loopVars == <<ownVars, wakeVars, kernelVars, waitVars, pending>>

NoEntry == [skt |-> NoSocket, events |-> {}]
Unregistered == {"UNREGISTERED"}
NoResult == [op |-> "None", skt |-> NoSocket, events |-> {}]

Kinds == {"IN", "OUT", "RDHUP", "HUP"}
Watched == {s \in Skt : \E d \in Fd : entries[d].skt = s}
Open == {s \in Skt : handle[s] # NoFd}
IsRegistered(d) == interest[d] # Unregistered

LoopInit ==
  /\ handle = [s \in Skt |-> NoFd]
  /\ entries = [d \in Fd |-> NoEntry]
  /\ pending = <<>>
  /\ stopping = FALSE /\ eventfd = FALSE /\ stop = "No"
  /\ result = NoResult /\ wpc = "Idle" /\ batch = {}
  /\ ready = [d \in Fd |-> {}]
  /\ interest = [d \in Fd |-> Unregistered]

-----------------------------------------------------------------------------
(* Events and what epoll calls them *)

Kind == [READ |-> "IN", WRITE |-> "OUT", CLOSE |-> "RDHUP"]

(* Mutant of MakeEvent: a socket that is watched for its end is watched for no more. *)
MakeOneEvent(events) ==
  IF "CLOSE" \in events THEN {"RDHUP"} ELSE {Kind[e] : e \in events}
MakeEvent(events) == {Kind[e] : e \in events}

EventsOf(kinds) ==
  {e \in DOMAIN Kind : Kind[e] \in kinds \/ (e = "CLOSE" /\ "HUP" \in kinds)}

(* a hang-up is reported whether it was asked for or not *)
Reported(d) ==
  IF IsRegistered(d) THEN ready[d] \cap (interest[d] \cup {"HUP"}) ELSE {}

Operation(events) ==
  CASE "CLOSE" \in events -> "Close"
    [] "CLOSE" \notin events /\ "READ" \in events -> "Read"
    [] OTHER -> "Write"

-----------------------------------------------------------------------------
(* The owners of the sockets *)

(* a connection is accepted, and Attach is given its descriptor *)
Accept(s, d) ==
  /\ s \notin Open \cup Watched
  /\ d \notin {handle[t] : t \in Skt}
  /\ handle' = [handle EXCEPT ![s] = d]
  /\ \E kinds \in Readiness : ready' = [ready EXCEPT ![d] = kinds]
  /\ UNCHANGED <<entries, interest, wakeVars, waitVars, pending>>

(* Mutant of Enter: an entry that is there already is kept. *)
EnterOnce(d, entry) ==
  IF entries[d] = NoEntry THEN [entries EXCEPT ![d] = entry] ELSE entries
Enter(d, entry) == [entries EXCEPT ![d] = entry]

(* it fails when the descriptor is in the epoll set *)
Add(s, events) ==
  LET d == handle[s] IN
  /\ s \in Open /\ ~IsRegistered(d)
  /\ interest' = [interest EXCEPT ![d] = MakeEvent(events)]
  /\ entries' = Enter(d, [skt |-> s, events |-> events])
  /\ UNCHANGED <<handle, ready, wakeVars, waitVars, pending>>

Modify(d, events) ==
  IF IsRegistered(d) THEN [interest EXCEPT ![d] = MakeEvent(events)] ELSE interest

(* the entry found may be that of a socket which had the descriptor before *)
Update(s, events) ==
  LET d == handle[s] IN
  /\ s \in Open /\ entries[d] # NoEntry
  /\ entries' = [entries EXCEPT ![d].events = events]
  /\ interest' = Modify(d, events)
  /\ UNCHANGED <<handle, ready, wakeVars, waitVars, pending>>

(* Mutant of Erase: only the interest is given up. *)
EraseNothing(d) == entries
Erase(d) == [entries EXCEPT ![d] = NoEntry]

(* by the descriptor, or by the socket when that has been closed since *)
RemoveSocket(s) ==
  \E d \in Fd :
    /\ entries[d].skt = s
    /\ entries' = Erase(d)
    /\ interest' = [interest EXCEPT ![d] = Unregistered]
    /\ UNCHANGED <<handle, ready, wakeVars, waitVars, pending>>

(* the kernel takes the descriptor out of the epoll set *)
Close(s) ==
  LET d == handle[s] IN
  /\ s \in Open
  /\ handle' = [handle EXCEPT ![s] = NoFd]
  /\ ready' = [ready EXCEPT ![d] = {}]
  /\ interest' = [interest EXCEPT ![d] = Unregistered]
  /\ UNCHANGED <<entries, wakeVars, waitVars, pending>>

-----------------------------------------------------------------------------
(* The connection *)

(* bytes and room come and are used up; a shutdown or a reset is for good *)
Traffic(s) ==
  LET d == handle[s] IN
  /\ s \in Open
  /\ \E kinds \in Readiness :
       /\ ready[d] \cap {"RDHUP", "HUP"} \subseteq kinds
       /\ ready' = [ready EXCEPT ![d] = kinds]
  /\ UNCHANGED <<ownVars, interest, wakeVars, waitVars, pending>>

-----------------------------------------------------------------------------
(* Waking and stopping *)

Signal == eventfd' = TRUE

Wake ==
  /\ Signal
  /\ UNCHANGED <<stopping, stop, ownVars, kernelVars, waitVars, pending>>

(* Mutant of Stop: the thread is woken before it is told why. *)
StopAfterWake ==
  \/ stop = "No" /\ stop' = "Stored" /\ Signal /\ UNCHANGED stopping
  \/ stop = "Stored" /\ stop' = "Done" /\ stopping' = TRUE /\ UNCHANGED eventfd

Stop ==
  \/ stop = "No" /\ stop' = "Stored" /\ stopping' = TRUE /\ UNCHANGED eventfd
  \/ stop = "Stored" /\ stop' = "Done" /\ Signal /\ UNCHANGED stopping

StopStep == Stop /\ UNCHANGED <<ownVars, kernelVars, waitVars, pending>>

-----------------------------------------------------------------------------
(* Wait *)

(* PopPendingResult has one, and Wait returns *)
Pop ==
  /\ pending # <<>>
  /\ result' = Head(pending) /\ pending' = Tail(pending)
  /\ wpc' = "Idle"

StartWait ==
  /\ wpc = "Idle" /\ result.op # "Stop"
  /\ \/ Pop
     \/ pending = <<>> /\ result' = NoResult /\ wpc' = "Poll" /\ UNCHANGED pending
  /\ UNCHANGED <<ownVars, wakeVars, kernelVars, batch>>

ReadySet ==
  {<<d, Reported(d)>> : d \in {f \in Fd : Reported(f) # {}}}
    \cup (IF eventfd THEN {<<StopEvent, {"IN"}>>} ELSE {})

(* no more sockets are ready than Events has room for *)
EpollWait ==
  /\ wpc = "Poll"
  /\ batch' = ReadySet
  /\ \/ ReadySet # {} /\ wpc' = "Batch"
     \/ ReadySet = {} /\ wpc' = "Idle"      \* the timeout is over
  /\ UNCHANGED <<ownVars, wakeVars, kernelVars, result, pending>>

SocketResult(entry, events) ==
  [op |-> Operation(events), skt |-> entry.skt, events |-> events]

Queued(d, events) ==
  IF entries[d] = NoEntry THEN pending ELSE Append(pending, SocketResult(entries[d], events))

QueueSocketResult ==
  /\ wpc = "Batch"
  /\ \E ev \in batch :
       /\ ev[1] # StopEvent
       /\ batch' = batch \ {ev}
       /\ pending' = Queued(ev[1], EventsOf(ev[2]))
  /\ UNCHANGED <<ownVars, wakeVars, kernelVars, result, wpc>>

ReadStopEvent ==
  /\ wpc = "Batch"
  /\ \E ev \in batch : ev[1] = StopEvent /\ batch' = batch \ {ev}
  /\ eventfd' = FALSE
  /\ wpc' = "Test"
  /\ UNCHANGED <<ownVars, stopping, stop, kernelVars, result, pending>>

TestStopping ==
  /\ wpc = "Test"
  /\ \/ /\ stopping
        /\ result' = [NoResult EXCEPT !.op = "Stop", !.events = {"CLOSE"}]
        /\ wpc' = "Idle" /\ batch' = {}
        /\ UNCHANGED pending
     \/ /\ ~stopping
        /\ pending' = Append(pending, [NoResult EXCEPT !.op = "Wake"])
        /\ wpc' = "Batch"
        /\ UNCHANGED <<result, batch>>
  /\ UNCHANGED <<ownVars, wakeVars, kernelVars>>

EndOfBatch ==
  /\ wpc = "Batch" /\ batch = {}
  /\ \/ Pop
     \/ pending = <<>> /\ wpc' = "Poll" /\ UNCHANGED <<result, pending>>
  /\ UNCHANGED <<ownVars, wakeVars, kernelVars, batch>>

WaitStep ==
  \/ StartWait \/ EpollWait \/ QueueSocketResult
  \/ ReadStopEvent \/ TestStopping \/ EndOfBatch

-----------------------------------------------------------------------------
OwnerStep(s) ==
  \/ \E d \in Fd : Accept(s, d)
  \/ \E events \in Masks : Add(s, events) \/ Update(s, events)
  \/ RemoveSocket(s) \/ Close(s)

LoopNext ==
  \/ \E s \in Skt : OwnerStep(s) \/ Traffic(s)
  \/ Wake \/ StopStep
  \/ WaitStep

LoopSpec == LoopInit /\ [][LoopNext]_loopVars

(* The loop's thread calls Wait until it is stopped, and a Stop that has begun *)
(* ends; nobody has to call anything else, and no peer has to do anything.     *)
LoopFairSpec == LoopSpec /\ WF_loopVars(WaitStep) /\ WF_loopVars(stop = "Stored" /\ StopStep)

-----------------------------------------------------------------------------
Result ==
  [op: {"None", "Wake", "Stop"}, skt: {NoSocket}, events: SUBSET {"CLOSE"}]
    \cup [op: {"Read", "Write", "Close"}, skt: Skt, events: (SUBSET DOMAIN Kind) \ {{}}]

(* The type invariant: a result is one of a socket or of a call. *)
LoopTypeOK ==
  /\ handle \in [Skt -> Fd \cup {NoFd}]
  /\ entries \in [Fd -> [skt: Skt \cup {NoSocket}, events: SUBSET DOMAIN Kind]]
  /\ pending \in Seq(Result) /\ result \in Result
  /\ stopping \in BOOLEAN /\ eventfd \in BOOLEAN
  /\ stop \in {"No", "Stored", "Done"} /\ wpc \in {"Idle", "Poll", "Batch", "Test"}
  /\ batch \subseteq (Fd \cup {StopEvent}) \X ((SUBSET Kinds) \ {{}})
  /\ ready \in [Fd -> SUBSET Kinds]
  /\ interest \in [Fd -> (SUBSET Kinds) \cup {Unregistered}]

(* A descriptor in the epoll set has the entry of the socket that holds it: the    *)
(* stale entry of a socket that was closed before it was removed never gets the    *)
(* events of the next one, and its removal takes nothing from that one             *)
(* (SocketEventLoopLinux.cpp:113-120, 154-175).                                    *)
EntriesMatchEpoll ==
  \A d \in Fd : IsRegistered(d) =>
    LET s == entries[d].skt IN
    s \in Skt /\ handle[s] = d /\ interest[d] = MakeEvent(entries[d].events)

(* Once a socket has been removed no result of it is queued, also from the events  *)
(* that epoll_wait returned before; those that are pending by then are returned    *)
(* (SocketEventLoopLinux.cpp:269-305).                                             *)
Removed(s) == s \in Open /\ ~IsRegistered(handle[s])

RemovedGetsNothing ==
  [][Len(pending') > Len(pending) =>
       \A s \in Skt : Removed(s) => pending'[Len(pending')].skt # s]_loopVars

(* what s is watched for and ready for *)
Due(s) ==
  LET d == handle[s] IN
  IF s \in Open /\ entries[d].skt = s
  THEN {e \in entries[d].events : Kind[e] \in ready[d]} ELSE {}

(* What a socket is watched for and ready for is reported, or is over: results     *)
(* that are pending, other sockets that are always ready and wakeups do not keep a *)
(* socket from it, unless the loop stops.                                          *)
ReadinessIsReported ==
  \A s \in Skt :
    (Due(s) # {}) ~> (result.skt = s \/ Due(s) = {} \/ result.op = "Stop")

(* Wake and Stop are different results of one descriptor (test WakeAndStopAreDif-  *)
(* ferentEvents): a Wake just before, between or after the two halves of Stop does *)
(* not take its signal away, and what is ready does not come before it for ever.   *)
StopIsReported == (stop = "Done") ~> (result.op = "Stop")

-----------------------------------------------------------------------------
(* The inductive invariant. *)

OneHolder == \A s, t \in Open : handle[s] = handle[t] => s = t

(* the entry of a socket that is open is the one of its descriptor *)
OpenIsRegistered ==
  \A d \in Fd : entries[d].skt \in Open =>
    handle[entries[d].skt] = d /\ IsRegistered(d)

EntriesNameSockets == \A d \in Fd : entries[d].skt = NoSocket => entries[d] = NoEntry

LoopInv == LoopTypeOK /\ EntriesMatchEpoll /\ OneHolder /\ OpenIsRegistered /\ EntriesNameSockets
=============================================================================
