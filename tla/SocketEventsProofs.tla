-------------------------- MODULE SocketEventsProofs --------------------------
(***************************************************************************)
(* The queue of socket events, for any number of events and any masks that *)
(* ask for READ.                                                           *)
(*                                                                         *)
(* RemoveLock makes adding an event and stopping the queue exclude each    *)
(* other; that is why a command in the control socket is the only one, why *)
(* a stop finds no event left and why no event that is added is lost.      *)
(* A wait misses nothing because an active event is armed for its mask, or *)
(* among what epoll_wait has returned with something its mask still asks   *)
(* for: only CLOSE ever leaves the mask of an open event, and a peer that  *)
(* closes makes its socket readable too.                                   *)
(***************************************************************************)
EXTENDS SocketEvents, FiniteSetTheorems, TLAPS

Bits == {"READ", "WRITE", "CLOSE"}
Commands == {<<>>, <<"@grow">>, <<"@exit">>}
SocketState == [data : BOOLEAN, fin : BOOLEAN, broken : BOOLEAN, tx : BOOLEAN, room : BOOLEAN]

(* Types; a socket that is broken is one whose peer has closed. *)
SockType ==
  /\ sock \in [SocketEvent -> SocketState]
  /\ \A e \in SocketEvent : sock[e].broken => sock[e].fin
EventType ==
  /\ EventMask \in [SocketEvent -> SUBSET Bits] /\ Events \in [SocketEvent -> SUBSET Bits]
  /\ signalled \in [SocketEvent -> BOOLEAN] /\ seen \in [SocketEvent -> SUBSET Bits]
PlaceType ==
  /\ pc \in [SocketEvent -> {"New", "Append", "Grow", "Idle", "Activate", "Register", "Wait",
                             "Unmask", "Update"}]
  /\ cpc \in [SocketEvent -> {"Open", "Remove", "Join", "Removed", "Closed"}]
  /\ wpc \in {"None", "Check", "Poll", "Batch", "Fire", "Exit"}
QueueType ==
  /\ exists \in BOOLEAN /\ Queued \subseteq SocketEvent /\ \A e \in Queued : Queue[e] \in BOOLEAN
  /\ interest \in [SocketEvent -> SUBSET Bits] /\ size \in Nat
  /\ EvStop \in BOOLEAN /\ EvGrowDone \in BOOLEAN /\ control \in Commands
BatchType ==
  /\ \A b \in batch : b[1] \in SocketEvent \cup {Control}
  /\ IF wpc = "Fire" THEN \E b : firing = {b} ELSE firing = {}

(* RemoveLock: one thread adds an event or joins the worker. *)
LockInv ==
  /\ \A e, f \in SocketEvent : pc[e] \in Adding /\ pc[f] \in Adding => e = f
  /\ \A e, f \in SocketEvent : cpc[e] = "Join" => pc[f] \notin Adding
  /\ \A e, f \in SocketEvent : cpc[e] = "Join" /\ cpc[f] = "Join" => e = f

(* A stop: the queue is empty, and nothing else makes the worker exit. *)
StopInv ==
  /\ EvStop <=> \E e \in SocketEvent : cpc[e] = "Join"
  /\ EvStop => Queued = {}
  /\ wpc = "Exit" \/ control = <<"@exit">> \/ <<Control, {"@exit"}>> \in batch => EvStop

(* A thread that has asked for room waits until the worker has obeyed. *)
GrowInv ==
  /\ control = <<"@grow">> \/ <<Control, {"@grow"}>> \in batch =>
       ~EvGrowDone /\ \E e \in SocketEvent : pc[e] = "Grow"
  /\ control = <<"@grow">> => <<Control, {"@grow"}>> \notin batch

(* What is in the worker's hands. *)
WorkerInv ==
  /\ batch # {} => wpc \in {"Batch", "Fire"}
  /\ \A b \in firing : b[1] \in Queued

(* The list has room; what is open is in the queue, unless it is being added. *)
QueueInv ==
  /\ IsFiniteSet(Queued) /\ Cardinality(Queued) + 1 <= size
  /\ Queued # {} => exists /\ wpc # "None"
  /\ \A e \in SocketEvent :
       /\ pc[e] \in Adding => exists
       /\ pc[e] \in Adding \/ e \in Queued => cpc[e] \in {"Open", "Remove"} /\ pc[e] # "New"
       /\ pc[e] = "New" => cpc[e] = "Open"
       /\ cpc[e] = "Open" /\ pc[e] \notin Adding \cup {"New"} => e \in Queued
  /\ exists /\ ~EvStop => \E e \in SocketEvent : pc[e] # "New" /\ cpc[e] \in {"Open", "Remove"}

(* An open event is armed for its mask, except that the mask may have lost CLOSE since. *)
MaskInv ==
  \A e \in SocketEvent : cpc[e] = "Open" /\ pc[e] # "New" =>
    /\ "READ" \in EventMask[e]
    /\ pc[e] = "Unmask" => seen[e] = EventMask[e]
    /\ interest[e] # {} => EventMask[e] \ {"WRITE"} \subseteq interest[e]
                           /\ interest[e] \ {"CLOSE"} \subseteq EventMask[e]

(* An active event is armed or among what epoll_wait returned, with something to tell. *)
Useful(e, b) == b[1] = e /\ (b[2] \ {"CLOSE"}) \cap EventMask[e] # {}
Covered(e) == interest[e] # {} \/ \E b \in batch : Useful(e, b)
ArmInv ==
  \A e \in SocketEvent :
    /\ interest[e] # {} => e \in Queued
    /\ e \in Queued /\ Queue[e] => interest[e] # {} \/ \E b \in batch : b[1] = e
    /\ cpc[e] = "Open" /\ e \in Queued /\ Queue[e] => Covered(e)

(* A thread that is about to wait or waits is not left alone. *)
WatchInv ==
  \A e \in SocketEvent : cpc[e] = "Open" /\ pc[e] \in {"Register", "Wait"} =>
    signalled[e] \/ Covered(e) \/ \E b \in firing : b[1] = e

(* The inductive invariant. *)
IInv ==
  /\ SockType /\ EventType /\ PlaceType /\ QueueType /\ BatchType
  /\ LockInv /\ StopInv /\ GrowInv /\ WorkerInv
  /\ QueueInv /\ MaskInv /\ ArmInv /\ WatchInv

-----------------------------------------------------------------------------
(* What is waited for is in the mask, and all of the mask but perhaps WRITE. *)
LEMMA PollEvents ==
  ASSUME NEW e \in SocketEvent
  PROVE  /\ GetPollEvent(e) \subseteq EventMask[e]
         /\ EventMask[e] \ {"WRITE"} \subseteq GetPollEvent(e)
         /\ "READ" \in EventMask[e] => GetPollEvent(e) # {}
<1>1. \A x : x \in GetPollEvent(e) <=> x \in EventMask[e] /\ (x = "WRITE" => sock[e].tx)
  BY DEF GetPollEvent, When
<1>2. "READ" # "WRITE"
  OBVIOUS
<1> QED BY <1>1, <1>2

(* The peer's FIN is data too. *)
LEMMA ReadyEvents ==
  ASSUME NEW e \in SocketEvent
  PROVE  Ready(e) \subseteq Bits /\ ("CLOSE" \in Ready(e) => "READ" \in Ready(e))
<1>1. \A x : x \in Ready(e) <=> \/ x = "READ" /\ (sock[e].data \/ sock[e].fin)
                                \/ x = "WRITE" /\ sock[e].room
                                \/ x = "CLOSE" /\ sock[e].fin
  BY DEF Ready, When
<1> QED BY <1>1 DEF Bits

LEMMA ListGrows ==
  ASSUME size \in Nat
  PROVE  NewSize \in Nat /\ NewSize > size
<1> DEFINE q == (size + 1) \div GROW_SIZE
<1>1. GROW_SIZE \in Nat /\ GROW_SIZE > 0
  BY GrowAssumption
<1>2. q \in Nat /\ size + 1 < (q + 1) * GROW_SIZE
  BY <1>1
<1>3. (q + 1) * GROW_SIZE \in Nat
  BY <1>1, <1>2
<1> HIDE DEF q
<1>4. NewSize = (q + 1) * GROW_SIZE
  BY DEF NewSize, q
<1> QED BY <1>2, <1>3, <1>4

(* Nobody adds an event to a queue that is being stopped, and one at a time. *)
LEMMA Adder ==
  ASSUME IInv, NEW e \in SocketEvent, pc[e] \in Adding
  PROVE  /\ exists /\ ~EvStop /\ pc[e] # "New" /\ cpc[e] \in {"Open", "Remove"}
         /\ control # <<"@exit">> /\ <<Control, {"@exit"}>> \notin batch /\ wpc # "Exit"
         /\ \A f \in SocketEvent : pc[f] \in Adding => f = e
         /\ pc[e] = "Append" => control = <<>> /\ <<Control, {"@grow"}>> \notin batch
<1>1. ~EvStop /\ \A f \in SocketEvent : pc[f] \in Adding => f = e
  BY DEF IInv, LockInv, StopInv
<1>2. exists /\ pc[e] # "New" /\ cpc[e] \in {"Open", "Remove"}
  BY DEF IInv, QueueInv
<1>3. control # <<"@exit">> /\ <<Control, {"@exit"}>> \notin batch /\ wpc # "Exit"
  BY <1>1 DEF IInv, StopInv
<1>4. ASSUME pc[e] = "Append" PROVE ~ \E f \in SocketEvent : pc[f] = "Grow"
  BY <1>1, <1>4 DEF Adding
<1>5. pc[e] = "Append" => control # <<"@grow">> /\ <<Control, {"@grow"}>> \notin batch
  BY <1>4 DEF IInv, GrowInv
<1> QED BY <1>1, <1>2, <1>3, <1>5 DEF IInv, QueueType, Commands

-----------------------------------------------------------------------------
(* One lemma per action: every part of the invariant that it can disturb. *)

LEMMA EnvironmentSound ==
  ASSUME IInv, NEW e \in SocketEvent, Environment(e)
  PROVE  IInv'
<1>1. SockType'
  <2>1. /\ sock[e] \in SocketState
        /\ (sock[e].broken => sock[e].fin)
    BY DEF IInv, SockType
  <2>2. \E s \in SocketState :
          (s.broken => s.fin) /\ sock' = [sock EXCEPT ![e] = s]
    BY <2>1 DEF SocketState, Environment, Arrives, PeerCloses, Breaks, Fills, Drains, Writes
  <2> QED BY <2>2 DEF IInv, SockType
<1>2. EventType' /\ PlaceType' /\ QueueType' /\ BatchType' /\ LockInv' /\ StopInv'
  BY DEF IInv, EventType, PlaceType, QueueType, BatchType, LockInv, StopInv, Queued,
     Environment, eventVars, threadVars, queueVars, stopVars, workerVars
<1>3. GrowInv' /\ WorkerInv' /\ QueueInv' /\ MaskInv' /\ ArmInv' /\ WatchInv'
  BY DEF IInv, GrowInv, WorkerInv, QueueInv, MaskInv, ArmInv, WatchInv, Queued, Covered,
     Useful, Environment, eventVars, threadVars, queueVars, stopVars, workerVars
<1> QED BY <1>1, <1>2, <1>3 DEF IInv

LEMMA CreateSocketEventSound ==
  ASSUME IInv, NEW e \in SocketEvent, NEW mask \in Masks, CreateSocketEvent(e, mask)
  PROVE  IInv'
<1>1. EventType'
  BY MasksAssumption DEF IInv, EventType, Bits, CreateSocketEvent
<1>2. PlaceType'
  BY DEF IInv, PlaceType, CreateSocketEvent, Goes, RemoveLockIsFree, workerVars
<1>3. QueueType'
  BY DEF IInv, QueueType, Queued, CreateSocketEvent, stopVars
<1>4. LockInv'
  BY DEF IInv, LockInv, Adding, PlaceType, CreateSocketEvent, Goes, RemoveLockIsFree
<1>5. GrowInv'
  BY DEF IInv, GrowInv, PlaceType, CreateSocketEvent, Goes, RemoveLockIsFree, stopVars,
     workerVars
<1>6. QueueInv'
  BY DEF IInv, QueueInv, Adding, PlaceType, Queued, CreateSocketEvent, Goes,
     RemoveLockIsFree, stopVars, workerVars
<1>7. MaskInv'
  BY MasksAssumption DEF IInv, MaskInv, ArmInv, QueueInv, LockInv, Adding, PlaceType,
     QueueType, EventType, CreateSocketEvent, Goes, RemoveLockIsFree
<1>8. ArmInv'
  BY DEF IInv, ArmInv, MaskInv, QueueInv, WorkerInv, StopInv, Covered, Useful, Queued,
     PlaceType, QueueType, EventType, CreateSocketEvent, RemoveLockIsFree, workerVars
<1>9. WatchInv'
  BY DEF IInv, WatchInv, Covered, Useful, PlaceType, EventType, CreateSocketEvent, Goes,
     RemoveLockIsFree, workerVars
<1>10. SockType' /\ BatchType' /\ StopInv' /\ WorkerInv'
  BY DEF IInv, SockType, BatchType, StopInv, WorkerInv, Queued, CreateSocketEvent,
     stopVars, workerVars
<1> QED BY <1>1, <1>2, <1>3, <1>4, <1>5, <1>6, <1>7, <1>8, <1>9, <1>10 DEF IInv

LEMMA StartWaitSound ==
  ASSUME IInv, NEW e \in SocketEvent, StartWait(e)
  PROVE  IInv'
<1>1. EventType'
  <2>1. /\ Events' = Events \/ Events' = [Events EXCEPT ![e] = Polled(e) \cap EventMask[e]]
        /\ signalled' = signalled \/ signalled' = [signalled EXCEPT ![e] = TRUE]
        /\ UNCHANGED <<EventMask, seen>>
    BY DEF StartWait, FireEvents
  <2>2. Polled(e) \cap EventMask[e] \in SUBSET Bits
    BY DEF IInv, EventType
  <2> QED BY <2>1, <2>2 DEF IInv, EventType
<1>2. PlaceType'
  BY DEF IInv, PlaceType, StartWait, Goes, workerVars
<1>3. LockInv'
  BY DEF IInv, LockInv, Adding, PlaceType, StartWait, Goes
<1>4. GrowInv'
  BY DEF IInv, GrowInv, PlaceType, StartWait, Goes, Ready, When, stopVars, workerVars
<1>5. QueueInv'
  BY DEF IInv, QueueInv, Adding, PlaceType, Queued, StartWait, Goes, queueVars,
     stopVars, workerVars
<1>6. MaskInv'
  BY DEF IInv, MaskInv, PlaceType, EventType, StartWait, Goes, GetPollEvent, Ready,
     When, queueVars
<1>7. WatchInv'
  <2>1. UNCHANGED <<cpc, interest, batch, firing, EventMask>>
    BY DEF StartWait, queueVars, workerVars
  <2>2. pc' = [pc EXCEPT ![e] = IF Polled(e) = {} THEN "Activate" ELSE "Register"]
    BY DEF StartWait, Goes
  <2>3. /\ \A f \in SocketEvent : signalled[f] => signalled'[f]
        /\ Polled(e) \cap EventMask[e] # {} => signalled'[e]
    BY DEF StartWait, FireEvents, IInv, EventType
  <2>4. ASSUME cpc[e] = "Open", Polled(e) # {} PROVE Polled(e) \cap EventMask[e] # {}
    <3>1. "READ" \in EventMask[e]
      BY <2>4 DEF IInv, MaskInv, StartWait
    <3>2. "READ" \in GetPollEvent(e)
      BY <3>1, PollEvents
    <3>3. CASE Polled(e) # When(sock[e].broken, "CLOSE")
      BY <3>3, PollEvents DEF Polled
    <3>4. CASE Polled(e) = When(sock[e].broken, "CLOSE")
      <4>1. sock[e].fin
        BY <2>4, <3>4 DEF When, IInv, SockType
      <4>2. "READ" \in Ready(e) /\ "READ" # "CLOSE"
        BY <4>1 DEF Ready, When
      <4> QED BY <3>1, <3>2, <4>2 DEF Polled
    <3> QED BY <3>3, <3>4
  <2> QED BY <2>1, <2>2, <2>3, <2>4 DEF IInv, WatchInv, Covered, Useful, PlaceType
<1>8. SockType' /\ QueueType' /\ BatchType' /\ StopInv' /\ WorkerInv' /\ ArmInv'
  BY DEF IInv, SockType, QueueType, BatchType, StopInv, WorkerInv, ArmInv, Queued,
     Covered, Useful, StartWait, queueVars, stopVars, workerVars
<1> QED BY <1>1, <1>2, <1>3, <1>4, <1>5, <1>6, <1>7, <1>8 DEF IInv

LEMMA TimeoutSound ==
  ASSUME IInv, NEW e \in SocketEvent, Timeout(e)
  PROVE  IInv'
<1>1. PlaceType'
  BY DEF IInv, PlaceType, Timeout, Goes, workerVars
<1>2. LockInv'
  BY DEF IInv, LockInv, Adding, PlaceType, Timeout, Goes
<1>3. GrowInv'
  BY DEF IInv, GrowInv, PlaceType, Timeout, Goes, stopVars, workerVars
<1>4. QueueInv'
  BY DEF IInv, QueueInv, Adding, PlaceType, Queued, Timeout, Goes, queueVars, stopVars,
     workerVars
<1>5. MaskInv'
  BY DEF IInv, MaskInv, PlaceType, EventType, Timeout, Goes, eventVars, queueVars
<1>6. WatchInv'
  BY DEF IInv, WatchInv, Covered, Useful, PlaceType, EventType, Timeout, Goes,
     eventVars, queueVars, workerVars
<1>7. SockType' /\ EventType' /\ QueueType' /\ BatchType' /\ StopInv' /\ WorkerInv' /\ ArmInv'
  BY DEF IInv, SockType, EventType, QueueType, BatchType, StopInv, WorkerInv, ArmInv,
     Queued, Covered, Useful, Timeout, eventVars, queueVars, stopVars, workerVars
<1> QED BY <1>1, <1>2, <1>3, <1>4, <1>5, <1>6, <1>7 DEF IInv

LEMMA ReadsSound ==
  ASSUME IInv, NEW e \in SocketEvent, Reads(e)
  PROVE  IInv'
<1>1. SockType'
  BY DEF IInv, SockType, SocketState, Reads
<1>2. EventType' /\ PlaceType' /\ QueueType' /\ BatchType' /\ LockInv' /\ StopInv'
  BY DEF IInv, EventType, PlaceType, QueueType, BatchType, LockInv, StopInv, Queued,
     Reads, eventVars, threadVars, queueVars, stopVars, workerVars
<1>3. GrowInv' /\ WorkerInv' /\ QueueInv' /\ MaskInv' /\ ArmInv' /\ WatchInv'
  BY DEF IInv, GrowInv, WorkerInv, QueueInv, MaskInv, ArmInv, WatchInv, Queued, Covered,
     Useful, Reads, eventVars, threadVars, queueVars, stopVars, workerVars
<1> QED BY <1>1, <1>2, <1>3 DEF IInv

LEMMA GetEventsSound ==
  ASSUME IInv, NEW e \in SocketEvent, GetEvents(e)
  PROVE  IInv'
<1>1. EventType'
  BY DEF IInv, EventType, Bits, GetEvents
<1>2. PlaceType'
  BY DEF IInv, PlaceType, GetEvents, Goes, workerVars
<1>3. LockInv'
  BY DEF IInv, LockInv, Adding, PlaceType, GetEvents, Goes
<1>4. GrowInv'
  BY DEF IInv, GrowInv, PlaceType, GetEvents, Goes, stopVars, workerVars
<1>5. QueueInv'
  BY DEF IInv, QueueInv, Adding, PlaceType, Queued, GetEvents, Goes, queueVars,
     stopVars, workerVars
<1>6. MaskInv'
  BY DEF IInv, MaskInv, PlaceType, EventType, GetEvents, Goes, queueVars
<1>7. WatchInv'
  BY DEF IInv, WatchInv, Covered, Useful, PlaceType, EventType, GetEvents, Goes,
     queueVars, workerVars
<1>8. SockType' /\ QueueType' /\ BatchType' /\ StopInv' /\ WorkerInv' /\ ArmInv'
  BY DEF IInv, SockType, QueueType, BatchType, StopInv, WorkerInv, ArmInv, Queued,
     Covered, Useful, GetEvents, queueVars, stopVars, workerVars
<1> QED BY <1>1, <1>2, <1>3, <1>4, <1>5, <1>6, <1>7, <1>8 DEF IInv

LEMMA CloseHandleSound ==
  ASSUME IInv, NEW e \in SocketEvent, CloseHandle(e)
  PROVE  IInv'
<1>1. EventType'
  BY DEF IInv, EventType, Bits, CloseHandle
<1>2. PlaceType'
  BY DEF IInv, PlaceType, CloseHandle, workerVars
<1>3. LockInv'
  BY DEF IInv, LockInv, Adding, PlaceType, CloseHandle
<1>4. StopInv'
  BY DEF IInv, StopInv, PlaceType, Queued, CloseHandle, queueVars, stopVars, workerVars
<1>5. QueueInv'
  BY DEF IInv, QueueInv, Adding, PlaceType, Queued, CloseHandle, queueVars, stopVars,
     workerVars
<1>6. MaskInv'
  BY DEF IInv, MaskInv, PlaceType, EventType, CloseHandle, queueVars
<1>7. ArmInv'
  BY DEF IInv, ArmInv, Covered, Useful, Queued, PlaceType, CloseHandle, queueVars,
     workerVars
<1>8. WatchInv'
  BY DEF IInv, WatchInv, Covered, Useful, PlaceType, EventType, CloseHandle, queueVars,
     workerVars
<1>9. SockType' /\ QueueType' /\ BatchType' /\ GrowInv' /\ WorkerInv'
  BY DEF IInv, SockType, QueueType, BatchType, GrowInv, WorkerInv, Queued, CloseHandle,
     queueVars, stopVars, workerVars
<1> QED BY <1>1, <1>2, <1>3, <1>4, <1>5, <1>6, <1>7, <1>8, <1>9 DEF IInv

LEMMA DestroyedSound ==
  ASSUME IInv, NEW e \in SocketEvent, Destroyed(e)
  PROVE  IInv'
<1>1. SockType'
  BY DEF IInv, SockType, SocketState, Destroyed, NewSocket
<1>2. EventType'
  BY DEF IInv, EventType, Bits, Destroyed
<1>3. PlaceType'
  BY DEF IInv, PlaceType, Destroyed, Goes, workerVars
<1>4. LockInv'
  BY DEF IInv, LockInv, Adding, PlaceType, Destroyed, Goes
<1>5. StopInv'
  BY DEF IInv, StopInv, PlaceType, Queued, Destroyed, queueVars, stopVars, workerVars
<1>6. GrowInv'
  BY DEF IInv, GrowInv, PlaceType, Destroyed, Goes, stopVars, workerVars
<1>7. QueueInv'
  BY DEF IInv, QueueInv, Adding, PlaceType, Queued, Destroyed, Goes, queueVars,
     stopVars, workerVars
<1>8. MaskInv'
  BY DEF IInv, MaskInv, PlaceType, EventType, Destroyed, Goes, queueVars
<1>9. ArmInv'
  BY DEF IInv, ArmInv, MaskInv, QueueInv, WorkerInv, StopInv, Covered, Useful, Queued,
     PlaceType, QueueType, EventType, Destroyed, queueVars, workerVars
<1>10. WatchInv'
  BY DEF IInv, WatchInv, Covered, Useful, PlaceType, EventType, Destroyed, Goes,
     queueVars, workerVars
<1>11. QueueType' /\ BatchType' /\ WorkerInv'
  BY DEF IInv, QueueType, BatchType, WorkerInv, Queued, Destroyed, queueVars, stopVars,
     workerVars
<1> QED BY <1>1, <1>2, <1>3, <1>4, <1>5, <1>6, <1>7, <1>8, <1>9, <1>10, <1>11 DEF IInv

LEMMA Append1Sound ==
  ASSUME IInv, NEW e \in SocketEvent, Append1(e)
  PROVE  IInv'
<1>1. /\ pc[e] = "Append" /\ wpc # "Fire"
      /\ UNCHANGED <<sock, eventVars, seen, cpc, exists, size, batch, firing>>
  BY DEF Append1, DataLockIsFree
<1>2. pc[e] \in Adding
  BY <1>1 DEF Adding
<1>3. /\ exists /\ ~EvStop /\ cpc[e] \in {"Open", "Remove"} /\ wpc # "Exit" /\ control = <<>>
      /\ <<Control, {"@exit"}>> \notin batch /\ <<Control, {"@grow"}>> \notin batch
      /\ \A f \in SocketEvent : pc[f] \in Adding => f = e
  BY <1>1, <1>2, Adder
<1>4. cpc[e] = "Open" => "READ" \in EventMask[e]
  BY <1>1 DEF IInv, MaskInv
<1>5. SockType' /\ EventType'
  BY <1>1 DEF IInv, SockType, EventType, eventVars
<1>6. CASE ~HasRoom
  <2>1. /\ pc' = [pc EXCEPT ![e] = "Grow"] /\ ~EvGrowDone' /\ control' = <<"@grow">>
        /\ EvGrowDone' = FALSE /\ UNCHANGED <<Queue, interest, wpc, EvStop>>
    BY <1>3, <1>6 DEF Append1, Goes
  <2>2. PlaceType' /\ BatchType'
    BY <1>1, <2>1 DEF IInv, PlaceType, BatchType
  <2>3. QueueType'
    BY <1>1, <2>1 DEF IInv, QueueType, Commands, Queued
  <2>4. LockInv' /\ StopInv' /\ GrowInv'
    BY <1>1, <1>2, <1>3, <2>1 DEF IInv, LockInv, StopInv, GrowInv, Adding, PlaceType, Queued
  <2>5. WorkerInv' /\ QueueInv'
    BY <1>1, <1>2, <2>1 DEF IInv, WorkerInv, QueueInv, Adding, PlaceType, Queued
  <2>6. MaskInv' /\ ArmInv' /\ WatchInv'
    BY <1>1, <2>1 DEF IInv, MaskInv, ArmInv, WatchInv, Covered, Useful, PlaceType, Queued,
       eventVars
  <2> QED BY <1>5, <2>2, <2>3, <2>4, <2>5, <2>6 DEF IInv
<1>7. CASE HasRoom
  <2>1. pc' = [pc EXCEPT ![e] = "Idle"] /\ UNCHANGED stopVars
    BY <1>7 DEF Append1, Goes
  <2>2. CASE GetPollEvent(e) = {}
    <3>1. UNCHANGED <<Queue, interest, wpc>> /\ cpc[e] = "Remove"
      BY <1>3, <1>4, <1>7, <2>2, PollEvents DEF Append1
    <3>2. PlaceType' /\ BatchType' /\ QueueType'
      BY <1>1, <2>1, <3>1 DEF IInv, PlaceType, BatchType, QueueType, Queued, stopVars
    <3>3. LockInv' /\ StopInv' /\ GrowInv'
      BY <1>1, <1>3, <2>1, <3>1 DEF IInv, LockInv, StopInv, GrowInv, Adding, PlaceType, Queued,
         stopVars
    <3>4. WorkerInv' /\ QueueInv'
      BY <1>1, <1>2, <2>1, <3>1 DEF IInv, WorkerInv, QueueInv, Adding, PlaceType, Queued,
         stopVars
    <3>5. MaskInv' /\ ArmInv' /\ WatchInv'
      BY <1>1, <2>1, <3>1 DEF IInv, MaskInv, ArmInv, WatchInv, Covered, Useful, PlaceType,
         Queued, eventVars
    <3> QED BY <1>5, <3>2, <3>3, <3>4, <3>5 DEF IInv
  <2>3. CASE GetPollEvent(e) # {}
    <3>1. /\ interest' = [interest EXCEPT ![e] = GetPollEvent(e)]
          /\ Queue' = [x \in Queued \cup {e} |-> IF x = e THEN TRUE ELSE Queue[x]]
          /\ wpc' = IF wpc = "None" THEN "Check" ELSE wpc
      BY <1>7, <2>3 DEF Append1, Arm
    <3>2. /\ Queued' = Queued \cup {e}
          /\ \A x \in Queued' : Queue'[x] = IF x = e THEN TRUE ELSE Queue[x]
      BY <3>1 DEF Queued
    <3>3. /\ GetPollEvent(e) \subseteq EventMask[e] /\ EventMask[e] \in SUBSET Bits
          /\ EventMask[e] \ {"WRITE"} \subseteq GetPollEvent(e)
      BY PollEvents DEF IInv, EventType
    <3>4. /\ interest' \in [SocketEvent -> SUBSET Bits] /\ interest'[e] = GetPollEvent(e)
          /\ \A x \in SocketEvent : x # e => interest'[x] = interest[x]
      BY <3>1, <3>3 DEF IInv, QueueType
    <3>5. PlaceType' /\ BatchType'
      BY <1>1, <2>1, <3>1 DEF IInv, PlaceType, BatchType
    <3>6. QueueType'
      BY <1>1, <2>1, <3>2, <3>4 DEF IInv, QueueType, stopVars
    <3>7. LockInv' /\ GrowInv'
      BY <1>1, <1>3, <2>1 DEF IInv, LockInv, GrowInv, Adding, PlaceType, stopVars
    <3>8. StopInv'
      BY <1>1, <1>3, <2>1, <3>1 DEF IInv, StopInv, stopVars
    <3>9. WorkerInv'
      BY <1>1, <3>1, <3>2 DEF IInv, WorkerInv
    <3>10. IsFiniteSet(Queued') /\ Cardinality(Queued') + 1 <= size
      <4>1. IsFiniteSet(Queued) /\ Cardinality(Queued) \in Nat
        BY FS_CardinalityType DEF IInv, QueueInv
      <4>2. IsFiniteSet(Queued') /\ Cardinality(Queued') <= Cardinality(Queued) + 1
            /\ Cardinality(Queued') \in Nat
        BY <3>2, <4>1, FS_AddElement, FS_CardinalityType
      <4>3. Cardinality(Queued) + 1 + 1 <= size /\ size \in Nat
        BY <1>7 DEF HasRoom, IInv, QueueType
      <4> QED BY <4>1, <4>2, <4>3
    <3>11. QueueInv'
      BY <1>1, <1>2, <1>3, <2>1, <3>1, <3>2, <3>10 DEF IInv, QueueInv, Adding, PlaceType,
         stopVars
    <3>12. MaskInv'
      BY <1>1, <2>1, <3>3, <3>4 DEF IInv, MaskInv, PlaceType, eventVars
    <3>13. ArmInv'
      BY <1>1, <2>3, <3>2, <3>4 DEF IInv, ArmInv, Covered, Useful, eventVars
    <3>14. WatchInv'
      BY <1>1, <2>1, <2>3, <3>4 DEF IInv, WatchInv, Covered, Useful, PlaceType, eventVars
    <3> QED BY <1>5, <3>5, <3>6, <3>7, <3>8, <3>9, <3>11, <3>12, <3>13, <3>14 DEF IInv
  <2> QED BY <2>2, <2>3
<1> QED BY <1>6, <1>7

LEMMA GrownSound ==
  ASSUME IInv, NEW e \in SocketEvent, Grown(e)
  PROVE  IInv'
<1>1. PlaceType'
  BY DEF IInv, PlaceType, Grown, Goes, workerVars
<1>2. LockInv'
  BY DEF IInv, LockInv, Adding, PlaceType, Grown, Goes
<1>3. GrowInv'
  BY DEF IInv, GrowInv, PlaceType, Grown, Goes, stopVars, workerVars
<1>4. QueueInv'
  BY DEF IInv, QueueInv, Adding, PlaceType, Queued, Grown, Goes, queueVars, stopVars,
     workerVars
<1>5. MaskInv'
  BY DEF IInv, MaskInv, PlaceType, EventType, Grown, Goes, eventVars, queueVars
<1>6. WatchInv'
  BY DEF IInv, WatchInv, Covered, Useful, PlaceType, EventType, Grown, Goes, eventVars,
     queueVars, workerVars
<1>7. SockType' /\ EventType' /\ QueueType' /\ BatchType' /\ StopInv' /\ WorkerInv' /\ ArmInv'
  BY DEF IInv, SockType, EventType, QueueType, BatchType, StopInv, WorkerInv, ArmInv,
     Queued, Covered, Useful, Grown, eventVars, queueVars, stopVars, workerVars
<1> QED BY <1>1, <1>2, <1>3, <1>4, <1>5, <1>6, <1>7 DEF IInv

LEMMA RegisterSound ==
  ASSUME IInv, NEW e \in SocketEvent, Register(e)
  PROVE  IInv'
<1>1. EventType'
  BY DEF IInv, EventType, Bits, Register
<1>2. PlaceType'
  BY DEF IInv, PlaceType, Register, Goes, workerVars
<1>3. LockInv'
  BY DEF IInv, LockInv, Adding, PlaceType, Register, Goes
<1>4. GrowInv'
  BY DEF IInv, GrowInv, PlaceType, Register, Goes, stopVars, workerVars
<1>5. QueueInv'
  BY DEF IInv, QueueInv, Adding, PlaceType, Queued, Register, Goes, queueVars, stopVars,
     workerVars
<1>6. MaskInv'
  BY DEF IInv, MaskInv, PlaceType, EventType, Register, Goes, queueVars
<1>7. WatchInv'
  BY DEF IInv, WatchInv, Covered, Useful, PlaceType, EventType, Register, Goes,
     queueVars, workerVars
<1>8. SockType' /\ QueueType' /\ BatchType' /\ StopInv' /\ WorkerInv' /\ ArmInv'
  BY DEF IInv, SockType, QueueType, BatchType, StopInv, WorkerInv, ArmInv, Queued,
     Covered, Useful, Register, queueVars, stopVars, workerVars
<1> QED BY <1>1, <1>2, <1>3, <1>4, <1>5, <1>6, <1>7, <1>8 DEF IInv

LEMMA WakeSound ==
  ASSUME IInv, NEW e \in SocketEvent, Wake(e)
  PROVE  IInv'
<1>1. EventType'
  BY DEF IInv, EventType, Bits, Wake
<1>2. PlaceType'
  BY DEF IInv, PlaceType, Wake, Goes, workerVars
<1>3. LockInv'
  BY DEF IInv, LockInv, Adding, PlaceType, Wake, Goes
<1>4. GrowInv'
  BY DEF IInv, GrowInv, PlaceType, Wake, Goes, stopVars, workerVars
<1>5. QueueInv'
  BY DEF IInv, QueueInv, Adding, PlaceType, Queued, Wake, Goes, queueVars, stopVars,
     workerVars
<1>6. MaskInv'
  BY DEF IInv, MaskInv, PlaceType, EventType, Wake, Goes, queueVars
<1>7. WatchInv'
  BY DEF IInv, WatchInv, Covered, Useful, PlaceType, EventType, Wake, Goes, queueVars,
     workerVars
<1>8. SockType' /\ QueueType' /\ BatchType' /\ StopInv' /\ WorkerInv' /\ ArmInv'
  BY DEF IInv, SockType, QueueType, BatchType, StopInv, WorkerInv, ArmInv, Queued,
     Covered, Useful, Wake, queueVars, stopVars, workerVars
<1> QED BY <1>1, <1>2, <1>3, <1>4, <1>5, <1>6, <1>7, <1>8 DEF IInv

LEMMA UnmaskSound ==
  ASSUME IInv, NEW e \in SocketEvent, Unmask(e)
  PROVE  IInv'
<1>1. EventType'
  BY DEF IInv, EventType, Bits, Unmask
<1>2. PlaceType'
  BY DEF IInv, PlaceType, Unmask, Goes, workerVars
<1>3. LockInv'
  BY DEF IInv, LockInv, Adding, PlaceType, Unmask, Goes
<1>4. GrowInv'
  BY DEF IInv, GrowInv, PlaceType, Unmask, Goes, stopVars, workerVars
<1>5. QueueInv'
  BY DEF IInv, QueueInv, Adding, PlaceType, Queued, Unmask, Goes, queueVars, stopVars,
     workerVars
<1>6. MaskInv'
  BY DEF IInv, MaskInv, PlaceType, EventType, Unmask, Goes, queueVars
<1>7. ArmInv'
  BY DEF IInv, ArmInv, MaskInv, QueueInv, WorkerInv, StopInv, Covered, Useful, Queued,
     PlaceType, QueueType, EventType, Unmask, queueVars, workerVars
<1>8. WatchInv'
  BY DEF IInv, WatchInv, Covered, Useful, PlaceType, EventType, Unmask, Goes, queueVars,
     workerVars
<1>9. SockType' /\ QueueType' /\ BatchType' /\ StopInv' /\ WorkerInv'
  BY DEF IInv, SockType, QueueType, BatchType, StopInv, WorkerInv, Queued, Unmask,
     queueVars, stopVars, workerVars
<1> QED BY <1>1, <1>2, <1>3, <1>4, <1>5, <1>6, <1>7, <1>8, <1>9 DEF IInv

LEMMA JoinSound ==
  ASSUME IInv, NEW e \in SocketEvent, Join(e)
  PROVE  IInv'
<1>1. PlaceType'
  BY DEF IInv, PlaceType, Join
<1>2. QueueType'
  BY GrowAssumption DEF IInv, QueueType, Queued, Bits, Commands, EventType, StopInv,
     LockInv, GrowInv, BatchType, Join
<1>3. BatchType'
  BY DEF IInv, BatchType, Queued, Join
<1>4. LockInv'
  BY DEF IInv, LockInv, Adding, PlaceType, Join
<1>5. StopInv'
  BY DEF IInv, StopInv, LockInv, QueueInv, WorkerInv, Adding, QueueType, PlaceType,
     Commands, Queued, Join
<1>6. GrowInv'
  BY DEF IInv, GrowInv, PlaceType, Join
<1>7. WorkerInv'
  BY DEF IInv, WorkerInv, Queued, PlaceType, Join
<1>8. QueueInv'
  <2>1. Queued = {} /\ EvStop /\ \A f \in SocketEvent : pc[f] \notin Adding
    BY DEF Join, IInv, StopInv, LockInv
  <2>2. /\ cpc[e] = "Join" /\ cpc' = [cpc EXCEPT ![e] = "Removed"] /\ exists' = FALSE
        /\ size' = GROW_SIZE /\ UNCHANGED <<pc, Queue>>
    BY DEF Join
  <2>3. \A f \in SocketEvent : cpc[f] = "Open" => pc[f] = "New"
    BY <2>1 DEF IInv, QueueInv
  <2>4. Cardinality(Queued') + 1 <= size' /\ IsFiniteSet(Queued') /\ Queued' = {}
    BY <2>1, <2>2, GrowAssumption, FS_EmptySet DEF Queued
  <2>5. \A f \in SocketEvent : pc[f] = "New" => cpc'[f] = "Open"
    <3>1. \A f \in SocketEvent : pc[f] = "New" => cpc[f] = "Open"
      BY DEF IInv, QueueInv
    <3> QED BY <2>2, <3>1 DEF IInv, PlaceType
  <2>6. \A f \in SocketEvent : cpc'[f] = "Open" => pc[f] = "New"
    BY <2>2, <2>3 DEF IInv, PlaceType
  <2> QED BY <2>1, <2>2, <2>4, <2>5, <2>6 DEF QueueInv
<1>9. MaskInv'
  BY DEF IInv, MaskInv, PlaceType, EventType, Join, eventVars
<1>10. ArmInv'
  BY DEF IInv, ArmInv, MaskInv, QueueInv, WorkerInv, StopInv, Covered, Useful, Queued,
     PlaceType, QueueType, EventType, Join, eventVars
<1>11. WatchInv'
  BY DEF IInv, WatchInv, ArmInv, MaskInv, QueueInv, WorkerInv, StopInv, Covered, Useful,
     PlaceType, QueueType, EventType, BatchType, Adding, Join, eventVars
<1>12. SockType' /\ EventType'
  BY DEF IInv, SockType, EventType, Join, eventVars
<1> QED BY <1>1, <1>2, <1>3, <1>4, <1>5, <1>6, <1>7, <1>8, <1>9, <1>10, <1>11, <1>12 DEF IInv

LEMMA EventClosesSound ==
  ASSUME IInv, NEW e \in SocketEvent, EventCloses(e)
  PROVE  IInv'
<1>1. PlaceType'
  BY DEF IInv, PlaceType, EventCloses, workerVars
<1>2. LockInv'
  BY DEF IInv, LockInv, Adding, PlaceType, EventCloses
<1>3. StopInv'
  BY DEF IInv, StopInv, PlaceType, Queued, EventCloses, queueVars, stopVars, workerVars
<1>4. QueueInv'
  BY DEF IInv, QueueInv, Adding, PlaceType, Queued, EventCloses, queueVars, stopVars,
     workerVars
<1>5. MaskInv'
  BY DEF IInv, MaskInv, PlaceType, EventType, EventCloses, eventVars, queueVars
<1>6. ArmInv'
  BY DEF IInv, ArmInv, Covered, Useful, Queued, PlaceType, EventCloses, eventVars,
     queueVars, workerVars
<1>7. WatchInv'
  BY DEF IInv, WatchInv, Covered, Useful, PlaceType, EventType, EventCloses, eventVars,
     queueVars, workerVars
<1>8. SockType' /\ EventType' /\ QueueType' /\ BatchType' /\ GrowInv' /\ WorkerInv'
  BY DEF IInv, SockType, EventType, QueueType, BatchType, GrowInv, WorkerInv, Queued,
     EventCloses, eventVars, queueVars, stopVars, workerVars
<1> QED BY <1>1, <1>2, <1>3, <1>4, <1>5, <1>6, <1>7, <1>8 DEF IInv

LEMMA ActivateEventSound ==
  ASSUME IInv, NEW e \in SocketEvent, ActivateEvent(e)
  PROVE  IInv'
<1>1. PlaceType'
  BY DEF IInv, PlaceType, ActivateEvent, Goes, RemoveLockIsFree, DataLockIsFree,
     workerVars
<1>2. QueueType'
  <2>1. GetPollEvent(e) \in SUBSET Bits
    BY PollEvents DEF IInv, EventType
  <2>2. interest' \in [SocketEvent -> SUBSET Bits]
    BY <2>1 DEF ActivateEvent, Arm, IInv, QueueType
  <2>3. Queued' = Queued /\ \A x \in Queued : Queue'[x] \in BOOLEAN
    BY DEF ActivateEvent, Queued, IInv, QueueType
  <2> QED BY <2>2, <2>3 DEF ActivateEvent, IInv, QueueType, stopVars
<1>3. LockInv'
  BY DEF IInv, LockInv, Adding, PlaceType, ActivateEvent, Goes, RemoveLockIsFree
<1>4. StopInv'
  BY DEF IInv, StopInv, PlaceType, Queued, ActivateEvent, RemoveLockIsFree,
     DataLockIsFree, Inactive, When, stopVars, workerVars
<1>5. GrowInv'
  BY DEF IInv, GrowInv, PlaceType, ActivateEvent, Goes, RemoveLockIsFree, When,
     stopVars, workerVars
<1>6. WorkerInv'
  BY DEF IInv, WorkerInv, Queued, PlaceType, ActivateEvent, DataLockIsFree, Inactive,
     When, workerVars
<1>7. QueueInv'
  BY DEF IInv, QueueInv, Adding, PlaceType, Queued, ActivateEvent, Goes,
     RemoveLockIsFree, DataLockIsFree, Inactive, stopVars, workerVars
<1>8. MaskInv'
  BY DEF IInv, MaskInv, ArmInv, QueueInv, LockInv, Adding, PlaceType, QueueType,
     EventType, ActivateEvent, GetPollEvent, Goes, Arm, RemoveLockIsFree, When,
     eventVars, DataLockIsFree
<1>9. ArmInv'
  BY DEF IInv, ArmInv, MaskInv, QueueInv, WorkerInv, StopInv, Covered, Useful, Queued,
     PlaceType, QueueType, EventType, ActivateEvent, GetPollEvent, Arm,
     RemoveLockIsFree, Inactive, When, eventVars, workerVars, DataLockIsFree
<1>10. WatchInv'
  <2>1. /\ pc[e] = "Activate" /\ pc' = [pc EXCEPT ![e] = "Register"]
        /\ UNCHANGED <<cpc, signalled, EventMask, batch, firing>>
    BY DEF ActivateEvent, Goes, eventVars, workerVars
  <2>2. \A f \in SocketEvent : f # e => interest'[f] = interest[f]
    BY DEF ActivateEvent, Arm, IInv, QueueType
  <2>3. ASSUME cpc[e] = "Open" PROVE Covered(e)'
    <3>1. e \in Queued
      BY <2>1, <2>3 DEF IInv, QueueInv, Adding
    <3>2. "READ" \in EventMask[e]
      BY <2>1, <2>3 DEF IInv, MaskInv
    <3>3. GetPollEvent(e) # {}
      BY <3>2, PollEvents
    <3>4. CASE Queue[e]
      BY <2>1, <2>3, <3>1, <3>4 DEF ActivateEvent, Inactive, IInv, ArmInv, Covered, Useful
    <3>5. CASE ~Queue[e]
      BY <3>1, <3>3, <3>5 DEF ActivateEvent, Inactive, Arm, IInv, QueueType, Covered
    <3> QED BY <3>4, <3>5
  <2> QED BY <2>1, <2>2, <2>3 DEF IInv, WatchInv, Covered, Useful, PlaceType
<1>11. SockType' /\ EventType' /\ BatchType'
  BY DEF IInv, SockType, EventType, BatchType, ActivateEvent, eventVars, workerVars
<1> QED BY <1>1, <1>2, <1>3, <1>4, <1>5, <1>6, <1>7, <1>8, <1>9, <1>10, <1>11 DEF IInv

LEMMA UpdateSound ==
  ASSUME IInv, NEW e \in SocketEvent, Update(e)
  PROVE  IInv'
<1>a. /\ Queued' = Queued \ {e} /\ \A x \in Queued' : Queue'[x] = Queue[x]
  BY DEF Update, RemoveSocketEvent, Restrict, Queued
<1>1. PlaceType'
  BY DEF IInv, PlaceType, Update, Goes, RemoveLockIsFree, DataLockIsFree, UpdateLeadsTo,
     workerVars
<1>2. QueueType'
  BY <1>a DEF IInv, QueueType, Update, RemoveSocketEvent, stopVars
<1>3. LockInv'
  BY DEF IInv, LockInv, Adding, PlaceType, Update, Goes, RemoveLockIsFree, UpdateLeadsTo
<1>4. StopInv'
  BY DEF IInv, StopInv, PlaceType, Queued, Update, RemoveLockIsFree, DataLockIsFree,
     RemoveSocketEvent, stopVars, workerVars
<1>5. GrowInv'
  BY DEF IInv, GrowInv, PlaceType, Update, Goes, RemoveLockIsFree, UpdateLeadsTo,
     stopVars, workerVars
<1>6. WorkerInv'
  BY DEF IInv, WorkerInv, StopInv, Queued, BatchType, PlaceType, QueueType, Update,
     DataLockIsFree, RemoveSocketEvent, workerVars, RemoveLockIsFree
<1>7. QueueInv'
  <2>1. /\ pc[e] = "Update" /\ UNCHANGED <<cpc, exists, size, EvStop, wpc>>
        /\ pc' = [pc EXCEPT ![e] = IF exists /\ e \in Queued THEN "Append" ELSE "Idle"]
    BY DEF Update, UpdateLeadsTo, Goes, stopVars, workerVars
  <2>2. IsFiniteSet(Queued') /\ Cardinality(Queued') + 1 <= size
    <3>1. IsFiniteSet(Queued) /\ Cardinality(Queued) \in Nat /\ size \in Nat
          /\ Cardinality(Queued) + 1 <= size
      BY FS_CardinalityType DEF IInv, QueueInv, QueueType
    <3>2. /\ IsFiniteSet(Queued') /\ Cardinality(Queued') \in Nat
          /\ Cardinality(Queued') <= Cardinality(Queued)
      BY <1>a, <3>1, FS_Subset, FS_CardinalityType
    <3> QED BY <3>1, <3>2
  <2>3. e \in Queued => exists
    BY DEF IInv, QueueInv
  <2> QED BY <1>a, <2>1, <2>2, <2>3 DEF IInv, QueueInv, Adding, PlaceType
<1>8. MaskInv'
  BY DEF IInv, MaskInv, PlaceType, EventType, Update, Goes, RemoveLockIsFree,
     RemoveSocketEvent, UpdateLeadsTo, eventVars
<1>9. ArmInv'
  <2>1. /\ interest' = [interest EXCEPT ![e] = {}] /\ UNCHANGED <<EventMask, batch, cpc>>
    BY DEF Update, RemoveSocketEvent, eventVars, workerVars
  <2> QED BY <1>a, <2>1 DEF IInv, ArmInv, Covered, Useful, QueueType
<1>10. WatchInv'
  BY DEF IInv, WatchInv, Covered, Useful, PlaceType, EventType, Update, Goes,
     RemoveLockIsFree, DataLockIsFree, RemoveSocketEvent, UpdateLeadsTo, eventVars,
     workerVars
<1>11. SockType' /\ EventType' /\ BatchType'
  BY DEF IInv, SockType, EventType, BatchType, Update, eventVars, workerVars
<1> QED BY <1>1, <1>2, <1>3, <1>4, <1>5, <1>6, <1>7, <1>8, <1>9, <1>10, <1>11 DEF IInv

LEMMA RemoveSound ==
  ASSUME IInv, NEW e \in SocketEvent, Remove(e)
  PROVE  IInv'
<1>a. /\ Queued' = Queued \ {e} /\ \A x \in Queued' : Queue'[x] = Queue[x]
  BY DEF Remove, RemoveSocketEvent, Restrict, Queued
<1>1. PlaceType'
  BY DEF IInv, PlaceType, Remove, RemoveLockIsFree, DataLockIsFree, workerVars
<1>2. QueueType'
  <2>1. control = <<>>
    BY DEF Remove, RemoveLockIsFree, Adding, IInv, StopInv, GrowInv, QueueType, Commands
  <2>2. control' \in Commands /\ EvStop' \in BOOLEAN
    <3>1. Append(<<>>, "@exit") = <<"@exit">>
      OBVIOUS
    <3> QED BY <2>1, <3>1 DEF Remove, StopQueue, IInv, QueueType, Commands
  <2> QED BY <1>a, <2>2 DEF IInv, QueueType, Remove, RemoveSocketEvent
<1>3. LockInv'
  BY DEF IInv, LockInv, Adding, PlaceType, Remove, RemoveLockIsFree
<1>4. StopInv'
  <2>1. /\ cpc[e] = "Remove" /\ ~EvStop /\ \A f \in SocketEvent : cpc[f] # "Join"
        /\ UNCHANGED <<wpc, batch>>
    BY DEF Remove, RemoveLockIsFree, IInv, StopInv, workerVars
  <2>2. CASE Queued \subseteq {e}
    <3>1. EvStop' = TRUE /\ cpc' = [cpc EXCEPT ![e] = "Join"] /\ Queued' = {}
      BY <1>a, <2>2 DEF Remove, LastOne, StopQueue
    <3> QED BY <3>1 DEF IInv, StopInv, PlaceType
  <2>3. CASE ~(Queued \subseteq {e})
    <3>1. UNCHANGED <<EvStop, control>> /\ cpc' = [cpc EXCEPT ![e] = "Removed"]
      BY <2>3 DEF Remove, LastOne
    <3> QED BY <2>1, <3>1 DEF IInv, StopInv, PlaceType
  <2> QED BY <2>2, <2>3
<1>5. GrowInv'
  BY DEF IInv, GrowInv, PlaceType, Remove, RemoveLockIsFree, StopQueue, workerVars
<1>6. WorkerInv'
  BY DEF IInv, WorkerInv, StopInv, Queued, BatchType, PlaceType, QueueType, Remove,
     DataLockIsFree, RemoveSocketEvent, LastOne, workerVars, RemoveLockIsFree
<1>7. QueueInv'
  <2>1. /\ cpc[e] = "Remove" /\ ~EvStop /\ \A f \in SocketEvent : pc[f] \notin Adding
        /\ UNCHANGED <<pc, exists, size, wpc>>
        /\ cpc' = [cpc EXCEPT ![e] = IF Queued \subseteq {e} THEN "Join" ELSE "Removed"]
        /\ EvStop' = (Queued \subseteq {e})
    BY DEF Remove, RemoveLockIsFree, LastOne, StopQueue, IInv, StopInv, QueueType, workerVars
  <2>2. IsFiniteSet(Queued') /\ Cardinality(Queued') + 1 <= size
    <3>1. IsFiniteSet(Queued) /\ Cardinality(Queued) \in Nat /\ size \in Nat
          /\ Cardinality(Queued) + 1 <= size
      BY FS_CardinalityType DEF IInv, QueueInv, QueueType
    <3>2. /\ IsFiniteSet(Queued') /\ Cardinality(Queued') \in Nat
          /\ Cardinality(Queued') <= Cardinality(Queued)
      BY <1>a, <3>1, FS_Subset, FS_CardinalityType
    <3> QED BY <3>1, <3>2
  <2>3. ~EvStop' => \E f \in SocketEvent :
                      f # e /\ pc[f] # "New" /\ cpc[f] \in {"Open", "Remove"}
    BY <2>1 DEF IInv, QueueInv, QueueType
  <2>4. \A f \in SocketEvent : f # e => cpc'[f] = cpc[f]
    BY <2>1 DEF IInv, PlaceType
  <2>5. cpc'[e] \in {"Join", "Removed"} /\ pc[e] # "New"
    BY <2>1 DEF IInv, PlaceType, QueueInv
  <2>6. /\ Queued' # {} => exists /\ wpc # "None"
        /\ \A f \in SocketEvent :
             /\ f \in Queued' => cpc'[f] \in {"Open", "Remove"} /\ pc[f] # "New"
             /\ pc[f] = "New" => cpc'[f] = "Open"
             /\ cpc'[f] = "Open" /\ pc[f] # "New" => f \in Queued'
    BY <1>a, <2>1, <2>4, <2>5 DEF IInv, QueueInv
  <2> QED BY <2>1, <2>2, <2>3, <2>4, <2>6 DEF QueueInv
<1>8. MaskInv'
  BY DEF IInv, MaskInv, PlaceType, EventType, Remove, RemoveLockIsFree,
     RemoveSocketEvent, eventVars
<1>9. ArmInv'
  <2>1. /\ interest' = [interest EXCEPT ![e] = {}] /\ UNCHANGED <<EventMask, batch>>
        /\ \A f \in SocketEvent : cpc'[f] = "Open" => cpc[f] = "Open"
    BY DEF Remove, RemoveSocketEvent, eventVars, workerVars, IInv, PlaceType
  <2> QED BY <1>a, <2>1 DEF IInv, ArmInv, Covered, Useful, QueueType
<1>10. WatchInv'
  BY DEF IInv, WatchInv, Covered, Useful, PlaceType, EventType, Remove,
     RemoveLockIsFree, DataLockIsFree, RemoveSocketEvent, eventVars, workerVars
<1>11. SockType' /\ EventType' /\ BatchType'
  BY DEF IInv, SockType, EventType, BatchType, Remove, eventVars, workerVars
<1> QED BY <1>1, <1>2, <1>3, <1>4, <1>5, <1>6, <1>7, <1>8, <1>9, <1>10, <1>11 DEF IInv

LEMMA WorkerChecksSound ==
  ASSUME IInv, WorkerChecks
  PROVE  IInv'
<1>1. PlaceType'
  BY DEF IInv, PlaceType, WorkerChecks, threadVars
<1>2. BatchType'
  BY DEF IInv, BatchType, Queued, WorkerChecks
<1>3. StopInv'
  BY DEF IInv, StopInv, PlaceType, Queued, WorkerChecks, threadVars, queueVars, stopVars
<1>4. WorkerInv'
  BY DEF IInv, WorkerInv, Queued, PlaceType, WorkerChecks, queueVars
<1>5. QueueInv'
  BY DEF IInv, QueueInv, Adding, PlaceType, Queued, WorkerChecks, threadVars, queueVars,
     stopVars
<1>6. SockType' /\ EventType' /\ QueueType' /\ LockInv'
  BY DEF IInv, SockType, EventType, QueueType, LockInv, Queued, WorkerChecks, eventVars,
     threadVars, queueVars, stopVars
<1>7. GrowInv' /\ MaskInv' /\ ArmInv' /\ WatchInv'
  BY DEF IInv, GrowInv, MaskInv, ArmInv, WatchInv, Queued, Covered, Useful,
     WorkerChecks, eventVars, threadVars, queueVars, stopVars
<1> QED BY <1>1, <1>2, <1>3, <1>4, <1>5, <1>6, <1>7 DEF IInv

LEMMA EpollWaitSound ==
  ASSUME IInv, EpollWait
  PROVE  IInv'
<1>a. /\ wpc = "Poll" /\ batch = {} /\ firing = {} /\ wpc' = "Batch"
      /\ UNCHANGED <<sock, eventVars, threadVars, exists, Queue, size, EvStop, EvGrowDone,
                     firing>>
  BY DEF EpollWait, IInv, WorkerInv, BatchType
<1>b. /\ \A b \in batch' : \/ b[1] \in Due /\ b[2] = interest[b[1]] \cap Ready(b[1])
                           \/ b[1] = Control
      /\ \A e \in Due : \E b \in batch' : b[1] = e /\ b[2] = interest[e] \cap Ready(e)
  <2> DEFINE at(e) == <<e, interest[e] \cap Ready(e)>>
             own == IF control = <<>> THEN {} ELSE {<<Control, {Head(control)}>>}
  <2>1. batch' = {at(e) : e \in Due} \cup own
    BY DEF EpollWait
  <2>2. \A b \in own : b[1] = Control
    OBVIOUS
  <2>3. \A e \in Due : at(e)[1] = e /\ at(e)[2] = interest[e] \cap Ready(e)
    OBVIOUS
  <2>4. ASSUME NEW b \in batch'
        PROVE  \/ b[1] \in Due /\ b[2] = interest[b[1]] \cap Ready(b[1])
               \/ b[1] = Control
    <3>1. CASE b \in own
      BY <2>2, <3>1
    <3>2. CASE b \notin own
      <4>1. PICK e \in Due : b = at(e)
        BY <2>1, <3>2
      <4> QED BY <2>3, <4>1
    <3> QED BY <3>1, <3>2
  <2>5. ASSUME NEW e \in Due
        PROVE  \E b \in batch' : b[1] = e /\ b[2] = interest[e] \cap Ready(e)
    <3>1. at(e) \in batch'
      BY <2>1
    <3> QED BY <2>3, <3>1
  <2> QED BY <2>4, <2>5
<1>c. /\ control' = <<>>
      /\ \A x : <<Control, {x}>> \in batch' => control = <<x>>
  <2>1. control = <<>> \/ control = <<"@grow">> \/ control = <<"@exit">>
    BY DEF IInv, QueueType, Commands
  <2>2. control # <<>> => Tail(control) = <<>> /\ control = <<Head(control)>>
    <3>1. /\ Tail(<<"@grow">>) = <<>> /\ Head(<<"@grow">>) = "@grow"
          /\ Tail(<<"@exit">>) = <<>> /\ Head(<<"@exit">>) = "@exit"
      OBVIOUS
    <3> QED BY <2>1, <3>1
  <2>3. control' = <<>>
    BY <2>2 DEF EpollWait
  <2>4. ASSUME NEW x, <<Control, {x}>> \in batch' PROVE control = <<x>>
    <3>1. \A e \in Due : <<Control, {x}>> # <<e, interest[e] \cap Ready(e)>>
      BY ControlAssumption DEF Due, IInv, QueueType
    <3>2. control # <<>> /\ {Head(control)} = {x}
      BY <2>4, <3>1 DEF EpollWait
    <3> QED BY <2>2, <3>2
  <2> QED BY <2>3, <2>4
<1>d. /\ interest' \in [SocketEvent -> SUBSET Bits]
      /\ \A e \in SocketEvent : interest'[e] = IF e \in Due THEN {} ELSE interest[e]
  BY DEF EpollWait, IInv, QueueType
<1>e. ASSUME NEW e \in SocketEvent, cpc[e] = "Open", e \in Due
      PROVE  \E b \in batch' : Useful(e, b)
  <2>1. e \in Queued /\ interest[e] \cap Ready(e) # {}
    BY <1>e DEF Due
  <2>2. pc[e] # "New"
    BY <2>1 DEF IInv, QueueInv
  <2>3. /\ "READ" \in EventMask[e] /\ "READ" \in interest[e]
        /\ interest[e] \ {"CLOSE"} \subseteq EventMask[e]
    BY <1>e, <2>1, <2>2 DEF IInv, MaskInv
  <2>4. (interest[e] \cap Ready(e)) \ {"CLOSE"} # {}
    BY <2>1, <2>3, ReadyEvents
  <2> QED BY <1>b, <1>e, <2>3, <2>4 DEF Useful
<1>1. PlaceType'
  BY DEF IInv, PlaceType, EpollWait, threadVars
<1>2. QueueType'
  BY <1>a, <1>c, <1>d DEF IInv, QueueType, Commands, Queued
<1>3. BatchType'
  BY ControlAssumption DEF IInv, BatchType, QueueType, PlaceType, WorkerInv, Queued,
     EpollWait, Ready, Due, When
<1>4. StopInv'
  BY <1>a, <1>c DEF IInv, StopInv, Queued, threadVars
<1>5. GrowInv'
  BY <1>a, <1>c DEF IInv, GrowInv, threadVars
<1>6. WorkerInv'
  BY DEF IInv, WorkerInv, Queued, PlaceType, EpollWait, Ready, Due, When
<1>7. QueueInv'
  BY DEF IInv, QueueInv, Adding, PlaceType, Queued, EpollWait, threadVars
<1>8. MaskInv'
  BY DEF IInv, MaskInv, PlaceType, EventType, EpollWait, Ready, Due, When, eventVars,
     threadVars
<1>9. ArmInv'
  <2>1. UNCHANGED <<EventMask, cpc, Queue>> /\ Queued' = Queued
    BY <1>a DEF eventVars, threadVars, Queued
  <2>2. ASSUME NEW e \in SocketEvent, cpc[e] = "Open", interest[e] # {} PROVE Covered(e)'
    BY <1>d, <1>e, <2>1, <2>2 DEF Covered, Useful
  <2>3. ASSUME NEW e \in SocketEvent, interest[e] # {}
        PROVE  interest'[e] # {} \/ \E b \in batch' : b[1] = e
    BY <1>b, <1>d, <2>3
  <2> QED BY <1>a, <1>d, <2>1, <2>2, <2>3 DEF IInv, ArmInv, Covered
<1>10. WatchInv'
  <2>1. UNCHANGED <<EventMask, signalled, pc, cpc, firing>>
    BY <1>a DEF eventVars, threadVars
  <2>2. ASSUME NEW e \in SocketEvent, cpc[e] = "Open", interest[e] # {} PROVE Covered(e)'
    BY <1>d, <1>e, <2>1, <2>2 DEF Covered, Useful
  <2> QED BY <1>a, <2>1, <2>2 DEF IInv, WatchInv, Covered
<1>11. SockType' /\ EventType' /\ LockInv'
  BY DEF IInv, SockType, EventType, LockInv, EpollWait, eventVars, threadVars
<1> QED BY <1>1, <1>2, <1>3, <1>4, <1>5, <1>6, <1>7, <1>8, <1>9, <1>10, <1>11 DEF IInv

LEMMA FireOneSound ==
  ASSUME IInv, NEW b \in batch, FireOne(b)
  PROVE  IInv'
<1>1. PlaceType'
  BY DEF IInv, PlaceType, FireOne, threadVars
<1>2. QueueType'
  BY DEF IInv, QueueType, Queued, FireOne, IsKnown, Marked, stopVars
<1>3. BatchType'
  BY DEF IInv, BatchType, Queued, FireOne
<1>4. StopInv'
  BY DEF IInv, StopInv, PlaceType, Queued, FireOne, IsKnown, Marked, threadVars,
     stopVars
<1>5. GrowInv'
  BY DEF IInv, GrowInv, PlaceType, FireOne, threadVars, stopVars
<1>6. WorkerInv'
  BY DEF IInv, WorkerInv, Queued, PlaceType, FireOne, IsKnown, Marked
<1>7. QueueInv'
  BY DEF IInv, QueueInv, Adding, PlaceType, Queued, FireOne, IsKnown, Marked,
     threadVars, stopVars
<1>8. ArmInv'
  BY ControlAssumption DEF IInv, ArmInv, MaskInv, QueueInv, WorkerInv, StopInv, Covered,
     Useful, Queued, PlaceType, QueueType, EventType, FireOne, IsKnown, Marked,
     eventVars, threadVars
<1>9. WatchInv'
  <2>1. /\ wpc = "Batch" /\ firing = {} /\ batch' = batch \ {b}
        /\ UNCHANGED <<pc, cpc, signalled, EventMask, interest>>
    BY DEF FireOne, IInv, BatchType, eventVars, threadVars
  <2>2. ASSUME NEW f \in SocketEvent, cpc[f] = "Open", pc[f] \in {"Register", "Wait"},
               ~signalled[f], interest[f] = {}
        PROVE  \/ \E d \in batch' : Useful(f, d)
               \/ \E d \in firing' : d[1] = f
    <3>1. PICK d \in batch : Useful(f, d)
      BY <2>1, <2>2 DEF IInv, WatchInv, Covered
    <3>2. CASE d # b
      BY <2>1, <3>1, <3>2
    <3>3. CASE d = b
      <4>1. f \in Queued
        BY <2>2 DEF IInv, QueueInv, Adding
      <4>2. b[2] \cap EventMask[f] # {} /\ b[1] = f
        BY <3>1, <3>3 DEF Useful
      <4>3. firing' = {b}
        BY <4>1, <4>2 DEF FireOne, IsKnown
      <4> QED BY <4>2, <4>3
    <3> QED BY <3>2, <3>3
  <2> QED BY <2>1, <2>2 DEF IInv, WatchInv, Covered, Useful
<1>10. SockType' /\ EventType' /\ LockInv' /\ MaskInv'
  BY DEF IInv, SockType, EventType, LockInv, MaskInv, FireOne, eventVars, threadVars
<1> QED BY <1>1, <1>2, <1>3, <1>4, <1>5, <1>6, <1>7, <1>8, <1>9, <1>10 DEF IInv

LEMMA SignalSound ==
  ASSUME IInv, Signal
  PROVE  IInv'
<1>1. EventType'
  <2>1. PICK b : firing = {b}
    BY DEF Signal, IInv, BatchType
  <2>2. b[1] \in SocketEvent
    BY <2>1 DEF IInv, WorkerInv, QueueType
  <2>3. /\ Events' = [Events EXCEPT ![b[1]] = b[2] \cap EventMask[b[1]]]
        /\ signalled' = [signalled EXCEPT ![b[1]] = TRUE] /\ UNCHANGED <<EventMask, seen>>
    BY <2>1 DEF Signal, threadVars
  <2>4. b[2] \cap EventMask[b[1]] \in SUBSET Bits
    BY <2>2 DEF IInv, EventType
  <2> QED BY <2>2, <2>3, <2>4 DEF IInv, EventType
<1>2. PlaceType'
  BY DEF IInv, PlaceType, Signal, threadVars
<1>3. BatchType'
  BY DEF IInv, BatchType, Queued, Signal
<1>4. StopInv'
  BY DEF IInv, StopInv, PlaceType, Queued, Signal, threadVars, queueVars, stopVars
<1>5. WorkerInv'
  BY DEF IInv, WorkerInv, Queued, PlaceType, Signal, queueVars
<1>6. QueueInv'
  BY DEF IInv, QueueInv, Adding, PlaceType, Queued, Signal, threadVars, queueVars,
     stopVars
<1>7. WatchInv'
  BY DEF IInv, WatchInv, ArmInv, MaskInv, QueueInv, WorkerInv, StopInv, Covered, Useful,
     PlaceType, QueueType, EventType, BatchType, Adding, Signal, threadVars, queueVars
<1>8. SockType' /\ QueueType' /\ LockInv' /\ GrowInv' /\ MaskInv' /\ ArmInv'
  BY DEF IInv, SockType, QueueType, LockInv, GrowInv, MaskInv, ArmInv, Queued, Covered,
     Useful, Signal, threadVars, queueVars, stopVars
<1> QED BY <1>1, <1>2, <1>3, <1>4, <1>5, <1>6, <1>7, <1>8 DEF IInv

LEMMA ObeySound ==
  ASSUME IInv, Obey
  PROVE  IInv'
<1>1. PlaceType'
  BY DEF IInv, PlaceType, Obey, threadVars
<1>2. QueueType'
  <2>1. size' = size \/ size' = NewSize
    BY DEF Obey
  <2>2. size' \in Nat
    BY <2>1, ListGrows DEF IInv, QueueType
  <2>3. EvGrowDone' \in BOOLEAN /\ UNCHANGED <<exists, Queue, interest, EvStop, control>>
    BY DEF Obey, IInv, QueueType
  <2> QED BY <2>2, <2>3 DEF IInv, QueueType, Queued
<1>3. BatchType'
  BY DEF IInv, BatchType, Queued, Obey
<1>4. StopInv'
  BY DEF IInv, StopInv, PlaceType, Queued, Obey, threadVars
<1>5. GrowInv'
  BY DEF IInv, GrowInv, PlaceType, Obey, threadVars
<1>6. WorkerInv'
  BY DEF IInv, WorkerInv, Queued, PlaceType, Obey
<1>7. QueueInv'
  <2>1. size \in Nat /\ size' \in Nat /\ size' >= size
    BY ListGrows DEF Obey, IInv, QueueType
  <2>2. Cardinality(Queued) \in Nat
    BY FS_CardinalityType DEF IInv, QueueInv
  <2>3. /\ wpc' # "None" /\ wpc = "Batch"
        /\ UNCHANGED <<pc, cpc, exists, Queue, EvStop>>
    BY DEF Obey, threadVars
  <2>4. Cardinality(Queued) + 1 <= size'
    BY <2>1, <2>2 DEF IInv, QueueInv
  <2> QED BY <2>3, <2>4 DEF IInv, QueueInv, Queued
<1>8. ArmInv'
  BY ControlAssumption DEF IInv, ArmInv, MaskInv, QueueInv, WorkerInv, StopInv, Covered,
     Useful, Queued, PlaceType, QueueType, EventType, Obey, eventVars, threadVars
<1>9. WatchInv'
  BY ControlAssumption DEF IInv, WatchInv, ArmInv, MaskInv, QueueInv, WorkerInv,
     StopInv, Covered, Useful, PlaceType, QueueType, EventType, BatchType, Adding, Obey,
     eventVars, threadVars
<1>10. SockType' /\ EventType' /\ LockInv' /\ MaskInv'
  BY DEF IInv, SockType, EventType, LockInv, MaskInv, Obey, eventVars, threadVars
<1> QED BY <1>1, <1>2, <1>3, <1>4, <1>5, <1>6, <1>7, <1>8, <1>9, <1>10 DEF IInv

-----------------------------------------------------------------------------
LEMMA SoundInit == Init => IInv
<1> SUFFICES ASSUME Init PROVE IInv
  OBVIOUS
<1>1. Queued = {}
  BY DEF Init, Queued
<1>2. IsFiniteSet(Queued) /\ Cardinality(Queued) + 1 <= size
  BY <1>1, FS_EmptySet, GrowAssumption DEF Init
<1>3. SockType
  BY DEF Init, SockType, SocketState, NewSocket
<1>4. EventType /\ PlaceType
  BY DEF Init, EventType, PlaceType
<1>5. QueueType /\ BatchType
  BY <1>1, GrowAssumption DEF Init, QueueType, BatchType, Commands
<1>6. LockInv /\ StopInv /\ GrowInv /\ WorkerInv
  BY <1>1 DEF Init, LockInv, StopInv, GrowInv, WorkerInv, Adding
<1>7. QueueInv
  BY <1>1, <1>2 DEF Init, QueueInv, Adding
<1>8. MaskInv /\ ArmInv /\ WatchInv
  BY <1>1 DEF Init, MaskInv, ArmInv, WatchInv
<1> QED BY <1>3, <1>4, <1>5, <1>6, <1>7, <1>8 DEF IInv

LEMMA SoundNext == IInv /\ [Next]_vars => IInv'
<1> SUFFICES ASSUME IInv, [Next]_vars PROVE IInv'
  OBVIOUS
<1>1. CASE Worker
  BY <1>1, WorkerChecksSound, EpollWaitSound, FireOneSound, SignalSound, ObeySound DEF Worker
<1>2. ASSUME NEW e \in SocketEvent, Environment(e) \/ User(e) PROVE IInv'
  BY <1>2, EnvironmentSound, CreateSocketEventSound, StartWaitSound, TimeoutSound, ReadsSound,
     GetEventsSound, CloseHandleSound, DestroyedSound DEF User
<1>3. ASSUME NEW e \in SocketEvent, Continues(e) \/ TakesRemoveLock(e) PROVE IInv'
  BY <1>3, Append1Sound, GrownSound, RegisterSound, WakeSound, UnmaskSound, JoinSound,
     EventClosesSound, ActivateEventSound, UpdateSound, RemoveSound
     DEF Continues, TakesRemoveLock
<1>4. CASE UNCHANGED vars
  <2>1. UNCHANGED <<sock, EventMask, Events, signalled, pc, seen, cpc, exists, Queue, interest,
                    size, EvStop, EvGrowDone, control, wpc, batch, firing>>
    BY <1>4 DEF vars, eventVars, threadVars, queueVars, stopVars, workerVars
  <2>2. SockType' /\ EventType' /\ PlaceType' /\ QueueType' /\ BatchType'
    BY <2>1 DEF IInv, SockType, EventType, PlaceType, QueueType, BatchType, Queued
  <2>3. LockInv' /\ StopInv' /\ GrowInv' /\ WorkerInv' /\ QueueInv'
    BY <2>1 DEF IInv, LockInv, StopInv, GrowInv, WorkerInv, QueueInv, Queued
  <2>4. MaskInv' /\ ArmInv' /\ WatchInv'
    BY <2>1 DEF IInv, MaskInv, ArmInv, WatchInv, Covered, Useful, Queued
  <2> QED BY <2>2, <2>3, <2>4 DEF IInv
<1> QED BY <1>1, <1>2, <1>3, <1>4 DEF Next

-----------------------------------------------------------------------------
LEMMA Typed == IInv => TypeOK
<1> SUFFICES ASSUME IInv PROVE TypeOK
  OBVIOUS
<1>1. {EventMask, Events, seen, interest} \subseteq [SocketEvent -> SUBSET Bits]
  BY DEF IInv, EventType, QueueType
<1>2. Len(control) <= 1 /\ \A i \in 1..Len(control) : control[i] \in {"@exit", "@grow"}
  <2>1. control \in Commands
    BY DEF IInv, QueueType
  <2>2. ASSUME NEW x \in {"@exit", "@grow"}
        PROVE  Len(<<x>>) <= 1 /\ \A i \in 1..Len(<<x>>) : <<x>>[i] \in {"@exit", "@grow"}
    OBVIOUS
  <2>3. Len(<<>>) = 0
    OBVIOUS
  <2>4. CASE control = <<>>
    BY <2>3, <2>4
  <2>5. CASE control # <<>>
    <3>1. PICK x \in {"@exit", "@grow"} : control = <<x>>
      BY <2>1, <2>5 DEF Commands
    <3> QED BY <2>2, <3>1
  <2> QED BY <2>4, <2>5
<1>3. Cardinality(firing) = IF wpc = "Fire" THEN 1 ELSE 0
  BY FS_EmptySet, FS_Singleton DEF IInv, BatchType
<1>4. sock \in [SocketEvent -> SocketState]
  BY DEF IInv, SockType
<1> QED BY <1>1, <1>2, <1>3, <1>4
     DEF IInv, EventType, PlaceType, QueueType, BatchType, TypeOK, Bits, SocketState

(* What an event is armed for is all it can be read for. *)
LEMMA NothingMissed == IInv => NoMissedReadiness
<1> SUFFICES ASSUME IInv, NEW e \in SocketEvent, pc[e] = "Wait", cpc[e] = "Open",
                    Readable(e) # {}
             PROVE  InHand(e)
  BY DEF NoMissedReadiness
<1>1. signalled[e] \/ Covered(e) \/ \E b \in firing : b[1] = e
  BY DEF IInv, WatchInv
<1>2. interest[e] # {} => interest[e] \cap Ready(e) # {}
  BY DEF IInv, MaskInv, Readable
<1> QED BY <1>1, <1>2 DEF InHand, Covered, Useful

LEMMA Serves == IInv => InstanceServesItsEvents
<1> DEFINE Alive == {e \in SocketEvent : pc[e] # "New" /\ cpc[e] \in {"Open", "Remove"}}
<1> SUFFICES ASSUME IInv, RemoveLockIsFree
             PROVE  /\ {e \in Alive : cpc[e] = "Open" /\ pc[e] # "Update"} \subseteq Queued
                    /\ Queued \subseteq Alive
                    /\ Queued # {} => exists /\ wpc \notin {"None", "Exit"}
                    /\ exists => Alive # {}
  BY DEF InstanceServesItsEvents
<1>1. ~EvStop /\ \A e \in SocketEvent : pc[e] \notin Adding
  BY DEF IInv, StopInv, RemoveLockIsFree
<1>2. wpc # "Exit"
  BY <1>1 DEF IInv, StopInv
<1>3. {e \in Alive : cpc[e] = "Open" /\ pc[e] # "Update"} \subseteq Queued
  BY <1>1 DEF IInv, QueueInv
<1>4. Queued \subseteq Alive
  BY DEF IInv, QueueInv, QueueType
<1>5. (Queued # {} => exists /\ wpc # "None") /\ (exists => Alive # {})
  BY <1>1 DEF IInv, QueueInv
<1> QED BY <1>2, <1>3, <1>4, <1>5

(* Whatever threads, the worker, the network and closes do: a wait misses no readiness,  *)
(* an active event is armed, only live events are signalled, the instance serves every   *)
(* open event, and nothing is added to a queue that is being stopped (SocketEventQueue   *)
(* and SocketEvent.cpp).                                                                 *)
THEOREM SocketQueueIsSound == Spec => []QueueSound
<1>1. ASSUME IInv PROVE QueueSound
  <2>1. ActiveMeansArmed
    BY <1>1 DEF IInv, ArmInv, ActiveMeansArmed
  <2>2. OnlyLiveEventsFire
    <3>1. \A e \in SocketEvent :
            cpc[e] \in {"Removed", "Closed"} \/ pc[e] = "New" => e \notin Queued
      BY <1>1 DEF IInv, QueueInv
    <3> QED BY <1>1, <3>1 DEF IInv, WorkerInv, ArmInv, OnlyLiveEventsFire
  <2>3. ListHasRoom
    BY <1>1 DEF IInv, QueueInv, ListHasRoom
  <2>4. NothingAddedToStopped
    BY <1>1 DEF IInv, StopInv, LockInv, NothingAddedToStopped
  <2> QED BY <1>1, <2>1, <2>2, <2>3, <2>4, Typed, NothingMissed, Serves DEF QueueSound
<1> QED BY <1>1, SoundInit, SoundNext, PTL DEF Spec
=============================================================================
