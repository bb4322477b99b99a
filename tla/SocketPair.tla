----------------------------- MODULE SocketPair -----------------------------
(***************************************************************************)
(* A pair of sockets over epoll: SocketPair.cpp, Socket.cpp, SocketIO.cpp, *)
(* LinuxIO.cpp and the plain sockets of BIOSocket.cpp.                     *)
(*                                                                         *)
(* Three threads: one that reads (SocketPair::Read or Socket::Read), one   *)
(* that writes (Socket::Write) and one that closes the pair.  The closer   *)
(* flushes with the same Socket::IO that the reader sits in, so that the   *)
(* steps of IO are written for a thread t.  A step is one call of BIO_read *)
(* or BIO_write, or one look at, or change of, what threads share.         *)
(*                                                                         *)
(* Bytes are numbered in the order in which the peer sends them, or the    *)
(* writer writes them.  Time is a choice: a wait with a timeout may end at *)
(* any moment, and the deadline of a graceful close passes at any moment.  *)
(*                                                                         *)
(* The event a read of both sockets waits for (RxEvent) is specified in    *)
(* SocketEvents; what is used of it here is that it is signalled while     *)
(* there is something to read or the peer has closed, and that it may be   *)
(* signalled, or not, when queued output can be sent.                      *)
(***************************************************************************)
EXTENDS Naturals, Sequences, FiniteSets, FiniteSetsExt, IoQueue

CONSTANTS
  Room,        \* the room of a socket's send buffer
  RxLimit,     \* the limit of RxQueue
  CallerSize,  \* the room of the caller's buffer
  ZeroLimit,   \* after so many rounds without data a read gives up the socket
  Sizes,       \* how many bytes are written with one call
  Sinks,       \* bound: the sockets that are written to
  Sources,     \* bound: the sockets whose peers send
  Reads,       \* bound: the calls of Read that are made: of the pair or a socket, for ever or not
  MaxSent,     \* bound: bytes the peers send, together
  MaxWrites,   \* bound: calls of Write
  MaxReads,    \* bound: calls of Read
  Events,      \* bound: the exit, and what happens to which socket: its peer closes, its connection
               \*        breaks, its read is stopped, its mode is changed, input is given back to it
  MaxEvents    \* bound: how many of these happen

Socket == {"Client", "Server"}

ASSUME SizesAssumption ==
  /\ {Room, RxLimit} \subseteq Nat \ {0} /\ CallerSize \in Nat /\ CallerSize >= BUFFER_SIZE
  /\ Sizes \subseteq Nat \ {0} /\ ZeroLimit \in Nat
ASSUME BoundsAssumption ==
  /\ Sinks \cup Sources \subseteq Socket /\ Reads \subseteq {"Both", "Socket"} \X BOOLEAN
  /\ Events \subseteq {"Exit", "Fin", "Error", "Stop", "Mode", "Unread"} \X Socket
  /\ {MaxSent, MaxWrites, MaxReads, MaxEvents} \subseteq Nat

Thread == {"reader", "closer"}

VARIABLES
  sk,        \* the sockets
  net,       \* their descriptors in the kernel
  th,        \* the threads that read and close
  writer,    \* the thread in Write
  exitEvent, closeEvent,
  ClosePending,
  late,      \* the deadline of the graceful close has passed
  returned,  \* the bytes Read has returned, by socket
  written,   \* how many bytes Write has taken, by socket
  due,       \* what of them a graceful close has still to deliver: what was taken when it began
  used       \* what is used up of the bounds

pairVars  == <<exitEvent, closeEvent, ClosePending, late>>
ownerVars == <<returned, written, due>>
vars == <<sk, net, th, writer, pairVars, ownerVars, used>>

-----------------------------------------------------------------------------
(* The constructor, Attach and SwitchToUnblockingMode, which Configure calls. *)
NewSocket == [attached |-> FALSE, RxEvent |-> FALSE, BreakRead |-> "None", Disconnected |-> "No",
              CloseNotify |-> TRUE, eventfd |-> FALSE, out |-> FALSE, Rx |-> <<>>, Tx |-> <<>>,
              Packets |-> <<>>]
Attach(k) == [k EXCEPT !.attached = TRUE, !.out = FALSE]
Unblocking(k) == [k EXCEPT !.RxEvent = TRUE, !.BreakRead = IF @ = "None" THEN "Off" ELSE @]
Blocking(k) == [k EXCEPT !.RxEvent = FALSE, !.BreakRead = "None"]

(* a connection: how many bytes the peer has sent and how many of them are read, the room for output,
   none until the peer takes something of what was there, and what is on the wire *)
NewConnection(s) == [open |-> TRUE, sent |-> 0, read |-> 0, fin |-> FALSE, broken |-> FALSE,
                     room |-> IF s \in Sinks THEN 0 ELSE Room, wire |-> <<>>, shut |-> FALSE]

(* a thread: where it is, the socket it works on, the call it makes, the rounds of a read of both
   sockets, the packet it sends, and what IO answered *)
Resting == [pc |-> "Out", s |-> "Client", call |-> "None", forever |-> TRUE, rounds |-> 0,
            hand |-> <<>>, ok |-> TRUE, why |-> "None"]
Idle == [pc |-> "Out", s |-> "Client", n |-> 0]

Init ==
  /\ sk = [s \in Socket |-> Unblocking(Attach(NewSocket))]
  /\ net = [s \in Socket |-> NewConnection(s)]
  /\ th = [t \in Thread |-> Resting] /\ writer = Idle
  /\ exitEvent = FALSE /\ closeEvent = FALSE /\ ClosePending = FALSE /\ late = FALSE
  /\ returned = [s \in Socket |-> <<>>] /\ written = [s \in Socket |-> 0] /\ due = [s \in Socket |-> 0]
  /\ used = [reads |-> 0, writes |-> 0, events |-> 0]

Uses(what, bound) == used[what] < bound /\ used' = [used EXCEPT ![what] = @ + 1]
Happens(kind, s) == <<kind, s>> \in Events /\ Uses("events", MaxEvents)
Spares(s) == due' = [due EXCEPT ![s] = 0]

R == th["reader"]
C == th["closer"]

-----------------------------------------------------------------------------
(* Locks.  IOLock is held from one end of IO to the other, TxLock by the   *)
(* writer, and by WriteIO from the first packet to the last.               *)
InIO == {"Write", "Send", "More", "Read", "Wait", "Epoll"}
IOLockIsFree(s) == \A t \in Thread : ~(th[t].pc \in InIO /\ th[t].s = s)
TxLockIsFree(s) ==
  /\ ~(writer.pc # "Out" /\ writer.s = s)
  /\ \A t \in Thread : ~(th[t].pc \in {"Send", "More"} /\ th[t].s = s)

Goes(t, pc) == th' = [th EXCEPT ![t].pc = pc]
Ends(t, ok, why) == th' = [th EXCEPT ![t] = [@ EXCEPT !.pc = "Done", !.ok = ok, !.why = why, !.hand = <<>>]]
Flushes(t) == t = "closer"
TooLate(t) == Flushes(t) /\ late

(* Mutant of IoLock: a flush waits for the lock as long as it takes. *)
IoLockForEver(t) ==
  LET s == th[t].s IN
  /\ th[t].pc = "Lock" /\ IOLockIsFree(s)
  /\ IF sk[s].RxEvent THEN Goes(t, "Write") ELSE Ends(t, FALSE, "Error")
  /\ UNCHANGED <<sk, net, writer, pairVars, ownerVars, used>>

(* GetIoLockTimeout: a flush waits for a lock until its deadline, a read as long as it takes *)
LockTimesOut(t) == Flushes(t) /\ late

(* IO takes IOLock *)
IoLock(t) ==
  LET s == th[t].s IN
  /\ th[t].pc = "Lock"
  /\ \/ IOLockIsFree(s) /\ sk[s].RxEvent /\ Goes(t, "Write")
     \/ IOLockIsFree(s) /\ ~sk[s].RxEvent /\ Ends(t, FALSE, "Error")
     \/ LockTimesOut(t) /\ Ends(t, FALSE, "Timeout")
  /\ UNCHANGED <<sk, net, writer, pairVars, ownerVars, used>>

-----------------------------------------------------------------------------
(* WriteIO.  A write on a connection that is gone, or on a descriptor that *)
(* was closed, fails, and no close-notify is sent then.                    *)
CannotWrite(n) == ~n.open \/ n.broken \/ n.shut
Fits(n, size) == Min({n.room, size})
SendsBytes(n, bytes) == [n EXCEPT !.room = @ - Len(bytes), !.wire = @ \o bytes]
Fails(k) == [k EXCEPT !.CloseNotify = FALSE]

(* BIO_write; what it takes is SendsBytes *)
InternalWrite(n, size) ==
  IF CannotWrite(n) THEN "Error" ELSE IF Fits(n, size) = 0 THEN "WouldBlock" ELSE "Some"

(* the next packet, unless the peer is gone, a flush has passed its deadline or the queue is empty *)
IoPop(t) ==
  LET s == th[t].s IN
  /\ \/ th[t].pc = "Write" /\ sk[s].Disconnected = "No" /\ TxLockIsFree(s)
     \/ th[t].pc = "More"
  /\ IF TooLate(t) \/ sk[s].Tx = <<>>
     THEN Goes(t, "Read") /\ UNCHANGED sk
     ELSE /\ th' = [th EXCEPT ![t] = [@ EXCEPT !.pc = "Send", !.hand = PopFirst(sk[s].Tx).packet]]
          /\ sk' = [sk EXCEPT ![s].Tx = PopFirst(@).queue]
  /\ UNCHANGED <<net, writer, pairVars, ownerVars, used>>

IoSkipsWrite(t) ==
  LET s == th[t].s IN
  /\ th[t].pc = "Write"
  /\ \/ sk[s].Disconnected # "No" /\ Goes(t, "Read")
     \/ sk[s].Disconnected = "No" /\ ~TxLockIsFree(s) /\ LockTimesOut(t) /\ Ends(t, FALSE, "Timeout")
  /\ UNCHANGED <<sk, net, writer, pairVars, ownerVars, used>>

(* what was not sent goes back to the front of the queue *)
PutBack(k, b) == [k EXCEPT !.Tx = IF b = <<>> THEN @ ELSE PushFront(@, b)]

(* Mutant of Rest: the bytes that were sent are not cut off. *)
RestOrAll(b, n) == IF n < Len(b) THEN b ELSE <<>>
Rest(b, n) == SubSeq(b, n + 1, Len(b))

(* InternalWrite of the packet, or of what is left of it *)
IoSend(t) ==
  LET s == th[t].s
      b == th[t].hand
      n == Fits(net[s], Len(b))
      result == InternalWrite(net[s], Len(b))
      Back(k) == sk' = [sk EXCEPT ![s] = PutBack(k, Rest(b, n))]
  IN
  /\ th[t].pc = "Send"
  /\ \/ /\ result = "Error"
        /\ sk' = [sk EXCEPT ![s] = PutBack(Fails(@), b)] /\ Ends(t, FALSE, "Error") /\ UNCHANGED net
     \/ /\ result = "WouldBlock"
        /\ Back(sk[s]) /\ th' = [th EXCEPT ![t] = [@ EXCEPT !.pc = "Read", !.hand = <<>>]] /\ UNCHANGED net
     \/ /\ result = "Some"
        /\ net' = [net EXCEPT ![s] = SendsBytes(@, SubSeq(b, 1, n))]
        /\ Back(sk[s]) /\ th' = [th EXCEPT ![t] = [@ EXCEPT !.pc = "More", !.hand = <<>>]]
  /\ UNCHANGED <<writer, pairVars, ownerVars, used>>

-----------------------------------------------------------------------------
(* ReadIO, and what IO makes of its result. *)
Inbox(n) == n.sent - n.read
IsLost(n) == ~n.open \/ n.broken

(* ReadPacket, of what was given back with Unread *)
ReadPacket(k) == [k EXCEPT !.Rx = AppendBytes(@, Head(k.Packets)), !.Packets = Tail(@)]

(* a packet that was given back, or BIO_read: an error of a peer that is known to be gone is its end *)
InternalRead(k, n) ==
  IF k.Packets # <<>> THEN "Packet"
  ELSE IF IsLost(n) THEN IF k.Disconnected = "No" THEN "Error" ELSE "End"
  ELSE IF Inbox(n) > 0 THEN "Some" ELSE IF n.fin THEN "End" ELSE "WouldBlock"

(* Mutant of IsDone: a flush ends with the first input. *)
IsDoneWithInput(t, k) == k.Rx # <<>> \/ (Flushes(t) /\ (k.Tx = <<>> \/ late))

(* data end the call, and for a flush an empty queue or the deadline *)
IsDone(t, k) == IF Flushes(t) THEN k.Tx = <<>> \/ late ELSE k.Rx # <<>>

(* Mutant of AfterRead: a peer that is gone ends the call though there is data. *)
AfterReadUndrained(t, k) ==
  \/ k.Disconnected # "No" /\ Ends(t, FALSE, k.Disconnected)
  \/ k.Disconnected = "No" /\ IsDone(t, k) /\ Ends(t, TRUE, "None")
  \/ k.Disconnected = "No" /\ ~IsDone(t, k) /\ Goes(t, "Wait")

(* a peer that is gone ends the call, which is a success if there is data *)
AfterRead(t, k) ==
  \/ k.Disconnected # "No" /\ Ends(t, k.Rx # <<>>, k.Disconnected)
  \/ k.Disconnected = "No" /\ IsDone(t, k) /\ Ends(t, TRUE, "None")
  \/ k.Disconnected = "No" /\ ~IsDone(t, k) /\ Goes(t, "Wait")

(* InternalRead, as long as RxQueue has room and there is something to take; the end is noted *)
IoRead(t) ==
  LET s == th[t].s
      k == sk[s]
      room == Available(k.Rx, RxLimit)
      m == Min({BUFFER_SIZE, room, Inbox(net[s])})
      stops == TooLate(t) \/ room = 0
      result == InternalRead(k, net[s])
      Ended == [k EXCEPT !.Disconnected = IF @ = "No" THEN "Fin" ELSE @]
  IN
  /\ th[t].pc = "Read"
  /\ \/ /\ stops \/ result = "WouldBlock"
        /\ AfterRead(t, k) /\ UNCHANGED <<sk, net>>
     \/ /\ ~stops /\ result = "Some"
        /\ net' = [net EXCEPT ![s].read = @ + m]
        /\ sk' = [sk EXCEPT ![s].Rx = AppendBytes(@, [i \in 1..m |-> net[s].read + i])]
        /\ UNCHANGED th
     \/ /\ ~stops /\ result = "Packet"
        /\ sk' = [sk EXCEPT ![s] = ReadPacket(@)] /\ UNCHANGED <<net, th>>
     \/ /\ ~stops /\ result = "End"
        /\ sk' = [sk EXCEPT ![s] = Ended] /\ AfterRead(t, Ended) /\ UNCHANGED net
     \/ /\ ~stops /\ result = "Error"
        /\ sk' = [sk EXCEPT ![s] = Fails(@)] /\ Ends(t, FALSE, "Error") /\ UNCHANGED net
  /\ UNCHANGED <<writer, pairVars, ownerVars, used>>

-----------------------------------------------------------------------------
(* FastWaitForMultipleObjects.  EventStateToWaitResult looks at the events *)
(* in the order of the results.                                            *)
IsAborted == exitEvent \/ closeEvent
EventIsSet(s) == IsAborted \/ sk[s].BreakRead = "On"
Answers(t, s, k) ==
  IF IsAborted
  THEN Ends(t, FALSE, "Aborted") /\ sk' = [sk EXCEPT ![s] = k]
  ELSE Ends(t, TRUE, "Break") /\ sk' = [sk EXCEPT ![s] = [k EXCEPT !.BreakRead = "Off"]]

(* UpdateEpollEventList: EPOLLOUT while there is output *)
WatchesOut(s) == sk[s].Tx # <<>>

(* the events are looked at before the wait, and what epoll watches is brought up to date; a socket that
   is closed meanwhile is not waited for: CloseEvent is set before *)
IoWait(t) ==
  LET s == th[t].s IN
  /\ th[t].pc = "Wait"
  /\ \/ EventIsSet(s) /\ Answers(t, s, sk[s])
     \/ /\ ~EventIsSet(s)
        /\ sk' = [sk EXCEPT ![s].out = WatchesOut(s)] /\ Goes(t, "Epoll")
  /\ UNCHANGED <<net, writer, pairVars, ownerVars, used>>

(* what epoll_wait reports of the socket *)
IsReady(s) ==
  net[s].open /\ (Inbox(net[s]) > 0 \/ net[s].fin \/ net[s].broken \/ (sk[s].out /\ net[s].room > 0))

(* the peer's end, if epoll reports it *)
Noted(s) == IF net[s].open /\ net[s].fin /\ sk[s].Disconnected = "No" THEN "Fin" ELSE sk[s].Disconnected

(* the wait ends: the eventfd is read and the events are looked at again; if none is set, IO goes round *)
IoWakes(t) ==
  LET s == th[t].s
      k == [sk[s] EXCEPT !.eventfd = FALSE]
  IN
  /\ th[t].pc = "Epoll"
  /\ \/ sk[s].eventfd /\ EventIsSet(s) /\ Answers(t, s, k)
     \/ /\ IF sk[s].eventfd THEN ~EventIsSet(s) ELSE IsReady(s)
        /\ sk' = [sk EXCEPT ![s] = [k EXCEPT !.Disconnected = Noted(s)]]
        /\ Goes(t, "Write")
  /\ UNCHANGED <<net, writer, pairVars, ownerVars, used>>

(* the timeout of epoll_wait: the caller's, the deadline of a flush, or none when a read looks at both
   sockets in turn *)
IoTimeout(t) ==
  LET s == th[t].s IN
  /\ th[t].pc = "Epoll"
  /\ \/ th[t].call = "Both" /\ ~sk[s].eventfd /\ ~IsReady(s)
     \/ th[t].call \in {"One", "Socket"} /\ ~th[t].forever
     \/ TooLate(t)
  /\ Ends(t, TRUE, "Timeout")
  /\ UNCHANGED <<sk, net, writer, pairVars, ownerVars, used>>

IO(t) ==
  \/ IoLock(t) \/ IoPop(t) \/ IoSkipsWrite(t) \/ IoSend(t) \/ IoRead(t)
  \/ IoWait(t) \/ IoWakes(t) \/ IoTimeout(t)

-----------------------------------------------------------------------------
(* The reader. *)
Valid == {s \in Socket : sk[s].RxEvent}
Returns == th' = [th EXCEPT !["reader"] = Resting]
Tries(s) == th' = [th EXCEPT !["reader"] = [@ EXCEPT !.pc = "Lock", !.s = s, !.ok = TRUE, !.why = "None"]]
Calls(s, call, forever) ==
  th' = [th EXCEPT !["reader"] = [Resting EXCEPT !.pc = "Lock", !.s = s, !.call = call, !.forever = forever]]

(* SocketPair::Read: the only socket that is not in blocking mode, or both *)
StartRead(forever) ==
  /\ R.pc = "Out" /\ <<"Both", forever>> \in Reads /\ Uses("reads", MaxReads)
  /\ CASE Valid = {} -> Returns
       [] Valid = Socket -> Calls("Client", "Both", forever)
       [] OTHER -> \E s \in Valid : Calls(s, "One", forever)
  /\ UNCHANGED <<sk, net, writer, pairVars, ownerVars>>

(* Socket::Read *)
StartSocketRead(s, forever) ==
  /\ R.pc = "Out" /\ <<"Socket", forever>> \in Reads /\ Uses("reads", MaxReads)
  /\ Calls(s, "Socket", forever)
  /\ UNCHANGED <<sk, net, writer, pairVars, ownerVars>>

(* what the call takes from RxQueue: Join of SocketPair::IO, PopFirst of Socket::Read *)
Received(s) == IF R.call = "Socket" THEN sk[s].Rx ELSE Join(sk[s].Rx, CallerSize)
TakesData == R.call = "Socket" \/ R.ok

(* after IO: data are returned, with an error only by Socket::Read; else the other socket is tried *)
AfterIO ==
  LET s == R.s
      q == Received(s)
  IN
  /\ R.pc = "Done"
  /\ \/ /\ TakesData /\ q # <<>>
        /\ returned' = [returned EXCEPT ![s] = @ \o PopFirst(q).packet]
        /\ sk' = [sk EXCEPT ![s].Rx = PopFirst(q).queue]
        /\ Returns
     \/ /\ ~(TakesData /\ q # <<>>) /\ UNCHANGED <<returned, sk>>
        /\ CASE ~R.ok \/ R.call # "Both" -> Returns
             [] R.ok /\ R.call = "Both" /\ s = "Client" -> Tries("Server")
             [] R.ok /\ R.call = "Both" /\ s = "Server" -> Goes("reader", "Check")
  /\ UNCHANGED <<net, writer, pairVars, written, due, used>>

(* nothing on either side: a peer that is gone ends the read *)
Check ==
  /\ R.pc = "Check"
  /\ \/ (\E s \in Socket : sk[s].Disconnected # "No") /\ Returns
     \/ /\ \A s \in Socket : sk[s].Disconnected = "No"
        /\ th' = [th EXCEPT !["reader"] = [@ EXCEPT !.pc = "Select", !.rounds = R.rounds + 1]]
  /\ UNCHANGED <<sk, net, writer, pairVars, ownerVars, used>>

(* the wait for the events of the pair and of both sockets; one that is closed fails it *)
SelectAborted ==
  /\ R.pc = "Select"
  /\ IsAborted \/ Valid # Socket
  /\ Returns
  /\ UNCHANGED <<sk, net, writer, pairVars, ownerVars, used>>

SelectBreak(s) ==
  /\ R.pc = "Select" /\ sk[s].BreakRead = "On"
  /\ sk' = [sk EXCEPT ![s].BreakRead = "Off"] /\ Returns
  /\ UNCHANGED <<net, writer, pairVars, ownerVars, used>>

(* an event of a socket: its end may be reported with it, and a socket whose rounds had no data is
   given up, its output with it *)
GivesUp == R.rounds > ZeroLimit
SelectSocket(s) ==
  /\ R.pc = "Select" /\ sk[s].RxEvent
  /\ Inbox(net[s]) > 0 \/ net[s].fin \/ net[s].broken \/ (sk[s].Tx # <<>> /\ net[s].room > 0)
  /\ \E end \in {sk[s].Disconnected, Noted(s)} :
       sk' = [sk EXCEPT ![s].Disconnected = IF GivesUp /\ end = "No" THEN "Tired" ELSE end]
  /\ Tries("Client")
  /\ IF GivesUp THEN Spares(s) ELSE UNCHANGED due
  /\ UNCHANGED <<net, writer, pairVars, returned, written, used>>

SelectTimeout ==
  /\ R.pc = "Select" /\ ~R.forever
  /\ Returns
  /\ UNCHANGED <<sk, net, writer, pairVars, ownerVars, used>>

Reader ==
  \/ IO("reader") \/ AfterIO \/ Check \/ SelectAborted \/ SelectTimeout
  \/ \E s \in Socket : SelectBreak(s) \/ SelectSocket(s)

-----------------------------------------------------------------------------
(* The writer: Socket::Write, under TxLock.  A socket in blocking mode     *)
(* writes when there is room for everything.                               *)
NextBytes(s, n) == [i \in 1..n |-> written[s] + i]
StartWrite(s, n) ==
  /\ writer.pc = "Out" /\ TxLockIsFree(s) /\ Uses("writes", MaxWrites)
  /\ writer' = [pc |-> IF sk[s].Tx = <<>> THEN "Send" ELSE "Append", s |-> s, n |-> n]
  /\ UNCHANGED <<sk, net, th, pairVars, ownerVars>>

(* nothing is queued: what the socket takes is the result, and nothing is appended *)
WriteDirectly ==
  LET s == writer.s
      n == Fits(net[s], writer.n)
      result == InternalWrite(net[s], writer.n)
  IN
  /\ writer.pc = "Send"
  /\ \/ /\ result = "Error"
        /\ sk' = [sk EXCEPT ![s] = Fails(@)] /\ writer' = Idle /\ UNCHANGED <<net, written>>
     \/ /\ result = "Some" /\ (sk[s].RxEvent \/ n = writer.n)
        /\ net' = [net EXCEPT ![s] = SendsBytes(@, NextBytes(s, n))]
        /\ written' = [written EXCEPT ![s] = @ + n]
        /\ writer' = Idle /\ UNCHANGED sk
     \/ /\ result = "WouldBlock" /\ sk[s].RxEvent
        /\ writer' = [writer EXCEPT !.pc = "Append"] /\ UNCHANGED <<sk, net, written>>
  /\ UNCHANGED <<th, pairVars, returned, due, used>>

WriteAppends ==
  LET s == writer.s IN
  /\ writer.pc = "Append"
  /\ sk' = [sk EXCEPT ![s].Tx = AppendBytes(@, NextBytes(s, writer.n))]
  /\ written' = [written EXCEPT ![s] = @ + writer.n]
  /\ writer' = [writer EXCEPT !.pc = "Signal"]
  /\ UNCHANGED <<net, th, pairVars, returned, due, used>>

(* Mutant of Wakes: what was queued is not told to a thread in epoll_wait. *)
WakesNobody(k) == k

(* SignallReady: EventSignalled writes the eventfd *)
Wakes(k) == [k EXCEPT !.eventfd = TRUE]
WriteSignals ==
  /\ writer.pc = "Signal"
  /\ sk' = [sk EXCEPT ![writer.s] = Wakes(@)] /\ writer' = Idle
  /\ UNCHANGED <<net, th, pairVars, ownerVars, used>>

Writer == WriteDirectly \/ WriteAppends \/ WriteSignals

-----------------------------------------------------------------------------
(* The closer: SocketPair::Close, under CloseLock.  The deadline passes at *)
(* any moment.  due is what may be asked of the close: it no longer covers *)
(* a socket that was left alone because its only packet was in the hand of *)
(* the reader when the closer looked.                                      *)
WakesAll(k) == [s \in Socket |-> IF k[s].attached THEN Wakes(k[s]) ELSE k[s]]
Turns(s, pc) == th' = [th EXCEPT !["closer"] = [Resting EXCEPT !.pc = pc, !.s = s, !.call = "Flush"]]
NextSocket(s) == IF s = "Client" THEN Turns("Server", "Look") ELSE Turns("Client", "Tell")

StartClose(graceful) ==
  /\ C.pc = "Out" /\ ~ClosePending
  /\ IF graceful THEN Turns("Client", "Look") ELSE Turns("Client", "Tell")
  /\ due' = [s \in Socket |-> IF graceful /\ sk[s].RxEvent /\ sk[s].BreakRead = "Off" /\ sk[s].Disconnected = "No"
                                 /\ ~net[s].fin /\ ~net[s].broken /\ ~exitEvent
                              THEN written[s] ELSE 0]
  /\ UNCHANGED <<sk, net, writer, pairVars, returned, written, used>>

(* Flush, if there is output and time *)
NeedsFlush(s) == sk[s].attached /\ sk[s].Tx # <<>> /\ ~late

InHand(s) == \E t \in Thread : th[t].pc \in {"Send", "More"} /\ th[t].s = s /\ th[t].hand # <<>>
CloseLooks ==
  LET s == C.s IN
  /\ C.pc = "Look"
  /\ IF NeedsFlush(s) THEN Turns(s, "Lock") ELSE Turns(s, "Done")
  /\ IF sk[s].Tx = <<>> /\ InHand(s) THEN Spares(s) ELSE UNCHANGED due
  /\ UNCHANGED <<sk, net, writer, pairVars, returned, written, used>>

PeerDisconnected(k) == k.Disconnected # "No"
Shutdown(k, n) == [n EXCEPT !.shut = @ \/ (k.CloseNotify /\ ~PeerDisconnected(k))]

(* Shutdown, unless the deadline has passed *)
CloseShuts ==
  LET s == C.s IN
  /\ C.pc = "Done"
  /\ net' = [net EXCEPT ![s] = IF sk[s].attached /\ ~late THEN Shutdown(sk[s], @) ELSE @]
  /\ NextSocket(s)
  /\ UNCHANGED <<sk, writer, pairVars, ownerVars, used>>

(* Mutant of Tells: the event is set, but the threads in epoll_wait are not told. *)
TellsNobody(k) == k

(* ClosePending, and CloseEvent with what it signals *)
Tells(k) == WakesAll(k)
CloseTells ==
  /\ C.pc = "Tell"
  /\ ClosePending' = TRUE /\ closeEvent' = TRUE /\ sk' = Tells(sk)
  /\ Turns("Client", "Detach")
  /\ UNCHANGED <<net, writer, exitEvent, late, ownerVars, used>>

(* Socket::Close of one socket and then of the other *)
Detach(k) == [k EXCEPT !.attached = FALSE, !.RxEvent = FALSE]
CloseSocket ==
  LET s == C.s IN
  /\ C.pc = "Detach"
  /\ sk' = [sk EXCEPT ![s] = Detach(@)]
  /\ net' = [net EXCEPT ![s].open = FALSE]
  /\ IF s = "Client" THEN Turns("Server", "Detach") ELSE Turns("Server", "Closed")
  /\ UNCHANGED <<writer, pairVars, ownerVars, used>>

DeadlinePasses ==
  /\ C.pc \notin {"Out", "Closed", "Tell", "Detach"} /\ ~late /\ late' = TRUE
  /\ UNCHANGED <<sk, net, th, writer, exitEvent, closeEvent, ClosePending, ownerVars, used>>

CloserStep == IO("closer") \/ CloseLooks \/ CloseShuts \/ CloseTells \/ CloseSocket
Closer == CloserStep \/ DeadlinePasses

-----------------------------------------------------------------------------
(* The owner. *)
StopPendingRead(s) ==
  /\ Happens("Stop", s) /\ sk[s].BreakRead = "Off"
  /\ sk' = [sk EXCEPT ![s] = [Wakes(@) EXCEPT !.BreakRead = "On"]] /\ Spares(s)
  /\ UNCHANGED <<net, th, writer, pairVars, returned, written>>

Exit ==
  /\ Happens("Exit", "Client") /\ ~exitEvent
  /\ exitEvent' = TRUE /\ sk' = WakesAll(sk) /\ due' = [s \in Socket |-> 0]
  /\ UNCHANGED <<net, th, writer, closeEvent, ClosePending, late, returned, written>>

AtRest == R.pc = "Out" /\ writer.pc = "Out" /\ C.pc = "Out"
SwitchToBlockingMode(s) ==
  /\ AtRest /\ Happens("Mode", s) /\ sk[s].RxEvent
  /\ sk' = [sk EXCEPT ![s] = Blocking(@)]
  /\ UNCHANGED <<net, th, writer, pairVars, ownerVars>>
SwitchToUnblockingMode(s) ==
  /\ AtRest /\ <<"Mode", s>> \in Events /\ ~sk[s].RxEvent
  /\ sk' = [sk EXCEPT ![s] = Unblocking(@)]
  /\ UNCHANGED <<net, th, writer, pairVars, ownerVars, used>>

(* the owner gives back what it has read too much, before anything after it is read; what it has given
   back is read in that order, so that it gives back nothing more before that *)
Unread(s) ==
  /\ AtRest /\ Happens("Unread", s) /\ returned[s] # <<>> /\ sk[s].Rx = <<>> /\ sk[s].Packets = <<>>
  /\ sk' = [sk EXCEPT ![s].Packets = Append(@, <<Last(returned[s])>>)]
  /\ returned' = [returned EXCEPT ![s] = Front(@)]
  /\ UNCHANGED <<net, th, writer, pairVars, written, due>>

(* The peers and the network. *)
CanSend(s) == net[s].open /\ ~net[s].fin /\ ~net[s].broken
PeerSends(s) ==
  /\ CanSend(s) /\ net["Client"].sent + net["Server"].sent < MaxSent
  /\ net' = [net EXCEPT ![s].sent = @ + 1]
  /\ UNCHANGED <<sk, th, writer, pairVars, ownerVars, used>>
PeerCloses(s) ==
  /\ CanSend(s) /\ Happens("Fin", s)
  /\ net' = [net EXCEPT ![s].fin = TRUE] /\ Spares(s)
  /\ UNCHANGED <<sk, th, writer, pairVars, returned, written>>
Breaks(s) ==
  /\ net[s].open /\ ~net[s].broken /\ Happens("Error", s)
  /\ net' = [net EXCEPT ![s].broken = TRUE] /\ Spares(s)
  /\ UNCHANGED <<sk, th, writer, pairVars, returned, written>>
Drains(s) ==
  /\ net[s].room < Room /\ ~IsLost(net[s]) /\ net' = [net EXCEPT ![s].room = Room]
  /\ UNCHANGED <<sk, th, writer, pairVars, ownerVars, used>>

Network(s) == (s \in Sources /\ PeerSends(s)) \/ PeerCloses(s) \/ Breaks(s) \/ Drains(s)
Owner ==
  \/ \E forever \in BOOLEAN : StartRead(forever) \/ \E s \in Socket : StartSocketRead(s, forever)
  \/ \E s \in Sinks, n \in Sizes : StartWrite(s, n)
  \/ \E graceful \in BOOLEAN : StartClose(graceful)
  \/ Exit
  \/ \E s \in Socket : StopPendingRead(s) \/ SwitchToBlockingMode(s) \/ SwitchToUnblockingMode(s) \/ Unread(s)

Next == Reader \/ Writer \/ Closer \/ Owner \/ \E s \in Socket : Network(s)

Spec == Init /\ [][Next]_vars

(* A thread that can go on does, the deadline passes, and the peers take what is sent to them.  One
   condition is enough for the threads: each of their steps uses something up, but for the rounds of a
   flush that is kept from sleeping by input, which the deadline ends. *)
FairSpec ==
  /\ Spec /\ WF_vars(Reader \/ Writer \/ CloserStep) /\ WF_vars(DeadlinePasses)
  /\ WF_vars(\E s \in Socket : Drains(s))

-----------------------------------------------------------------------------
(* Properties. *)

(* The variables keep their types; every packet fits into the caller's buffer. *)
IsBytes(b) == b \in Seq(Nat)
TypeOK ==
  /\ \A s \in Socket :
       /\ {sk[s].attached, sk[s].RxEvent, sk[s].CloseNotify, sk[s].eventfd, sk[s].out} \subseteq BOOLEAN
       /\ sk[s].BreakRead \in {"None", "Off", "On"} /\ sk[s].Disconnected \in {"No", "Fin", "Tired"}
       /\ \A q \in {sk[s].Rx, sk[s].Tx, sk[s].Packets} : \A i \in DOMAIN q : IsBytes(q[i]) /\ q[i] # <<>>
       /\ net[s].room \in 0..Room /\ net[s].read \in 0..net[s].sent /\ IsBytes(net[s].wire)
       /\ Total(sk[s].Rx) <= RxLimit
       /\ written[s] \in Nat /\ due[s] \in 0..written[s]
  /\ \A t \in Thread : th[t].s \in Socket /\ th[t].rounds \in Nat
                       /\ th[t].pc \in InIO \cup {"Out", "Lock", "Done", "Check", "Select", "Look", "Tell", "Detach", "Closed"}
  /\ writer.pc \in {"Out", "Send", "Append", "Signal"} /\ writer.s \in Socket
  /\ {exitEvent, closeEvent, ClosePending, late} \subseteq BOOLEAN

(* Output keeps its order and none of it is lost or sent twice: what is on the wire, what a thread has
   in its hand and what is queued are together what Write has taken (Write, WriteIO, Queue). *)
Hand(s) == IF \E t \in Thread : th[t].pc = "Send" /\ th[t].s = s
           THEN th[CHOOSE t \in Thread : th[t].pc = "Send" /\ th[t].s = s].hand ELSE <<>>
OutputInOrder == \A s \in Socket : net[s].wire \o Hand(s) \o Bytes(sk[s].Tx) = [i \in 1..written[s] |-> i]

(* Input keeps its order and none of it is lost or returned twice, whoever took it from the socket: a
   read, or the flush of a close, also what the owner gives back (ReadIO, Unread, Queue::Append, Join, PopFirst). *)
InputInOrder ==
  \A s \in Socket : returned[s] \o Bytes(sk[s].Rx) \o Bytes(sk[s].Packets) = [i \in 1..net[s].read |-> i]

(* A read that says that the peer has closed has returned everything this peer sent, unless the pair
   is being closed by another thread (SocketPair::Read, Socket::IO). *)
DrainedBeforeGone ==
  (R.pc = "Done" /\ ~R.ok /\ R.why = "Fin" /\ C.pc = "Out") =>
    LET s == R.s IN net[s].fin /\ ~net[s].broken => Len(returned[s]) = net[s].sent

(* A thread does not sleep in epoll_wait through an event it waits for: the eventfd is signalled while
   one is set, and queued output is watched for, or the thread is about to be told (EventSignalled,
   UpdateEpollEventList, Append). *)
WaitIsCovered ==
  \A t \in Thread :
    LET s == th[t].s IN
    (th[t].pc = "Epoll" /\ ~sk[s].eventfd) =>
      /\ ~EventIsSet(s)
      /\ sk[s].Tx # <<>> => sk[s].out \/ (writer.pc = "Signal" /\ writer.s = s)

(* Bytes are kept, in their order and in both directions, and nobody sleeps on them (the parts above). *)
BytesSound == TypeOK /\ OutputInOrder /\ InputInOrder /\ WaitIsCovered

(* A graceful close delivers what Write had taken when it began, unless its deadline passes, the peer
   or the connection is gone, the read is stopped, or the program exits (SocketPair::Close). *)
GracefulCloseFlushes ==
  C.pc = "Closed" /\ ~late => \A s \in Socket : Len(net[s].wire) >= due[s]

(* Close returns, whatever the reader, the writer and the peers do. *)
CloseReturns == (C.pc # "Out") ~> (C.pc = "Closed")

(* A read ends when the pair is closed, the program exits, or a peer has closed; and one with a timeout
   ends in any case. *)
MustEnd == IsAborted \/ ~R.forever \/ \E s \in Socket : net[s].fin /\ (R.call = "Both" \/ R.s = s)
ReadEnds == (R.pc # "Out" /\ MustEnd) ~> (R.pc = "Out")

(* Output that was queued while a thread reads this socket is sent when the peer takes it, though the
   reader waits for input. *)
OutputIsSent ==
  \A s \in Socket : (R.pc \in InIO /\ R.s = s /\ R.call # "Both" /\ sk[s].Tx # <<>>)
                      ~> (sk[s].Tx = <<>> \/ R.pc = "Out")
=============================================================================
