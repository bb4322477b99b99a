----------------------------- MODULE AsyncEngine -----------------------------
(***************************************************************************)
(* The asynchronous stream engine on epoll (Async/AsyncStreamLinux.cpp):   *)
(* streams with at most one read and one write pending, one-shot interest, *)
(* the queue of results and the thread that calls Wait.                    *)
(*                                                                         *)
(* A section under the engine's Lock is one step.  Between epoll_wait and  *)
(* the events it returned, and between one event and the next, the other   *)
(* threads run.  What a section does to one stream is written as functions *)
(* of a record x: the stream x.str, its socket x.skt and the results it    *)
(* queues x.out; x.me is the stream and x.owner the one that FindStream-   *)
(* Locked finds for its descriptor.                                        *)
(*                                                                         *)
(* The kernel's side of a descriptor is `sock' (bytes to read, room to     *)
(* write, the peer's FIN, a reset) and its place in the epoll set.  The    *)
(* owner of the streams is `asked': what it has started and seen no        *)
(* answer to.                                                              *)
(***************************************************************************)
EXTENDS Naturals, Sequences, FiniteSets, FiniteSetsExt

CONSTANTS
  Stream,      \* stream objects; each is added to the engine once
  Fd,          \* descriptors; one that was closed is used again
  NoStream, NoFd, EventFd,
  Sizes,       \* how many bytes a write has
  Room,        \* the room of a socket's send buffer
  MaxStarts,   \* bound: calls of StartRead and StartWrite
  MaxSent,     \* bound: bytes a peer sends on one connection
  MaxWakes,    \* bound: calls of Wake by the owner
  MaxFaults    \* bound: failures of EPOLL_CTL_MOD

ASSUME NamesAssumption == NoStream \notin Stream /\ NoFd \notin Fd /\ EventFd \notin Fd \cup {NoFd}
ASSUME BoundsAssumption ==
  /\ Sizes \subseteq Nat \ {0} /\ Room \in Nat \ {0}
  /\ {MaxStarts, MaxSent, MaxWakes, MaxFaults} \subseteq Nat

VARIABLES
  stream,    \* the LinuxAsyncStream objects
  entries,   \* Entries
  results,   \* PendingResults
  stopping,  \* Stopping
  eventfd,   \* StopEvent is readable
  sock,      \* the sockets, by descriptor
  interest,  \* the epoll set: what is asked for, {} for a descriptor that is disarmed
  wpc,       \* the thread in Wait
  batch,     \* the events epoll_wait returned and Wait has not processed
  asked,     \* the operations the owner waits for
  failed,    \* the streams it was given an error of
  nudge,     \* a thread other than Wait's has called and is about to call Wake
  used       \* what is used up of the bounds

streamVars == <<stream, entries, results>>
kernelVars == <<sock, interest>>
waitVars   == <<wpc, batch>>
wakeVars   == <<stopping, eventfd, nudge>>
ownerVars  == <<asked, failed>>
vars == <<streamVars, kernelVars, waitVars, wakeVars, ownerVars, used>>

-----------------------------------------------------------------------------
NewStream == [handle |-> NoFd, state |-> "New", ReadPending |-> FALSE, WritePending |-> FALSE,
              Removing |-> FALSE, ReadClosed |-> FALSE, left |-> 0]
Closed == [state |-> "Closed", inbox |-> 0, sent |-> 0, fin |-> FALSE, shut |-> FALSE, room |-> 0]
Fresh  == [Closed EXCEPT !.state = "Up", !.room = Room]

Init ==
  /\ stream = [s \in Stream |-> NewStream]
  /\ entries = [f \in Fd |-> NoStream] /\ results = <<>>
  /\ stopping = FALSE /\ eventfd = FALSE
  /\ sock = [f \in Fd |-> Closed] /\ interest = [f \in Fd |-> {}]
  /\ wpc = "Out" /\ batch = {}
  /\ asked = [s \in Stream |-> {}] /\ failed = {} /\ nudge = FALSE
  /\ used = [starts |-> 0, wakes |-> 0, faults |-> 0]

Handle(s) == stream[s].handle
Owner(s) == IF Handle(s) = NoFd THEN NoStream ELSE entries[Handle(s)]

(* What the section that holds Lock works on. *)
View(s) == [str |-> stream[s], skt |-> IF Handle(s) = NoFd THEN Closed ELSE sock[Handle(s)],
            out |-> <<>>, me |-> s, owner |-> Owner(s)]

(* QueueResultLocked: nothing is said of a stream that is removed *)
QueueResult(x, s, op) ==
  IF s = NoStream \/ (IF s = x.me THEN x.str.Removing ELSE stream[s].Removing)
  THEN x ELSE [x EXCEPT !.out = Append(@, [stream |-> s, op |-> op])]

(* Mutant of ReadDone: the read is answered and stays pending. *)
ReadStays(x, op) == QueueResult(x, x.owner, op)

ReadDone(x, op) == QueueResult([x EXCEPT !.str.ReadPending = FALSE], x.owner, op)

WriteDone(x, op) ==
  QueueResult([x EXCEPT !.str.WritePending = FALSE, !.str.left = 0], x.owner, op)

(* recv: a reset is reported once, and the stream ends after it *)
TryRead(x) ==
  IF ~x.str.ReadPending \/ x.owner = NoStream THEN x
  ELSE IF x.skt.inbox > 0       THEN ReadDone([x EXCEPT !.skt.inbox = @ - 1], "Read")
  ELSE IF x.skt.state = "Reset" THEN ReadDone([x EXCEPT !.skt.state = "Dead"], "Error")
  ELSE IF x.skt.fin \/ x.skt.state # "Up"
       THEN ReadDone([x EXCEPT !.str.ReadClosed = TRUE], "ReadClosed")
  ELSE x

(* sendmsg, until everything is written or the socket is full *)
TryWrite(x) ==
  LET n == Min({x.str.left, x.skt.room})
      y == [x EXCEPT !.str.left = @ - n, !.skt.room = @ - n]
  IN  IF ~x.str.WritePending \/ x.owner = NoStream THEN x
      ELSE IF x.skt.state # "Up" \/ x.skt.shut
           THEN WriteDone([x EXCEPT !.skt.state = IF @ = "Reset" THEN "Dead" ELSE @], "Error")
      ELSE IF y.str.left = 0 THEN WriteDone(y, "Write")
      ELSE y

(* MakeEvent; errors and hang-ups are always reported while the interest is armed *)
MakeEvent(str) == {"ARMED"} \cup (IF str.ReadPending THEN {"IN"} ELSE {})
                            \cup (IF str.WritePending THEN {"OUT"} ELSE {})

(* Mutant of Idle: the interest is armed with nothing pending. *)
NeverIdle(x) == x.str.Removing

(* Mutant of Idle: only a pending read keeps the interest armed. *)
IdleWithoutRead(x) == x.str.Removing \/ ~x.str.ReadPending

Idle(x) == x.str.Removing \/ (~x.str.ReadPending /\ ~x.str.WritePending)

(* The end of a section: UpdateInterestLocked and what the section has changed.  *)
(* When EPOLL_CTL_MOD fails both operations are given up with one Error and Wait *)
(* is woken; for a socket that is closed nothing is done at all.                 *)
GiveUp(x) == QueueResult([x EXCEPT !.str.ReadPending = FALSE, !.str.WritePending = FALSE,
                                   !.str.left = 0], x.owner, "Error")

Store(x) ==
  /\ stream' = [stream EXCEPT ![x.me] = x.str]
  /\ results' = results \o x.out
  /\ sock' = [f \in Fd |-> IF f = Handle(x.me) THEN x.skt ELSE sock[f]]

UpdateInterest(x, u) ==
  LET f == Handle(x.me) IN
  \/ /\ Idle(x) \/ f = NoFd
     /\ Store(x) /\ used' = u /\ UNCHANGED <<interest, eventfd>>
  \/ /\ ~Idle(x) /\ f # NoFd
     /\ Store(x) /\ used' = u /\ UNCHANGED eventfd
     /\ interest' = [interest EXCEPT ![f] = MakeEvent(x.str)]
  \/ /\ ~Idle(x) /\ f # NoFd /\ u.faults < MaxFaults
     /\ Store(GiveUp(x)) /\ eventfd' = TRUE /\ UNCHANGED interest
     /\ used' = [u EXCEPT !.faults = @ + 1]

-----------------------------------------------------------------------------
(* Calls of the owner.  One made by a thread other than Wait's is followed by Wake. *)
Calls == nudge' = (nudge \/ wpc # "Out")
Start(u) == u.starts < MaxStarts
Started == [used EXCEPT !.starts = @ + 1]

(* a connection of its own, or the socket of a stream that was removed *)
Add(s, f) ==
  /\ Handle(s) = NoFd /\ stream[s].state = "New" /\ entries[f] = NoStream
  /\ stream' = [stream EXCEPT ![s].handle = f, ![s].state = "Added"]
  /\ entries' = [entries EXCEPT ![f] = s]
  /\ sock' = IF sock[f] = Closed THEN [sock EXCEPT ![f] = Fresh] ELSE sock
  /\ interest' = [interest EXCEPT ![f] = MakeEvent(stream[s])]
  /\ Calls
  /\ UNCHANGED <<results, waitVars, stopping, eventfd, ownerVars, used>>

Remove(s) ==
  \E f \in Fd :
    /\ entries[f] = s
    /\ stream' = [stream EXCEPT ![s].Removing = TRUE]
    /\ entries' = [entries EXCEPT ![f] = NoStream]
    /\ interest' = [interest EXCEPT ![f] = {}]
    /\ asked' = [asked EXCEPT ![s] = {}]
    /\ Calls
    /\ UNCHANGED <<results, sock, waitVars, stopping, eventfd, failed, used>>

(* Socket::Close, of every stream that was made for this socket *)
Close(f) ==
  LET gone == {s \in Stream : Handle(s) = f} IN
  /\ sock[f] # Closed
  /\ stream' = [s \in Stream |-> IF s \in gone THEN [stream[s] EXCEPT !.handle = NoFd]
                                               ELSE stream[s]]
  /\ sock' = [sock EXCEPT ![f] = Closed]
  /\ interest' = [interest EXCEPT ![f] = {}]
  /\ asked' = [s \in Stream |-> IF s \in gone THEN {} ELSE asked[s]]
  /\ Calls
  /\ UNCHANGED <<entries, results, waitVars, stopping, eventfd, failed, used>>

(* A call that finds no entry for its socket leaves the operation pending and fails. *)
StartRead(s) ==
  LET str == stream[s]
      x   == TryRead([View(s) EXCEPT !.str.ReadPending = TRUE]) IN
  /\ str.state = "Added" /\ "Read" \notin asked[s] /\ Start(used)
  /\ ~str.Removing /\ ~str.ReadPending /\ ~str.ReadClosed
  /\ UpdateInterest(x, Started)
  /\ asked' = IF x.owner = NoStream THEN asked ELSE [asked EXCEPT ![s] = @ \cup {"Read"}]
  /\ Calls
  /\ UNCHANGED <<entries, waitVars, stopping, failed>>

StartWrite(s) ==
  LET str == stream[s] IN
  /\ str.state = "Added" /\ "Write" \notin asked[s] /\ Start(used)
  /\ ~str.Removing /\ ~str.WritePending
  /\ \E n \in Sizes :
       LET x == TryWrite([View(s) EXCEPT !.str.WritePending = TRUE, !.str.left = n]) IN
       /\ UpdateInterest(x, Started)
       /\ asked' = IF x.owner = NoStream THEN asked ELSE [asked EXCEPT ![s] = @ \cup {"Write"}]
  /\ Calls
  /\ UNCHANGED <<entries, waitVars, stopping, failed>>

ShutdownSend(s) ==
  /\ Handle(s) # NoFd /\ ~sock[Handle(s)].shut
  /\ sock' = [sock EXCEPT ![Handle(s)].shut = TRUE]
  /\ UNCHANGED <<streamVars, interest, waitVars, wakeVars, ownerVars, used>>

Wake ==
  /\ used.wakes < MaxWakes
  /\ used' = [used EXCEPT !.wakes = @ + 1]
  /\ eventfd' = TRUE
  /\ UNCHANGED <<streamVars, kernelVars, waitVars, stopping, nudge, ownerVars>>

(* Stop stores the flag, then signals. *)
Stop ==
  /\ ~stopping /\ stopping' = TRUE /\ nudge' = TRUE
  /\ UNCHANGED <<streamVars, kernelVars, waitVars, eventfd, ownerVars, used>>

SignalStopEvent ==
  /\ nudge /\ eventfd' = TRUE /\ nudge' = FALSE
  /\ UNCHANGED <<streamVars, kernelVars, waitVars, stopping, ownerVars, used>>

-----------------------------------------------------------------------------
(* Wait *)

(* What epoll_wait reports of a descriptor. *)
Events(f) ==
  LET k == sock[f] IN
  {e \in interest[f] :
     \/ e = "IN"  /\ (k.inbox > 0 \/ k.fin \/ k.state # "Up")
     \/ e = "OUT" /\ (k.room > 0 \/ k.shut \/ k.state # "Up")}
  \cup (IF "ARMED" \in interest[f] /\ (k.state # "Up" \/ (k.fin /\ k.shut)) THEN {"HUP"} ELSE {})
  \cup (IF "ARMED" \in interest[f] /\ k.state = "Reset" THEN {"ERR"} ELSE {})

ReadyFds == {f \in Fd : Events(f) # {}}
Ready == ReadyFds # {} \/ eventfd

(* The owner is handed the oldest result.  HangUp stands for a ReadClosed that no read *)
(* asked for; the owner cannot tell it from the answer of a read.                      *)
Deliver ==
  LET r == Head(results) IN
  /\ results # <<>> /\ results' = Tail(results)
  /\ asked' = CASE r.op = "Error" -> [asked EXCEPT ![r.stream] = {}]
                [] r.op \in {"Read", "ReadClosed"} -> [asked EXCEPT ![r.stream] = @ \ {"Read"}]
                [] r.op = "Write" -> [asked EXCEPT ![r.stream] = @ \ {"Write"}]
                [] OTHER -> asked
  /\ failed' = IF r.op = "Error" THEN failed \cup {r.stream} ELSE failed
  /\ wpc' = IF r.op = "Stop" THEN "Stopped" ELSE "Out"

(* Wait and TryPopPendingResult: a result that is there already *)
PopPendingResult ==
  /\ wpc = "Out" /\ Deliver
  /\ UNCHANGED <<stream, entries, kernelVars, batch, wakeVars, used>>

EnterPoll ==
  /\ wpc = "Out" /\ results = <<>> /\ wpc' = "Poll"
  /\ UNCHANGED <<streamVars, kernelVars, batch, wakeVars, ownerVars, used>>

(* epoll_wait disarms what it reports. *)
EpollWait ==
  /\ wpc = "Poll" /\ Ready /\ wpc' = "Events"
  /\ batch' = {[fd |-> f, events |-> Events(f)] : f \in ReadyFds}
              \cup (IF eventfd THEN {[fd |-> EventFd, events |-> {"IN"}]} ELSE {})
  /\ interest' = [f \in Fd |-> IF f \in ReadyFds THEN {} ELSE interest[f]]
  /\ UNCHANGED <<streamVars, sock, wakeVars, ownerVars, used>>

TimeOut ==
  /\ wpc = "Poll" /\ ~Ready /\ wpc' = "Out"
  /\ UNCHANGED <<streamVars, kernelVars, batch, wakeVars, ownerVars, used>>

OnStopEvent(e) ==
  /\ e.fd = EventFd
  /\ eventfd' = FALSE
  /\ results' = Append(results, [stream |-> NoStream, op |-> IF stopping THEN "Stop" ELSE "Wake"])
  /\ UNCHANGED <<stream, entries, kernelVars, used>>

(* An event of a descriptor that has no stream, or one that is being removed *)
OnNobody(e) ==
  /\ e.fd # EventFd
  /\ entries[e.fd] = NoStream \/ (entries[e.fd] # NoStream /\ stream[entries[e.fd]].Removing)
  /\ UNCHANGED <<streamVars, kernelVars, eventfd, used>>

Found(e, s) == e.fd # EventFd /\ entries[e.fd] = s /\ ~stream[s].Removing

(* Mutant of OnError: the stream is marked first. *)
OnErrorMarked(e, s) ==
  LET x == QueueResult([View(s) EXCEPT !.str.Removing = TRUE], s, "Error") IN
  /\ Found(e, s) /\ "ERR" \in e.events
  /\ Store([x EXCEPT !.skt.state = IF @ = "Reset" THEN "Dead" ELSE @])
  /\ UNCHANGED <<entries, interest, eventfd, used>>

(* EPOLLERR: SO_ERROR is taken, the stream refuses calls from now on. *)
OnError(e, s) ==
  LET x == QueueResult(View(s), s, "Error") IN
  /\ Found(e, s) /\ "ERR" \in e.events
  /\ Store([x EXCEPT !.str.Removing = TRUE,
                     !.skt.state = IF @ = "Reset" THEN "Dead" ELSE @])
  /\ UNCHANGED <<entries, interest, eventfd, used>>

OnReady(e, s) ==
  LET hup == "HUP" \in e.events
      x == IF hup \/ "IN" \in e.events THEN TryRead(View(s)) ELSE View(s)
      y == IF hup \/ "OUT" \in e.events THEN TryWrite(x) ELSE x
      z == IF hup /\ ~y.str.ReadPending /\ ~y.str.WritePending
           THEN QueueResult(y, s, "HangUp") ELSE y
  IN /\ Found(e, s) /\ "ERR" \notin e.events
     /\ UpdateInterest(z, used)
     /\ UNCHANGED entries

ProcessEpollEvent ==
  /\ wpc = "Events"
  /\ \E e \in batch :
       /\ batch' = batch \ {e}
       /\ \/ OnStopEvent(e)
          \/ OnNobody(e)
          \/ \E s \in Stream : OnError(e, s) \/ OnReady(e, s)
  /\ UNCHANGED <<wpc, stopping, nudge, ownerVars>>

(* Every event is processed: the first result, or back to epoll_wait *)
WaitEnds ==
  /\ wpc = "Events" /\ batch = {} /\ Deliver
  /\ UNCHANGED <<stream, entries, kernelVars, batch, wakeVars, used>>

WaitAgain ==
  /\ wpc = "Events" /\ batch = {} /\ results = <<>> /\ wpc' = "Poll"
  /\ UNCHANGED <<streamVars, kernelVars, batch, wakeVars, ownerVars, used>>

-----------------------------------------------------------------------------
(* The peers.  A reset throws away what was not read. *)
PeerSends(f) ==
  /\ sock[f].state = "Up" /\ ~sock[f].fin /\ sock[f].sent < MaxSent
  /\ sock' = [sock EXCEPT ![f].inbox = @ + 1, ![f].sent = @ + 1]
  /\ UNCHANGED <<streamVars, interest, waitVars, wakeVars, ownerVars, used>>

PeerReads(f) ==
  /\ sock[f].state = "Up" /\ sock[f].room < Room
  /\ sock' = [sock EXCEPT ![f].room = @ + 1]
  /\ UNCHANGED <<streamVars, interest, waitVars, wakeVars, ownerVars, used>>

PeerShutsDown(f) ==
  /\ sock[f].state = "Up" /\ ~sock[f].fin
  /\ sock' = [sock EXCEPT ![f].fin = TRUE]
  /\ UNCHANGED <<streamVars, interest, waitVars, wakeVars, ownerVars, used>>

PeerResets(f) ==
  /\ sock[f].state = "Up"
  /\ sock' = [sock EXCEPT ![f].state = "Reset", ![f].inbox = 0]
  /\ UNCHANGED <<streamVars, interest, waitVars, wakeVars, ownerVars, used>>

-----------------------------------------------------------------------------
WaitStep == PopPendingResult \/ EnterPoll \/ EpollWait \/ ProcessEpollEvent \/ WaitEnds \/ WaitAgain
Peer(f) == PeerSends(f) \/ PeerReads(f) \/ PeerShutsDown(f) \/ PeerResets(f)

Next ==
  \/ WaitStep \/ TimeOut \/ Wake \/ Stop \/ SignalStopEvent
  \/ \E s \in Stream : Remove(s) \/ StartRead(s) \/ StartWrite(s) \/ ShutdownSend(s)
  \/ \E s \in Stream, f \in Fd : Add(s, f)
  \/ \E f \in Fd : Close(f) \/ Peer(f)

Spec == Init /\ [][Next]_vars

(* The owner calls Wait again and again, and a call from another thread is *)
(* followed by Wake; nothing is asked of the peers and of Wait's timeout.  *)
Fairness == WF_vars(WaitStep) /\ WF_vars(SignalStopEvent)
FairSpec == Spec /\ Fairness

-----------------------------------------------------------------------------
ReadAnswers  == {"Read", "ReadClosed"}
WriteAnswers == {"Write"}
Op == ReadAnswers \cup WriteAnswers \cup {"HangUp", "Error", "Wake", "Stop"}

StreamType == [handle: Fd \cup {NoFd}, state: {"New", "Added"}, ReadPending: BOOLEAN,
               WritePending: BOOLEAN, Removing: BOOLEAN, ReadClosed: BOOLEAN, left: Nat]
SocketType == [state: {"Up", "Reset", "Dead", "Closed"}, inbox: Nat, sent: Nat,
               fin: BOOLEAN, shut: BOOLEAN, room: Nat]
ResultType == [stream: Stream, op: Op \ {"Wake", "Stop"}]
              \cup [stream: {NoStream}, op: {"Wake", "Stop"}]

TypeOK ==
  /\ stream \in [Stream -> StreamType]
  /\ entries \in [Fd -> Stream \cup {NoStream}]
  /\ results \in Seq(ResultType)
  /\ {stopping, eventfd, nudge} \subseteq BOOLEAN
  /\ sock \in [Fd -> SocketType]
  /\ interest \in [Fd -> SUBSET {"ARMED", "IN", "OUT"}]
  /\ wpc \in {"Out", "Poll", "Events", "Stopped"}
  /\ batch \subseteq [fd: Fd \cup {EventFd}, events: SUBSET {"IN", "OUT", "HUP", "ERR"}]
  /\ batch # {} => wpc = "Events"
  /\ asked \in [Stream -> SUBSET {"Read", "Write"}] /\ failed \subseteq Stream

(* A descriptor's entry is that of the stream which holds it, unless the stream is  *)
(* being removed: no operation is done for one stream and reported for another.     *)
Holders ==
  \A s \in Stream :
    /\ stream[s].state = "New" => stream[s] = NewStream /\ asked[s] = {}
    /\ Handle(s) # NoFd /\ ~stream[s].Removing => Owner(s) = s

(* One-shot interest: a stream with an operation pending is armed for it, or Wait    *)
(* holds an event of it and will arm it (ProcessEpollEvent, UpdateInterestLocked).   *)
PendingIsArmed ==
  \A f \in Fd :
    LET s == entries[f] IN
    (s # NoStream /\ Handle(s) = f /\ ~stream[s].Removing /\ \A e \in batch : e.fd # f) =>
      /\ stream[s].ReadPending => "IN" \in interest[f]
      /\ stream[s].WritePending => "OUT" \in interest[f]

(* the places of the results `ops' of s in a queue of results *)
Places(q, s, ops) == {i \in DOMAIN q : q[i].stream = s /\ q[i].op \in ops}
Answers(s, ops) == Places(results, s, ops)

(* What was started on a stream stays pending in it or has its answer among the      *)
(* results: no path through TryReadLocked, TryWriteLocked, an error event or a       *)
(* failure of EPOLL_CTL_MOD forgets it.                                              *)
NothingForgotten ==
  \A s \in Stream :
    /\ "Read" \in asked[s] => \/ stream[s].ReadPending /\ ~stream[s].Removing
                              \/ Answers(s, ReadAnswers \cup {"Error"}) # {}
    /\ "Write" \in asked[s] => \/ stream[s].WritePending /\ ~stream[s].Removing
                               \/ Answers(s, WriteAnswers \cup {"Error"}) # {}

(* What was accepted stays on its way: noted in the stream and armed for, held by    *)
(* Wait, or among the results (the parts above).                                     *)
OperationsOnTheirWay == TypeOK /\ Holders /\ PendingIsArmed /\ NothingForgotten

(* an operation that is asked for, pending or answered, is one of these at a time *)
Once(isAsked, isPending, answers) ==
  /\ isPending \/ answers # {} => isAsked
  /\ isPending => answers = {}
  /\ \A i, j \in answers : i = j

(* A started operation is answered once: what is in the results of a stream that has *)
(* not failed is what its owner waits for, also after the socket was added again.    *)
AnsweredOnce ==
  \A s \in Stream :
    s \notin failed /\ Answers(s, {"Error"}) = {} /\ ~stream[s].Removing /\ Handle(s) # NoFd =>
      /\ Once("Read" \in asked[s], stream[s].ReadPending, Answers(s, ReadAnswers))
      /\ Once("Write" \in asked[s], stream[s].WritePending, Answers(s, WriteAnswers))

(* An operation does not wait for ever for what has happened already: in the end a   *)
(* read that is still unanswered has nothing to read, a write no room, and every     *)
(* result was handed out, unless Wait was told to stop.                              *)
AnsweredInTheEnd ==
  <>[](\/ wpc = "Stopped"
       \/ results = <<>> /\ \A s \in Stream :
            LET k == View(s).skt IN
            /\ "Read" \in asked[s] => k.inbox = 0 /\ ~k.fin /\ k.state = "Up"
            /\ "Write" \in asked[s] => k.room = 0 /\ ~k.shut /\ k.state = "Up")

(* Wait does not spin: when the calls and the peers are through, epoll_wait reports  *)
(* nothing any more, also of a connection that is hung up (UpdateInterestLocked).    *)
WaitComesToRest == <>[](wpc # "Events")

(* Stop ends the loop of the owner: Wait returns Stop, whatever Wake had signalled   *)
(* before or after.                                                                  *)
StopIsReported == stopping ~> (wpc = "Stopped")

(* The thread in Wait has rest when there is nothing to do, and comes out when it is *)
(* told to.                                                                          *)
WaitServes == WaitComesToRest /\ StopIsReported
=============================================================================
