--------------------------- MODULE SocketProofs ---------------------------
(***************************************************************************)
(* Proofs about what serves sockets over epoll: the pair of sockets, for   *)
(* any limits and any calls, events and bounds, and the socket event loop, *)
(* for any number of sockets and descriptors and any masks.                *)
(*                                                                         *)
(* The bytes of each direction of the pair are a row of pieces that the    *)
(* steps only cut and join: on the wire, in the hand of the thread that    *)
(* sends, queued; returned, queued, given back.  IOLock and TxLock make    *)
(* the hand one.                                                           *)
(*                                                                         *)
(* Of the event loop: which entry a descriptor has, and that a socket that *)
(* was removed gets no result any more.                                    *)
(***************************************************************************)
EXTENDS SocketPair, SocketEventLoop, ListLemmas, SequenceTheorems

-----------------------------------------------------------------------------
(* What is invariant of the pair *)


Byte == Nat
Packet == Seq(Byte) \ {<<>>}
SocketState ==
  [attached : BOOLEAN, RxEvent : BOOLEAN, BreakRead : {"None", "Off", "On"},
   Disconnected : {"No", "Fin", "Tired"}, CloseNotify : BOOLEAN, eventfd : BOOLEAN, out : BOOLEAN,
   Rx : Seq(Packet), Tx : Seq(Packet), Packets : Seq(Packet)]
Connection ==
  [open : BOOLEAN, sent : Nat, read : Nat, fin : BOOLEAN, broken : BOOLEAN, room : 0..Room,
   wire : Seq(Byte), shut : BOOLEAN]
ThreadState ==
  [pc : InIO \cup {"Out", "Lock", "Done", "Check", "Select", "Look", "Tell", "Detach", "Closed"},
   s : Socket, call : {"None", "Both", "One", "Socket", "Flush"}, forever : BOOLEAN, rounds : Nat,
   hand : Seq(Byte), ok : BOOLEAN,
   why : {"None", "Error", "Timeout", "Fin", "Tired", "Aborted", "Break"}]

(* Types *)
SkType == sk \in [Socket -> SocketState]
NetType == net \in [Socket -> Connection] /\ \A s \in Socket : net[s].read <= net[s].sent
ThType == th \in [Thread -> ThreadState]
WriterType ==
  /\ writer \in [pc : {"Out", "Send", "Append", "Signal"}, s : Socket, n : Nat]
  /\ writer.pc # "Out" => writer.n # 0
OwnerType ==
  /\ returned \in [Socket -> Seq(Byte)] /\ written \in [Socket -> Nat]
  /\ due \in [Socket -> Nat] /\ \A s \in Socket : due[s] <= written[s]
FlagType == {exitEvent, closeEvent, ClosePending, late} \subseteq BOOLEAN

(* A thread in IO has the IOLock of its socket, the one that sends also the TxLock; the    *)
(* packet it sends is in its hand.                                                         *)
LockInv ==
  \A t, u \in Thread : th[t].pc \in InIO /\ th[u].pc \in InIO /\ th[t].s = th[u].s => t = u
TxInv ==
  /\ writer.pc # "Out" => \A t \in Thread : ~(th[t].pc \in {"Send", "More"} /\ th[t].s = writer.s)
  /\ writer.pc = "Send" => sk[writer.s].Tx = <<>>
HandInv ==
  \A t \in Thread : IF th[t].pc = "Send" THEN th[t].hand \in Packet ELSE th[t].hand = <<>>

(* What is given back is one byte, until it is read again, and RxQueue has its limit. *)
BackInv == \A s \in Socket : sk[s].Packets = <<>> \/ \E b \in Byte : sk[s].Packets = <<<<b>>>>
RxInv == \A s \in Socket : Total(sk[s].Rx) <= RxLimit

(* The peer's end is noted when it has ended. *)
FinInv == \A s \in Socket : sk[s].Disconnected = "Fin" => net[s].fin

(* A read that has found the end has found everything before it. *)
DrainInv ==
  R.pc = "Done" /\ ~R.ok /\ R.why = "Fin" /\ C.pc = "Out" =>
    /\ net[R.s].fin
    /\ ~net[R.s].broken =>
         sk[R.s].Rx = <<>> /\ sk[R.s].Packets = <<>> /\ net[R.s].read = net[R.s].sent

(* How far the closer is. *)
Flushing == {"Look", "Lock", "Done"} \cup InIO
CloserInv ==
  /\ R.pc \in {"Out", "Lock", "Done", "Check", "Select"} \cup InIO
  /\ R.call # "Flush"
  /\ C.pc \in {"Out", "Tell", "Detach", "Closed"} \cup Flushing
  /\ C.pc # "Out" => C.call = "Flush"
  /\ closeEvent <=> C.pc \in {"Detach", "Closed"}
  /\ \A s \in Socket :
       /\ C.pc # "Closed" /\ ~(C.pc = "Detach" /\ C.s = "Server" /\ s = "Client")
            => sk[s].attached /\ net[s].open
       /\ net[s].shut => C.pc # "Out" /\ (C.pc \in Flushing => C.s = "Server" /\ s = "Client")
  /\ C.pc = "Out" => ~late

(* What a graceful close owes is owed by a socket that can still send, *)
DueInv ==
  \A s \in Socket : due[s] # 0 =>
    /\ C.pc # "Out" /\ ~exitEvent
    /\ sk[s].Disconnected = "No" /\ sk[s].BreakRead # "On" /\ ~net[s].fin /\ ~net[s].broken
    /\ C.pc \notin {"Detach", "Closed"} => sk[s].RxEvent

(* and that the closer is still to flush, or is flushing. *)
ToFlush(s) ==
  \/ C.pc \in Flushing /\ C.s = "Client" /\ s = "Server"
  \/ C.pc \in Flushing \ {"Done"} /\ C.s = s
FlushInv == late \/ \A s \in Socket : Len(net[s].wire) >= due[s] \/ ToFlush(s)

(* The inductive invariant. *)
PairInv ==
  /\ SkType /\ NetType /\ ThType /\ WriterType /\ OwnerType /\ FlagType
  /\ LockInv /\ TxInv /\ HandInv /\ BackInv /\ RxInv
  /\ OutputInOrder /\ InputInOrder /\ WaitIsCovered
  /\ FinInv /\ DrainInv /\ CloserInv /\ DueInv /\ FlushInv
-----------------------------------------------------------------------------
(* Rows of bytes *)

LEMMA NatSums == \A x, y, z \in Nat : x + z \in Nat /\ (x <= y => x <= y + z)
OBVIOUS

LEMMA PacketsAreBytes ==
  ASSUME NEW q \in Seq(Packet)
  PROVE  q \in Seq(Seq(Byte)) /\ Bytes(q) \in Seq(Byte) /\ Total(q) \in Nat
<1>1. Packet \subseteq Seq(Byte)
  BY DEF Packet
<1>2. q \in Seq(Seq(Byte))
  BY <1>1, SeqMonotonic
<1>3. Bytes(q) \in Seq(Byte)
  BY <1>2, FlattenTyped DEF Bytes
<1> QED BY <1>2, <1>3, LenProperties DEF Total

LEMMA NoBytes == Bytes(<<>>) = <<>> /\ Total(<<>>) = 0
BY FlattenEmpty, EmptySeq DEF Bytes, Total

(* Taking the first packet, as PopFirst and ReadPacket do. *)
LEMMA FirstPacket ==
  ASSUME NEW q \in Seq(Packet), q # <<>>
  PROVE  /\ Head(q) \in Packet /\ Tail(q) \in Seq(Packet)
         /\ Bytes(q) = Head(q) \o Bytes(Tail(q))
         /\ Total(q) = Len(Head(q)) + Total(Tail(q)) /\ Bytes(q) # <<>>
<1>1. Head(q) \in Packet /\ Tail(q) \in Seq(Packet)
  BY HeadTailProperties
<1>2. Bytes(q) = Head(q) \o Bytes(Tail(q))
  BY PacketsAreBytes, FlattenHead DEF Bytes
<1>3. Head(q) \in Seq(Byte) /\ Head(q) # <<>> /\ Bytes(Tail(q)) \in Seq(Byte)
  BY <1>1, PacketsAreBytes DEF Packet
<1>4. Total(q) = Len(Head(q)) + Total(Tail(q))
  BY <1>2, <1>3, ConcatProperties DEF Total
<1>5. Bytes(q) # <<>>
  BY <1>2, <1>3, ConcatEqualIffEmpty
<1> QED BY <1>1, <1>2, <1>4, <1>5

LEMMA OnePacket ==
  ASSUME NEW p \in Packet
  PROVE  <<p>> \in Seq(Packet) /\ <<p>> # <<>> /\ Bytes(<<p>>) = p
<1>1. <<p>> \in Seq(Packet) /\ <<p>> # <<>> /\ Head(<<p>>) = p /\ Tail(<<p>>) = <<>>
  OBVIOUS
<1>2. Bytes(<<p>>) = p \o Bytes(<<>>)
  BY <1>1, FirstPacket
<1>3. p \o <<>> = p
  BY ConcatEmptySeq DEF Packet
<1> QED BY <1>1, <1>2, <1>3, NoBytes

LEMMA PutFirst ==
  ASSUME NEW q \in Seq(Packet), NEW p \in Packet
  PROVE  PushFront(q, p) \in Seq(Packet) /\ Bytes(PushFront(q, p)) = p \o Bytes(q)
<1>1. <<p>> \in Seq(Packet)
  OBVIOUS
<1>2. PushFront(q, p) \in Seq(Packet)
  BY <1>1, ConcatProperties DEF PushFront
<1>3. p \in Seq(Byte) /\ q \in Seq(Seq(Byte))
  BY PacketsAreBytes DEF Packet
<1> QED BY <1>2, <1>3, FlattenPrepend DEF Bytes, PushFront

(* Queue::Append, whether it joins what comes to the last packet or not. *)
LEMMA PutLast ==
  ASSUME NEW q \in Seq(Packet), NEW p \in Packet
  PROVE  /\ AppendBytes(q, p) \in Seq(Packet) /\ AppendBytes(q, p) # <<>>
         /\ Bytes(AppendBytes(q, p)) = Bytes(q) \o p
         /\ Total(AppendBytes(q, p)) = Total(q) + Len(p)
<1>1. p \in Seq(Byte) /\ p # <<>> /\ q \in Seq(Seq(Byte)) /\ Bytes(q) \in Seq(Byte)
  BY PacketsAreBytes DEF Packet
<1>2. CASE JoinsLast(q, p)
  <2>1. q # <<>> /\ AppendBytes(q, p) = Front(q) \o <<Last(q) \o p>>
    BY <1>2 DEF JoinsLast, AppendBytes
  <2>2. Bytes(AppendBytes(q, p)) = Bytes(q) \o p
    BY <1>1, <2>1, FlattenExtend DEF Bytes
  <2>3. Front(q) \in Seq(Packet) /\ Last(q) \in Packet
    BY <2>1, FrontLast
  <2>4. Last(q) \o p \in Packet
    <3>1. Last(q) \in Seq(Byte)
      BY <2>3 DEF Packet
    <3> QED BY <1>1, <3>1, ConcatProperties, ConcatEqualIffEmpty DEF Packet
  <2>5. <<Last(q) \o p>> \in Seq(Packet) /\ <<Last(q) \o p>> # <<>>
    BY <2>4
  <2>6. AppendBytes(q, p) \in Seq(Packet) /\ AppendBytes(q, p) # <<>>
    BY <2>1, <2>3, <2>5, ConcatProperties, ConcatEqualIffEmpty
  <2> QED BY <1>1, <2>2, <2>6, ConcatProperties DEF Total
<1>3. CASE ~JoinsLast(q, p)
  <2>1. AppendBytes(q, p) = Append(q, p)
    BY <1>3 DEF AppendBytes
  <2>2. AppendBytes(q, p) \in Seq(Packet) /\ AppendBytes(q, p) # <<>>
    BY <2>1, AppendProperties
  <2>3. Bytes(AppendBytes(q, p)) = Bytes(q) \o p
    BY <1>1, <2>1, FlattenAppend DEF Bytes
  <2> QED BY <1>1, <2>2, <2>3, ConcatProperties DEF Total
<1> QED BY <1>2, <1>3

LEMMA JoinKeeps ==
  ASSUME NEW q \in Seq(Packet), NEW n
  PROVE  /\ Join(q, n) \in Seq(Packet) /\ Bytes(Join(q, n)) = Bytes(q)
         /\ Join(q, n) = <<>> <=> q = <<>>
<1>1. CASE Len(q) <= 1 \/ Total(q) > n
  BY <1>1 DEF Join
<1>2. CASE ~(Len(q) <= 1 \/ Total(q) > n)
  <2>1. Join(q, n) = <<Bytes(q)>>
    BY <1>2 DEF Join
  <2>2. q # <<>>
    BY <1>2, EmptySeq
  <2>3. Bytes(q) \in Packet
    BY <2>2, FirstPacket, PacketsAreBytes DEF Packet
  <2> QED BY <2>1, <2>2, <2>3, OnePacket
<1> QED BY <1>1, <1>2

LEMMA Associated ==
  ASSUME NEW a \in Seq(Byte), NEW b \in Seq(Byte), NEW c \in Seq(Byte)
  PROVE  (a \o b) \o c = a \o (b \o c)
BY ConcatAssociative

LEMMA NothingAdded ==
  ASSUME NEW a \in Seq(Byte)
  PROVE  a \o <<>> = a /\ <<>> \o a = a
BY ConcatEmptySeq

LEMMA PutTogether ==
  ASSUME NEW a \in Seq(Byte), NEW b \in Seq(Byte)
  PROVE  a \o b \in Seq(Byte) /\ Len(a \o b) = Len(a) + Len(b)
BY ConcatProperties

(* Bytes are numbered one after the other. *)
LEMMA NumberedBytes ==
  ASSUME NEW w \in Nat, NEW n \in Nat
  PROVE  /\ [i \in 1..n |-> w + i] \in Seq(Byte) /\ Len([i \in 1..n |-> w + i]) = n
         /\ n # 0 => [i \in 1..n |-> w + i] \in Packet
         /\ [i \in 1..w |-> i] \in Seq(Byte) /\ Len([i \in 1..w |-> i]) = w
         /\ [i \in 1..w |-> i] \o [i \in 1..n |-> w + i] = [i \in 1..(w + n) |-> i]
<1> DEFINE a == [i \in 1..w |-> i]
           b == [i \in 1..n |-> w + i]
           c == [i \in 1..(w + n) |-> i]
<1>1. a \in Seq(Byte) /\ Len(a) = w /\ \A i \in 1..w : a[i] = i
  BY DEF Byte
<1>2. b \in Seq(Byte) /\ Len(b) = n /\ \A i \in 1..n : b[i] = w + i
  BY DEF Byte
<1>3. w + n \in Nat /\ c \in Seq(Byte) /\ Len(c) = w + n /\ \A i \in 1..(w + n) : c[i] = i
  BY DEF Byte
<1> HIDE DEF a, b, c
<1>4. /\ a \o b \in Seq(Byte) /\ Len(a \o b) = w + n
      /\ \A i \in 1..(w + n) : (a \o b)[i] = IF i <= w THEN a[i] ELSE b[i - w]
  BY <1>1, <1>2, ConcatProperties
<1>5. \A i \in 1..(w + n) : (a \o b)[i] = c[i]
  <2> SUFFICES ASSUME NEW i \in 1..(w + n) PROVE (a \o b)[i] = i
    BY <1>3
  <2>1. CASE i <= w
    BY <1>1, <1>4, <2>1
  <2>2. CASE ~(i <= w)
    <3>1. i - w \in 1..n /\ w + (i - w) = i
      BY <2>2
    <3> QED BY <1>2, <1>4, <2>2, <3>1
  <2> QED BY <2>1, <2>2
<1>6. a \o b = c
  BY <1>3, <1>4, <1>5, SeqEqual
<1>7. n # 0 => b \in Packet
  BY <1>2, EmptySeq DEF Packet
<1> QED BY <1>1, <1>2, <1>6, <1>7 DEF a, b, c

LEMMA MinOfThree ==
  ASSUME NEW a \in Nat, NEW b \in Nat, NEW c \in Nat
  PROVE  /\ Min({a, b, c}) \in Nat /\ Min({a, b, c}) <= a
         /\ Min({a, b, c}) <= b /\ Min({a, b, c}) <= c /\ Min({a, b, c}) \in {a, b, c}
<1>1. \E x \in {a, b, c} : \A y \in {a, b, c} : x <= y
  <2>1. a <= b \/ b <= a
    OBVIOUS
  <2>2. CASE a <= b /\ a <= c
    BY <2>2
  <2>3. CASE b <= a /\ b <= c
    BY <2>3
  <2>4. CASE c <= a /\ c <= b
    BY <2>4
  <2>5. (a <= b /\ a <= c) \/ (b <= a /\ b <= c) \/ (c <= a /\ c <= b)
    OBVIOUS
  <2> QED BY <2>2, <2>3, <2>4, <2>5
<1> DEFINE m == Min({a, b, c})
<1>2. m \in {a, b, c} /\ \A y \in {a, b, c} : m <= y
  BY <1>1 DEF Min
<1> HIDE DEF m
<1>3. m \in Nat /\ m <= a /\ m <= b /\ m <= c
  BY <1>2
<1> QED BY <1>2, <1>3 DEF m

(* A packet is cut in two. *)
LEMMA CutPacket ==
  ASSUME NEW b \in Seq(Byte), NEW n \in 0..Len(b)
  PROVE  /\ SubSeq(b, 1, n) \in Seq(Byte) /\ Len(SubSeq(b, 1, n)) = n
         /\ SubSeq(b, n + 1, Len(b)) \in Seq(Byte)
         /\ SubSeq(b, 1, n) \o SubSeq(b, n + 1, Len(b)) = b
         /\ n = 0 => SubSeq(b, n + 1, Len(b)) = b
<1>1. Len(b) \in Nat /\ n \in Nat /\ n <= Len(b) /\ \A i \in 1..Len(b) : b[i] \in Byte
  BY LenProperties, ElementOfSeq
<1>2. SubSeq(b, 1, n) \in Seq(Byte) /\ Len(SubSeq(b, 1, n)) = n
  <2>1. /\ SubSeq(b, 1, n) \in Seq(Byte)
        /\ Len(SubSeq(b, 1, n)) = IF 1 <= n THEN n - 1 + 1 ELSE 0
    BY <1>1, SubSeqProperties
  <2> QED BY <1>1, <2>1
<1>3. SubSeq(b, n + 1, Len(b)) \in Seq(Byte)
  BY <1>1, SubSeqProperties
<1>4. SubSeq(b, 1, n) \o SubSeq(b, n + 1, Len(b)) = SubSeq(b, 1, Len(b))
  <2>1. 1 \in 1..(Len(b) + 1) /\ n \in (1 - 1)..Len(b) /\ Len(b) \in n..Len(b)
    BY <1>1
  <2> QED BY <2>1, ConcatAdjacentSubSeq
<1>5. SubSeq(b, 1, Len(b)) = b
  BY SubSeqFull
<1>6. ASSUME n = 0 PROVE SubSeq(b, n + 1, Len(b)) = b
  <2>1. n + 1 = 1
    BY <1>6
  <2> QED BY <1>5, <2>1
<1> QED BY <1>2, <1>3, <1>4, <1>5, <1>6

-----------------------------------------------------------------------------
(* The hand *)

HandIn(f, s) == IF \E t \in Thread : f[t].pc = "Send" /\ f[t].s = s
                THEN f[CHOOSE t \in Thread : f[t].pc = "Send" /\ f[t].s = s].hand ELSE <<>>

LEMMA HandOf ==
  ASSUME NEW f, NEW s,
         \A t, u \in Thread : f[t].pc = "Send" /\ f[u].pc = "Send" /\ f[t].s = s /\ f[u].s = s => t = u
  PROVE  /\ \A t \in Thread : f[t].pc = "Send" /\ f[t].s = s => HandIn(f, s) = f[t].hand
         /\ (\A t \in Thread : ~(f[t].pc = "Send" /\ f[t].s = s)) => HandIn(f, s) = <<>>
<1> DEFINE Sends(t) == f[t].pc = "Send" /\ f[t].s = s
           It == CHOOSE t \in Thread : Sends(t)
<1>1. ASSUME NEW t \in Thread, Sends(t) PROVE HandIn(f, s) = f[t].hand
  <2>1. \E u \in Thread : Sends(u)
    BY <1>1
  <2>2. It \in Thread /\ Sends(It)
    BY <2>1, Zenon
  <2>3. HandIn(f, s) = f[It].hand
    BY <2>1 DEF HandIn
  <2> HIDE DEF It
  <2>4. It = t
    BY <1>1, <2>2
  <2> QED BY <2>3, <2>4
<1>2. ASSUME \A t \in Thread : ~Sends(t) PROVE HandIn(f, s) = <<>>
  BY <1>2 DEF HandIn
<1> QED BY <1>1, <1>2

LEMMA HandNow ==
  ASSUME ThType, LockInv, HandInv, NEW s \in Socket
  PROVE  /\ Hand(s) \in Seq(Byte)
         /\ \A t \in Thread : th[t].pc = "Send" /\ th[t].s = s => Hand(s) = th[t].hand
         /\ (\A t \in Thread : ~(th[t].pc = "Send" /\ th[t].s = s)) => Hand(s) = <<>>
<1>1. \A t, u \in Thread : th[t].pc = "Send" /\ th[u].pc = "Send" /\ th[t].s = s /\ th[u].s = s => t = u
  BY DEF LockInv, InIO
<1>2. Hand(s) = HandIn(th, s)
  BY DEF Hand, HandIn
<1>3. /\ \A t \in Thread : th[t].pc = "Send" /\ th[t].s = s => Hand(s) = th[t].hand
      /\ (\A t \in Thread : ~(th[t].pc = "Send" /\ th[t].s = s)) => Hand(s) = <<>>
  BY <1>1, <1>2, HandOf
<1>4. \A t \in Thread : th[t].hand \in Seq(Byte)
  BY DEF ThType, ThreadState
<1> QED BY <1>3, <1>4, EmptySeq

LEMMA HandThen ==
  ASSUME LockInv', NEW s \in Socket
  PROVE  /\ \A t \in Thread : th'[t].pc = "Send" /\ th'[t].s = s => Hand(s)' = th'[t].hand
         /\ (\A t \in Thread : ~(th'[t].pc = "Send" /\ th'[t].s = s)) => Hand(s)' = <<>>
<1>1. \A t, u \in Thread :
        th'[t].pc = "Send" /\ th'[u].pc = "Send" /\ th'[t].s = s /\ th'[u].s = s => t = u
  BY DEF LockInv, InIO
<1>2. Hand(s)' = HandIn(th', s)
  BY DEF Hand, HandIn
<1> QED BY <1>1, <1>2, HandOf

(* A step that sends nothing leaves the hands as they are. *)
LEMMA HandKept ==
  ASSUME ThType, LockInv, HandInv, LockInv',
         \A t \in Thread : /\ th'[t].pc = "Send" <=> th[t].pc = "Send"
                           /\ th[t].pc = "Send" => th'[t].s = th[t].s /\ th'[t].hand = th[t].hand
  PROVE  \A s \in Socket : Hand(s)' = Hand(s)
<1> SUFFICES ASSUME NEW s \in Socket PROVE Hand(s)' = Hand(s)
  OBVIOUS
<1>1. CASE \E t \in Thread : th[t].pc = "Send" /\ th[t].s = s
  BY <1>1, HandNow, HandThen
<1>2. CASE ~\E t \in Thread : th[t].pc = "Send" /\ th[t].s = s
  BY <1>2, HandNow, HandThen
<1> QED BY <1>1, <1>2

-----------------------------------------------------------------------------
(* Threads *)

Others(t) == \A u \in Thread \ {t} : th'[u] = th[u]
Places == InIO \cup {"Out", "Lock", "Done", "Check", "Select", "Look", "Tell", "Detach", "Closed"}
Reasons == {"None", "Error", "Timeout", "Fin", "Tired", "Aborted", "Break"}

LEMMA GoesFacts ==
  ASSUME ThType, NEW t \in Thread, NEW pc \in Places, Goes(t, pc)
  PROVE  /\ ThType' /\ Others(t)
         /\ th'[t].pc = pc /\ th'[t].s = th[t].s /\ th'[t].call = th[t].call /\ th'[t].hand = th[t].hand
<1>1. th' = [th EXCEPT ![t] = [th[t] EXCEPT !.pc = pc]] /\ th[t] \in ThreadState
  BY DEF Goes, ThType
<1>2. [th[t] EXCEPT !.pc = pc] \in ThreadState
  BY <1>1 DEF ThreadState, Places
<1>3. ThType' /\ Others(t) /\ th'[t] = [th[t] EXCEPT !.pc = pc]
  BY <1>1, <1>2 DEF ThType, Others
<1> QED BY <1>1, <1>3 DEF ThreadState

LEMMA EndsFacts ==
  ASSUME ThType, NEW t \in Thread, NEW ok \in BOOLEAN, NEW why \in Reasons, Ends(t, ok, why)
  PROVE  /\ ThType' /\ Others(t)
         /\ th'[t].pc = "Done" /\ th'[t].s = th[t].s /\ th'[t].call = th[t].call
         /\ th'[t].hand = <<>> /\ th'[t].ok = ok /\ th'[t].why = why
<1> DEFINE e == [th[t] EXCEPT !.pc = "Done", !.ok = ok, !.why = why, !.hand = <<>>]
<1>1. th' = [th EXCEPT ![t] = e] /\ th[t] \in ThreadState
  BY DEF Ends, ThType
<1>2. <<>> \in Seq(Byte)
  OBVIOUS
<1>3. e \in ThreadState
  BY <1>1, <1>2 DEF ThreadState, Reasons
<1>4. /\ e.pc = "Done" /\ e.s = th[t].s /\ e.call = th[t].call
      /\ e.hand = <<>> /\ e.ok = ok /\ e.why = why
  BY <1>1 DEF ThreadState
<1> HIDE DEF e
<1>5. ThType' /\ Others(t) /\ th'[t] = e
  BY <1>1, <1>3 DEF ThType, Others
<1> QED BY <1>4, <1>5

(* A thread goes on in IO, and no bytes move. *)
Moves(t) ==
  LET s == th[t].s IN
  /\ th[t].pc \in (InIO \cup {"Lock"}) \ {"Send"}
  /\ ThType' /\ Others(t)
  /\ th'[t].pc \in (InIO \cup {"Done"}) \ {"Send", "More"}
  /\ th'[t].s = s /\ th'[t].call = th[t].call /\ th'[t].hand = <<>>
  /\ UNCHANGED <<net, writer, pairVars, ownerVars>>
  /\ SkType' /\ \A r \in Socket \ {s} : sk'[r] = sk[r]
  /\ sk'[s].attached = sk[s].attached /\ sk'[s].RxEvent = sk[s].RxEvent
  /\ sk'[s].Rx = sk[s].Rx /\ sk'[s].Tx = sk[s].Tx /\ sk'[s].Packets = sk[s].Packets
  /\ sk'[s].BreakRead = "On" => sk[s].BreakRead = "On"
  /\ sk'[s].Disconnected = sk[s].Disconnected \/ (sk'[s].Disconnected = "Fin" /\ net[s].fin)
  /\ th[t].pc = "Lock" => UNCHANGED sk
  /\ th[t].pc = "Lock" /\ th'[t].pc \in InIO => IOLockIsFree(s)
  /\ th'[t].pc = "Epoll" =>
       /\ ~exitEvent /\ ~closeEvent /\ sk'[s].BreakRead # "On"
       /\ sk'[s].Tx # <<>> => sk'[s].out
  /\ th'[t].pc = "Done" /\ t = "closer" => late \/ Len(net[s].wire) >= due[s]
  /\ th'[t].pc = "Done" /\ t = "reader" /\ ~th'[t].ok /\ th'[t].why = "Fin" /\ C.pc = "Out" =>
       /\ net[s].fin
       /\ ~net[s].broken => sk[s].Rx = <<>> /\ sk[s].Packets = <<>> /\ net[s].read = net[s].sent

LEMMA MovesKeeps ==
  ASSUME PairInv, NEW t \in Thread, Moves(t)
  PROVE  PairInv'
<1> DEFINE s == th[t].s
<1>1. /\ th[t].pc \in (InIO \cup {"Lock"}) \ {"Send"} /\ th'[t].pc \in (InIO \cup {"Done"}) \ {"Send", "More"}
      /\ th[t].s = s /\ th'[t].s = s /\ th'[t].call = th[t].call /\ th'[t].hand = <<>>
      /\ \A u \in Thread \ {t} : th'[u] = th[u]
  BY DEF Moves, Others
<1>2. /\ net' = net /\ writer' = writer /\ exitEvent' = exitEvent /\ closeEvent' = closeEvent
      /\ ClosePending' = ClosePending /\ late' = late
      /\ returned' = returned /\ written' = written /\ due' = due
  BY DEF Moves, pairVars, ownerVars
<1>3. /\ s \in Socket /\ \A r \in Socket \ {s} : sk'[r] = sk[r]
      /\ sk'[s].attached = sk[s].attached /\ sk'[s].RxEvent = sk[s].RxEvent
      /\ sk'[s].Rx = sk[s].Rx /\ sk'[s].Tx = sk[s].Tx /\ sk'[s].Packets = sk[s].Packets
      /\ sk'[s].BreakRead = "On" => sk[s].BreakRead = "On"
      /\ sk'[s].Disconnected = sk[s].Disconnected \/ (sk'[s].Disconnected = "Fin" /\ net[s].fin)
  BY DEF Moves, PairInv, ThType, ThreadState
<1>4. \A r \in Socket :
        /\ sk'[r].attached = sk[r].attached /\ sk'[r].RxEvent = sk[r].RxEvent
        /\ sk'[r].Rx = sk[r].Rx /\ sk'[r].Tx = sk[r].Tx /\ sk'[r].Packets = sk[r].Packets
        /\ sk'[r].BreakRead = "On" => sk[r].BreakRead = "On"
        /\ sk'[r].Disconnected = sk[r].Disconnected \/ (sk'[r].Disconnected = "Fin" /\ net[r].fin)
  BY <1>3
<1>5. ThType' /\ SkType'
  BY DEF Moves
<1>6. NetType' /\ WriterType' /\ OwnerType' /\ FlagType'
  BY <1>2 DEF PairInv, NetType, WriterType, OwnerType, FlagType
<1> DEFINE Free == \A u \in Thread : ~(th[u].pc \in InIO /\ th[u].s = s)
<1>7. th[t].pc = "Lock" /\ th'[t].pc \in InIO => Free
  BY DEF Moves, IOLockIsFree
<1> HIDE DEF s
<1>8. LockInv'
  <2>1. "Done" \notin InIO
    BY DEF InIO
  <2> QED BY <1>1, <1>7, <2>1 DEF PairInv, LockInv
<1>9. TxInv'
  BY <1>1, <1>2, <1>3, <1>4 DEF PairInv, TxInv, WriterType
<1>10. HandInv'
  BY <1>1 DEF PairInv, HandInv
<1>11. \A r \in Socket : Hand(r)' = Hand(r)
  BY <1>1, <1>8, HandKept DEF PairInv
<1>12. OutputInOrder'
  BY <1>2, <1>4, <1>11 DEF PairInv, OutputInOrder
<1>13. InputInOrder' /\ BackInv' /\ RxInv'
  <2>1. InputInOrder'
    BY <1>2, <1>4 DEF PairInv, InputInOrder
  <2>2. BackInv'
    BY <1>4 DEF PairInv, BackInv
  <2>3. RxInv'
    BY <1>4 DEF PairInv, RxInv
  <2> QED BY <2>1, <2>2, <2>3
<1>14. WaitIsCovered'
  <2>1. th'[t].pc = "Epoll" =>
          /\ ~exitEvent /\ ~closeEvent /\ sk'[s].BreakRead # "On"
          /\ sk'[s].Tx # <<>> => sk'[s].out
    BY DEF Moves, s
  <2>2. ASSUME NEW u \in Thread, u # t, th'[u].pc = "Epoll", ~sk'[th'[u].s].eventfd
        PROVE  /\ ~exitEvent' /\ ~closeEvent' /\ sk'[th'[u].s].BreakRead # "On"
               /\ sk'[th'[u].s].Tx # <<>> => sk'[th'[u].s].out \/ (writer'.pc = "Signal" /\ writer'.s = th'[u].s)
    <3>1. th'[u] = th[u] /\ th[u].s \in Socket
      BY <1>1, <2>2 DEF PairInv, ThType, ThreadState
    <3>2. CASE th[u].s # s
      <4>1. sk'[th[u].s] = sk[th[u].s]
        BY <1>3, <3>1, <3>2
      <4> QED BY <1>2, <2>2, <3>1, <4>1 DEF PairInv, WaitIsCovered, EventIsSet, IsAborted
    <3>3. CASE th[u].s = s
      <4>1. th[t].pc = "Lock" /\ th'[t].pc = "Done"
        BY <1>1, <1>7, <2>2, <3>1, <3>3 DEF PairInv, LockInv, InIO, s
      <4>2. sk' = sk
        BY <4>1 DEF Moves
      <4> QED BY <1>2, <2>2, <3>1, <4>2 DEF PairInv, WaitIsCovered, EventIsSet, IsAborted
    <3> QED BY <3>2, <3>3
  <2> QED BY <1>1, <1>2, <2>1, <2>2 DEF WaitIsCovered, EventIsSet, IsAborted
<1>15. FinInv'
  BY <1>2, <1>4 DEF PairInv, FinInv
<1>16. DrainInv'
  <2>1. CASE t = "reader"
    <3>1. th'["closer"] = th["closer"] /\ "reader" \in Thread
      BY <1>1, <2>1 DEF Thread
    <3>2. th'["reader"].pc = "Done" /\ ~th'["reader"].ok /\ th'["reader"].why = "Fin" /\ C.pc = "Out" =>
            /\ net[s].fin
            /\ ~net[s].broken => sk[s].Rx = <<>> /\ sk[s].Packets = <<>> /\ net[s].read = net[s].sent
      BY <2>1 DEF Moves, s
    <3> QED BY <1>1, <1>2, <1>3, <2>1, <3>1, <3>2 DEF DrainInv, R, C
  <2>2. CASE t = "closer"
    BY <1>1, <2>2 DEF DrainInv, C, InIO
  <2> QED BY <2>1, <2>2 DEF Thread
<1>17. /\ th'["closer"].s = th["closer"].s /\ th'["closer"].call = th["closer"].call
       /\ \/ th'["closer"].pc = th["closer"].pc
          \/ /\ t = "closer" /\ th["closer"].pc \in Flushing \ {"Done", "Look"}
             /\ th'["closer"].pc \in Flushing \ {"Look"}
  <2>1. CASE t = "reader"
    BY <1>1, <2>1 DEF Thread
  <2>2. CASE t = "closer"
    BY <1>1, <2>2 DEF Flushing, InIO
  <2> QED BY <2>1, <2>2 DEF Thread
<1>18. th'["reader"].pc \in {"Out", "Lock", "Done", "Check", "Select"} \cup InIO /\ th'["reader"].call # "Flush"
  <2>1. CASE t = "reader"
    BY <1>1, <2>1 DEF PairInv, CloserInv, R
  <2>2. CASE t = "closer"
    BY <1>1, <2>2 DEF PairInv, CloserInv, R, Thread
  <2> QED BY <2>1, <2>2 DEF Thread
<1>19. CloserInv'
  <2>1. "Out" \notin Flushing /\ "Tell" \notin Flushing /\ "Detach" \notin Flushing /\ "Closed" \notin Flushing
    BY DEF Flushing, InIO
  <2> QED BY <1>2, <1>4, <1>17, <1>18, <2>1 DEF PairInv, CloserInv, R, C
<1>20. DueInv'
  <2>1. "Out" \notin Flushing /\ "Detach" \notin Flushing /\ "Closed" \notin Flushing
    BY DEF Flushing, InIO
  <2> QED BY <1>2, <1>4, <1>17, <2>1 DEF PairInv, DueInv, C
<1>21. FlushInv'
  <2>1. th'["closer"].pc = "Done" /\ t = "closer" => late \/ Len(net[s].wire) >= due[s]
    BY DEF Moves, s
  <2>2. t = "closer" => s = th["closer"].s
    BY <1>1
  <2> QED BY <1>2, <1>17, <2>1, <2>2 DEF PairInv, FlushInv, ToFlush, C
<1> QED BY <1>5, <1>6, <1>8, <1>9, <1>10, <1>12, <1>13, <1>14, <1>15, <1>16, <1>19, <1>20, <1>21 DEF PairInv

-----------------------------------------------------------------------------
(* IO without bytes *)

(* A socket that cannot send any more, or that nobody closes, is owed nothing. *)
LEMMA NothingDue ==
  ASSUME PairInv, NEW s \in Socket,
         \/ C.pc = "Out" \/ exitEvent \/ sk[s].Disconnected # "No" \/ sk[s].BreakRead = "On"
         \/ net[s].fin \/ net[s].broken \/ (~sk[s].RxEvent /\ C.pc \notin {"Detach", "Closed"})
  PROVE  due[s] = 0 /\ Len(net[s].wire) >= due[s]
<1>1. due[s] = 0
  BY DEF PairInv, DueInv
<1>2. Len(net[s].wire) \in Nat
  BY LenProperties DEF PairInv, NetType, Connection
<1> QED BY <1>1, <1>2

(* What has left the queue and the hands is on the wire. *)
LEMMA AllIsSent ==
  ASSUME PairInv, NEW s \in Socket, sk[s].Tx = <<>>,
         \A u \in Thread : ~(th[u].pc = "Send" /\ th[u].s = s)
  PROVE  Len(net[s].wire) >= due[s]
<1>1. Hand(s) = <<>> /\ Bytes(sk[s].Tx) = <<>>
  BY HandNow, NoBytes DEF PairInv
<1>2. net[s].wire \in Seq(Byte) /\ written[s] \in Nat /\ due[s] \in Nat /\ due[s] <= written[s]
  BY DEF PairInv, NetType, Connection, OwnerType
<1>3. (net[s].wire \o Hand(s)) \o Bytes(sk[s].Tx) = [i \in 1..written[s] |-> i]
  BY DEF PairInv, OutputInOrder
<1>4. net[s].wire = [i \in 1..written[s] |-> i]
  BY <1>1, <1>2, <1>3, ConcatEmptySeq
<1>5. Len(net[s].wire) = written[s]
  BY <1>2, <1>4, NumberedBytes
<1> QED BY <1>2, <1>5

(* A thread that goes on, or ends the call, and changes nothing else. *)
LEMMA EmptyHand ==
  ASSUME PairInv, NEW t \in Thread, th[t].pc # "Send"
  PROVE  th[t].hand = <<>>
BY DEF PairInv, HandInv

LEMMA SocketOf ==
  ASSUME PairInv, NEW t \in Thread
  PROVE  th[t].s \in Socket /\ sk[th[t].s] \in SocketState /\ net[th[t].s] \in Connection
BY DEF PairInv, ThType, ThreadState, SkType, NetType

LEMMA IoLockKeeps ==
  ASSUME PairInv, NEW t \in Thread, IoLock(t)
  PROVE  PairInv'
<1> DEFINE s == th[t].s
<1>1. th[t].pc = "Lock" /\ th[t].hand = <<>> /\ s \in Socket /\ ThType /\ SkType
  BY EmptyHand, SocketOf DEF IoLock, PairInv
<1>2. UNCHANGED <<sk, net, writer, pairVars, ownerVars>>
  BY DEF IoLock
<1>3. SkType'
  BY <1>1, <1>2 DEF SkType
<1>4. CASE IOLockIsFree(s) /\ Goes(t, "Write")
  <2>1. "Write" \in Places /\ "Write" \in (InIO \cup {"Done"}) \ {"Send", "More"}
    BY DEF Places, InIO
  <2>2. /\ ThType' /\ Others(t) /\ th'[t].pc = "Write" /\ th'[t].s = s /\ th'[t].call = th[t].call
        /\ th'[t].hand = <<>>
    BY <1>1, <1>4, <2>1, GoesFacts
  <2>3. Moves(t)
    BY <1>1, <1>2, <1>3, <1>4, <2>1, <2>2 DEF Moves
  <2> QED BY <2>3, MovesKeeps
<1>5. CASE \/ ~sk[s].RxEvent /\ Ends(t, FALSE, "Error")
           \/ LockTimesOut(t) /\ Ends(t, FALSE, "Timeout")
  <2>1. PICK why \in Reasons : Ends(t, FALSE, why) /\ why # "Fin"
    BY <1>5 DEF Reasons
  <2>2. /\ ThType' /\ Others(t) /\ th'[t].pc = "Done" /\ th'[t].s = s /\ th'[t].call = th[t].call
        /\ th'[t].hand = <<>> /\ th'[t].why # "Fin"
    BY <1>1, <2>1, EndsFacts
  <2>3. t = "closer" => late \/ Len(net[s].wire) >= due[s]
    BY <1>1, <1>5, NothingDue DEF LockTimesOut, C
  <2>4. "Done" \notin InIO
    BY DEF InIO
  <2>5. Moves(t)
    BY <1>1, <1>2, <1>3, <2>2, <2>3, <2>4 DEF Moves
  <2> QED BY <2>5, MovesKeeps
<1> QED BY <1>4, <1>5 DEF IoLock

LEMMA IoSkipsWriteKeeps ==
  ASSUME PairInv, NEW t \in Thread, IoSkipsWrite(t)
  PROVE  PairInv'
<1> DEFINE s == th[t].s
<1>1. th[t].pc = "Write" /\ th[t].hand = <<>> /\ s \in Socket /\ ThType /\ SkType
  BY EmptyHand, SocketOf DEF IoSkipsWrite, PairInv
<1>2. UNCHANGED <<sk, net, writer, pairVars, ownerVars>>
  BY DEF IoSkipsWrite
<1>3. SkType' /\ "Write" \in InIO
  BY <1>1, <1>2 DEF SkType, InIO
<1>4. CASE Goes(t, "Read")
  <2>1. "Read" \in Places /\ "Read" \in (InIO \cup {"Done"}) \ {"Send", "More"}
    BY DEF Places, InIO
  <2>2. /\ ThType' /\ Others(t) /\ th'[t].pc = "Read" /\ th'[t].s = s /\ th'[t].call = th[t].call
        /\ th'[t].hand = <<>>
    BY <1>1, <1>4, <2>1, GoesFacts
  <2>3. Moves(t)
    BY <1>1, <1>2, <1>3, <2>1, <2>2 DEF Moves
  <2> QED BY <2>3, MovesKeeps
<1>5. CASE LockTimesOut(t) /\ Ends(t, FALSE, "Timeout")
  <2>1. "Timeout" \in Reasons
    BY DEF Reasons
  <2>2. /\ ThType' /\ Others(t) /\ th'[t].pc = "Done" /\ th'[t].s = s /\ th'[t].call = th[t].call
        /\ th'[t].hand = <<>> /\ th'[t].why = "Timeout"
    BY <1>1, <1>5, <2>1, EndsFacts
  <2>3. Moves(t)
    BY <1>1, <1>2, <1>3, <1>5, <2>2 DEF Moves, LockTimesOut
  <2> QED BY <2>3, MovesKeeps
<1> QED BY <1>4, <1>5 DEF IoSkipsWrite

(* The loop over the packets ends. *)
LEMMA StopsWriting ==
  ASSUME PairInv, NEW t \in Thread, IoPop(t), Goes(t, "Read"), UNCHANGED sk
  PROVE  PairInv'
<1> DEFINE s == th[t].s
<1>1. th[t].pc \in {"Write", "More"} /\ th[t].hand = <<>> /\ s \in Socket /\ ThType /\ SkType
  BY EmptyHand, SocketOf DEF IoPop, PairInv
<1>2. UNCHANGED <<sk, net, writer, pairVars, ownerVars>>
  BY DEF IoPop
<1>3. SkType' /\ {"Write", "More", "Read"} \subseteq InIO /\ "Read" \in Places
  BY <1>1, <1>2 DEF SkType, InIO, Places
<1>4. /\ ThType' /\ Others(t) /\ th'[t].pc = "Read" /\ th'[t].s = s /\ th'[t].call = th[t].call
      /\ th'[t].hand = <<>>
  BY <1>1, <1>3, GoesFacts
<1>5. Moves(t)
  BY <1>1, <1>2, <1>3, <1>4 DEF Moves
<1> QED BY <1>5, MovesKeeps

LEMMA IoTimeoutKeeps ==
  ASSUME PairInv, NEW t \in Thread, IoTimeout(t)
  PROVE  PairInv'
<1> DEFINE s == th[t].s
<1>1. th[t].pc = "Epoll" /\ th[t].hand = <<>> /\ s \in Socket /\ ThType /\ SkType
  BY EmptyHand, SocketOf DEF IoTimeout, PairInv
<1>2. UNCHANGED <<sk, net, writer, pairVars, ownerVars>> /\ Ends(t, TRUE, "Timeout")
  BY DEF IoTimeout
<1>3. SkType' /\ "Epoll" \in InIO /\ "Timeout" \in Reasons
  BY <1>1, <1>2 DEF SkType, InIO, Reasons
<1>4. /\ ThType' /\ Others(t) /\ th'[t].pc = "Done" /\ th'[t].s = s /\ th'[t].call = th[t].call
      /\ th'[t].hand = <<>> /\ th'[t].why = "Timeout"
  BY <1>1, <1>2, <1>3, EndsFacts
<1>5. t = "closer" => late
  BY <1>1 DEF PairInv, CloserInv, C, IoTimeout, TooLate
<1>6. Moves(t)
  BY <1>1, <1>2, <1>3, <1>4, <1>5 DEF Moves
<1> QED BY <1>6, MovesKeeps

(* The call ends with the event that was set. *)
LEMMA AnswersKeeps ==
  ASSUME PairInv, NEW t \in Thread, th[t].pc \in {"Wait", "Epoll"}, EventIsSet(th[t].s),
         NEW k \in {sk[th[t].s], [sk[th[t].s] EXCEPT !.eventfd = FALSE]}, Answers(t, th[t].s, k),
         UNCHANGED <<net, writer, pairVars, ownerVars>>
  PROVE  PairInv'
<1> DEFINE s == th[t].s
           kept(j) == /\ j \in SocketState
                      /\ j.attached = sk[s].attached /\ j.RxEvent = sk[s].RxEvent
                      /\ j.Rx = sk[s].Rx /\ j.Tx = sk[s].Tx /\ j.Packets = sk[s].Packets
                      /\ j.BreakRead = "On" => sk[s].BreakRead = "On"
                      /\ j.Disconnected = sk[s].Disconnected
<1>1. th[t].hand = <<>> /\ s \in Socket /\ sk[s] \in SocketState /\ ThType /\ SkType
  BY EmptyHand, SocketOf DEF PairInv
<1>2. {"Wait", "Epoll"} \subseteq InIO /\ {"Aborted", "Break"} \subseteq Reasons
  BY DEF InIO, Reasons
<1>3. kept(k) /\ kept([k EXCEPT !.BreakRead = "Off"])
  BY <1>1 DEF SocketState
<1>4. PICK j : kept(j) /\ sk' = [sk EXCEPT ![s] = j]
  <2> HIDE DEF kept
  <2> QED BY <1>3 DEF Answers
<1>5. SkType' /\ sk'[s] = j /\ \A r \in Socket \ {s} : sk'[r] = sk[r]
  BY <1>1, <1>4 DEF SkType
<1>6. PICK ok \in BOOLEAN, why \in Reasons : Ends(t, ok, why) /\ why # "Fin"
  BY <1>2 DEF Answers
<1>7. /\ ThType' /\ Others(t) /\ th'[t].pc = "Done" /\ th'[t].s = s /\ th'[t].call = th[t].call
      /\ th'[t].hand = <<>> /\ th'[t].why # "Fin"
  BY <1>1, <1>6, EndsFacts
<1>8. t = "closer" => Len(net[s].wire) >= due[s]
  <2> SUFFICES ASSUME t = "closer" PROVE exitEvent \/ sk[s].BreakRead = "On"
    BY <1>1, NothingDue
  <2>1. ~closeEvent
    BY DEF PairInv, CloserInv, C
  <2> QED BY <2>1 DEF EventIsSet, IsAborted
<1>9. /\ sk'[s].attached = sk[s].attached /\ sk'[s].RxEvent = sk[s].RxEvent
      /\ sk'[s].Rx = sk[s].Rx /\ sk'[s].Tx = sk[s].Tx /\ sk'[s].Packets = sk[s].Packets
      /\ sk'[s].BreakRead = "On" => sk[s].BreakRead = "On"
      /\ sk'[s].Disconnected = sk[s].Disconnected
  BY <1>4, <1>5
<1>10. Moves(t)
  BY <1>1, <1>2, <1>5, <1>7, <1>8, <1>9 DEF Moves
<1> QED BY <1>10, MovesKeeps

LEMMA IoWaitKeeps ==
  ASSUME PairInv, NEW t \in Thread, IoWait(t)
  PROVE  PairInv'
<1> DEFINE s == th[t].s
<1>1. /\ th[t].pc = "Wait" /\ th[t].hand = <<>> /\ s \in Socket /\ sk[s] \in SocketState
      /\ ThType /\ SkType
  BY EmptyHand, SocketOf DEF IoWait, PairInv
<1>2. UNCHANGED <<net, writer, pairVars, ownerVars>>
  BY DEF IoWait
<1>3. CASE EventIsSet(s) /\ Answers(t, s, sk[s])
  BY <1>1, <1>2, <1>3, AnswersKeeps
<1>4. CASE ~EventIsSet(s) /\ sk' = [sk EXCEPT ![s].out = WatchesOut(s)] /\ Goes(t, "Epoll")
  <2>1. "Epoll" \in Places /\ {"Wait", "Epoll"} \subseteq InIO
    BY DEF Places, InIO
  <2>2. /\ ThType' /\ Others(t) /\ th'[t].pc = "Epoll" /\ th'[t].s = s /\ th'[t].call = th[t].call
        /\ th'[t].hand = <<>>
    BY <1>1, <1>4, <2>1, GoesFacts
  <2> DEFINE j == [sk[s] EXCEPT !.out = WatchesOut(s)]
  <2>3. /\ j \in SocketState /\ j.out = (sk[s].Tx # <<>>)
        /\ j.attached = sk[s].attached /\ j.RxEvent = sk[s].RxEvent
        /\ j.Rx = sk[s].Rx /\ j.Tx = sk[s].Tx /\ j.Packets = sk[s].Packets
        /\ j.BreakRead = sk[s].BreakRead /\ j.Disconnected = sk[s].Disconnected
    BY <1>1 DEF SocketState, WatchesOut
  <2>4. sk' = [sk EXCEPT ![s] = j]
    BY <1>4
  <2> HIDE DEF j
  <2>5. SkType' /\ sk'[s] = j /\ \A r \in Socket \ {s} : sk'[r] = sk[r]
    BY <1>1, <2>3, <2>4 DEF SkType
  <2>6. ~exitEvent /\ ~closeEvent /\ sk[s].BreakRead # "On"
    BY <1>4 DEF EventIsSet, IsAborted
  <2>7. Moves(t)
    BY <1>1, <1>2, <2>1, <2>2, <2>3, <2>5, <2>6 DEF Moves
  <2> QED BY <2>7, MovesKeeps
<1> QED BY <1>3, <1>4 DEF IoWait

LEMMA IoWakesKeeps ==
  ASSUME PairInv, NEW t \in Thread, IoWakes(t)
  PROVE  PairInv'
<1> DEFINE s == th[t].s
           k == [sk[s] EXCEPT !.eventfd = FALSE]
           j == [k EXCEPT !.Disconnected = Noted(s)]
<1>1. /\ th[t].pc = "Epoll" /\ th[t].hand = <<>> /\ s \in Socket /\ sk[s] \in SocketState
      /\ ThType /\ SkType
  BY EmptyHand, SocketOf DEF IoWakes, PairInv
<1>2. UNCHANGED <<net, writer, pairVars, ownerVars>>
  BY DEF IoWakes
<1>3. CASE EventIsSet(s) /\ Answers(t, s, k)
  BY <1>1, <1>2, <1>3, AnswersKeeps
<1>4. CASE sk' = [sk EXCEPT ![s] = j] /\ Goes(t, "Write")
  <2>1. "Write" \in Places /\ {"Write", "Epoll"} \subseteq InIO
    BY DEF Places, InIO
  <2>2. /\ ThType' /\ Others(t) /\ th'[t].pc = "Write" /\ th'[t].s = s /\ th'[t].call = th[t].call
        /\ th'[t].hand = <<>>
    BY <1>1, <1>4, <2>1, GoesFacts
  <2>3. /\ j \in SocketState
        /\ j.attached = sk[s].attached /\ j.RxEvent = sk[s].RxEvent
        /\ j.Rx = sk[s].Rx /\ j.Tx = sk[s].Tx /\ j.Packets = sk[s].Packets
        /\ j.BreakRead = sk[s].BreakRead
        /\ j.Disconnected = sk[s].Disconnected \/ (j.Disconnected = "Fin" /\ net[s].fin)
    BY <1>1 DEF SocketState, Noted
  <2> HIDE DEF j
  <2>4. SkType' /\ sk'[s] = j /\ \A r \in Socket \ {s} : sk'[r] = sk[r]
    BY <1>1, <1>4, <2>3 DEF SkType
  <2>5. Moves(t)
    BY <1>1, <1>2, <2>1, <2>2, <2>3, <2>4 DEF Moves
  <2> QED BY <2>5, MovesKeeps
<1> QED BY <1>3, <1>4 DEF IoWakes

(* What IO makes of the result of a read of a socket that may have been found at its end. *)
LEMMA AfterReadKeeps ==
  ASSUME PairInv, NEW t \in Thread, th[t].pc = "Read",
         NEW k \in {sk[th[t].s], [sk[th[t].s] EXCEPT !.Disconnected = "Fin"]}, AfterRead(t, k),
         k # sk[th[t].s] => net[th[t].s].fin,
         sk' = [sk EXCEPT ![th[t].s] = k], UNCHANGED <<net, writer, pairVars, ownerVars>>,
         t = "reader" /\ k.Disconnected = "Fin" /\ k.Rx = <<>> /\ C.pc = "Out" /\ ~net[th[t].s].broken =>
           sk[th[t].s].Packets = <<>> /\ net[th[t].s].read = net[th[t].s].sent
  PROVE  PairInv'
<1> DEFINE s == th[t].s
<1>1. /\ th[t].hand = <<>> /\ s \in Socket /\ sk[s] \in SocketState /\ ThType /\ SkType /\ "Read" \in InIO
  BY EmptyHand, SocketOf DEF PairInv, InIO
<1>2. /\ k \in SocketState
      /\ k.attached = sk[s].attached /\ k.RxEvent = sk[s].RxEvent
      /\ k.Rx = sk[s].Rx /\ k.Tx = sk[s].Tx /\ k.Packets = sk[s].Packets
      /\ k.BreakRead = sk[s].BreakRead
      /\ k.Disconnected = sk[s].Disconnected \/ (k.Disconnected = "Fin" /\ net[s].fin)
  BY <1>1 DEF SocketState
<1>3. SkType' /\ sk'[s] = k /\ \A r \in Socket \ {s} : sk'[r] = sk[r]
  BY <1>1, <1>2 DEF SkType
<1>4. k.Disconnected = "Fin" => net[s].fin
  BY <1>1, <1>2 DEF PairInv, FinInv
<1>5. CASE Goes(t, "Wait")
  <2>1. "Wait" \in Places /\ "Wait" \in InIO
    BY DEF Places, InIO
  <2>2. /\ ThType' /\ Others(t) /\ th'[t].pc = "Wait" /\ th'[t].s = s /\ th'[t].call = th[t].call
        /\ th'[t].hand = <<>>
    BY <1>1, <1>5, <2>1, GoesFacts
  <2>3. Moves(t)
    BY <1>1, <1>2, <1>3, <2>1, <2>2 DEF Moves
  <2> QED BY <2>3, MovesKeeps
<1>6. CASE \/ k.Disconnected # "No" /\ Ends(t, k.Rx # <<>>, k.Disconnected)
           \/ k.Disconnected = "No" /\ IsDone(t, k) /\ Ends(t, TRUE, "None")
  <2>1. PICK ok \in BOOLEAN, why \in Reasons :
          Ends(t, ok, why) /\ (~ok => k.Rx = <<>> /\ why = k.Disconnected)
    BY <1>2, <1>6 DEF SocketState, Reasons
  <2>2. /\ ThType' /\ Others(t) /\ th'[t].pc = "Done" /\ th'[t].s = s /\ th'[t].call = th[t].call
        /\ th'[t].hand = <<>> /\ th'[t].ok = ok /\ th'[t].why = why
    BY <1>1, <2>1, EndsFacts
  <2>3. t = "closer" => late \/ Len(net[s].wire) >= due[s]
    <3> SUFFICES ASSUME t = "closer" PROVE late \/ Len(net[s].wire) >= due[s]
      OBVIOUS
    <3>1. CASE k.Disconnected # "No"
      BY <1>1, <1>2, <3>1, NothingDue
    <3>2. CASE k.Tx = <<>>
      <4>1. \A u \in Thread : ~(th[u].pc = "Send" /\ th[u].s = s)
        BY <1>1 DEF PairInv, LockInv, InIO
      <4> QED BY <1>1, <1>2, <3>2, <4>1, AllIsSent
    <3> QED BY <1>6, <3>1, <3>2 DEF IsDone, Flushes
  <2>4. t = "reader" /\ ~th'[t].ok /\ th'[t].why = "Fin" /\ C.pc = "Out" =>
          /\ net[s].fin
          /\ ~net[s].broken => sk[s].Rx = <<>> /\ sk[s].Packets = <<>> /\ net[s].read = net[s].sent
    BY <1>2, <1>4, <2>1, <2>2
  <2>5. Moves(t)
    BY <1>1, <1>2, <1>3, <2>2, <2>3, <2>4 DEF Moves
  <2> QED BY <2>5, MovesKeeps
<1> QED BY <1>5, <1>6 DEF AfterRead

-----------------------------------------------------------------------------
(* IO with bytes *)

LEMMA LockKept ==
  ASSUME LockInv, NEW t \in Thread, Others(t), th[t].pc \in InIO, th'[t].s = th[t].s
  PROVE  LockInv'
BY DEF LockInv, Others

(* A thread in IO moves bytes of its socket, which stay in order. *)
Shifts(t) ==
  LET s == th[t].s IN
  /\ th[t].pc \in {"Write", "More", "Send", "Read"} /\ th'[t].pc \in {"Send", "More", "Read", "Done"}
  /\ ThType' /\ Others(t) /\ th'[t].s = s /\ th'[t].call = th[t].call
  /\ IF th'[t].pc = "Send" THEN th'[t].hand \in Packet ELSE th'[t].hand = <<>>
  /\ UNCHANGED <<writer, pairVars, ownerVars>>
  /\ SkType' /\ \A r \in Socket \ {s} : sk'[r] = sk[r] /\ net'[r] = net[r]
  /\ sk'[s].attached = sk[s].attached /\ sk'[s].RxEvent = sk[s].RxEvent
  /\ sk'[s].BreakRead = sk[s].BreakRead /\ sk'[s].Disconnected = sk[s].Disconnected
  /\ sk'[s].Packets \in {<<>>, sk[s].Packets} /\ Total(sk'[s].Rx) <= RxLimit
  /\ sk'[s].Tx = sk[s].Tx \/ writer.pc = "Out" \/ writer.s # s
  /\ th'[t].pc \in {"Send", "More"} => writer.pc = "Out" \/ writer.s # s
  /\ NetType' /\ net'[s].open = net[s].open /\ net'[s].fin = net[s].fin
  /\ net'[s].broken = net[s].broken /\ net'[s].shut = net[s].shut
  /\ Len(net'[s].wire) >= Len(net[s].wire)
  /\ th'[t].pc = "Done" => th'[t].why = "Error" /\ (t = "closer" => Len(net[s].wire) >= due[s])
  /\ OutputInOrder' /\ InputInOrder'

LEMMA ShiftsKeeps ==
  ASSUME PairInv, NEW t \in Thread, Shifts(t)
  PROVE  PairInv'
<1> DEFINE s == th[t].s
<1>1. /\ th[t].pc \in {"Write", "More", "Send", "Read"} /\ th'[t].pc \in {"Send", "More", "Read", "Done"}
      /\ th[t].s = s /\ th'[t].s = s /\ th'[t].call = th[t].call
      /\ \A u \in Thread \ {t} : th'[u] = th[u]
      /\ th[t].pc \in InIO
  BY DEF Shifts, Others, InIO
<1>2. /\ writer' = writer /\ exitEvent' = exitEvent /\ closeEvent' = closeEvent
      /\ ClosePending' = ClosePending /\ late' = late
      /\ returned' = returned /\ written' = written /\ due' = due
  BY DEF Shifts, pairVars, ownerVars
<1>3. /\ s \in Socket /\ \A r \in Socket \ {s} : sk'[r] = sk[r] /\ net'[r] = net[r]
      /\ sk'[s].attached = sk[s].attached /\ sk'[s].RxEvent = sk[s].RxEvent
      /\ sk'[s].BreakRead = sk[s].BreakRead /\ sk'[s].Disconnected = sk[s].Disconnected
      /\ net'[s].open = net[s].open /\ net'[s].fin = net[s].fin
      /\ net'[s].broken = net[s].broken /\ net'[s].shut = net[s].shut
      /\ Len(net'[s].wire) >= Len(net[s].wire)
  BY SocketOf DEF Shifts
<1>4. /\ sk'[s].Packets \in {<<>>, sk[s].Packets} /\ Total(sk'[s].Rx) <= RxLimit
      /\ sk'[s].Tx = sk[s].Tx \/ writer.pc = "Out" \/ writer.s # s
      /\ th'[t].pc \in {"Send", "More"} => writer.pc = "Out" \/ writer.s # s
  BY DEF Shifts
<1>5. \A r \in Socket :
        /\ sk'[r].attached = sk[r].attached /\ sk'[r].RxEvent = sk[r].RxEvent
        /\ sk'[r].BreakRead = sk[r].BreakRead /\ sk'[r].Disconnected = sk[r].Disconnected
        /\ net'[r].open = net[r].open /\ net'[r].fin = net[r].fin
        /\ net'[r].broken = net[r].broken /\ net'[r].shut = net[r].shut
  BY <1>3
<1>6. SkType' /\ NetType' /\ ThType' /\ OutputInOrder' /\ InputInOrder'
  BY DEF Shifts
<1>7. WriterType' /\ OwnerType' /\ FlagType'
  BY <1>2 DEF PairInv, WriterType, OwnerType, FlagType
<1>8. \A r \in Socket : Len(net'[r].wire) \in Nat /\ Len(net[r].wire) \in Nat /\ due[r] \in Nat
                        /\ Len(net'[r].wire) >= Len(net[r].wire)
  <2>1. \A r \in Socket : net'[r].wire \in Seq(Byte) /\ net[r].wire \in Seq(Byte) /\ due[r] \in Nat
    BY <1>6 DEF PairInv, NetType, Connection, OwnerType
  <2>2. \A r \in Socket : Len(net'[r].wire) \in Nat /\ Len(net[r].wire) \in Nat
    BY <2>1, LenProperties
  <2> QED BY <1>3, <2>1, <2>2
<1>9. th'[t].pc = "Done" => th'[t].why = "Error" /\ (t = "closer" => Len(net[s].wire) >= due[s])
  BY DEF Shifts
<1>10. LockInv'
  BY <1>1, LockKept DEF PairInv, Others
<1>11. HandInv'
  <2>1. IF th'[t].pc = "Send" THEN th'[t].hand \in Packet ELSE th'[t].hand = <<>>
    BY DEF Shifts
  <2> QED BY <1>1, <2>1 DEF PairInv, HandInv
<1> HIDE DEF s
<1>12. TxInv'
  <2>1. writer.pc # "Out" => writer.s \in Socket
    BY DEF PairInv, WriterType
  <2>2. writer.pc # "Out" /\ writer.s = s => sk'[s].Tx = sk[s].Tx
    BY <1>4
  <2>3. writer.pc = "Send" => sk'[writer.s].Tx = <<>>
    BY <1>3, <2>1, <2>2 DEF PairInv, TxInv
  <2>4. ASSUME writer.pc # "Out", NEW u \in Thread
        PROVE  ~(th'[u].pc \in {"Send", "More"} /\ th'[u].s = writer.s)
    BY <1>1, <1>4, <2>4 DEF PairInv, TxInv
  <2> QED BY <1>2, <2>3, <2>4 DEF TxInv
<1>13. BackInv' /\ RxInv'
  <2>1. BackInv'
    BY <1>3, <1>4 DEF PairInv, BackInv
  <2>2. RxInv'
    BY <1>3, <1>4 DEF PairInv, RxInv
  <2> QED BY <2>1, <2>2
<1>14. WaitIsCovered'
  <2> SUFFICES ASSUME NEW u \in Thread, th'[u].pc = "Epoll", ~sk'[th'[u].s].eventfd
        PROVE  /\ ~exitEvent' /\ ~closeEvent' /\ sk'[th'[u].s].BreakRead # "On"
               /\ sk'[th'[u].s].Tx # <<>> => sk'[th'[u].s].out \/ (writer'.pc = "Signal" /\ writer'.s = th'[u].s)
    BY DEF WaitIsCovered, EventIsSet, IsAborted
  <2>1. u # t /\ th'[u] = th[u] /\ th[u].s \in Socket
    BY <1>1 DEF PairInv, ThType, ThreadState
  <2>2. th[u].s # s
    BY <1>1, <2>1 DEF PairInv, LockInv, InIO
  <2>3. sk'[th[u].s] = sk[th[u].s]
    BY <1>3, <2>1, <2>2
  <2> QED BY <1>2, <2>1, <2>3 DEF PairInv, WaitIsCovered, EventIsSet, IsAborted
<1>15. FinInv'
  BY <1>5 DEF PairInv, FinInv
<1>16. DrainInv'
  <2>1. CASE t = "reader"
    BY <1>1, <1>9, <2>1 DEF DrainInv, R
  <2>2. CASE t = "closer"
    BY <1>1, <2>2 DEF DrainInv, C
  <2> QED BY <2>1, <2>2 DEF Thread
<1>17. /\ th'["closer"].s = th["closer"].s /\ th'["closer"].call = th["closer"].call
       /\ \/ th'["closer"].pc = th["closer"].pc
          \/ /\ t = "closer" /\ th["closer"].pc \in Flushing \ {"Done", "Look"}
             /\ th'["closer"].pc \in Flushing \ {"Look"}
  <2>1. CASE t = "reader"
    BY <1>1, <2>1 DEF Thread
  <2>2. CASE t = "closer"
    BY <1>1, <2>2 DEF Flushing, InIO
  <2> QED BY <2>1, <2>2 DEF Thread
<1>18. th'["reader"].pc \in {"Out", "Lock", "Done", "Check", "Select"} \cup InIO /\ th'["reader"].call # "Flush"
  <2>1. CASE t = "reader"
    BY <1>1, <2>1 DEF PairInv, CloserInv, R, InIO
  <2>2. CASE t = "closer"
    BY <1>1, <2>2 DEF PairInv, CloserInv, R, Thread
  <2> QED BY <2>1, <2>2 DEF Thread
<1>19. "Out" \notin Flushing /\ "Tell" \notin Flushing /\ "Detach" \notin Flushing /\ "Closed" \notin Flushing
  BY DEF Flushing, InIO
<1>20. CloserInv'
  BY <1>2, <1>5, <1>17, <1>18, <1>19 DEF PairInv, CloserInv, R, C
<1>21. DueInv'
  BY <1>2, <1>5, <1>17, <1>19 DEF PairInv, DueInv, C
<1>22. FlushInv'
  <2>1. t = "closer" => s = th["closer"].s
    BY <1>1
  <2>2. \A r \in Socket : Len(net[r].wire) >= due[r] => Len(net'[r].wire) >= due[r]
    BY <1>8
  <2> QED BY <1>2, <1>9, <1>17, <2>1, <2>2 DEF PairInv, FlushInv, ToFlush, C
<1> QED BY <1>6, <1>7, <1>10, <1>11, <1>12, <1>13, <1>14, <1>15, <1>16, <1>20, <1>21, <1>22 DEF PairInv

LEMMA OutputShifts ==
  ASSUME PairInv, NEW t \in Thread, th[t].pc \in InIO, Others(t), th'[t].s = th[t].s,
         th'[t].pc # "Send" => th'[t].hand = <<>>, written' = written,
         \A r \in Socket \ {th[t].s} : sk'[r].Tx = sk[r].Tx /\ net'[r].wire = net[r].wire,
         (net'[th[t].s].wire \o th'[t].hand) \o Bytes(sk'[th[t].s].Tx)
           = (net[th[t].s].wire \o th[t].hand) \o Bytes(sk[th[t].s].Tx)
  PROVE  OutputInOrder'
<1> DEFINE s == th[t].s
<1>1. LockInv /\ LockInv' /\ ThType /\ HandInv /\ s \in Socket
  BY LockKept, SocketOf DEF PairInv
<1>2. \A u \in Thread \ {t} : th'[u] = th[u] /\ ~(th[u].pc = "Send" /\ th[u].s = s)
  BY <1>1 DEF LockInv, InIO, Others
<1>3. Hand(s) = th[t].hand
  <2>1. CASE th[t].pc = "Send"
    BY <1>1, <2>1, HandNow
  <2>2. CASE th[t].pc # "Send"
    BY <1>1, <1>2, <2>2, HandNow DEF HandInv
  <2> QED BY <2>1, <2>2
<1>4. Hand(s)' = th'[t].hand
  <2>1. CASE th'[t].pc = "Send"
    BY <1>1, <2>1, HandThen
  <2>2. CASE th'[t].pc # "Send"
    BY <1>1, <1>2, <2>2, HandThen
  <2> QED BY <2>1, <2>2
<1>5. ASSUME NEW r \in Socket, r # s PROVE Hand(r)' = Hand(r)
  <2>1. CASE \E u \in Thread : th[u].pc = "Send" /\ th[u].s = r
    <3>1. PICK u \in Thread : th[u].pc = "Send" /\ th[u].s = r
      BY <2>1
    <3>2. u # t /\ th'[u] = th[u]
      BY <1>2, <1>5, <3>1
    <3>3. Hand(r) = th[u].hand
      BY <1>1, <3>1, HandNow
    <3>4. Hand(r)' = th'[u].hand
      BY <1>1, <3>1, <3>2, HandThen
    <3> QED BY <3>2, <3>3, <3>4
  <2>2. CASE ~\E u \in Thread : th[u].pc = "Send" /\ th[u].s = r
    <3>1. \A u \in Thread : ~(th'[u].pc = "Send" /\ th'[u].s = r)
      BY <1>2, <1>5, <2>2
    <3> QED BY <1>1, <2>2, <3>1, HandNow, HandThen
  <2> QED BY <2>1, <2>2
<1>6. (net'[s].wire \o Hand(s)') \o Bytes(sk'[s].Tx) = [i \in 1..written'[s] |-> i]
  <2>1. (net[s].wire \o Hand(s)) \o Bytes(sk[s].Tx) = [i \in 1..written[s] |-> i]
    BY <1>1 DEF PairInv, OutputInOrder
  <2> QED BY <1>3, <1>4, <2>1
<1>7. ASSUME NEW r \in Socket, r # s
      PROVE  (net'[r].wire \o Hand(r)') \o Bytes(sk'[r].Tx) = [i \in 1..written'[r] |-> i]
  <2>1. (net[r].wire \o Hand(r)) \o Bytes(sk[r].Tx) = [i \in 1..written[r] |-> i]
    BY DEF PairInv, OutputInOrder
  <2> QED BY <1>5, <1>7, <2>1
<1> QED BY <1>6, <1>7 DEF OutputInOrder

LEMMA InputStays ==
  ASSUME InputInOrder, returned' = returned,
         \A s \in Socket : sk'[s].Rx = sk[s].Rx /\ sk'[s].Packets = sk[s].Packets /\ net'[s].read = net[s].read
  PROVE  InputInOrder'
BY DEF InputInOrder

LEMMA IoPopKeeps ==
  ASSUME PairInv, NEW t \in Thread, IoPop(t)
  PROVE  PairInv'
<1> DEFINE s == th[t].s
           q == sk[s].Tx
<1>1. CASE Goes(t, "Read") /\ UNCHANGED sk
  BY <1>1, StopsWriting
<1>2. CASE /\ q # <<>>
           /\ th' = [th EXCEPT ![t] = [@ EXCEPT !.pc = "Send", !.hand = PopFirst(sk[s].Tx).packet]]
           /\ sk' = [sk EXCEPT ![s].Tx = PopFirst(@).queue]
  <2>1. /\ th[t].pc \in {"Write", "More"} /\ th[t].hand = <<>> /\ s \in Socket /\ sk[s] \in SocketState
        /\ net[s] \in Connection /\ ThType /\ SkType /\ NetType
    BY EmptyHand, SocketOf DEF IoPop, PairInv
  <2>2. UNCHANGED <<net, writer, pairVars, ownerVars>>
    BY DEF IoPop
  <2>3. q \in Seq(Packet) /\ net[s].wire \in Seq(Byte)
    BY <2>1 DEF SocketState, Connection
  <2>4. /\ Head(q) \in Packet /\ Head(q) \in Seq(Byte) /\ Tail(q) \in Seq(Packet)
        /\ Bytes(q) = Head(q) \o Bytes(Tail(q)) /\ Bytes(Tail(q)) \in Seq(Byte)
    BY <1>2, <2>3, FirstPacket, PacketsAreBytes DEF Packet
  <2> DEFINE e == [th[t] EXCEPT !.pc = "Send", !.hand = Head(q)]
             k == [sk[s] EXCEPT !.Tx = Tail(q)]
  <2>5. e \in ThreadState /\ e.pc = "Send" /\ e.hand = Head(q) /\ e.s = s /\ e.call = th[t].call
    BY <2>1, <2>4 DEF ThType, ThreadState, InIO
  <2>6. /\ k \in SocketState /\ k.Tx = Tail(q)
        /\ k.attached = sk[s].attached /\ k.RxEvent = sk[s].RxEvent /\ k.BreakRead = sk[s].BreakRead
        /\ k.Disconnected = sk[s].Disconnected /\ k.Rx = sk[s].Rx /\ k.Packets = sk[s].Packets
    BY <2>1, <2>4 DEF SocketState
  <2>7. th' = [th EXCEPT ![t] = e] /\ sk' = [sk EXCEPT ![s] = k]
    BY <1>2 DEF PopFirst
  <2> HIDE DEF e, k
  <2>8. ThType' /\ Others(t) /\ th'[t] = e
    BY <2>1, <2>5, <2>7 DEF ThType, Others
  <2>9. SkType' /\ sk'[s] = k /\ \A r \in Socket \ {s} : sk'[r] = sk[r]
    BY <2>1, <2>6, <2>7 DEF SkType
  <2>10. /\ net' = net /\ written' = written /\ returned' = returned /\ NetType'
         /\ th[t].pc \in InIO
    BY <2>1, <2>2 DEF ownerVars, NetType, InIO
  <2>11. (net[s].wire \o Head(q)) \o Bytes(Tail(q)) = (net[s].wire \o <<>>) \o Bytes(q)
    <3>1. (net[s].wire \o Head(q)) \o Bytes(Tail(q)) = net[s].wire \o (Head(q) \o Bytes(Tail(q)))
      BY <2>3, <2>4, Associated
    <3>2. net[s].wire \o <<>> = net[s].wire
      BY <2>3, NothingAdded
    <3> QED BY <2>4, <3>1, <3>2
  <2>12. OutputInOrder'
    <3>1. (net'[s].wire \o th'[t].hand) \o Bytes(sk'[s].Tx) = (net[s].wire \o th[t].hand) \o Bytes(sk[s].Tx)
      BY <2>1, <2>5, <2>6, <2>8, <2>9, <2>10, <2>11
    <3>2. \A r \in Socket \ {s} : sk'[r].Tx = sk[r].Tx /\ net'[r].wire = net[r].wire
      BY <2>9, <2>10
    <3> QED BY <2>5, <2>8, <2>10, <3>1, <3>2, OutputShifts
  <2>13. InputInOrder'
    BY <2>1, <2>6, <2>9, <2>10, InputStays DEF PairInv
  <2>14. writer.pc = "Out" \/ writer.s # s
    BY <2>1 DEF PairInv, TxInv, IoPop, TxLockIsFree
  <2>15. Total(sk[s].Rx) <= RxLimit /\ Len(net[s].wire) >= Len(net[s].wire)
    BY <2>1, <2>3, LenProperties DEF PairInv, RxInv
  <2>16. Shifts(t)
    BY <2>1, <2>2, <2>4, <2>5, <2>6, <2>8, <2>9, <2>10, <2>12, <2>13, <2>14, <2>15 DEF Shifts
  <2> QED BY <2>16, ShiftsKeeps
<1> QED BY <1>1, <1>2 DEF IoPop

LEMMA PutBackFacts ==
  ASSUME NEW k \in SocketState, NEW b \in Seq(Byte)
  PROVE  LET j == PutBack(k, b) IN
         /\ j \in SocketState /\ Bytes(j.Tx) = b \o Bytes(k.Tx)
         /\ j.attached = k.attached /\ j.RxEvent = k.RxEvent /\ j.BreakRead = k.BreakRead
         /\ j.Disconnected = k.Disconnected /\ j.Rx = k.Rx /\ j.Packets = k.Packets
<1> DEFINE q == IF b = <<>> THEN k.Tx ELSE PushFront(k.Tx, b)
           j == [k EXCEPT !.Tx = q]
<1>1. k.Tx \in Seq(Packet)
  BY DEF SocketState
<1>2. q \in Seq(Packet) /\ Bytes(q) = b \o Bytes(k.Tx)
  <2>1. CASE b = <<>>
    <3>1. Bytes(k.Tx) \in Seq(Byte)
      BY <1>1, PacketsAreBytes
    <3> QED BY <1>1, <2>1, <3>1, NothingAdded
  <2>2. CASE b # <<>>
    <3>1. b \in Packet
      BY <2>2 DEF Packet
    <3> QED BY <1>1, <2>2, <3>1, PutFirst
  <2> QED BY <2>1, <2>2
<1> HIDE DEF q
<1>3. /\ j \in SocketState /\ Bytes(j.Tx) = b \o Bytes(k.Tx)
      /\ j.attached = k.attached /\ j.RxEvent = k.RxEvent /\ j.BreakRead = k.BreakRead
      /\ j.Disconnected = k.Disconnected /\ j.Rx = k.Rx /\ j.Packets = k.Packets
  BY <1>2 DEF SocketState
<1>4. PutBack(k, b) = j
  BY DEF PutBack, q
<1> QED BY <1>3, <1>4

LEMMA IoSendKeeps ==
  ASSUME PairInv, NEW t \in Thread, IoSend(t)
  PROVE  PairInv'
<1> DEFINE s == th[t].s
           b == th[t].hand
           n == Fits(net[s], Len(b))
<1>1. /\ th[t].pc = "Send" /\ b \in Packet /\ s \in Socket /\ sk[s] \in SocketState
      /\ net[s] \in Connection /\ ThType /\ SkType /\ NetType
  BY SocketOf DEF IoSend, PairInv, HandInv
<1>2. UNCHANGED <<writer, pairVars, ownerVars>> /\ written' = written /\ returned' = returned
  BY DEF IoSend, ownerVars
<1>3. /\ b \in Seq(Byte) /\ b # <<>> /\ Len(b) \in Nat /\ net[s].wire \in Seq(Byte)
      /\ net[s].room \in Nat /\ Bytes(sk[s].Tx) \in Seq(Byte)
  <2>1. b \in Seq(Byte) /\ b # <<>> /\ net[s].wire \in Seq(Byte) /\ sk[s].Tx \in Seq(Packet)
    BY <1>1 DEF Packet, Connection, SocketState
  <2>2. net[s].room \in Nat
    BY <1>1, SizesAssumption DEF Connection
  <2> QED BY <2>1, <2>2, LenProperties, PacketsAreBytes
<1>4. n \in 0..Len(b) /\ n <= net[s].room
  <2>1. n = Min({net[s].room, Len(b)})
    BY DEF Fits
  <2>2. n \in Nat /\ n <= net[s].room /\ n <= Len(b)
    BY <1>3, <2>1, MinOfTwo
  <2> QED BY <1>3, <2>2
<1>5. writer.pc = "Out" \/ writer.s # s
  BY <1>1 DEF PairInv, TxInv
<1>6. {"Send", "Read", "More"} \subseteq InIO /\ "Error" \in Reasons /\ <<>> \in Seq(Byte)
  BY DEF InIO, Reasons
<1>7. Total(sk[s].Rx) <= RxLimit
  BY <1>1 DEF PairInv, RxInv
<1> HIDE DEF n
<1>8. ASSUME NEW k \in SocketState, sk' = [sk EXCEPT ![s] = PutBack(k, b)], UNCHANGED net,
             k.Tx = sk[s].Tx, k.attached = sk[s].attached, k.RxEvent = sk[s].RxEvent,
             k.BreakRead = sk[s].BreakRead, k.Disconnected = sk[s].Disconnected,
             k.Rx = sk[s].Rx, k.Packets = sk[s].Packets,
             ThType', Others(t), th'[t].pc \in {"Read", "Done"}, th'[t].s = s,
             th'[t].call = th[t].call, th'[t].hand = <<>>,
             th'[t].pc = "Done" => th'[t].why = "Error" /\ (t = "closer" => Len(net[s].wire) >= due[s])
      PROVE  PairInv'
  <2> DEFINE j == PutBack(k, b)
  <2>1. /\ j \in SocketState /\ Bytes(j.Tx) = b \o Bytes(sk[s].Tx)
        /\ j.attached = sk[s].attached /\ j.RxEvent = sk[s].RxEvent /\ j.BreakRead = sk[s].BreakRead
        /\ j.Disconnected = sk[s].Disconnected /\ j.Rx = sk[s].Rx /\ j.Packets = sk[s].Packets
    <3>1. /\ j \in SocketState /\ Bytes(j.Tx) = b \o Bytes(k.Tx)
          /\ j.attached = k.attached /\ j.RxEvent = k.RxEvent /\ j.BreakRead = k.BreakRead
          /\ j.Disconnected = k.Disconnected /\ j.Rx = k.Rx /\ j.Packets = k.Packets
      BY <1>3, PutBackFacts
    <3> QED BY <1>8, <3>1
  <2> HIDE DEF j
  <2>2. SkType' /\ sk'[s] = j /\ \A r \in Socket \ {s} : sk'[r] = sk[r]
    BY <1>1, <1>8, <2>1 DEF SkType, j
  <2>3. net' = net /\ NetType'
    BY <1>1, <1>8 DEF NetType
  <2>4. (net[s].wire \o <<>>) \o (b \o Bytes(sk[s].Tx)) = (net[s].wire \o b) \o Bytes(sk[s].Tx)
    <3>1. (net[s].wire \o <<>>) = net[s].wire
      BY <1>3, NothingAdded
    <3>2. net[s].wire \o (b \o Bytes(sk[s].Tx)) = (net[s].wire \o b) \o Bytes(sk[s].Tx)
      BY <1>3, Associated
    <3> QED BY <3>1, <3>2
  <2>5. OutputInOrder'
    <3>1. (net'[s].wire \o th'[t].hand) \o Bytes(sk'[s].Tx) = (net[s].wire \o th[t].hand) \o Bytes(sk[s].Tx)
      BY <1>8, <2>1, <2>2, <2>3, <2>4
    <3>2. \A r \in Socket \ {s} : sk'[r].Tx = sk[r].Tx /\ net'[r].wire = net[r].wire
      BY <2>2, <2>3
    <3> QED BY <1>1, <1>2, <1>6, <1>8, <3>1, <3>2, OutputShifts
  <2>6. InputInOrder'
    BY <1>1, <1>2, <2>1, <2>2, <2>3, InputStays DEF PairInv
  <2>7. Len(net[s].wire) >= Len(net[s].wire)
    BY <1>3, LenProperties
  <2>8. Shifts(t)
    BY <1>1, <1>2, <1>5, <1>7, <1>8, <2>1, <2>2, <2>3, <2>5, <2>6, <2>7 DEF Shifts
  <2> QED BY <2>8, ShiftsKeeps
<1>9. CASE /\ InternalWrite(net[s], Len(b)) = "Error"
           /\ sk' = [sk EXCEPT ![s] = PutBack(Fails(@), b)] /\ Ends(t, FALSE, "Error") /\ UNCHANGED net
  <2> DEFINE k == Fails(sk[s])
  <2>1. /\ k \in SocketState /\ k.Tx = sk[s].Tx /\ k.attached = sk[s].attached /\ k.RxEvent = sk[s].RxEvent
        /\ k.BreakRead = sk[s].BreakRead /\ k.Disconnected = sk[s].Disconnected
        /\ k.Rx = sk[s].Rx /\ k.Packets = sk[s].Packets
    BY <1>1 DEF Fails, SocketState
  <2>2. sk' = [sk EXCEPT ![s] = PutBack(k, b)]
    BY <1>9
  <2>3. /\ ThType' /\ Others(t) /\ th'[t].pc = "Done" /\ th'[t].s = s /\ th'[t].call = th[t].call
        /\ th'[t].hand = <<>> /\ th'[t].why = "Error"
    BY <1>1, <1>6, <1>9, EndsFacts
  <2>4. t = "closer" => Len(net[s].wire) >= due[s]
    <3> SUFFICES ASSUME t = "closer" PROVE net[s].broken
      BY <1>1, NothingDue
    <3>1. ~net[s].open \/ net[s].broken \/ net[s].shut
      BY <1>9 DEF InternalWrite, CannotWrite
    <3>2. C.pc = "Send" /\ C.s = s /\ C.pc \in Flushing
      BY <1>1, <1>6 DEF C, Flushing
    <3> QED BY <1>1, <3>1, <3>2 DEF PairInv, CloserInv
  <2> HIDE DEF k
  <2> QED BY <1>8, <1>9, <2>1, <2>2, <2>3, <2>4
<1>10. CASE /\ InternalWrite(net[s], Len(b)) = "WouldBlock"
            /\ sk' = [sk EXCEPT ![s] = PutBack(sk[s], Rest(b, n))]
            /\ th' = [th EXCEPT ![t] = [@ EXCEPT !.pc = "Read", !.hand = <<>>]] /\ UNCHANGED net
  <2>1. Rest(b, n) = b
    <3>1. n = 0
      BY <1>10 DEF InternalWrite, n
    <3> QED BY <1>3, <1>4, <3>1, CutPacket DEF Rest
  <2> DEFINE e == [th[t] EXCEPT !.pc = "Read", !.hand = <<>>]
  <2>2. e \in ThreadState /\ e.pc = "Read" /\ e.hand = <<>> /\ e.s = s /\ e.call = th[t].call
    BY <1>1, <1>6 DEF ThType, ThreadState
  <2>3. th' = [th EXCEPT ![t] = e]
    BY <1>10
  <2> HIDE DEF e
  <2>4. ThType' /\ Others(t) /\ th'[t] = e
    BY <1>1, <2>2, <2>3 DEF ThType, Others
  <2> QED BY <1>1, <1>8, <1>10, <2>1, <2>2, <2>4
<1>11. CASE /\ InternalWrite(net[s], Len(b)) = "Some"
            /\ net' = [net EXCEPT ![s] = SendsBytes(@, SubSeq(b, 1, n))]
            /\ sk' = [sk EXCEPT ![s] = PutBack(sk[s], Rest(b, n))]
            /\ th' = [th EXCEPT ![t] = [@ EXCEPT !.pc = "More", !.hand = <<>>]]
  <2> DEFINE e == [th[t] EXCEPT !.pc = "More", !.hand = <<>>]
             front == SubSeq(b, 1, n)
             rest == Rest(b, n)
             j == PutBack(sk[s], rest)
             c == SendsBytes(net[s], front)
  <2>1. e \in ThreadState /\ e.pc = "More" /\ e.hand = <<>> /\ e.s = s /\ e.call = th[t].call
    BY <1>1, <1>6 DEF ThType, ThreadState
  <2>2. th' = [th EXCEPT ![t] = e]
    BY <1>11
  <2> HIDE DEF e
  <2>3. ThType' /\ Others(t) /\ th'[t] = e
    BY <1>1, <2>1, <2>2 DEF ThType, Others
  <2>4. front \in Seq(Byte) /\ Len(front) = n /\ rest \in Seq(Byte) /\ front \o rest = b
    BY <1>3, <1>4, CutPacket DEF Rest
  <2> HIDE DEF front, rest
  <2>5. /\ j \in SocketState /\ Bytes(j.Tx) = rest \o Bytes(sk[s].Tx)
        /\ j.attached = sk[s].attached /\ j.RxEvent = sk[s].RxEvent /\ j.BreakRead = sk[s].BreakRead
        /\ j.Disconnected = sk[s].Disconnected /\ j.Rx = sk[s].Rx /\ j.Packets = sk[s].Packets
    BY <1>1, <2>4, PutBackFacts
  <2>6. /\ net[s].wire \o front \in Seq(Byte)
        /\ Len(net[s].wire \o front) = Len(net[s].wire) + n
    BY <1>3, <2>4, PutTogether
  <2>7. /\ c \in Connection /\ c.wire = net[s].wire \o front /\ c.open = net[s].open /\ c.fin = net[s].fin
        /\ c.broken = net[s].broken /\ c.shut = net[s].shut /\ c.sent = net[s].sent /\ c.read = net[s].read
    <3>1. c = [net[s] EXCEPT !.room = net[s].room - n, !.wire = net[s].wire \o front]
      BY <2>4 DEF SendsBytes
    <3>2. net[s].room - n \in 0..Room
      <4>1. Room \in Nat /\ net[s].room \in 0..Room /\ n \in Nat
        BY <1>1, <1>3, <1>4, SizesAssumption DEF Connection
      <4> QED BY <1>4, <4>1
    <3> HIDE DEF c
    <3> QED BY <1>1, <2>6, <3>1, <3>2 DEF Connection
  <2>8. sk' = [sk EXCEPT ![s] = j] /\ net' = [net EXCEPT ![s] = c]
    BY <1>11 DEF front, rest
  <2> HIDE DEF j, c
  <2>9. SkType' /\ sk'[s] = j /\ \A r \in Socket \ {s} : sk'[r] = sk[r]
    BY <1>1, <2>5, <2>8 DEF SkType
  <2>10. NetType' /\ net'[s] = c /\ \A r \in Socket \ {s} : net'[r] = net[r]
    BY <1>1, <2>7, <2>8 DEF NetType
  <2>11. ((net[s].wire \o front) \o <<>>) \o (rest \o Bytes(sk[s].Tx)) = (net[s].wire \o b) \o Bytes(sk[s].Tx)
    <3>1. (net[s].wire \o front) \o <<>> = net[s].wire \o front
      BY <2>6, NothingAdded
    <3>2. (net[s].wire \o front) \o (rest \o Bytes(sk[s].Tx)) = (net[s].wire \o (front \o rest)) \o Bytes(sk[s].Tx)
      <4> DEFINE w == net[s].wire
                 x == Bytes(sk[s].Tx)
                 wf == w \o front
      <4>1. w \in Seq(Byte) /\ front \in Seq(Byte) /\ rest \in Seq(Byte) /\ x \in Seq(Byte)
        BY <1>3, <2>4
      <4> HIDE DEF w, x
      <4>2. wf \in Seq(Byte)
        BY <4>1, PutTogether
      <4>3. (w \o front) \o rest = w \o (front \o rest)
        BY <4>1, Associated
      <4>4. wf \o (rest \o x) = (wf \o rest) \o x
        <5> HIDE DEF wf
        <5> QED BY <4>1, <4>2, Associated
      <4> QED BY <4>3, <4>4 DEF w, x
    <3> QED BY <2>4, <3>1, <3>2
  <2>12. OutputInOrder'
    <3>1. (net'[s].wire \o th'[t].hand) \o Bytes(sk'[s].Tx) = (net[s].wire \o th[t].hand) \o Bytes(sk[s].Tx)
      BY <2>1, <2>3, <2>5, <2>7, <2>9, <2>10, <2>11
    <3>2. \A r \in Socket \ {s} : sk'[r].Tx = sk[r].Tx /\ net'[r].wire = net[r].wire
      BY <2>9, <2>10
    <3> QED BY <1>1, <1>2, <1>6, <2>1, <2>3, <3>1, <3>2, OutputShifts
  <2>13. InputInOrder'
    <3>1. \A r \in Socket : sk'[r].Rx = sk[r].Rx /\ sk'[r].Packets = sk[r].Packets /\ net'[r].read = net[r].read
      BY <1>1, <2>5, <2>7, <2>9, <2>10
    <3> QED BY <1>2, <3>1, InputStays DEF PairInv
  <2>14. Len(net'[s].wire) >= Len(net[s].wire)
    <3>1. Len(net[s].wire) \in Nat /\ n \in Nat
      BY <1>3, <1>4, LenProperties
    <3> QED BY <2>6, <2>7, <2>10, <3>1
  <2>15. Shifts(t)
    BY <1>1, <1>2, <1>5, <1>7, <2>1, <2>3, <2>5, <2>7, <2>9, <2>10, <2>12, <2>13, <2>14 DEF Shifts
  <2> QED BY <2>15, ShiftsKeeps
<1> QED BY <1>9, <1>10, <1>11 DEF IoSend, n

LEMMA OutputStays ==
  ASSUME OutputInOrder, th' = th, written' = written,
         \A s \in Socket : sk'[s].Tx = sk[s].Tx /\ net'[s].wire = net[s].wire
  PROVE  OutputInOrder'
<1>1. \A s \in Socket : Hand(s)' = Hand(s)
  BY DEF Hand
<1> QED BY <1>1 DEF OutputInOrder

LEMMA InputShifts ==
  ASSUME InputInOrder, NEW s \in Socket, returned' = returned,
         \A r \in Socket \ {s} : sk'[r] = sk[r] /\ net'[r] = net[r],
         (returned[s] \o Bytes(sk'[s].Rx)) \o Bytes(sk'[s].Packets) = [i \in 1..net'[s].read |-> i]
  PROVE  InputInOrder'
<1>1. \A r \in Socket \ {s} :
        (returned'[r] \o Bytes(sk'[r].Rx)) \o Bytes(sk'[r].Packets) = [i \in 1..net'[r].read |-> i]
  BY DEF InputInOrder
<1> QED BY <1>1 DEF InputInOrder

(* There is room for input. *)
LEMMA RoomForInput ==
  ASSUME NEW q \in Seq(Packet), Total(q) <= RxLimit
  PROVE  /\ Available(q, RxLimit) \in Nat /\ Total(q) + Available(q, RxLimit) <= RxLimit
         /\ q = <<>> => Available(q, RxLimit) # 0
<1>1. Total(q) \in Nat /\ RxLimit \in Nat /\ RxLimit # 0
  BY PacketsAreBytes, SizesAssumption
<1> QED BY <1>1, NoBytes DEF Available

LEMMA IoReadKeeps ==
  ASSUME PairInv, NEW t \in Thread, IoRead(t)
  PROVE  PairInv'
<1> DEFINE s == th[t].s
           k == sk[s]
           room == Available(k.Rx, RxLimit)
           m == Min({BUFFER_SIZE, room, Inbox(net[s])})
           stops == TooLate(t) \/ room = 0
           answer == InternalRead(k, net[s])
           Ended == [k EXCEPT !.Disconnected = IF @ = "No" THEN "Fin" ELSE @]
<1>1. /\ th[t].pc = "Read" /\ th[t].hand = <<>> /\ s \in Socket /\ k \in SocketState
      /\ net[s] \in Connection /\ ThType /\ SkType /\ NetType /\ th[t].pc \in InIO
  BY EmptyHand, SocketOf DEF IoRead, PairInv, InIO
<1>2. UNCHANGED <<writer, pairVars, ownerVars>> /\ written' = written /\ returned' = returned
  BY DEF IoRead, ownerVars
<1>3. /\ k.Rx \in Seq(Packet) /\ Total(k.Rx) \in Nat /\ Total(k.Rx) <= RxLimit /\ RxLimit \in Nat
      /\ room \in Nat /\ Total(k.Rx) + room <= RxLimit /\ (k.Rx = <<>> => room # 0)
  <2>1. k.Rx \in Seq(Packet) /\ Total(k.Rx) <= RxLimit /\ RxLimit \in Nat
    BY <1>1, SizesAssumption DEF SocketState, PairInv, RxInv
  <2> QED BY <2>1, RoomForInput, PacketsAreBytes
<1>4. net[s].read \in Nat /\ net[s].sent \in Nat /\ net[s].read <= net[s].sent /\ Inbox(net[s]) \in Nat
  <2>1. net[s].read \in Nat /\ net[s].sent \in Nat /\ net[s].read <= net[s].sent
    BY <1>1 DEF NetType, Connection
  <2> QED BY <2>1 DEF Inbox
<1>5. /\ returned[s] \in Seq(Byte) /\ Bytes(k.Rx) \in Seq(Byte)
      /\ (returned[s] \o Bytes(k.Rx)) \o Bytes(k.Packets) = [i \in 1..net[s].read |-> i]
  BY <1>1, <1>3, PacketsAreBytes DEF PairInv, OwnerType, InputInOrder
<1>6. C.pc = "Out" => net[s].open
  BY <1>1 DEF PairInv, CloserInv
<1> HIDE DEF room
<1>7. t = "reader" /\ ~(Inbox(net[s]) > 0) => net[s].read = net[s].sent
  BY <1>4 DEF Inbox
<1>8. ASSUME NEW j \in {k, [k EXCEPT !.Disconnected = "Fin"]}, AfterRead(t, j), UNCHANGED net,
             j # k => net[s].fin, sk' = [sk EXCEPT ![s] = j],
             answer \in {"WouldBlock", "End"} \/ stops
      PROVE  PairInv'
  <2>1. j.Rx = k.Rx
    BY <1>1 DEF SocketState
  <2>2. ASSUME t = "reader", k.Rx = <<>>, C.pc = "Out", ~net[s].broken
        PROVE  k.Packets = <<>> /\ net[s].read = net[s].sent
    <3>1. ~stops
      BY <1>3, <2>2 DEF TooLate, Flushes
    <3>2. ~IsLost(net[s])
      BY <1>6, <2>2 DEF IsLost
    <3> QED BY <1>7, <1>8, <2>2, <3>1, <3>2 DEF InternalRead
  <2> QED BY <1>1, <1>2, <1>8, <2>1, <2>2, AfterReadKeeps
<1>9. CASE (stops \/ answer = "WouldBlock") /\ AfterRead(t, k) /\ UNCHANGED <<sk, net>>
  <2>1. sk' = [sk EXCEPT ![s] = k]
    BY <1>1, <1>9 DEF SkType
  <2> QED BY <1>8, <1>9, <2>1
<1>10. CASE /\ ~stops /\ answer = "End"
            /\ sk' = [sk EXCEPT ![s] = Ended] /\ AfterRead(t, Ended) /\ UNCHANGED net
  <2>1. Ended \in {k, [k EXCEPT !.Disconnected = "Fin"]} /\ (k.Disconnected # "No" => Ended = k)
    BY <1>1 DEF SocketState
  <2>2. k.Disconnected = "No" => net[s].fin
    BY <1>10 DEF InternalRead
  <2> HIDE DEF Ended
  <2>3. Ended # k => net[s].fin
    BY <2>1, <2>2
  <2> QED BY <1>8, <1>10, <2>1, <2>3
<1>11. ASSUME NEW p \in Packet, Total(k.Rx) + Len(p) <= RxLimit, UNCHANGED th,
              NEW j \in SocketState, sk' = [sk EXCEPT ![s] = j],
              j.Rx = AppendBytes(k.Rx, p), j.Packets \in {<<>>, k.Packets},
              j.attached = k.attached, j.RxEvent = k.RxEvent, j.BreakRead = k.BreakRead,
              j.Disconnected = k.Disconnected, j.Tx = k.Tx,
              NEW c \in Connection, net' = [net EXCEPT ![s] = c],
              c.open = net[s].open, c.fin = net[s].fin, c.broken = net[s].broken, c.shut = net[s].shut,
              c.wire = net[s].wire, c.sent = net[s].sent, c.read <= c.sent,
              ((returned[s] \o Bytes(k.Rx)) \o p) \o Bytes(j.Packets) = [i \in 1..c.read |-> i]
       PROVE  PairInv'
  <2>1. SkType' /\ sk'[s] = j /\ \A r \in Socket \ {s} : sk'[r] = sk[r]
    BY <1>1, <1>11 DEF SkType
  <2>2. NetType' /\ net'[s] = c /\ \A r \in Socket \ {s} : net'[r] = net[r]
    BY <1>1, <1>11 DEF NetType
  <2>3. Bytes(j.Rx) = Bytes(k.Rx) \o p /\ Total(j.Rx) = Total(k.Rx) + Len(p)
    BY <1>3, <1>11, PutLast
  <2>4. OutputInOrder'
    <3>1. \A r \in Socket : sk'[r].Tx = sk[r].Tx /\ net'[r].wire = net[r].wire
      BY <1>11, <2>1, <2>2
    <3> QED BY <1>2, <1>11, <3>1, OutputStays DEF PairInv
  <2>5. InputInOrder'
    <3>1. returned[s] \o (Bytes(k.Rx) \o p) = (returned[s] \o Bytes(k.Rx)) \o p
      <4>1. p \in Seq(Byte)
        BY <1>11 DEF Packet
      <4> QED BY <1>5, <4>1, Associated
    <3>2. (returned[s] \o Bytes(sk'[s].Rx)) \o Bytes(sk'[s].Packets) = [i \in 1..net'[s].read |-> i]
      BY <1>11, <2>1, <2>2, <2>3, <3>1
    <3> QED BY <1>1, <1>2, <2>1, <2>2, <3>2, InputShifts DEF PairInv
  <2>6. ThType' /\ Others(t) /\ th'[t] = th[t]
    BY <1>1, <1>11 DEF ThType, Others
  <2>7. Len(net'[s].wire) >= Len(net[s].wire)
    <3>1. Len(net[s].wire) \in Nat
      BY <1>1, LenProperties DEF Connection
    <3>2. net'[s].wire = net[s].wire
      BY <1>11, <2>2
    <3> QED BY <3>1, <3>2
  <2>8. Shifts(t)
    BY <1>1, <1>2, <1>11, <2>1, <2>2, <2>3, <2>4, <2>5, <2>6, <2>7 DEF Shifts
  <2> QED BY <2>8, ShiftsKeeps
<1>12. CASE /\ ~stops /\ answer = "Some"
            /\ net' = [net EXCEPT ![s].read = @ + m]
            /\ sk' = [sk EXCEPT ![s].Rx = AppendBytes(@, [i \in 1..m |-> net[s].read + i])]
            /\ UNCHANGED th
  <2> DEFINE p == [i \in 1..m |-> net[s].read + i]
             j == [k EXCEPT !.Rx = AppendBytes(k.Rx, p)]
             c == [net[s] EXCEPT !.read = net[s].read + m]
  <2>1. k.Packets = <<>> /\ Inbox(net[s]) # 0 /\ room # 0
    BY <1>4, <1>12 DEF InternalRead
  <2>2. m \in Nat /\ m # 0 /\ m <= room /\ m <= Inbox(net[s])
    <3>1. BUFFER_SIZE \in Nat /\ BUFFER_SIZE # 0
      BY BufferAssumption
    <3> QED BY <1>3, <1>4, <2>1, <3>1, MinOfThree
  <2> HIDE DEF m
  <2>3. /\ p \in Packet /\ Len(p) = m
        /\ [i \in 1..net[s].read |-> i] \o p = [i \in 1..(net[s].read + m) |-> i]
        /\ [i \in 1..(net[s].read + m) |-> i] \in Seq(Byte)
    <3> DEFINE w == net[s].read
    <3>1. w \in Nat /\ w + m \in Nat
      BY <1>4, <2>2
    <3> HIDE DEF w
    <3>2. [i \in 1..m |-> w + i] \in Seq(Byte) /\ Len([i \in 1..m |-> w + i]) = m
      <4>1. m \in Nat
        BY <2>2
      <4>2. w \in Nat
        BY <3>1
      <4> QED BY ONLY <4>1, <4>2, NumberedBytes
    <3>5. [i \in 1..m |-> w + i] \in Packet
      BY <2>2, <3>2, EmptySeq DEF Packet
    <3>3. [i \in 1..w |-> i] \o [i \in 1..m |-> w + i] = [i \in 1..(w + m) |-> i]
      BY <2>2, <3>1, NumberedBytes
    <3>4. [i \in 1..(w + m) |-> i] \in Seq(Byte)
      BY <3>1, NumberedBytes
    <3> QED BY <3>2, <3>3, <3>4, <3>5 DEF w
  <2>4. sk' = [sk EXCEPT ![s] = j] /\ net' = [net EXCEPT ![s] = c] /\ UNCHANGED th
    BY <1>12
  <2> HIDE DEF p
  <2>5. /\ j \in SocketState /\ j.Rx = AppendBytes(k.Rx, p) /\ j.Packets = <<>>
        /\ j.attached = k.attached /\ j.RxEvent = k.RxEvent /\ j.BreakRead = k.BreakRead
        /\ j.Disconnected = k.Disconnected /\ j.Tx = k.Tx
    <3>1. AppendBytes(k.Rx, p) \in Seq(Packet)
      BY <1>3, <2>3, PutLast
    <3> QED BY <1>1, <2>1, <3>1 DEF SocketState
  <2>6. /\ c \in Connection /\ c.open = net[s].open /\ c.fin = net[s].fin /\ c.broken = net[s].broken
        /\ c.shut = net[s].shut /\ c.wire = net[s].wire /\ c.sent = net[s].sent
        /\ c.read = net[s].read + m
    <3>1. net[s].read + m \in Nat
      BY <1>4, <2>2
    <3> QED BY <1>1, <3>1 DEF Connection
  <2> HIDE DEF j, c
  <2>7. c.read <= c.sent
    BY <1>4, <2>2, <2>6 DEF Inbox
  <2>8. ((returned[s] \o Bytes(k.Rx)) \o p) \o Bytes(j.Packets) = [i \in 1..c.read |-> i]
    <3>1. returned[s] \o Bytes(k.Rx) \in Seq(Byte)
      BY <1>5, PutTogether
    <3>2. returned[s] \o Bytes(k.Rx) = [i \in 1..net[s].read |-> i]
      <4>1. (returned[s] \o Bytes(k.Rx)) \o <<>> = returned[s] \o Bytes(k.Rx)
        BY <3>1, NothingAdded
      <4>2. Bytes(k.Packets) = <<>>
        BY <2>1, NoBytes
      <4> QED BY <1>5, <4>1, <4>2
    <3>3. ((returned[s] \o Bytes(k.Rx)) \o p) = [i \in 1..(net[s].read + m) |-> i]
      BY <2>3, <3>2
    <3>4. [i \in 1..(net[s].read + m) |-> i] \o <<>> = [i \in 1..(net[s].read + m) |-> i]
      BY <2>3, NothingAdded
    <3> QED BY <2>5, <2>6, <3>3, <3>4, NoBytes
  <2>9. Total(k.Rx) + Len(p) <= RxLimit
    <3>1. \A x, y, z, u \in Nat : x + y <= u /\ z <= y => x + z <= u
      OBVIOUS
    <3> QED BY <1>3, <2>2, <2>3, <3>1
  <2> QED BY <1>11, <2>3, <2>4, <2>5, <2>6, <2>7, <2>8, <2>9
<1>13. CASE ~stops /\ answer = "Packet" /\ sk' = [sk EXCEPT ![s] = ReadPacket(@)] /\ UNCHANGED <<net, th>>
  <2>1. k.Packets # <<>> /\ room # 0
    BY <1>13 DEF InternalRead, IsLost
  <2>2. PICK b \in Byte : k.Packets = <<<<b>>>>
    BY <1>1, <2>1 DEF PairInv, BackInv
  <2> DEFINE p == <<b>>
             j == [k EXCEPT !.Rx = AppendBytes(k.Rx, p), !.Packets = <<>>]
  <2>3. p \in Packet /\ Len(p) = 1
    BY DEF Packet
  <2>4. Head(k.Packets) = p /\ Tail(k.Packets) = <<>>
    BY <2>2
  <2>5. Bytes(k.Packets) = p
    BY <2>2, <2>3, OnePacket
  <2> HIDE DEF p
  <2>6. sk' = [sk EXCEPT ![s] = j]
    BY <1>13, <2>4 DEF ReadPacket
  <2>7. /\ j \in SocketState /\ j.Rx = AppendBytes(k.Rx, p) /\ j.Packets = <<>>
        /\ j.attached = k.attached /\ j.RxEvent = k.RxEvent /\ j.BreakRead = k.BreakRead
        /\ j.Disconnected = k.Disconnected /\ j.Tx = k.Tx
    <3>1. AppendBytes(k.Rx, p) \in Seq(Packet)
      BY <1>3, <2>3, PutLast
    <3>2. <<>> \in Seq(Packet)
      OBVIOUS
    <3> QED BY <1>1, <3>1, <3>2 DEF SocketState
  <2> HIDE DEF j
  <2>8. ((returned[s] \o Bytes(k.Rx)) \o p) \o Bytes(j.Packets) = [i \in 1..net[s].read |-> i]
    <3>1. [i \in 1..net[s].read |-> i] \in Seq(Byte)
      BY <1>4, NumberedBytes
    <3>2. [i \in 1..net[s].read |-> i] \o <<>> = [i \in 1..net[s].read |-> i]
      BY <3>1, NothingAdded
    <3> QED BY <1>5, <2>5, <2>7, <3>2, NoBytes
  <2>9. Total(k.Rx) + Len(p) <= RxLimit
    BY <1>3, <2>1, <2>3
  <2>10. net' = [net EXCEPT ![s] = net[s]] /\ UNCHANGED th
    BY <1>1, <1>13 DEF NetType
  <2> QED BY <1>1, <1>4, <1>11, <2>3, <2>6, <2>7, <2>8, <2>9, <2>10
<1>14. CASE ~stops /\ answer = "Error" /\ sk' = [sk EXCEPT ![s] = Fails(@)] /\ Ends(t, FALSE, "Error") /\ UNCHANGED net
  <2> DEFINE j == Fails(k)
  <2>1. /\ j \in SocketState /\ j.Tx = k.Tx /\ j.attached = k.attached /\ j.RxEvent = k.RxEvent
        /\ j.BreakRead = k.BreakRead /\ j.Disconnected = k.Disconnected
        /\ j.Rx = k.Rx /\ j.Packets = k.Packets
    BY <1>1 DEF Fails, SocketState
  <2>2. sk' = [sk EXCEPT ![s] = j]
    BY <1>14
  <2> HIDE DEF j
  <2>3. SkType' /\ sk'[s] = j /\ \A r \in Socket \ {s} : sk'[r] = sk[r]
    BY <1>1, <2>1, <2>2 DEF SkType
  <2>4. NetType' /\ net' = net /\ "Error" \in Reasons
    BY <1>1, <1>14 DEF NetType, Reasons
  <2>5. /\ ThType' /\ Others(t) /\ th'[t].pc = "Done" /\ th'[t].s = s /\ th'[t].call = th[t].call
        /\ th'[t].hand = <<>> /\ th'[t].why = "Error"
    BY <1>1, <1>14, <2>4, EndsFacts
  <2>6. t = "closer" => Len(net[s].wire) >= due[s]
    <3> SUFFICES ASSUME t = "closer" PROVE net[s].broken
      BY <1>1, NothingDue
    <3>1. ~net[s].open \/ net[s].broken
      BY <1>14 DEF InternalRead, IsLost
    <3>2. C.pc = "Read"
      BY <1>1 DEF C
    <3> QED BY <1>1, <3>1, <3>2 DEF PairInv, CloserInv
  <2>7. OutputInOrder'
    <3>1. (net'[s].wire \o th'[t].hand) \o Bytes(sk'[s].Tx) = (net[s].wire \o th[t].hand) \o Bytes(sk[s].Tx)
      BY <1>1, <2>1, <2>3, <2>4, <2>5
    <3>2. \A r \in Socket \ {s} : sk'[r].Tx = sk[r].Tx /\ net'[r].wire = net[r].wire
      BY <2>3, <2>4
    <3> QED BY <1>1, <1>2, <2>5, <3>1, <3>2, OutputShifts
  <2>8. InputInOrder'
    BY <1>1, <1>2, <2>1, <2>3, <2>4, InputStays DEF PairInv
  <2>9. Len(net[s].wire) >= Len(net[s].wire)
    BY <1>1, LenProperties DEF Connection
  <2>10. Shifts(t)
    BY <1>1, <1>2, <1>3, <2>1, <2>3, <2>4, <2>5, <2>6, <2>7, <2>8, <2>9 DEF Shifts
  <2> QED BY <2>10, ShiftsKeeps
<1> QED BY <1>9, <1>10, <1>12, <1>13, <1>14 DEF IoRead, room

LEMMA IoKeeps ==
  ASSUME PairInv, NEW t \in Thread, IO(t)
  PROVE  PairInv'
<1>1. CASE IoLock(t)
  BY <1>1, IoLockKeeps
<1>2. CASE IoPop(t)
  BY <1>2, IoPopKeeps
<1>3. CASE IoSkipsWrite(t)
  BY <1>3, IoSkipsWriteKeeps
<1>4. CASE IoSend(t)
  BY <1>4, IoSendKeeps
<1>5. CASE IoRead(t)
  BY <1>5, IoReadKeeps
<1>6. CASE IoWait(t)
  BY <1>6, IoWaitKeeps
<1>7. CASE IoWakes(t)
  BY <1>7, IoWakesKeeps
<1>8. CASE IoTimeout(t)
  BY <1>8, IoTimeoutKeeps
<1> QED BY <1>1, <1>2, <1>3, <1>4, <1>5, <1>6, <1>7, <1>8 DEF IO

-----------------------------------------------------------------------------
(* The reader, outside IO *)

Awake == {"Out", "Done", "Check", "Select"}
ReaderMoves ==
  /\ R.pc \in Awake /\ th'["reader"].pc \in {"Out", "Lock", "Check", "Select"}
  /\ ThType' /\ th'["closer"] = th["closer"]
  /\ th'["reader"].call # "Flush" /\ th'["reader"].hand = <<>>
  /\ UNCHANGED <<net, writer, pairVars, written>>
  /\ SkType' /\ OwnerType' /\ RxInv' /\ InputInOrder'
  /\ \A s \in Socket :
       /\ sk'[s].attached = sk[s].attached /\ sk'[s].RxEvent = sk[s].RxEvent
       /\ sk'[s].eventfd = sk[s].eventfd /\ sk'[s].out = sk[s].out
       /\ sk'[s].Tx = sk[s].Tx /\ sk'[s].Packets = sk[s].Packets
       /\ sk'[s].BreakRead = "On" => sk[s].BreakRead = "On"
       /\ due'[s] \in {0, due[s]}
       /\ \/ sk'[s].Disconnected = sk[s].Disconnected
          \/ due'[s] = 0 /\ (sk'[s].Disconnected = "Fin" => net[s].fin)

LEMMA ReaderMovesKeeps ==
  ASSUME PairInv, ReaderMoves
  PROVE  PairInv'
<1>1. /\ th["reader"].pc \in Awake /\ th'["reader"].pc \in {"Out", "Lock", "Check", "Select"}
      /\ th'["closer"] = th["closer"] /\ th'["reader"].call # "Flush" /\ th'["reader"].hand = <<>>
      /\ th["reader"].pc \notin InIO /\ th'["reader"].pc \notin InIO
  BY DEF ReaderMoves, R, Awake, InIO
<1>2. /\ net' = net /\ writer' = writer /\ exitEvent' = exitEvent /\ closeEvent' = closeEvent
      /\ ClosePending' = ClosePending /\ late' = late /\ written' = written
  BY DEF ReaderMoves, pairVars
<1>3. \A s \in Socket :
        /\ sk'[s].attached = sk[s].attached /\ sk'[s].RxEvent = sk[s].RxEvent
        /\ sk'[s].eventfd = sk[s].eventfd /\ sk'[s].out = sk[s].out
        /\ sk'[s].Tx = sk[s].Tx /\ sk'[s].Packets = sk[s].Packets
  BY DEF ReaderMoves
<1>4. \A s \in Socket :
        /\ sk'[s].BreakRead = "On" => sk[s].BreakRead = "On"
        /\ due'[s] \in {0, due[s]}
        /\ \/ sk'[s].Disconnected = sk[s].Disconnected
           \/ due'[s] = 0 /\ (sk'[s].Disconnected = "Fin" => net[s].fin)
  BY DEF ReaderMoves
<1>5. ThType' /\ SkType' /\ OwnerType' /\ RxInv' /\ InputInOrder'
  BY DEF ReaderMoves
<1>6. NetType' /\ WriterType' /\ FlagType'
  BY <1>2 DEF PairInv, NetType, WriterType, FlagType
<1>7. \A t \in Thread : t = "reader" \/ (t = "closer" /\ th'[t] = th[t])
  BY <1>1 DEF Thread
<1>8. LockInv'
  BY <1>1, <1>7 DEF PairInv, LockInv
<1>9. \A t \in Thread : th'[t].pc \in InIO => th[t].pc \in InIO /\ th'[t] = th[t]
  BY <1>1, <1>7
<1>10. {"Send", "More", "Epoll"} \subseteq InIO /\ \A t \in Thread : th[t].s \in Socket
  BY DEF InIO, PairInv, ThType, ThreadState
<1>11. TxInv'
  BY <1>2, <1>3, <1>9, <1>10 DEF PairInv, TxInv, WriterType
<1>12. HandInv'
  BY <1>1, <1>7, <1>10 DEF PairInv, HandInv
<1>13. OutputInOrder'
  <2>1. \A s \in Socket : Hand(s)' = Hand(s)
    BY <1>1, <1>7, <1>8, <1>10, HandKept DEF PairInv
  <2> QED BY <1>2, <1>3, <2>1 DEF PairInv, OutputInOrder
<1>14. BackInv'
  BY <1>3 DEF PairInv, BackInv
<1>15. WaitIsCovered'
  <2> SUFFICES ASSUME NEW u \in Thread, th'[u].pc = "Epoll", ~sk'[th'[u].s].eventfd
        PROVE  /\ ~exitEvent' /\ ~closeEvent' /\ sk'[th'[u].s].BreakRead # "On"
               /\ sk'[th'[u].s].Tx # <<>> => sk'[th'[u].s].out \/ (writer'.pc = "Signal" /\ writer'.s = th'[u].s)
    BY DEF WaitIsCovered, EventIsSet, IsAborted
  <2>1. th'[u] = th[u] /\ th[u].s \in Socket
    BY <1>9, <1>10
  <2> QED BY <1>2, <1>3, <1>4, <2>1 DEF PairInv, WaitIsCovered, EventIsSet, IsAborted
<1>16. FinInv'
  BY <1>2, <1>4 DEF PairInv, FinInv
<1>17. DrainInv'
  BY <1>1 DEF DrainInv, R
<1>18. CloserInv'
  BY <1>1, <1>2, <1>3 DEF PairInv, CloserInv, R, C
<1>19. DueInv'
  BY <1>1, <1>2, <1>3, <1>4 DEF PairInv, DueInv, C
<1>20. FlushInv'
  <2>1. \A s \in Socket : Len(net[s].wire) \in Nat /\ due[s] \in Nat
    <3>1. \A s \in Socket : net[s].wire \in Seq(Byte)
      BY DEF PairInv, NetType, Connection
    <3> QED BY <3>1, LenProperties DEF PairInv, OwnerType
  <2>2. \A s \in Socket : Len(net[s].wire) >= due[s] => Len(net'[s].wire) >= due'[s]
    BY <1>2, <1>4, <2>1
  <2> QED BY <1>1, <1>2, <2>2 DEF PairInv, FlushInv, ToFlush, C
<1> QED BY <1>5, <1>6, <1>8, <1>11, <1>12, <1>13, <1>14, <1>15, <1>16, <1>17, <1>18, <1>19, <1>20 DEF PairInv

(* The reader goes where it goes, and the sockets stay as they are. *)
LEMMA ReaderGoes ==
  ASSUME PairInv, R.pc \in Awake, NEW e \in ThreadState, th' = [th EXCEPT !["reader"] = e],
         e.pc \in {"Out", "Lock", "Check", "Select"}, e.call # "Flush", e.hand = <<>>,
         UNCHANGED <<sk, net, writer, pairVars, ownerVars>>
  PROVE  PairInv'
<1>1. ThType' /\ th'["reader"] = e /\ th'["closer"] = th["closer"]
  BY DEF PairInv, ThType, Thread
<1>2. /\ sk' = sk /\ net' = net /\ returned' = returned /\ written' = written /\ due' = due
  BY DEF ownerVars
<1>3. SkType' /\ OwnerType' /\ RxInv' /\ InputInOrder'
  BY <1>2 DEF PairInv, SkType, OwnerType, RxInv, InputInOrder
<1>4. ReaderMoves
  BY <1>1, <1>2, <1>3 DEF ReaderMoves
<1> QED BY <1>4, ReaderMovesKeeps

LEMMA ReturnsFacts ==
  Resting \in ThreadState /\ Resting.pc = "Out" /\ Resting.call # "Flush" /\ Resting.hand = <<>>
<1>1. <<>> \in Seq(Byte)
  OBVIOUS
<1> QED BY <1>1 DEF Resting, ThreadState, Socket

LEMMA ReaderReturns ==
  ASSUME PairInv, R.pc \in Awake, Returns, UNCHANGED <<sk, net, writer, pairVars, ownerVars>>
  PROVE  PairInv'
BY ReturnsFacts, ReaderGoes DEF Returns

LEMMA ReaderState ==
  ASSUME PairInv
  PROVE  /\ R \in ThreadState /\ R.call # "Flush" /\ R.s \in Socket
         /\ R.pc \notin InIO => R.hand = <<>>
<1>1. "reader" \in Thread /\ "Send" \in InIO
  BY DEF Thread, InIO
<1> QED BY <1>1 DEF PairInv, ThType, ThreadState, HandInv, CloserInv, R

LEMMA TriesFacts ==
  ASSUME PairInv, R.pc \in Awake, NEW s \in Socket, Tries(s)
  PROVE  \E e \in ThreadState :
           /\ th' = [th EXCEPT !["reader"] = e]
           /\ e.pc = "Lock" /\ e.call # "Flush" /\ e.hand = <<>>
<1> DEFINE e == [R EXCEPT !.pc = "Lock", !.s = s, !.ok = TRUE, !.why = "None"]
<1>1. R \in ThreadState /\ R.call # "Flush" /\ R.hand = <<>>
  BY ReaderState DEF Awake, InIO
<1>2. e \in ThreadState /\ e.pc = "Lock" /\ e.call # "Flush" /\ e.hand = <<>>
  BY <1>1 DEF ThreadState
<1>3. th' = [th EXCEPT !["reader"] = e]
  BY DEF Tries, R
<1> QED BY <1>2, <1>3

LEMMA CallsKeeps ==
  ASSUME PairInv, R.pc = "Out", NEW s \in Socket, NEW call \in {"Both", "One", "Socket"},
         NEW forever \in BOOLEAN, Calls(s, call, forever), UNCHANGED <<sk, net, writer, pairVars, ownerVars>>
  PROVE  PairInv'
<1> DEFINE e == [Resting EXCEPT !.pc = "Lock", !.s = s, !.call = call, !.forever = forever]
<1>1. <<>> \in Seq(Byte)
  OBVIOUS
<1>2. e \in ThreadState /\ e.pc = "Lock" /\ e.call # "Flush" /\ e.hand = <<>>
  BY <1>1 DEF Resting, ThreadState
<1>3. th' = [th EXCEPT !["reader"] = e]
  BY DEF Calls
<1> HIDE DEF e
<1> QED BY <1>2, <1>3, ReaderGoes DEF Awake

LEMMA StartReadKeeps ==
  ASSUME PairInv, NEW forever \in BOOLEAN,
         StartRead(forever) \/ \E s \in Socket : StartSocketRead(s, forever)
  PROVE  PairInv'
<1>1. R.pc = "Out" /\ UNCHANGED <<sk, net, writer, pairVars, ownerVars>>
  BY DEF StartRead, StartSocketRead
<1>2. \/ Returns
      \/ \E s \in Socket, call \in {"Both", "One", "Socket"} : Calls(s, call, forever)
  <2>1. ASSUME NEW s \in Socket, StartSocketRead(s, forever)
        PROVE  \E call \in {"Both", "One", "Socket"} : Calls(s, call, forever)
    BY <2>1 DEF StartSocketRead
  <2>2. ASSUME StartRead(forever)
        PROVE  Returns \/ Calls("Client", "Both", forever) \/ \E s \in Socket : Calls(s, "One", forever)
    BY <2>2 DEF StartRead, Valid
  <2>3. "Client" \in Socket
    BY DEF Socket
  <2> QED BY <2>1, <2>2, <2>3
<1>3. CASE Returns
  BY <1>1, <1>3, ReaderReturns DEF Awake
<1>4. CASE \E s \in Socket, call \in {"Both", "One", "Socket"} : Calls(s, call, forever)
  BY <1>1, <1>4, CallsKeeps
<1> QED BY <1>2, <1>3, <1>4

(* What the reader takes leaves RxQueue at its front. *)
LEMMA AfterIOKeeps ==
  ASSUME PairInv, AfterIO
  PROVE  PairInv'
<1> DEFINE s == R.s
           q == Received(s)
<1>1. /\ R.pc = "Done" /\ R.pc \in Awake /\ s \in Socket /\ R \in ThreadState
      /\ R.call # "Flush" /\ R.hand = <<>> /\ "reader" \in Thread
  BY ReaderState DEF AfterIO, Awake, InIO, Thread
<1>2. /\ UNCHANGED <<net, writer, pairVars, written, due>> /\ net' = net /\ written' = written /\ due' = due
  BY DEF AfterIO
<1>3. CASE /\ TakesData /\ q # <<>>
           /\ returned' = [returned EXCEPT ![s] = @ \o PopFirst(q).packet]
           /\ sk' = [sk EXCEPT ![s].Rx = PopFirst(q).queue]
           /\ Returns
  <2> DEFINE k == [sk[s] EXCEPT !.Rx = Tail(q)]
             p == Head(q)
  <2>1. sk[s] \in SocketState /\ sk[s].Rx \in Seq(Packet) /\ returned[s] \in Seq(Byte) /\ Bytes(sk[s].Rx) \in Seq(Byte)
    <3>1. sk[s] \in SocketState /\ returned[s] \in Seq(Byte)
      BY <1>1 DEF PairInv, SkType, OwnerType
    <3> QED BY <3>1, PacketsAreBytes DEF SocketState
  <2>2. q \in Seq(Packet) /\ Bytes(q) = Bytes(sk[s].Rx)
    BY <2>1, JoinKeeps DEF Received
  <2>3. /\ p \in Packet /\ Tail(q) \in Seq(Packet) /\ Bytes(sk[s].Rx) = p \o Bytes(Tail(q))
        /\ Total(q) = Len(p) + Total(Tail(q))
    BY <1>3, <2>2, FirstPacket
  <2>4. p \in Seq(Byte) /\ Bytes(Tail(q)) \in Seq(Byte) /\ Len(p) \in Nat /\ Total(Tail(q)) \in Nat
    <3>1. p \in Seq(Byte)
      BY <2>3 DEF Packet
    <3> QED BY <2>3, <3>1, PacketsAreBytes, LenProperties
  <2>5. Total(Tail(q)) <= RxLimit
    <3>1. Total(q) <= RxLimit /\ RxLimit \in Nat
      BY <1>1, <2>2, SizesAssumption DEF PairInv, RxInv, Total
    <3> QED BY <2>3, <2>4, <3>1
  <2> HIDE DEF q
  <2>6. /\ k \in SocketState /\ k.Rx = Tail(q) /\ k.Tx = sk[s].Tx /\ k.Packets = sk[s].Packets
        /\ k.attached = sk[s].attached /\ k.RxEvent = sk[s].RxEvent /\ k.eventfd = sk[s].eventfd
        /\ k.out = sk[s].out /\ k.BreakRead = sk[s].BreakRead /\ k.Disconnected = sk[s].Disconnected
    BY <2>1, <2>3 DEF SocketState
  <2>7. sk' = [sk EXCEPT ![s] = k] /\ returned' = [returned EXCEPT ![s] = returned[s] \o p]
    BY <1>3 DEF PopFirst
  <2> HIDE DEF k, p
  <2>8. SkType' /\ sk'[s] = k /\ \A r \in Socket \ {s} : sk'[r] = sk[r]
    BY <1>1, <2>6, <2>7 DEF PairInv, SkType
  <2>9. OwnerType' /\ returned'[s] = returned[s] \o p /\ \A r \in Socket \ {s} : returned'[r] = returned[r]
    <3>1. returned[s] \o p \in Seq(Byte)
      BY <2>1, <2>4, PutTogether
    <3> QED BY <1>1, <1>2, <2>7, <3>1 DEF PairInv, OwnerType
  <2>10. RxInv'
    BY <2>5, <2>6, <2>8 DEF PairInv, RxInv
  <2>11. InputInOrder'
    <3>1. (returned[s] \o p) \o Bytes(Tail(q)) = returned[s] \o (p \o Bytes(Tail(q)))
      BY <2>1, <2>4, Associated
    <3>2. (returned'[s] \o Bytes(sk'[s].Rx)) \o Bytes(sk'[s].Packets) = [i \in 1..net'[s].read |-> i]
      <4>1. (returned[s] \o Bytes(sk[s].Rx)) \o Bytes(sk[s].Packets) = [i \in 1..net[s].read |-> i]
        BY <1>1 DEF PairInv, InputInOrder
      <4>2. (returned[s] \o p) \o Bytes(Tail(q)) = returned[s] \o Bytes(sk[s].Rx)
        BY <2>3, <3>1
      <4> QED BY <1>2, <2>6, <2>8, <2>9, <4>1, <4>2
    <3>3. \A r \in Socket \ {s} :
            (returned'[r] \o Bytes(sk'[r].Rx)) \o Bytes(sk'[r].Packets) = [i \in 1..net'[r].read |-> i]
      BY <1>2, <2>8, <2>9 DEF PairInv, InputInOrder
    <3> QED BY <3>2, <3>3 DEF InputInOrder
  <2>12. ThType' /\ th'["reader"] = Resting /\ th'["closer"] = th["closer"]
    BY <1>3, ReturnsFacts DEF Returns, PairInv, ThType, Thread
  <2>13. ReaderMoves
    BY <1>1, <1>2, <2>6, <2>8, <2>9, <2>10, <2>11, <2>12, ReturnsFacts DEF ReaderMoves
  <2> QED BY <2>13, ReaderMovesKeeps
<1>4. CASE UNCHANGED <<returned, sk>> /\ (Returns \/ Tries("Server") \/ Goes("reader", "Check"))
  <2>1. UNCHANGED <<sk, net, writer, pairVars, ownerVars>>
    BY <1>2, <1>4 DEF ownerVars
  <2>2. CASE Returns
    BY <1>1, <2>1, <2>2, ReaderReturns
  <2>3. CASE Tries("Server")
    BY <1>1, <2>1, <2>3, TriesFacts, ReaderGoes DEF Socket
  <2>4. CASE Goes("reader", "Check")
    <3> DEFINE e == [R EXCEPT !.pc = "Check"]
    <3>1. e \in ThreadState /\ e.pc = "Check" /\ e.call # "Flush" /\ e.hand = <<>>
      BY <1>1 DEF ThreadState
    <3>2. th' = [th EXCEPT !["reader"] = e]
      BY <2>4 DEF Goes, R
    <3> HIDE DEF e
    <3> QED BY <1>1, <2>1, <3>1, <3>2, ReaderGoes
  <2> QED BY <1>4, <2>2, <2>3, <2>4
<1>5. \/ /\ TakesData /\ q # <<>>
         /\ returned' = [returned EXCEPT ![s] = @ \o PopFirst(q).packet]
         /\ sk' = [sk EXCEPT ![s].Rx = PopFirst(q).queue]
         /\ Returns
      \/ UNCHANGED <<returned, sk>> /\ (Returns \/ Tries("Server") \/ Goes("reader", "Check"))
  <2>1. s = "Client" \/ s = "Server"
    BY <1>1 DEF Socket
  <2>2. R.ok \in BOOLEAN
    BY <1>1 DEF ThreadState
  <2> QED BY <2>1, <2>2 DEF AfterIO
<1> QED BY <1>3, <1>4, <1>5

LEMMA CheckKeeps ==
  ASSUME PairInv, Check
  PROVE  PairInv'
<1>1. R.pc = "Check" /\ R.pc \in Awake /\ UNCHANGED <<sk, net, writer, pairVars, ownerVars>>
  BY DEF Check, Awake
<1>2. CASE Returns
  BY <1>1, <1>2, ReaderReturns
<1>3. CASE th' = [th EXCEPT !["reader"] = [@ EXCEPT !.pc = "Select", !.rounds = R.rounds + 1]]
  <2> DEFINE e == [R EXCEPT !.pc = "Select", !.rounds = R.rounds + 1]
  <2>1. R \in ThreadState /\ R.call # "Flush" /\ R.hand = <<>>
    BY <1>1, ReaderState DEF InIO
  <2>2. e \in ThreadState /\ e.pc = "Select" /\ e.call # "Flush" /\ e.hand = <<>>
    <3>1. R.rounds + 1 \in Nat
      BY <2>1 DEF ThreadState
    <3> QED BY <2>1, <3>1 DEF ThreadState
  <2>3. th' = [th EXCEPT !["reader"] = e]
    BY <1>3 DEF R
  <2> HIDE DEF e
  <2> QED BY <1>1, <2>2, <2>3, ReaderGoes
<1> QED BY <1>2, <1>3 DEF Check

(* The wait for both sockets ends with what one of them is. *)
LEMMA SelectKeeps ==
  ASSUME PairInv, R.pc = "Select", NEW s \in Socket, NEW k \in SocketState, sk' = [sk EXCEPT ![s] = k],
         k.Rx = sk[s].Rx, k.Tx = sk[s].Tx, k.Packets = sk[s].Packets, k.eventfd = sk[s].eventfd,
         k.attached = sk[s].attached, k.RxEvent = sk[s].RxEvent, k.out = sk[s].out,
         k.BreakRead = "On" => sk[s].BreakRead = "On", due' = due \/ Spares(s),
         \/ k.Disconnected = sk[s].Disconnected
         \/ due'[s] = 0 /\ (k.Disconnected = "Fin" => net[s].fin),
         NEW e \in ThreadState, th' = [th EXCEPT !["reader"] = e],
         e.pc \in {"Out", "Lock"}, e.call # "Flush", e.hand = <<>>,
         UNCHANGED <<net, writer, pairVars, returned, written>>
  PROVE  PairInv'
<1>1. ThType' /\ th'["reader"] = e /\ th'["closer"] = th["closer"]
  BY DEF PairInv, ThType, Thread
<1>2. SkType' /\ sk'[s] = k /\ \A r \in Socket \ {s} : sk'[r] = sk[r]
  BY DEF PairInv, SkType
<1>3. OwnerType' /\ \A r \in Socket : due'[r] \in {0, due[r]}
  <2>1. due \in [Socket -> Nat] /\ \A r \in Socket : due[r] <= written[r] /\ written[r] \in Nat
    BY DEF PairInv, OwnerType
  <2>2. due' \in [Socket -> Nat] /\ \A r \in Socket : due'[r] \in {0, due[r]}
    <3>1. CASE due' = due
      BY <2>1, <3>1
    <3>2. CASE due' = [due EXCEPT ![s] = 0]
      BY <2>1, <3>2
    <3> QED BY <3>1, <3>2 DEF Spares
  <2>3. \A r \in Socket : due'[r] <= written[r]
    BY <2>1, <2>2
  <2> QED BY <2>2, <2>3 DEF PairInv, OwnerType
<1>4. RxInv'
  BY <1>2 DEF PairInv, RxInv
<1>5. InputInOrder'
  BY <1>2, InputStays DEF PairInv
<1>6. ReaderMoves
  BY <1>1, <1>2, <1>3, <1>4, <1>5 DEF ReaderMoves, Awake
<1> QED BY <1>6, ReaderMovesKeeps

LEMMA SelectBreakKeeps ==
  ASSUME PairInv, NEW s \in Socket, SelectBreak(s)
  PROVE  PairInv'
<1> DEFINE k == [sk[s] EXCEPT !.BreakRead = "Off"]
<1>1. /\ k \in SocketState /\ k.Rx = sk[s].Rx /\ k.Tx = sk[s].Tx /\ k.Packets = sk[s].Packets
      /\ k.eventfd = sk[s].eventfd /\ k.attached = sk[s].attached /\ k.RxEvent = sk[s].RxEvent
      /\ k.out = sk[s].out /\ k.BreakRead = "Off" /\ k.Disconnected = sk[s].Disconnected
  BY DEF PairInv, SkType, SocketState
<1>2. sk' = [sk EXCEPT ![s] = k] /\ th' = [th EXCEPT !["reader"] = Resting] /\ R.pc = "Select"
  BY DEF SelectBreak, Returns
<1>3. UNCHANGED <<net, writer, pairVars, returned, written>> /\ due' = due
  BY DEF SelectBreak, ownerVars
<1> HIDE DEF k
<1> QED BY <1>1, <1>2, <1>3, ReturnsFacts, SelectKeeps

LEMMA SelectSocketKeeps ==
  ASSUME PairInv, NEW s \in Socket, SelectSocket(s)
  PROVE  PairInv'
<1>1. PICK end \in {sk[s].Disconnected, Noted(s)} :
        sk' = [sk EXCEPT ![s].Disconnected = IF GivesUp /\ end = "No" THEN "Tired" ELSE end]
  BY DEF SelectSocket
<1> DEFINE d == IF GivesUp /\ end = "No" THEN "Tired" ELSE end
           k == [sk[s] EXCEPT !.Disconnected = d]
<1>2. sk[s] \in SocketState /\ R.pc = "Select" /\ R.pc \in Awake
  BY DEF PairInv, SkType, SelectSocket, Awake
<1>3. /\ end \in {"No", "Fin", "Tired"}
      /\ end = sk[s].Disconnected \/ (end = "Fin" /\ net[s].fin)
  BY <1>2 DEF Noted, SocketState
<1>4. d \in {"No", "Fin", "Tired"} /\ (d = end \/ (GivesUp /\ d = "Tired"))
  BY <1>3
<1> HIDE DEF d
<1>5. /\ k \in SocketState /\ k.Rx = sk[s].Rx /\ k.Tx = sk[s].Tx /\ k.Packets = sk[s].Packets
      /\ k.eventfd = sk[s].eventfd /\ k.attached = sk[s].attached /\ k.RxEvent = sk[s].RxEvent
      /\ k.out = sk[s].out /\ k.BreakRead = sk[s].BreakRead /\ k.Disconnected = d
  BY <1>2, <1>4 DEF SocketState
<1>6. sk' = [sk EXCEPT ![s] = k]
  BY <1>1 DEF d
<1> HIDE DEF k
<1>7. /\ UNCHANGED <<net, writer, pairVars, returned, written>> /\ (due' = due \/ Spares(s))
      /\ (GivesUp => Spares(s))
  BY DEF SelectSocket
<1>8. Spares(s) => due'[s] = 0
  BY DEF Spares, PairInv, OwnerType
<1>9. net[s].fin => due'[s] = 0
  <2>1. net[s].fin => due[s] = 0
    BY NothingDue
  <2> QED BY <1>7, <1>8, <2>1
<1>10. k.Disconnected = sk[s].Disconnected \/ (due'[s] = 0 /\ (k.Disconnected = "Fin" => net[s].fin))
  BY <1>3, <1>4, <1>5, <1>7, <1>8, <1>9
<1>11. PICK e \in ThreadState :
         /\ th' = [th EXCEPT !["reader"] = e]
         /\ e.pc = "Lock" /\ e.call # "Flush" /\ e.hand = <<>>
  BY <1>2, TriesFacts DEF SelectSocket, Socket
<1> QED BY <1>2, <1>5, <1>6, <1>7, <1>10, <1>11, SelectKeeps

LEMMA ReaderKeeps ==
  ASSUME PairInv, Reader
  PROVE  PairInv'
<1>1. CASE IO("reader")
  BY <1>1, IoKeeps DEF Thread
<1>2. CASE AfterIO
  BY <1>2, AfterIOKeeps
<1>3. CASE Check
  BY <1>3, CheckKeeps
<1>4. CASE SelectAborted \/ SelectTimeout
  BY <1>4, ReaderReturns DEF SelectAborted, SelectTimeout, Awake
<1>5. ASSUME NEW s \in Socket, SelectBreak(s) PROVE PairInv'
  BY <1>5, SelectBreakKeeps
<1>6. ASSUME NEW s \in Socket, SelectSocket(s) PROVE PairInv'
  BY <1>6, SelectSocketKeeps
<1> QED BY <1>1, <1>2, <1>3, <1>4, <1>5, <1>6 DEF Reader

-----------------------------------------------------------------------------
(* The writer *)

WriterMoves ==
  /\ th' = th /\ UNCHANGED <<pairVars, returned, due>>
  /\ SkType' /\ NetType' /\ WriterType' /\ OwnerType' /\ TxInv' /\ OutputInOrder'
  /\ \A s \in Socket :
       /\ sk'[s].attached = sk[s].attached /\ sk'[s].RxEvent = sk[s].RxEvent
       /\ sk'[s].BreakRead = sk[s].BreakRead /\ sk'[s].Disconnected = sk[s].Disconnected
       /\ sk'[s].out = sk[s].out /\ sk'[s].Rx = sk[s].Rx /\ sk'[s].Packets = sk[s].Packets
       /\ sk[s].eventfd => sk'[s].eventfd
       /\ ~sk'[s].eventfd /\ sk'[s].Tx # <<>> =>
            \/ writer'.pc = "Signal" /\ writer'.s = s
            \/ sk[s].Tx # <<>> /\ ~(writer.pc = "Signal" /\ writer.s = s)
       /\ net'[s].open = net[s].open /\ net'[s].fin = net[s].fin /\ net'[s].broken = net[s].broken
       /\ net'[s].shut = net[s].shut /\ net'[s].sent = net[s].sent /\ net'[s].read = net[s].read
       /\ Len(net'[s].wire) >= Len(net[s].wire)

LEMMA WriterMovesKeeps ==
  ASSUME PairInv, WriterMoves
  PROVE  PairInv'
<1>1. /\ th' = th /\ exitEvent' = exitEvent /\ closeEvent' = closeEvent
      /\ ClosePending' = ClosePending /\ late' = late /\ returned' = returned /\ due' = due
  BY DEF WriterMoves, pairVars
<1>2. \A s \in Socket :
        /\ sk'[s].attached = sk[s].attached /\ sk'[s].RxEvent = sk[s].RxEvent
        /\ sk'[s].BreakRead = sk[s].BreakRead /\ sk'[s].Disconnected = sk[s].Disconnected
        /\ sk'[s].out = sk[s].out /\ sk'[s].Rx = sk[s].Rx /\ sk'[s].Packets = sk[s].Packets
  BY DEF WriterMoves
<1>3. \A s \in Socket :
        /\ sk[s].eventfd => sk'[s].eventfd
        /\ ~sk'[s].eventfd /\ sk'[s].Tx # <<>> =>
             \/ writer'.pc = "Signal" /\ writer'.s = s
             \/ sk[s].Tx # <<>> /\ ~(writer.pc = "Signal" /\ writer.s = s)
  BY DEF WriterMoves
<1>4. \A s \in Socket :
        /\ net'[s].open = net[s].open /\ net'[s].fin = net[s].fin /\ net'[s].broken = net[s].broken
        /\ net'[s].shut = net[s].shut /\ net'[s].sent = net[s].sent /\ net'[s].read = net[s].read
  BY DEF WriterMoves
<1>5. SkType' /\ NetType' /\ WriterType' /\ OwnerType' /\ TxInv' /\ OutputInOrder'
  BY DEF WriterMoves
<1>6. ThType' /\ FlagType' /\ LockInv' /\ HandInv'
  BY <1>1 DEF PairInv, ThType, FlagType, LockInv, HandInv
<1>7. BackInv' /\ RxInv'
  <2>1. BackInv'
    BY <1>2 DEF PairInv, BackInv
  <2>2. RxInv'
    BY <1>2 DEF PairInv, RxInv
  <2> QED BY <2>1, <2>2
<1>8. InputInOrder'
  BY <1>1, <1>2, <1>4, InputStays DEF PairInv
<1>9. WaitIsCovered'
  <2> SUFFICES ASSUME NEW u \in Thread, th[u].pc = "Epoll", ~sk'[th[u].s].eventfd
        PROVE  /\ ~exitEvent /\ ~closeEvent /\ sk'[th[u].s].BreakRead # "On"
               /\ sk'[th[u].s].Tx # <<>> => sk'[th[u].s].out \/ (writer'.pc = "Signal" /\ writer'.s = th[u].s)
    BY <1>1 DEF WaitIsCovered, EventIsSet, IsAborted
  <2>1. th[u].s \in Socket
    BY DEF PairInv, ThType, ThreadState
  <2>2. ~sk[th[u].s].eventfd
    BY <1>3, <2>1
  <2> QED BY <1>2, <1>3, <2>1, <2>2 DEF PairInv, WaitIsCovered, EventIsSet, IsAborted
<1>10. FinInv'
  BY <1>2, <1>4 DEF PairInv, FinInv
<1>11. DrainInv'
  <2>1. th["reader"].s \in Socket
    BY DEF PairInv, ThType, ThreadState, Thread
  <2> QED BY <1>1, <1>2, <1>4, <2>1 DEF PairInv, DrainInv, R, C
<1>12. CloserInv'
  BY <1>1, <1>2, <1>4 DEF PairInv, CloserInv, R, C
<1>13. DueInv'
  BY <1>1, <1>2, <1>4 DEF PairInv, DueInv, C
<1>14. FlushInv'
  <2>1. \A s \in Socket : Len(net[s].wire) \in Nat /\ Len(net'[s].wire) \in Nat /\ due[s] \in Nat
    <3>1. \A s \in Socket : net[s].wire \in Seq(Byte) /\ net'[s].wire \in Seq(Byte)
      BY <1>5 DEF PairInv, NetType, Connection
    <3> QED BY <3>1, LenProperties DEF PairInv, OwnerType
  <2>2. \A s \in Socket : Len(net'[s].wire) >= Len(net[s].wire)
    BY DEF WriterMoves
  <2>3. \A s \in Socket : Len(net[s].wire) >= due[s] => Len(net'[s].wire) >= due[s]
    BY <2>1, <2>2
  <2> QED BY <1>1, <2>3 DEF PairInv, FlushInv, ToFlush, C
<1> QED BY <1>5, <1>6, <1>7, <1>8, <1>9, <1>10, <1>11, <1>12, <1>13, <1>14 DEF PairInv

LEMMA WiresStay ==
  ASSUME PairInv, NEW s \in Socket
  PROVE  Len(net[s].wire) >= Len(net[s].wire)
<1>1. net[s].wire \in Seq(Byte)
  BY DEF PairInv, NetType, Connection
<1>2. Len(net[s].wire) \in Nat
  BY <1>1, LenProperties
<1> QED BY <1>2

(* The writer goes on, and no bytes move; what it was to signal, it signals. *)
LEMMA WriterGoes ==
  ASSUME PairInv, th' = th, WriterType', TxInv', NEW s \in Socket, NEW k \in SocketState,
         sk' = [sk EXCEPT ![s] = k], UNCHANGED <<net, pairVars, ownerVars>>,
         k.Rx = sk[s].Rx, k.Tx = sk[s].Tx, k.Packets = sk[s].Packets, k.out = sk[s].out,
         k.attached = sk[s].attached, k.RxEvent = sk[s].RxEvent,
         k.BreakRead = sk[s].BreakRead, k.Disconnected = sk[s].Disconnected,
         sk[s].eventfd => k.eventfd,
         writer.pc = "Signal" => writer.s = s /\ k.eventfd
  PROVE  PairInv'
<1>1. SkType' /\ sk'[s] = k /\ \A r \in Socket \ {s} : sk'[r] = sk[r]
  BY DEF PairInv, SkType
<1>2. /\ net' = net /\ written' = written /\ returned' = returned /\ due' = due
      /\ NetType' /\ OwnerType'
  BY DEF ownerVars, PairInv, NetType, OwnerType
<1>3. \A r \in Socket :
        /\ sk'[r].attached = sk[r].attached /\ sk'[r].RxEvent = sk[r].RxEvent
        /\ sk'[r].BreakRead = sk[r].BreakRead /\ sk'[r].Disconnected = sk[r].Disconnected
        /\ sk'[r].out = sk[r].out /\ sk'[r].Rx = sk[r].Rx /\ sk'[r].Packets = sk[r].Packets
        /\ sk'[r].Tx = sk[r].Tx
  BY <1>1
<1>4. \A r \in Socket :
        /\ sk[r].eventfd => sk'[r].eventfd
        /\ ~sk'[r].eventfd /\ sk'[r].Tx # <<>> => sk[r].Tx # <<>> /\ ~(writer.pc = "Signal" /\ writer.s = r)
  BY <1>1
<1>5. OutputInOrder'
  BY <1>2, <1>3, OutputStays DEF PairInv
<1>6. WriterMoves
  BY <1>2, <1>1, <1>3, <1>4, <1>5, WiresStay DEF WriterMoves
<1> QED BY <1>6, WriterMovesKeeps

LEMMA StartWriteKeeps ==
  ASSUME PairInv, NEW s \in Sinks, NEW n \in Sizes, StartWrite(s, n)
  PROVE  PairInv'
<1>1. s \in Socket /\ n \in Nat /\ n # 0
  BY SizesAssumption, BoundsAssumption
<1>2. /\ writer.pc = "Out" /\ TxLockIsFree(s) /\ th' = th /\ sk' = sk
      /\ writer' = [pc |-> IF sk[s].Tx = <<>> THEN "Send" ELSE "Append", s |-> s, n |-> n]
      /\ UNCHANGED <<net, pairVars, ownerVars>>
  BY DEF StartWrite
<1>3. WriterType'
  BY <1>1, <1>2 DEF WriterType
<1>4. TxInv'
  BY <1>2 DEF TxInv, TxLockIsFree
<1>5. sk' = [sk EXCEPT ![s] = sk[s]] /\ sk[s] \in SocketState
  BY <1>1, <1>2 DEF PairInv, SkType
<1> QED BY <1>1, <1>2, <1>3, <1>4, <1>5, WriterGoes

LEMMA IdleFacts ==
  ASSUME writer' = Idle
  PROVE  WriterType' /\ TxInv' /\ writer'.pc = "Out"
<1>1. writer' \in [pc : {"Out", "Send", "Append", "Signal"}, s : Socket, n : Nat] /\ writer'.pc = "Out"
  BY DEF Idle, Socket
<1> QED BY <1>1 DEF WriterType, TxInv

LEMMA WriteSignalsKeeps ==
  ASSUME PairInv, WriteSignals
  PROVE  PairInv'
<1> DEFINE s == writer.s
           k == Wakes(sk[s])
<1>1. /\ s \in Socket /\ sk[s] \in SocketState
  BY DEF PairInv, SkType, WriterType
<1>2. /\ k \in SocketState /\ k.Rx = sk[s].Rx /\ k.Tx = sk[s].Tx /\ k.Packets = sk[s].Packets
      /\ k.out = sk[s].out /\ k.attached = sk[s].attached /\ k.RxEvent = sk[s].RxEvent
      /\ k.BreakRead = sk[s].BreakRead /\ k.Disconnected = sk[s].Disconnected /\ k.eventfd
  BY <1>1 DEF Wakes, SocketState
<1>3. /\ sk' = [sk EXCEPT ![s] = k] /\ th' = th /\ writer' = Idle
      /\ UNCHANGED <<net, pairVars, ownerVars>>
  BY DEF WriteSignals
<1> HIDE DEF k
<1> QED BY <1>1, <1>2, <1>3, IdleFacts, WriterGoes

(* While the writer has the TxLock nothing is in a hand. *)
LEMMA NoHand ==
  ASSUME PairInv, writer.pc # "Out"
  PROVE  writer.s \in Socket /\ Hand(writer.s) = <<>>
<1>1. writer.s \in Socket
  BY DEF PairInv, WriterType
<1>2. \A t \in Thread : ~(th[t].pc = "Send" /\ th[t].s = writer.s)
  BY DEF PairInv, TxInv
<1> QED BY <1>1, <1>2, HandNow DEF PairInv

From(w, n) == [i \in 1..n |-> w + i]

(* What is written is put behind what was there. *)
LEMMA WritesKeep ==
  ASSUME PairInv, writer.pc \in {"Send", "Append"}, th' = th, UNCHANGED <<pairVars, returned, due>>,
         NEW s, s = writer.s, NEW n \in Nat, written' = [written EXCEPT ![s] = written[s] + n],
         NEW k \in SocketState, sk' = [sk EXCEPT ![s] = k], k.Rx = sk[s].Rx, k.Packets = sk[s].Packets,
         k.out = sk[s].out, k.attached = sk[s].attached, k.RxEvent = sk[s].RxEvent,
         k.BreakRead = sk[s].BreakRead, k.Disconnected = sk[s].Disconnected, k.eventfd = sk[s].eventfd,
         NEW c \in Connection, net' = [net EXCEPT ![s] = c], c.open = net[s].open, c.fin = net[s].fin,
         c.broken = net[s].broken, c.shut = net[s].shut, c.sent = net[s].sent, c.read = net[s].read,
         Len(c.wire) >= Len(net[s].wire),
         c.wire \o Bytes(k.Tx) = (net[s].wire \o Bytes(sk[s].Tx)) \o From(written[s], n),
         WriterType', TxInv', k.Tx # <<>> => writer'.pc = "Signal" /\ writer'.s = s
  PROVE  PairInv'
<1>1. s \in Socket /\ Hand(s) = <<>>
  BY NoHand
<1>2. SkType' /\ sk'[s] = k /\ \A r \in Socket \ {s} : sk'[r] = sk[r]
  BY <1>1 DEF PairInv, SkType
<1>3. NetType' /\ net'[s] = c /\ \A r \in Socket \ {s} : net'[r] = net[r]
  BY <1>1 DEF PairInv, NetType
<1>4. written[s] \in Nat /\ written' \in [Socket -> Nat] /\ written'[s] = written[s] + n
  <2>1. written \in [Socket -> Nat] /\ written[s] \in Nat
    BY <1>1 DEF PairInv, OwnerType
  <2>2. n \in Nat
    OBVIOUS
  <2>3. written[s] + n \in Nat
    BY ONLY <2>1, <2>2, NatSums
  <2> QED BY <1>1, <2>1, <2>3
<1>5. \A r \in Socket \ {s} : written'[r] = written[r]
  BY <1>1 DEF PairInv, OwnerType
<1>6. OwnerType'
  <2>1. returned' = returned /\ due' = due
    OBVIOUS
  <2>2. due[s] \in Nat /\ due[s] <= written[s]
    BY <1>1 DEF PairInv, OwnerType
  <2>3. due[s] <= written'[s]
    <3>1. n \in Nat
      OBVIOUS
    <3> QED BY ONLY <1>4, <2>2, <3>1, NatSums
  <2> QED BY <1>4, <1>5, <2>1, <2>3 DEF PairInv, OwnerType
<1>7. OutputInOrder'
  <2>1. \A r \in Socket : Hand(r)' = Hand(r)
    BY DEF Hand
  <2>2. /\ net[s].wire \in Seq(Byte) /\ Bytes(sk[s].Tx) \in Seq(Byte) /\ c.wire \in Seq(Byte)
    <3>1. sk[s].Tx \in Seq(Packet) /\ net[s].wire \in Seq(Byte) /\ c.wire \in Seq(Byte)
      BY <1>1 DEF PairInv, SkType, SocketState, NetType, Connection
    <3> QED BY <3>1, PacketsAreBytes
  <2>3. net[s].wire \o <<>> = net[s].wire /\ c.wire \o <<>> = c.wire
    BY <2>2, NothingAdded
  <2>4. net[s].wire \o Bytes(sk[s].Tx) = [i \in 1..written[s] |-> i]
    <3>1. (net[s].wire \o Hand(s)) \o Bytes(sk[s].Tx) = [i \in 1..written[s] |-> i]
      BY <1>1 DEF PairInv, OutputInOrder
    <3> QED BY <1>1, <2>3, <3>1
  <2>5. [i \in 1..written[s] |-> i] \o [i \in 1..n |-> written[s] + i] = [i \in 1..(written[s] + n) |-> i]
    <3>1. written[s] \in Nat
      BY <1>4
    <3>2. n \in Nat
      OBVIOUS
    <3> QED BY ONLY <3>1, <3>2, NumberedBytes
  <2>6. c.wire \o Bytes(k.Tx) = [i \in 1..(written[s] + n) |-> i]
    BY <2>4, <2>5 DEF From
  <2>7. (net'[s].wire \o Hand(s)') \o Bytes(sk'[s].Tx) = [i \in 1..written'[s] |-> i]
    <3>1. Hand(s)' = <<>>
      BY <1>1, <2>1
    <3>2. net'[s].wire = c.wire /\ sk'[s].Tx = k.Tx
      BY <1>2, <1>3
    <3> QED BY <1>4, <2>3, <2>6, <3>1, <3>2
  <2>8. \A r \in Socket \ {s} :
          (net'[r].wire \o Hand(r)') \o Bytes(sk'[r].Tx) = [i \in 1..written'[r] |-> i]
    <3>1. \A r \in Socket : (net[r].wire \o Hand(r)) \o Bytes(sk[r].Tx) = [i \in 1..written[r] |-> i]
      BY DEF PairInv, OutputInOrder
    <3> QED BY ONLY <1>2, <1>3, <1>5, <2>1, <3>1
  <2> QED BY <2>7, <2>8 DEF OutputInOrder
<1>8. \A r \in Socket :
        /\ sk'[r].attached = sk[r].attached /\ sk'[r].RxEvent = sk[r].RxEvent
        /\ sk'[r].BreakRead = sk[r].BreakRead /\ sk'[r].Disconnected = sk[r].Disconnected
        /\ sk'[r].out = sk[r].out /\ sk'[r].Rx = sk[r].Rx /\ sk'[r].Packets = sk[r].Packets
        /\ sk'[r].eventfd = sk[r].eventfd
  BY <1>2
<1>9. \A r \in Socket :
        /\ net'[r].open = net[r].open /\ net'[r].fin = net[r].fin /\ net'[r].broken = net[r].broken
        /\ net'[r].shut = net[r].shut /\ net'[r].sent = net[r].sent /\ net'[r].read = net[r].read
  BY <1>3
<1>10. \A r \in Socket :
         /\ sk'[r].Tx # <<>> => (writer'.pc = "Signal" /\ writer'.s = r) \/ sk[r].Tx # <<>>
         /\ ~(writer.pc = "Signal" /\ writer.s = r)
  BY <1>2
<1>11. \A r \in Socket : Len(net'[r].wire) >= Len(net[r].wire)
  BY <1>3, WiresStay
<1>12. th' = th /\ UNCHANGED <<pairVars, returned, due>> /\ SkType' /\ NetType' /\ WriterType' /\ TxInv'
  BY <1>2, <1>3
<1>13. WriterMoves
  BY ONLY <1>12, <1>6, <1>7, <1>8, <1>9, <1>10, <1>11 DEF WriterMoves
<1> QED BY <1>13, WriterMovesKeeps

LEMMA WriteDirectlyKeeps ==
  ASSUME PairInv, WriteDirectly
  PROVE  PairInv'
<1> DEFINE s == writer.s
           n == Fits(net[s], writer.n)
<1>1. /\ writer.pc = "Send" /\ s \in Socket /\ sk[s] \in SocketState /\ net[s] \in Connection
      /\ writer \in [pc : {"Out", "Send", "Append", "Signal"}, s : Socket, n : Nat] /\ writer.n # 0
      /\ sk[s].Tx = <<>>
  BY DEF WriteDirectly, PairInv, SkType, NetType, WriterType, TxInv
<1>2. th' = th /\ UNCHANGED <<pairVars, returned, due>>
  BY DEF WriteDirectly
<1>3. CASE sk' = [sk EXCEPT ![s] = Fails(@)] /\ writer' = Idle /\ UNCHANGED <<net, written>>
  <2> DEFINE k == Fails(sk[s])
  <2>1. /\ k \in SocketState /\ k.Rx = sk[s].Rx /\ k.Tx = sk[s].Tx /\ k.Packets = sk[s].Packets
        /\ k.out = sk[s].out /\ k.attached = sk[s].attached /\ k.RxEvent = sk[s].RxEvent
        /\ k.BreakRead = sk[s].BreakRead /\ k.Disconnected = sk[s].Disconnected
        /\ k.eventfd = sk[s].eventfd
    BY <1>1 DEF Fails, SocketState
  <2>2. sk' = [sk EXCEPT ![s] = k]
    BY <1>3
  <2> HIDE DEF k
  <2>3. WriterType' /\ TxInv'
    BY <1>3, IdleFacts
  <2>4. UNCHANGED <<net, pairVars, ownerVars>>
    BY <1>2, <1>3 DEF ownerVars
  <2> QED BY <1>1, <1>2, <2>1, <2>2, <2>3, <2>4, WriterGoes
<1>4. CASE writer' = [writer EXCEPT !.pc = "Append"] /\ UNCHANGED <<sk, net, written>>
  <2>1. /\ writer' \in [pc : {"Out", "Send", "Append", "Signal"}, s : Socket, n : Nat]
        /\ writer'.pc = "Append" /\ writer'.s = s /\ writer'.n = writer.n
    BY <1>1, <1>4
  <2>2. WriterType'
    BY <1>1, <2>1 DEF WriterType
  <2>3. TxInv'
    BY <1>1, <1>2, <2>1 DEF PairInv, TxInv
  <2>4. sk' = [sk EXCEPT ![s] = sk[s]]
    BY <1>1, <1>4 DEF PairInv, SkType
  <2> QED BY <1>1, <1>2, <1>4, <2>2, <2>3, <2>4, WriterGoes DEF ownerVars
<1>5. CASE /\ net' = [net EXCEPT ![s] = SendsBytes(@, NextBytes(s, n))]
           /\ written' = [written EXCEPT ![s] = @ + n]
           /\ writer' = Idle /\ UNCHANGED sk
  <2>1. net[s].room \in Nat /\ net[s].room \in 0..Room /\ Room \in Nat /\ net[s].wire \in Seq(Byte)
    BY <1>1, SizesAssumption DEF Connection
  <2>2. n \in Nat /\ n <= net[s].room
    <3>1. n = Min({net[s].room, writer.n})
      BY DEF Fits
    <3>2. writer.n \in Nat
      BY <1>1
    <3> QED BY <2>1, <3>1, <3>2, MinOfTwo
  <2> HIDE DEF n
  <2> DEFINE p == From(written[s], n)
             c == [net[s] EXCEPT !.room = net[s].room - n, !.wire = net[s].wire \o p]
  <2>3. p \in Seq(Byte) /\ Len(p) = n
    <3>1. written[s] \in Nat
      BY <1>1 DEF PairInv, OwnerType
    <3>2. n \in Nat
      BY <2>2
    <3> QED BY ONLY <3>1, <3>2, NumberedBytes DEF From
  <2>4. net' = [net EXCEPT ![s] = c]
    BY <1>5, <2>3 DEF SendsBytes, NextBytes, From
  <2>5. written' = [written EXCEPT ![s] = written[s] + n]
    BY <1>5
  <2>6. net[s].wire \o p \in Seq(Byte) /\ Len(net[s].wire \o p) = Len(net[s].wire) + n
    <3> HIDE DEF p
    <3> QED BY <2>1, <2>3, PutTogether
  <2>7. c.wire = net[s].wire \o p
    BY <1>1 DEF Connection
  <2> DEFINE w == net[s].wire \o p
  <2>8. /\ c \in Connection /\ c.open = net[s].open /\ c.fin = net[s].fin /\ c.broken = net[s].broken
        /\ c.shut = net[s].shut /\ c.sent = net[s].sent /\ c.read = net[s].read
    <3>1. net[s].room - n \in 0..Room
      BY <2>1, <2>2
    <3>2. w \in Seq(Byte) /\ c = [net[s] EXCEPT !.room = net[s].room - n, !.wire = w]
      BY <2>6
    <3> HIDE DEF c, w
    <3> QED BY <1>1, <3>1, <3>2 DEF Connection
  <2> HIDE DEF c, w
  <2>9. Len(c.wire) >= Len(net[s].wire)
    <3>1. Len(net[s].wire) \in Nat
      BY <2>1, LenProperties
    <3>2. Len(c.wire) = Len(net[s].wire) + n
      BY <2>6, <2>7
    <3>3. \A x, y \in Nat : x + y >= x
      OBVIOUS
    <3> QED BY ONLY <2>2, <3>1, <3>2, <3>3
  <2>10. c.wire \o Bytes(sk[s].Tx) = (net[s].wire \o Bytes(sk[s].Tx)) \o p
    <3> HIDE DEF p
    <3>1. net[s].wire \o <<>> = net[s].wire
      BY <2>1, NothingAdded
    <3>2. (net[s].wire \o p) \o <<>> = net[s].wire \o p
      BY <2>6, NothingAdded
    <3> QED BY <1>1, <2>7, <3>1, <3>2, NoBytes
  <2>11. sk' = [sk EXCEPT ![s] = sk[s]]
    BY <1>1, <1>5 DEF PairInv, SkType
  <2>12. WriterType' /\ TxInv'
    BY <1>5, IdleFacts
  <2> HIDE DEF p, s
  <2> QED BY <1>1, <1>2, <2>2, <2>4, <2>5, <2>8, <2>9, <2>10, <2>11, <2>12, WritesKeep DEF p, s
<1> QED BY <1>3, <1>4, <1>5 DEF WriteDirectly

LEMMA WriteAppendsKeeps ==
  ASSUME PairInv, WriteAppends
  PROVE  PairInv'
<1> DEFINE s == writer.s
           n == writer.n
           p == From(written[s], n)
           k == [sk[s] EXCEPT !.Tx = AppendBytes(sk[s].Tx, p)]
<1>1. /\ writer.pc = "Append" /\ s \in Socket /\ sk[s] \in SocketState /\ net[s] \in Connection
      /\ writer \in [pc : {"Out", "Send", "Append", "Signal"}, s : Socket, n : Nat]
      /\ n \in Nat /\ n # 0 /\ written[s] \in Nat
  BY DEF WriteAppends, PairInv, SkType, NetType, WriterType, OwnerType
<1>2. th' = th /\ UNCHANGED <<pairVars, returned, due>> /\ net' = net
  BY DEF WriteAppends
<1>3. p \in Packet
  <2>1. p \in Seq(Byte) /\ Len(p) = n
    <3>1. written[s] \in Nat
      BY <1>1
    <3>2. n \in Nat
      BY <1>1
    <3> HIDE DEF s, n
    <3> QED BY ONLY <3>1, <3>2, NumberedBytes DEF From
  <2> QED BY <1>1, <2>1, EmptySeq DEF Packet
<1>4. sk[s].Tx \in Seq(Packet) /\ net[s].wire \in Seq(Byte)
  BY <1>1 DEF SocketState, Connection
<1>5. sk' = [sk EXCEPT ![s] = k] /\ written' = [written EXCEPT ![s] = written[s] + n]
  BY DEF WriteAppends, NextBytes, From
<1>6. /\ AppendBytes(sk[s].Tx, p) \in Seq(Packet)
      /\ Bytes(AppendBytes(sk[s].Tx, p)) = Bytes(sk[s].Tx) \o p
  <2> HIDE DEF p
  <2> QED BY <1>3, <1>4, PutLast
<1>7. net[s].wire \o (Bytes(sk[s].Tx) \o p) = (net[s].wire \o Bytes(sk[s].Tx)) \o p
  <2>1. Bytes(sk[s].Tx) \in Seq(Byte) /\ p \in Seq(Byte)
    BY <1>3, <1>4, PacketsAreBytes DEF Packet
  <2> HIDE DEF p
  <2> QED BY <1>4, <2>1, Associated
<1>8. k \in SocketState /\ k.Tx = AppendBytes(sk[s].Tx, p)
  <2> HIDE DEF p
  <2> QED BY <1>1, <1>6 DEF SocketState
<1>9. /\ k.Rx = sk[s].Rx /\ k.Packets = sk[s].Packets
      /\ k.out = sk[s].out /\ k.attached = sk[s].attached /\ k.RxEvent = sk[s].RxEvent
      /\ k.BreakRead = sk[s].BreakRead /\ k.Disconnected = sk[s].Disconnected
      /\ k.eventfd = sk[s].eventfd
  <2> HIDE DEF p
  <2> QED BY <1>1 DEF SocketState
<1>10. /\ writer' \in [pc : {"Out", "Send", "Append", "Signal"}, s : Socket, n : Nat]
       /\ writer'.pc = "Signal" /\ writer'.s = s /\ writer'.n = n
  BY <1>1 DEF WriteAppends
<1>11. WriterType'
  BY <1>1, <1>10 DEF WriterType
<1>12. TxInv'
  BY <1>1, <1>2, <1>10 DEF PairInv, TxInv
<1>13. net' = [net EXCEPT ![s] = net[s]]
  BY <1>1, <1>2 DEF PairInv, NetType
<1> HIDE DEF k
<1>14. net[s].wire \o Bytes(k.Tx) = (net[s].wire \o Bytes(sk[s].Tx)) \o p
  BY <1>6, <1>7, <1>8
<1>15. Len(net[s].wire) >= Len(net[s].wire)
  BY <1>1, WiresStay
<1>16. s = writer.s /\ writer.pc \in {"Send", "Append"} /\ p = From(written[s], n)
  BY <1>1
<1> DEFINE c == net[s]
<1>17. /\ c \in Connection /\ net' = [net EXCEPT ![s] = c] /\ c.open = net[s].open /\ c.fin = net[s].fin
       /\ c.broken = net[s].broken /\ c.shut = net[s].shut /\ c.sent = net[s].sent /\ c.read = net[s].read
       /\ Len(c.wire) >= Len(net[s].wire)
       /\ c.wire \o Bytes(k.Tx) = (net[s].wire \o Bytes(sk[s].Tx)) \o From(written[s], n)
  BY <1>1, <1>13, <1>14, <1>15, <1>16
<1> HIDE DEF s, n, p, c
<1>18. PairInv /\ writer.pc \in {"Send", "Append"} /\ th' = th /\ UNCHANGED <<pairVars, returned, due>>
  BY <1>2, <1>16
<1>19. s = writer.s /\ n \in Nat /\ written' = [written EXCEPT ![s] = written[s] + n]
  BY <1>1, <1>5, <1>16
<1>20. k \in SocketState /\ sk' = [sk EXCEPT ![s] = k] /\ (k.Tx # <<>> => writer'.pc = "Signal" /\ writer'.s = s)
  BY <1>5, <1>8, <1>10
<1> QED BY ONLY <1>9, <1>11, <1>12, <1>17, <1>18, <1>19, <1>20, WritesKeep

LEMMA WriterKeeps ==
  ASSUME PairInv, Writer
  PROVE  PairInv'
BY WriteDirectlyKeeps, WriteAppendsKeeps, WriteSignalsKeeps DEF Writer

-----------------------------------------------------------------------------
(* The closer, outside IO *)

CloserMoves ==
  /\ C.pc \in {"Out", "Look", "Done", "Tell", "Detach"}
  /\ th'["closer"].pc \in {"Look", "Lock", "Done", "Tell", "Detach", "Closed"}
  /\ ThType' /\ th'["reader"] = th["reader"]
  /\ th'["closer"].call = "Flush" /\ th'["closer"].hand = <<>>
  /\ writer' = writer /\ exitEvent' = exitEvent /\ late' = late
  /\ returned' = returned /\ written' = written
  /\ SkType' /\ NetType' /\ OwnerType' /\ FlagType'
  /\ \A s \in Socket :
       /\ sk'[s].BreakRead = sk[s].BreakRead /\ sk'[s].Disconnected = sk[s].Disconnected
       /\ sk'[s].out = sk[s].out /\ sk'[s].Rx = sk[s].Rx /\ sk'[s].Tx = sk[s].Tx
       /\ sk'[s].Packets = sk[s].Packets /\ (sk[s].eventfd => sk'[s].eventfd)
       /\ net'[s].read = net[s].read /\ net'[s].fin = net[s].fin
       /\ net'[s].broken = net[s].broken /\ net'[s].wire = net[s].wire
  /\ closeEvent' => closeEvent \/ \A s \in Socket : sk'[s].eventfd
  /\ CloserInv' /\ DueInv' /\ FlushInv'

LEMMA CloserMovesKeeps ==
  ASSUME PairInv, CloserMoves
  PROVE  PairInv'
<1>1. /\ th["closer"].pc \in {"Out", "Look", "Done", "Tell", "Detach"}
      /\ th'["closer"].pc \in {"Look", "Lock", "Done", "Tell", "Detach", "Closed"}
      /\ th'["reader"] = th["reader"] /\ th'["closer"].hand = <<>>
      /\ th["closer"].pc \notin InIO /\ th'["closer"].pc \notin InIO
  BY DEF CloserMoves, C, InIO
<1>2. /\ writer' = writer /\ exitEvent' = exitEvent /\ returned' = returned /\ written' = written
  BY DEF CloserMoves
<1>3. \A s \in Socket :
        /\ sk'[s].BreakRead = sk[s].BreakRead /\ sk'[s].Disconnected = sk[s].Disconnected
        /\ sk'[s].out = sk[s].out /\ sk'[s].Rx = sk[s].Rx /\ sk'[s].Tx = sk[s].Tx
        /\ sk'[s].Packets = sk[s].Packets /\ (sk[s].eventfd => sk'[s].eventfd)
  BY DEF CloserMoves
<1>4. \A s \in Socket :
        /\ net'[s].read = net[s].read /\ net'[s].fin = net[s].fin
        /\ net'[s].broken = net[s].broken /\ net'[s].wire = net[s].wire
  BY DEF CloserMoves
<1>5. /\ ThType' /\ SkType' /\ NetType' /\ OwnerType' /\ FlagType' /\ CloserInv' /\ DueInv' /\ FlushInv'
  BY DEF CloserMoves
<1>6. WriterType'
  BY <1>2 DEF PairInv, WriterType
<1>7. \A t \in Thread : t = "closer" \/ (t = "reader" /\ th'[t] = th[t])
  BY <1>1 DEF Thread
<1>8. LockInv'
  BY <1>1, <1>7 DEF PairInv, LockInv
<1>9. \A t \in Thread : th'[t].pc \in InIO => th[t].pc \in InIO /\ th'[t] = th[t]
  BY <1>1, <1>7
<1>10. {"Send", "More", "Epoll"} \subseteq InIO /\ \A t \in Thread : th[t].s \in Socket
  BY DEF InIO, PairInv, ThType, ThreadState
<1>11. TxInv'
  BY <1>2, <1>3, <1>9, <1>10 DEF PairInv, TxInv, WriterType
<1>12. HandInv'
  BY <1>1, <1>7, <1>10 DEF PairInv, HandInv
<1>13. OutputInOrder'
  <2>1. \A s \in Socket : Hand(s)' = Hand(s)
    BY <1>1, <1>7, <1>8, <1>10, HandKept DEF PairInv
  <2> QED BY <1>2, <1>3, <1>4, <2>1 DEF PairInv, OutputInOrder
<1>14. InputInOrder'
  BY <1>2, <1>3, <1>4, InputStays DEF PairInv
<1>15. BackInv' /\ RxInv'
  <2>1. BackInv'
    BY <1>3 DEF PairInv, BackInv
  <2>2. RxInv'
    BY <1>3 DEF PairInv, RxInv
  <2> QED BY <2>1, <2>2
<1>16. WaitIsCovered'
  <2> SUFFICES ASSUME NEW u \in Thread, th'[u].pc = "Epoll", ~sk'[th'[u].s].eventfd
        PROVE  /\ ~exitEvent' /\ ~closeEvent' /\ sk'[th'[u].s].BreakRead # "On"
               /\ sk'[th'[u].s].Tx # <<>> => sk'[th'[u].s].out \/ (writer'.pc = "Signal" /\ writer'.s = th'[u].s)
    BY DEF WaitIsCovered, EventIsSet, IsAborted
  <2>1. th'[u] = th[u] /\ th[u].s \in Socket
    BY <1>9, <1>10
  <2>2. closeEvent' => closeEvent
    BY <2>1 DEF CloserMoves
  <2> QED BY <1>2, <1>3, <2>1, <2>2 DEF PairInv, WaitIsCovered, EventIsSet, IsAborted
<1>17. FinInv'
  BY <1>3, <1>4 DEF PairInv, FinInv
<1>18. DrainInv'
  BY <1>1 DEF DrainInv, C
<1> QED BY <1>5, <1>6, <1>8, <1>11, <1>12, <1>13, <1>14, <1>15, <1>16, <1>17, <1>18 DEF PairInv

LEMMA TurnsFacts ==
  ASSUME PairInv, NEW s \in Socket, NEW pc \in Places, Turns(s, pc)
  PROVE  /\ ThType' /\ th'["reader"] = th["reader"]
         /\ th'["closer"].pc = pc /\ th'["closer"].s = s
         /\ th'["closer"].call = "Flush" /\ th'["closer"].hand = <<>>
<1> DEFINE e == [Resting EXCEPT !.pc = pc, !.s = s, !.call = "Flush"]
<1>1. <<>> \in Seq(Byte)
  OBVIOUS
<1>2. /\ e \in ThreadState /\ e.pc = pc /\ e.s = s /\ e.call = "Flush" /\ e.hand = <<>>
  BY <1>1 DEF Resting, ThreadState, Places
<1>3. th' = [th EXCEPT !["closer"] = e]
  BY DEF Turns
<1> HIDE DEF e
<1> QED BY <1>2, <1>3 DEF PairInv, ThType, Thread

LEMMA WiresAreLong ==
  ASSUME PairInv
  PROVE  \A s \in Socket : Len(net[s].wire) \in Nat /\ Len(net[s].wire) >= 0
<1> SUFFICES ASSUME NEW s \in Socket PROVE Len(net[s].wire) \in Nat /\ Len(net[s].wire) >= 0
  OBVIOUS
<1>1. net[s].wire \in Seq(Byte)
  BY DEF PairInv, NetType, Connection
<1>2. Len(net[s].wire) \in Nat
  BY <1>1, LenProperties
<1> QED BY <1>2

(* A step of the closer that leaves the sockets alone. *)
LEMMA CloserTurns ==
  ASSUME PairInv, C.pc \in {"Out", "Look", "Done"}, NEW s \in Socket,
         NEW pc \in {"Look", "Lock", "Done", "Tell"}, Turns(s, pc),
         UNCHANGED <<sk, writer, pairVars, returned, written>>,
         NetType', \A r \in Socket :
           /\ net'[r].read = net[r].read /\ net'[r].fin = net[r].fin /\ net'[r].open = net[r].open
           /\ net'[r].broken = net[r].broken /\ net'[r].wire = net[r].wire
           /\ net'[r].shut => pc = "Tell" \/ (s = "Server" /\ r = "Client"),
         OwnerType', DueInv', FlushInv'
  PROVE  PairInv'
<1>1. pc \in Places
  BY DEF Places
<1>2. /\ ThType' /\ th'["reader"] = th["reader"]
      /\ th'["closer"].pc = pc /\ th'["closer"].s = s
      /\ th'["closer"].call = "Flush" /\ th'["closer"].hand = <<>>
  BY <1>1, TurnsFacts
<1>3. /\ sk' = sk /\ writer' = writer /\ exitEvent' = exitEvent /\ closeEvent' = closeEvent
      /\ late' = late /\ returned' = returned /\ written' = written /\ ClosePending' = ClosePending
  BY DEF pairVars
<1>4. SkType' /\ FlagType'
  BY <1>3 DEF PairInv, SkType, FlagType
<1>5. CloserInv'
  <2>1. pc \in {"Tell"} \cup Flushing /\ "Tell" \notin Flushing /\ pc \notin {"Out", "Detach", "Closed"}
    BY DEF Flushing, InIO
  <2>2. ~closeEvent /\ \A r \in Socket : sk[r].attached /\ net[r].open
    BY DEF PairInv, CloserInv
  <2> QED BY <1>2, <1>3, <2>1, <2>2 DEF PairInv, CloserInv, R, C
<1>6. CloserMoves
  BY <1>2, <1>3, <1>4, <1>5 DEF CloserMoves
<1> QED BY <1>6, CloserMovesKeeps

LEMMA StartCloseKeeps ==
  ASSUME PairInv, NEW graceful \in BOOLEAN, StartClose(graceful)
  PROVE  PairInv'
<1>1. /\ C.pc = "Out" /\ UNCHANGED <<sk, writer, pairVars, returned, written>> /\ net' = net
      /\ sk' = sk /\ exitEvent' = exitEvent /\ returned' = returned /\ written' = written
  BY DEF StartClose, pairVars
<1>2. PICK pc \in {"Look", "Tell"} : Turns("Client", pc) /\ (graceful => pc = "Look")
  BY DEF StartClose
<1>3. th'["closer"].pc = pc /\ th'["closer"].s = "Client"
  <2>1. pc \in Places /\ "Client" \in Socket
    BY DEF Places, Socket
  <2> QED BY <1>2, <2>1, TurnsFacts
<1>4. due' = [s \in Socket |-> IF graceful /\ sk[s].RxEvent /\ sk[s].BreakRead = "Off" /\ sk[s].Disconnected = "No"
                                  /\ ~net[s].fin /\ ~net[s].broken /\ ~exitEvent
                               THEN written[s] ELSE 0]
  BY DEF StartClose
<1>5. OwnerType'
  <2>1. \A s \in Socket : due'[s] \in {0, written[s]} /\ written[s] \in Nat
    BY <1>4 DEF PairInv, OwnerType
  <2>2. due' \in [Socket -> Nat] /\ \A s \in Socket : due'[s] <= written[s]
    BY <1>4, <2>1
  <2> QED BY <1>1, <2>2 DEF PairInv, OwnerType
<1>6. DueInv'
  BY <1>1, <1>3, <1>4 DEF DueInv, C
<1>7. FlushInv'
  <2>1. "Look" \in Flushing \ {"Done"}
    BY DEF Flushing
  <2>2. CASE graceful
    BY <1>2, <1>3, <2>1, <2>2 DEF FlushInv, ToFlush, C, Socket
  <2>3. CASE ~graceful
    BY <1>1, <1>4, <2>3, WiresAreLong DEF FlushInv
  <2> QED BY <2>2, <2>3
<1>8. \A s \in Socket : ~net[s].shut
  BY <1>1 DEF PairInv, CloserInv
<1>9. NetType' /\ "Client" \in Socket
  BY <1>1 DEF PairInv, NetType, Socket
<1> QED BY <1>1, <1>2, <1>5, <1>6, <1>7, <1>8, <1>9, CloserTurns

LEMMA CloseLooksKeeps ==
  ASSUME PairInv, CloseLooks
  PROVE  PairInv'
<1> DEFINE s == C.s
<1>1. /\ C.pc = "Look" /\ UNCHANGED <<sk, writer, pairVars, returned, written>> /\ net' = net
      /\ sk' = sk /\ exitEvent' = exitEvent /\ returned' = returned /\ written' = written /\ late' = late
  BY DEF CloseLooks, pairVars
<1>2. s \in Socket /\ C.pc \in Flushing \ {"Done"}
  BY <1>1 DEF PairInv, ThType, ThreadState, C, Thread, Flushing
<1>3. PICK pc \in {"Lock", "Done"} : Turns(s, pc) /\ (pc = "Done" => ~NeedsFlush(s))
  BY DEF CloseLooks
<1>4. th'["closer"].pc = pc /\ th'["closer"].s = s
  <2>1. pc \in Places
    BY DEF Places
  <2> QED BY <1>2, <1>3, <2>1, TurnsFacts
<1>5. due' = due \/ Spares(s)
  BY DEF CloseLooks
<1>6. due \in [Socket -> Nat] /\ \A r \in Socket : due[r] <= written[r] /\ written[r] \in Nat
  BY DEF PairInv, OwnerType
<1>7. due' \in [Socket -> Nat] /\ \A r \in Socket : due'[r] \in {0, due[r]}
  <2>1. CASE due' = due
    BY <1>6, <2>1
  <2>2. CASE due' = [due EXCEPT ![s] = 0]
    BY <1>6, <2>2
  <2> QED BY <1>5, <2>1, <2>2 DEF Spares
<1>8. OwnerType'
  <2>1. \A r \in Socket : due'[r] <= written[r]
    BY <1>6, <1>7
  <2> QED BY <1>1, <1>7, <2>1 DEF PairInv, OwnerType
<1>9. DueInv'
  BY <1>1, <1>4, <1>7 DEF PairInv, DueInv, C
<1>10. pc = "Done" => late \/ Len(net[s].wire) >= due'[s]
  <2> SUFFICES ASSUME pc = "Done", ~late PROVE Len(net[s].wire) >= due'[s]
    OBVIOUS
  <2>1. sk[s].Tx = <<>>
    BY <1>1, <1>2, <1>3 DEF NeedsFlush, PairInv, CloserInv
  <2>2. CASE InHand(s)
    <3>1. due'[s] = 0
      BY <1>2, <1>6, <2>1, <2>2 DEF CloseLooks, Spares
    <3> QED BY <1>2, <3>1, WiresAreLong
  <2>3. CASE ~InHand(s)
    <3>1. \A t \in Thread : ~(th[t].pc = "Send" /\ th[t].s = s)
      BY <2>3 DEF InHand, PairInv, HandInv, Packet
    <3>2. Len(net[s].wire) >= due[s] /\ due' = due
      BY <1>2, <2>1, <2>3, <3>1, AllIsSent DEF CloseLooks
    <3> QED BY <3>2
  <2> QED BY <2>2, <2>3
<1>11. FlushInv'
  <2>1. "Lock" \in Flushing \ {"Done"} /\ "Done" \in Flushing
    BY DEF Flushing
  <2>2. \A r \in Socket : Len(net[r].wire) >= due[r] => Len(net[r].wire) >= due'[r]
    BY <1>7, WiresAreLong
  <2> QED BY <1>1, <1>2, <1>4, <1>10, <2>1, <2>2 DEF PairInv, FlushInv, ToFlush, C
<1>12. \A r \in Socket : net[r].shut => s = "Server" /\ r = "Client"
  BY <1>2 DEF PairInv, CloserInv
<1>13. NetType'
  BY <1>1 DEF PairInv, NetType
<1> QED BY <1>1, <1>2, <1>3, <1>8, <1>9, <1>11, <1>12, <1>13, CloserTurns

LEMMA CloseShutsKeeps ==
  ASSUME PairInv, CloseShuts
  PROVE  PairInv'
<1> DEFINE s == C.s
           c == IF sk[s].attached /\ ~late THEN Shutdown(sk[s], net[s]) ELSE net[s]
<1>1. /\ C.pc = "Done" /\ UNCHANGED <<sk, writer, pairVars, returned, written>> /\ due' = due
      /\ sk' = sk /\ exitEvent' = exitEvent /\ returned' = returned /\ written' = written /\ late' = late
  BY DEF CloseShuts, pairVars, ownerVars
<1>2. s \in Socket /\ sk[s] \in SocketState /\ net[s] \in Connection /\ C.pc \in Flushing
  BY <1>1 DEF PairInv, ThType, ThreadState, SkType, NetType, C, Thread, Flushing
<1>3. /\ c \in Connection /\ c.read = net[s].read /\ c.sent = net[s].sent /\ c.fin = net[s].fin
      /\ c.open = net[s].open /\ c.broken = net[s].broken /\ c.wire = net[s].wire
  BY <1>2 DEF Shutdown, SocketState, Connection
<1>4. net' = [net EXCEPT ![s] = c]
  BY DEF CloseShuts
<1> HIDE DEF c
<1>5. NetType' /\ net'[s] = c /\ \A r \in Socket \ {s} : net'[r] = net[r]
  BY <1>2, <1>3, <1>4 DEF PairInv, NetType
<1>6. OwnerType'
  BY <1>1 DEF PairInv, OwnerType
<1>7. \A r \in Socket :
        /\ net'[r].read = net[r].read /\ net'[r].fin = net[r].fin /\ net'[r].open = net[r].open
        /\ net'[r].broken = net[r].broken /\ net'[r].wire = net[r].wire
  BY <1>3, <1>5
<1>8. PICK pc \in {"Look", "Tell"}, u \in Socket :
        /\ Turns(u, pc)
        /\ \/ s = "Client" /\ u = "Server" /\ pc = "Look"
           \/ s = "Server" /\ u = "Client" /\ pc = "Tell"
  BY <1>2 DEF CloseShuts, NextSocket, Socket
<1>9. th'["closer"].pc = pc /\ th'["closer"].s = u
  <2>1. pc \in Places
    BY DEF Places
  <2> QED BY <1>8, <2>1, TurnsFacts
<1>10. \A r \in Socket : net'[r].shut => pc = "Tell" \/ (u = "Server" /\ r = "Client")
  <2>1. \A r \in Socket : net[r].shut => s = "Server" /\ r = "Client"
    BY <1>2 DEF PairInv, CloserInv
  <2> QED BY <1>5, <1>8, <2>1
<1>11. DueInv'
  BY <1>1, <1>7, <1>9 DEF PairInv, DueInv, C
<1>12. FlushInv'
  <2>1. "Look" \in Flushing \ {"Done"}
    BY DEF Flushing
  <2>2. late \/ \A r \in Socket : Len(net[r].wire) >= due[r] \/ (s = "Client" /\ r = "Server")
    BY <1>1 DEF PairInv, FlushInv, ToFlush
  <2> QED BY <1>1, <1>7, <1>8, <1>9, <2>1, <2>2 DEF FlushInv, ToFlush, C
<1> QED BY <1>1, <1>5, <1>6, <1>7, <1>8, <1>10, <1>11, <1>12, CloserTurns

LEMMA CloseTellsKeeps ==
  ASSUME PairInv, CloseTells
  PROVE  PairInv'
<1>1. /\ C.pc = "Tell" /\ net' = net /\ writer' = writer /\ exitEvent' = exitEvent /\ late' = late
      /\ returned' = returned /\ written' = written /\ due' = due /\ ClosePending' /\ closeEvent'
      /\ ClosePending' \in BOOLEAN /\ closeEvent' \in BOOLEAN
  BY DEF CloseTells, ownerVars
<1>2. /\ ThType' /\ th'["reader"] = th["reader"] /\ th'["closer"].pc = "Detach" /\ th'["closer"].s = "Client"
      /\ th'["closer"].call = "Flush" /\ th'["closer"].hand = <<>>
  <2>1. "Detach" \in Places /\ "Client" \in Socket
    BY DEF Places, Socket
  <2> QED BY <2>1, TurnsFacts DEF CloseTells
<1>3. \A s \in Socket : sk[s].attached /\ net[s].open /\ sk[s] \in SocketState
  BY <1>1 DEF PairInv, CloserInv, SkType
<1>4. sk' = [s \in Socket |-> Wakes(sk[s])]
  BY <1>3 DEF CloseTells, Tells, WakesAll
<1>5. \A s \in Socket :
        /\ Wakes(sk[s]) \in SocketState /\ sk'[s] = Wakes(sk[s])
        /\ Wakes(sk[s]).BreakRead = sk[s].BreakRead /\ Wakes(sk[s]).Disconnected = sk[s].Disconnected
        /\ Wakes(sk[s]).out = sk[s].out /\ Wakes(sk[s]).Rx = sk[s].Rx /\ Wakes(sk[s]).Tx = sk[s].Tx
        /\ Wakes(sk[s]).Packets = sk[s].Packets /\ Wakes(sk[s]).eventfd
        /\ Wakes(sk[s]).attached = sk[s].attached
  BY <1>3, <1>4 DEF Wakes, SocketState
<1>6. SkType'
  BY <1>4, <1>5 DEF SkType
<1>7. NetType' /\ OwnerType' /\ FlagType'
  BY <1>1 DEF PairInv, NetType, OwnerType, FlagType
<1>8. \A s \in Socket : sk'[s].attached /\ net'[s].open
  BY <1>1, <1>3, <1>5
<1>9. CloserInv'
  <2>1. "Detach" \notin Flushing
    BY DEF Flushing, InIO
  <2> QED BY <1>1, <1>2, <1>8, <2>1 DEF PairInv, CloserInv, R, C
<1>10. DueInv'
  BY <1>1, <1>2, <1>5 DEF PairInv, DueInv, C
<1>11. FlushInv'
  <2>1. "Tell" \notin Flushing
    BY DEF Flushing, InIO
  <2> QED BY <1>1, <2>1 DEF PairInv, FlushInv, ToFlush
<1>12. CloserMoves
  BY <1>1, <1>2, <1>5, <1>6, <1>7, <1>9, <1>10, <1>11 DEF CloserMoves
<1> QED BY <1>12, CloserMovesKeeps

LEMMA CloseSocketKeeps ==
  ASSUME PairInv, CloseSocket
  PROVE  PairInv'
<1> DEFINE s == C.s
           k == Detach(sk[s])
           c == [net[s] EXCEPT !.open = FALSE]
<1>1. /\ C.pc = "Detach" /\ writer' = writer /\ exitEvent' = exitEvent /\ late' = late
      /\ returned' = returned /\ written' = written /\ due' = due
      /\ ClosePending' = ClosePending /\ closeEvent' = closeEvent
  BY DEF CloseSocket, pairVars, ownerVars
<1>2. s \in Socket /\ sk[s] \in SocketState /\ net[s] \in Connection
  BY <1>1 DEF PairInv, ThType, ThreadState, SkType, NetType, C, Thread
<1>3. PICK pc \in {"Detach", "Closed"} :
        Turns("Server", pc) /\ (pc = "Detach" => s = "Client")
  BY DEF CloseSocket
<1>4. /\ ThType' /\ th'["reader"] = th["reader"] /\ th'["closer"].pc = pc /\ th'["closer"].s = "Server"
      /\ th'["closer"].call = "Flush" /\ th'["closer"].hand = <<>>
  <2>1. pc \in Places /\ "Server" \in Socket
    BY DEF Places, Socket
  <2> QED BY <1>3, <2>1, TurnsFacts
<1>5. /\ k \in SocketState /\ k.BreakRead = sk[s].BreakRead /\ k.Disconnected = sk[s].Disconnected
      /\ k.out = sk[s].out /\ k.Rx = sk[s].Rx /\ k.Tx = sk[s].Tx
      /\ k.Packets = sk[s].Packets /\ k.eventfd = sk[s].eventfd
  BY <1>2 DEF Detach, SocketState
<1>6. /\ c \in Connection /\ c.read = net[s].read /\ c.sent = net[s].sent /\ c.fin = net[s].fin
      /\ c.broken = net[s].broken /\ c.wire = net[s].wire
  BY <1>2 DEF Connection
<1>7. sk' = [sk EXCEPT ![s] = k] /\ net' = [net EXCEPT ![s] = c]
  BY DEF CloseSocket
<1> HIDE DEF k, c
<1>8. SkType' /\ sk'[s] = k /\ \A r \in Socket \ {s} : sk'[r] = sk[r]
  BY <1>2, <1>5, <1>7 DEF PairInv, SkType
<1>9. NetType' /\ net'[s] = c /\ \A r \in Socket \ {s} : net'[r] = net[r]
  BY <1>2, <1>6, <1>7 DEF PairInv, NetType
<1>10. \A r \in Socket :
         /\ sk'[r].BreakRead = sk[r].BreakRead /\ sk'[r].Disconnected = sk[r].Disconnected
         /\ sk'[r].out = sk[r].out /\ sk'[r].Rx = sk[r].Rx /\ sk'[r].Tx = sk[r].Tx
         /\ sk'[r].Packets = sk[r].Packets /\ sk'[r].eventfd = sk[r].eventfd
         /\ net'[r].read = net[r].read /\ net'[r].fin = net[r].fin
         /\ net'[r].broken = net[r].broken /\ net'[r].wire = net[r].wire
  BY <1>5, <1>6, <1>8, <1>9
<1>11. OwnerType' /\ FlagType'
  BY <1>1 DEF PairInv, OwnerType, FlagType
<1>12. closeEvent /\ C.pc # "Out"
  BY <1>1 DEF PairInv, CloserInv
<1>13. CloserInv'
  <2>1. pc \notin Flushing
    BY DEF Flushing, InIO
  <2>2. pc = "Detach" => \A r \in Socket : r = "Client" \/ (sk'[r].attached /\ net'[r].open)
    BY <1>1, <1>3, <1>8, <1>9 DEF PairInv, CloserInv
  <2> QED BY <1>1, <1>4, <1>12, <2>1, <2>2 DEF PairInv, CloserInv, R, C
<1>14. DueInv'
  BY <1>1, <1>4, <1>10 DEF PairInv, DueInv, C
<1>15. FlushInv'
  <2>1. "Detach" \notin Flushing
    BY DEF Flushing, InIO
  <2> QED BY <1>1, <1>10, <2>1 DEF PairInv, FlushInv, ToFlush
<1>16. CloserMoves
  BY <1>1, <1>4, <1>8, <1>9, <1>10, <1>11, <1>12, <1>13, <1>14, <1>15 DEF CloserMoves
<1> QED BY <1>16, CloserMovesKeeps

-----------------------------------------------------------------------------
(* The owner, the peers, the network and the clock *)

SteadyMoves ==
  /\ th' = th /\ writer' = writer /\ closeEvent' = closeEvent /\ written' = written
  /\ SkType' /\ NetType' /\ OwnerType' /\ FlagType' /\ BackInv' /\ InputInOrder'
  /\ \A s \in Socket :
       /\ sk'[s].attached = sk[s].attached /\ sk'[s].out = sk[s].out
       /\ sk'[s].Rx = sk[s].Rx /\ sk'[s].Tx = sk[s].Tx /\ sk'[s].Disconnected = sk[s].Disconnected
       /\ sk'[s].Packets = sk[s].Packets \/ R.pc = "Out"
       /\ sk[s].eventfd => sk'[s].eventfd
       /\ ~sk'[s].eventfd /\ sk'[s].BreakRead = "On" => sk[s].BreakRead = "On"
       /\ ~sk'[s].eventfd /\ exitEvent' => exitEvent \/ closeEvent
       /\ net'[s].open = net[s].open /\ net'[s].shut = net[s].shut
       /\ net'[s].wire = net[s].wire /\ net'[s].read = net[s].read
       /\ net[s].fin => net'[s].fin /\ net'[s].sent = net[s].sent
       /\ net[s].broken => net'[s].broken
       /\ \/ due'[s] = 0
          \/ /\ due'[s] = due[s] /\ exitEvent' = exitEvent
             /\ sk'[s].BreakRead = sk[s].BreakRead /\ sk'[s].RxEvent = sk[s].RxEvent
             /\ net'[s].fin = net[s].fin /\ net'[s].broken = net[s].broken
  /\ late' = late \/ (late' /\ C.pc # "Out")

LEMMA SteadyMovesKeeps ==
  ASSUME PairInv, SteadyMoves
  PROVE  PairInv'
<1>1. th' = th /\ writer' = writer /\ closeEvent' = closeEvent /\ written' = written
  BY DEF SteadyMoves
<1>2. \A s \in Socket :
        /\ sk'[s].attached = sk[s].attached /\ sk'[s].out = sk[s].out
        /\ sk'[s].Rx = sk[s].Rx /\ sk'[s].Tx = sk[s].Tx /\ sk'[s].Disconnected = sk[s].Disconnected
        /\ sk'[s].Packets = sk[s].Packets \/ R.pc = "Out"
  BY DEF SteadyMoves
<1>3. \A s \in Socket :
        /\ sk[s].eventfd => sk'[s].eventfd
        /\ ~sk'[s].eventfd /\ sk'[s].BreakRead = "On" => sk[s].BreakRead = "On"
        /\ ~sk'[s].eventfd /\ exitEvent' => exitEvent \/ closeEvent
  BY DEF SteadyMoves
<1>4. \A s \in Socket :
        /\ net'[s].open = net[s].open /\ net'[s].shut = net[s].shut
        /\ net'[s].wire = net[s].wire /\ net'[s].read = net[s].read
        /\ net[s].fin => net'[s].fin /\ net'[s].sent = net[s].sent
        /\ net[s].broken => net'[s].broken
  BY DEF SteadyMoves
<1>5. \A s \in Socket :
        \/ due'[s] = 0
        \/ /\ due'[s] = due[s] /\ exitEvent' = exitEvent
           /\ sk'[s].BreakRead = sk[s].BreakRead /\ sk'[s].RxEvent = sk[s].RxEvent
           /\ net'[s].fin = net[s].fin /\ net'[s].broken = net[s].broken
  BY DEF SteadyMoves
<1>6. late' = late \/ (late' /\ C.pc # "Out")
  BY DEF SteadyMoves
<1>7. SkType' /\ NetType' /\ OwnerType' /\ FlagType' /\ BackInv' /\ InputInOrder'
  BY DEF SteadyMoves
<1>8. ThType' /\ WriterType' /\ LockInv' /\ HandInv'
  BY <1>1 DEF PairInv, ThType, WriterType, LockInv, HandInv
<1>9. TxInv'
  BY <1>1, <1>2 DEF PairInv, TxInv, WriterType
<1>10. RxInv'
  BY <1>2 DEF PairInv, RxInv
<1>11. OutputInOrder'
  BY <1>1, <1>2, <1>4, OutputStays DEF PairInv
<1>12. WaitIsCovered'
  <2> SUFFICES ASSUME NEW u \in Thread, th[u].pc = "Epoll", ~sk'[th[u].s].eventfd
        PROVE  /\ ~exitEvent' /\ ~closeEvent' /\ sk'[th[u].s].BreakRead # "On"
               /\ sk'[th[u].s].Tx # <<>> => sk'[th[u].s].out \/ (writer'.pc = "Signal" /\ writer'.s = th[u].s)
    BY <1>1 DEF WaitIsCovered, EventIsSet, IsAborted
  <2>1. th[u].s \in Socket
    BY DEF PairInv, ThType, ThreadState
  <2>2. ~sk[th[u].s].eventfd
    BY <1>3, <2>1
  <2>3. /\ ~exitEvent /\ ~closeEvent /\ sk[th[u].s].BreakRead # "On"
        /\ sk[th[u].s].Tx # <<>> => sk[th[u].s].out \/ (writer.pc = "Signal" /\ writer.s = th[u].s)
    BY <2>1, <2>2 DEF PairInv, WaitIsCovered, EventIsSet, IsAborted
  <2> QED BY <1>1, <1>2, <1>3, <2>1, <2>3
<1>13. FinInv'
  BY <1>2, <1>4 DEF PairInv, FinInv
<1>14. DrainInv'
  <2>1. th["reader"].s \in Socket
    BY DEF PairInv, ThType, ThreadState, Thread
  <2> QED BY <1>1, <1>2, <1>4, <2>1 DEF PairInv, DrainInv, R, C
<1>15. CloserInv'
  BY <1>1, <1>2, <1>4, <1>6 DEF PairInv, CloserInv, R, C
<1>16. DueInv'
  BY <1>1, <1>2, <1>5 DEF PairInv, DueInv, C
<1>17. FlushInv'
  <2>1. late => late'
    BY <1>6
  <2>2. \A s \in Socket : Len(net[s].wire) >= due[s] => Len(net'[s].wire) >= due'[s]
    BY <1>4, <1>5, WiresAreLong
  <2> QED BY <1>1, <2>1, <2>2 DEF PairInv, FlushInv, ToFlush, C
<1> QED BY <1>7, <1>8, <1>9, <1>10, <1>11, <1>12, <1>13, <1>14, <1>15, <1>16, <1>17 DEF PairInv

LEMMA SparesFacts ==
  ASSUME PairInv, NEW s \in Socket, Spares(s), returned' = returned, written' = written
  PROVE  OwnerType' /\ due'[s] = 0 /\ \A r \in Socket \ {s} : due'[r] = due[r]
<1>1. due \in [Socket -> Nat] /\ \A r \in Socket : due[r] <= written[r] /\ written[r] \in Nat
  BY DEF PairInv, OwnerType
<1>2. /\ due' \in [Socket -> Nat] /\ due'[s] = 0 /\ \A r \in Socket \ {s} : due'[r] = due[r]
  BY <1>1 DEF Spares
<1>3. \A r \in Socket : due'[r] <= written[r]
  BY <1>1, <1>2
<1> QED BY <1>2, <1>3 DEF PairInv, OwnerType

LEMMA WakesFacts ==
  ASSUME NEW k \in SocketState
  PROVE  /\ Wakes(k) \in SocketState /\ Wakes(k).eventfd
         /\ Wakes(k).attached = k.attached /\ Wakes(k).RxEvent = k.RxEvent /\ Wakes(k).out = k.out
         /\ Wakes(k).BreakRead = k.BreakRead /\ Wakes(k).Disconnected = k.Disconnected
         /\ Wakes(k).Rx = k.Rx /\ Wakes(k).Tx = k.Tx /\ Wakes(k).Packets = k.Packets
BY DEF Wakes, SocketState

(* The owner changes what there is to wait for, or how the socket is used. *)
LEMMA SocketTurns ==
  ASSUME PairInv, NEW s \in Socket, NEW k \in SocketState, sk' = [sk EXCEPT ![s] = k],
         k.attached = sk[s].attached, k.out = sk[s].out, k.Rx = sk[s].Rx, k.Tx = sk[s].Tx,
         k.Disconnected = sk[s].Disconnected, k.Packets = sk[s].Packets,
         sk[s].eventfd => k.eventfd, k.BreakRead = "On" => k.eventfd \/ sk[s].BreakRead = "On",
         due[s] = 0 \/ Spares(s), due' = due \/ Spares(s),
         UNCHANGED <<net, th, writer, pairVars, returned, written>>
  PROVE  PairInv'
<1>1. SkType' /\ sk'[s] = k /\ \A r \in Socket \ {s} : sk'[r] = sk[r]
  BY DEF PairInv, SkType
<1>2. /\ net' = net /\ th' = th /\ writer' = writer /\ returned' = returned /\ written' = written
      /\ exitEvent' = exitEvent /\ closeEvent' = closeEvent /\ late' = late
      /\ ClosePending' = ClosePending
  BY DEF pairVars
<1>3. OwnerType' /\ due'[s] = 0 /\ \A r \in Socket \ {s} : due'[r] = due[r]
  <2>1. CASE Spares(s)
    BY <1>2, <2>1, SparesFacts
  <2>2. CASE due' = due /\ due[s] = 0
    BY <1>2, <2>2 DEF PairInv, OwnerType
  <2> QED BY <2>1, <2>2
<1>4. NetType' /\ FlagType'
  BY <1>2 DEF PairInv, NetType, FlagType
<1>5. BackInv'
  BY <1>1 DEF PairInv, BackInv
<1>6. InputInOrder'
  BY <1>1, <1>2, InputStays DEF PairInv
<1>7. \A r \in Socket :
        /\ sk'[r].attached = sk[r].attached /\ sk'[r].out = sk[r].out
        /\ sk'[r].Rx = sk[r].Rx /\ sk'[r].Tx = sk[r].Tx /\ sk'[r].Disconnected = sk[r].Disconnected
        /\ sk'[r].Packets = sk[r].Packets
        /\ sk[r].eventfd => sk'[r].eventfd
        /\ ~sk'[r].eventfd /\ sk'[r].BreakRead = "On" => sk[r].BreakRead = "On"
  BY <1>1
<1>8. SteadyMoves
  BY <1>1, <1>2, <1>3, <1>4, <1>5, <1>6, <1>7 DEF SteadyMoves
<1> QED BY <1>8, SteadyMovesKeeps

LEMMA StopPendingReadKeeps ==
  ASSUME PairInv, NEW s \in Socket, StopPendingRead(s)
  PROVE  PairInv'
<1> DEFINE k == [Wakes(sk[s]) EXCEPT !.BreakRead = "On"]
<1>1. /\ Wakes(sk[s]) \in SocketState /\ Wakes(sk[s]).eventfd
      /\ Wakes(sk[s]).attached = sk[s].attached /\ Wakes(sk[s]).out = sk[s].out
      /\ Wakes(sk[s]).Disconnected = sk[s].Disconnected
      /\ Wakes(sk[s]).Rx = sk[s].Rx /\ Wakes(sk[s]).Tx = sk[s].Tx /\ Wakes(sk[s]).Packets = sk[s].Packets
  BY WakesFacts DEF PairInv, SkType
<1>2. /\ k \in SocketState /\ k.eventfd /\ k.attached = sk[s].attached /\ k.out = sk[s].out
      /\ k.Disconnected = sk[s].Disconnected
      /\ k.Rx = sk[s].Rx /\ k.Tx = sk[s].Tx /\ k.Packets = sk[s].Packets
  BY <1>1 DEF SocketState
<1>3. /\ sk' = [sk EXCEPT ![s] = k] /\ Spares(s)
      /\ UNCHANGED <<net, th, writer, pairVars, returned, written>>
  BY DEF StopPendingRead
<1> HIDE DEF k
<1> QED BY <1>2, <1>3, SocketTurns

LEMMA SwitchModeKeeps ==
  ASSUME PairInv, NEW s \in Socket, SwitchToBlockingMode(s) \/ SwitchToUnblockingMode(s)
  PROVE  PairInv'
<1>1. sk[s] \in SocketState /\ C.pc = "Out"
  BY DEF PairInv, SkType, SwitchToBlockingMode, SwitchToUnblockingMode, AtRest
<1>2. due[s] = 0
  BY <1>1, NothingDue
<1>3. \A k \in {Blocking(sk[s]), Unblocking(sk[s])} :
        /\ k \in SocketState /\ k.eventfd = sk[s].eventfd /\ k.attached = sk[s].attached /\ k.out = sk[s].out
        /\ k.Disconnected = sk[s].Disconnected
        /\ k.Rx = sk[s].Rx /\ k.Tx = sk[s].Tx /\ k.Packets = sk[s].Packets
        /\ k.BreakRead = "On" => sk[s].BreakRead = "On"
  BY <1>1 DEF Blocking, Unblocking, SocketState
<1>4. PICK k \in {Blocking(sk[s]), Unblocking(sk[s])} : sk' = [sk EXCEPT ![s] = k]
  BY DEF SwitchToBlockingMode, SwitchToUnblockingMode
<1>5. UNCHANGED <<net, th, writer, pairVars, returned, written>> /\ due' = due
  BY DEF SwitchToBlockingMode, SwitchToUnblockingMode, ownerVars
<1>6. /\ k \in SocketState /\ k.eventfd = sk[s].eventfd /\ k.attached = sk[s].attached /\ k.out = sk[s].out
      /\ k.Disconnected = sk[s].Disconnected
      /\ k.Rx = sk[s].Rx /\ k.Tx = sk[s].Tx /\ k.Packets = sk[s].Packets
      /\ k.BreakRead = "On" => sk[s].BreakRead = "On"
  BY <1>3
<1> QED BY <1>2, <1>4, <1>5, <1>6, SocketTurns

LEMMA ExitKeeps ==
  ASSUME PairInv, Exit
  PROVE  PairInv'
<1>1. /\ net' = net /\ th' = th /\ writer' = writer /\ closeEvent' = closeEvent
      /\ ClosePending' = ClosePending /\ late' = late /\ returned' = returned /\ written' = written
      /\ exitEvent' = TRUE /\ due' = [s \in Socket |-> 0]
  BY DEF Exit
<1>2. sk' = [s \in Socket |-> IF sk[s].attached THEN Wakes(sk[s]) ELSE sk[s]]
  BY DEF Exit, WakesAll
<1>3. \A s \in Socket : sk'[s] = sk[s] \/ sk'[s] = Wakes(sk[s])
  BY <1>2
<1>4. \A s \in Socket : sk[s] \in SocketState
  BY DEF PairInv, SkType
<1>5. \A s \in Socket :
        /\ sk'[s] \in SocketState
        /\ sk'[s].attached = sk[s].attached /\ sk'[s].out = sk[s].out
        /\ sk'[s].Rx = sk[s].Rx /\ sk'[s].Tx = sk[s].Tx /\ sk'[s].Disconnected = sk[s].Disconnected
        /\ sk'[s].Packets = sk[s].Packets /\ sk'[s].BreakRead = sk[s].BreakRead
        /\ sk[s].eventfd => sk'[s].eventfd
  BY <1>3, <1>4, WakesFacts
<1>6. \A s \in Socket : ~sk'[s].eventfd => closeEvent
  <2> SUFFICES ASSUME NEW s \in Socket, ~sk'[s].eventfd PROVE closeEvent
    OBVIOUS
  <2>1. ~sk[s].attached
    BY <1>2, <1>4, WakesFacts
  <2> QED BY <2>1 DEF PairInv, CloserInv
<1>7. SkType'
  BY <1>2, <1>5 DEF SkType
<1>8. NetType' /\ FlagType'
  BY <1>1 DEF PairInv, NetType, FlagType
<1>9. OwnerType'
  <2>1. due' \in [Socket -> Nat] /\ \A s \in Socket : due'[s] = 0 /\ written[s] \in Nat
    BY <1>1 DEF PairInv, OwnerType
  <2> QED BY <1>1, <2>1 DEF PairInv, OwnerType
<1>10. BackInv'
  BY <1>5 DEF PairInv, BackInv
<1>11. InputInOrder'
  BY <1>1, <1>5, InputStays DEF PairInv
<1>12. \A s \in Socket : due'[s] = 0
  BY <1>1
<1>13. SteadyMoves
  BY <1>1, <1>5, <1>6, <1>7, <1>8, <1>9, <1>10, <1>11, <1>12 DEF SteadyMoves
<1> QED BY <1>13, SteadyMovesKeeps

(* What is given back is the last of what was returned. *)
LEMMA UnreadKeeps ==
  ASSUME PairInv, NEW s \in Socket, Unread(s)
  PROVE  PairInv'
<1> DEFINE b == Last(returned[s])
           p == <<b>>
           k == [sk[s] EXCEPT !.Packets = <<p>>]
<1>1. /\ sk[s] \in SocketState /\ returned[s] \in Seq(Byte) /\ returned[s] # <<>> /\ sk[s].Rx = <<>>
      /\ sk[s].Packets = <<>> /\ R.pc = "Out" /\ C.pc = "Out"
  BY DEF PairInv, SkType, OwnerType, Unread, AtRest
<1>2. /\ net' = net /\ th' = th /\ writer' = writer /\ closeEvent' = closeEvent /\ exitEvent' = exitEvent
      /\ ClosePending' = ClosePending /\ late' = late /\ written' = written /\ due' = due
      /\ returned' = [returned EXCEPT ![s] = Front(returned[s])]
  BY DEF Unread, pairVars
<1>3. /\ Front(returned[s]) \in Seq(Byte) /\ b \in Byte /\ returned[s] = Front(returned[s]) \o p
  BY <1>1, FrontLast
<1>4. p \in Packet /\ Bytes(<<p>>) = p /\ <<p>> \in Seq(Packet)
  <2>1. p \in Packet
    BY <1>3 DEF Packet
  <2> HIDE DEF p
  <2> QED BY <2>1, OnePacket
<1>5. sk' = [sk EXCEPT ![s] = k]
  <2>1. Append(sk[s].Packets, p) = <<p>>
    BY <1>1
  <2> QED BY <2>1 DEF Unread
<1>6. /\ k \in SocketState /\ k.Packets = <<p>> /\ k.attached = sk[s].attached /\ k.RxEvent = sk[s].RxEvent
      /\ k.out = sk[s].out /\ k.BreakRead = sk[s].BreakRead /\ k.Disconnected = sk[s].Disconnected
      /\ k.Rx = <<>> /\ k.Tx = sk[s].Tx /\ k.eventfd = sk[s].eventfd
  <2> HIDE DEF p
  <2> QED BY <1>1, <1>4 DEF SocketState
<1> HIDE DEF k
<1>7. SkType' /\ sk'[s] = k /\ \A r \in Socket \ {s} : sk'[r] = sk[r]
  BY <1>5, <1>6 DEF PairInv, SkType
<1>8. returned'[s] = Front(returned[s]) /\ \A r \in Socket \ {s} : returned'[r] = returned[r]
  BY <1>2 DEF PairInv, OwnerType
<1>9. OwnerType'
  BY <1>2, <1>3 DEF PairInv, OwnerType
<1>10. NetType' /\ FlagType'
  BY <1>2 DEF PairInv, NetType, FlagType
<1>11. BackInv'
  <2>1. \E y \in Byte : sk'[s].Packets = <<<<y>>>>
    BY <1>3, <1>6, <1>7
  <2> QED BY <1>7, <2>1 DEF PairInv, BackInv
<1>12. InputInOrder'
  <2>1. (returned[s] \o Bytes(sk[s].Rx)) \o Bytes(sk[s].Packets) = [i \in 1..net[s].read |-> i]
    BY DEF PairInv, InputInOrder
  <2>2. returned[s] \o <<>> = returned[s] /\ Front(returned[s]) \o <<>> = Front(returned[s])
    BY <1>1, <1>3, NothingAdded
  <2>3. returned[s] = [i \in 1..net[s].read |-> i]
    BY <1>1, <2>1, <2>2, NoBytes
  <2>4. (returned'[s] \o Bytes(sk'[s].Rx)) \o Bytes(sk'[s].Packets) = returned[s]
    <3> HIDE DEF p
    <3> QED BY <1>3, <1>4, <1>6, <1>7, <1>8, <2>2, NoBytes
  <2>5. \A r \in Socket \ {s} :
          (returned'[r] \o Bytes(sk'[r].Rx)) \o Bytes(sk'[r].Packets) = [i \in 1..net'[r].read |-> i]
    BY <1>2, <1>7, <1>8 DEF PairInv, InputInOrder
  <2> QED BY <1>2, <2>3, <2>4, <2>5 DEF InputInOrder
<1>13. SteadyMoves
  BY <1>1, <1>2, <1>6, <1>7, <1>9, <1>10, <1>11, <1>12 DEF SteadyMoves
<1> QED BY <1>13, SteadyMovesKeeps

(* A peer does something, or the network. *)
LEMMA PeerMoves ==
  ASSUME PairInv, NEW s \in Socket, NEW c \in Connection, net' = [net EXCEPT ![s] = c],
         c.open = net[s].open, c.shut = net[s].shut, c.wire = net[s].wire, c.read = net[s].read,
         c.read <= c.sent, net[s].fin => c.fin /\ c.sent = net[s].sent, net[s].broken => c.broken,
         due' = due \/ Spares(s), Spares(s) \/ (c.fin = net[s].fin /\ c.broken = net[s].broken),
         UNCHANGED <<sk, th, writer, pairVars, returned, written>>
  PROVE  PairInv'
<1>1. NetType' /\ net'[s] = c /\ \A r \in Socket \ {s} : net'[r] = net[r]
  BY DEF PairInv, NetType
<1>2. /\ sk' = sk /\ th' = th /\ writer' = writer /\ returned' = returned /\ written' = written
      /\ exitEvent' = exitEvent /\ closeEvent' = closeEvent /\ late' = late
      /\ ClosePending' = ClosePending
  BY DEF pairVars
<1>3. /\ OwnerType' /\ \A r \in Socket \ {s} : due'[r] = due[r]
      /\ due'[s] = 0 \/ (due'[s] = due[s] /\ c.fin = net[s].fin /\ c.broken = net[s].broken)
  <2>1. CASE Spares(s)
    BY <1>2, <2>1, SparesFacts
  <2>2. CASE due' = due /\ ~Spares(s)
    BY <1>2, <2>2 DEF PairInv, OwnerType
  <2> QED BY <2>1, <2>2
<1>4. SkType' /\ FlagType' /\ BackInv'
  BY <1>2 DEF PairInv, SkType, FlagType, BackInv
<1>5. InputInOrder'
  BY <1>1, <1>2, InputStays DEF PairInv
<1>6. \A r \in Socket :
        /\ net'[r].open = net[r].open /\ net'[r].shut = net[r].shut
        /\ net'[r].wire = net[r].wire /\ net'[r].read = net[r].read
        /\ net[r].fin => net'[r].fin /\ net'[r].sent = net[r].sent
        /\ net[r].broken => net'[r].broken
  BY <1>1
<1>7. \A r \in Socket :
        due'[r] = 0 \/ (due'[r] = due[r] /\ net'[r].fin = net[r].fin /\ net'[r].broken = net[r].broken)
  BY <1>1, <1>3
<1>8. SteadyMoves
  BY <1>1, <1>2, <1>3, <1>4, <1>5, <1>6, <1>7 DEF SteadyMoves
<1> QED BY <1>8, SteadyMovesKeeps

LEMMA NetworkKeeps ==
  ASSUME PairInv, NEW s \in Socket, Network(s)
  PROVE  PairInv'
<1>1. /\ net[s] \in Connection /\ net[s].read <= net[s].sent /\ net[s].sent \in Nat /\ net[s].read \in Nat
      /\ Room \in 0..Room
  <2>1. Room \in Nat
    BY SizesAssumption
  <2> QED BY <2>1 DEF PairInv, NetType, Connection
<1>2. CASE PeerSends(s)
  <2> DEFINE c == [net[s] EXCEPT !.sent = net[s].sent + 1]
  <2>1. net[s].sent + 1 \in Nat /\ net[s].read <= net[s].sent + 1
    BY <1>1
  <2>2. /\ c \in Connection /\ c.open = net[s].open /\ c.shut = net[s].shut /\ c.wire = net[s].wire
        /\ c.read = net[s].read /\ c.sent = net[s].sent + 1 /\ c.fin = net[s].fin /\ c.broken = net[s].broken
    BY <1>1, <2>1 DEF Connection
  <2>3. /\ net' = [net EXCEPT ![s] = c] /\ ~net[s].fin /\ due' = due
        /\ UNCHANGED <<sk, th, writer, pairVars, returned, written>>
    BY <1>2 DEF PeerSends, CanSend, ownerVars
  <2> HIDE DEF c
  <2> QED BY <2>1, <2>2, <2>3, PeerMoves
<1>3. CASE PeerCloses(s)
  <2> DEFINE c == [net[s] EXCEPT !.fin = TRUE]
  <2>1. /\ c \in Connection /\ c.open = net[s].open /\ c.shut = net[s].shut /\ c.wire = net[s].wire
        /\ c.read = net[s].read /\ c.sent = net[s].sent /\ c.fin /\ c.broken = net[s].broken
    BY <1>1 DEF Connection
  <2>2. /\ net' = [net EXCEPT ![s] = c] /\ Spares(s)
        /\ UNCHANGED <<sk, th, writer, pairVars, returned, written>>
    BY <1>3 DEF PeerCloses
  <2> HIDE DEF c
  <2> QED BY <1>1, <2>1, <2>2, PeerMoves
<1>4. CASE Breaks(s)
  <2> DEFINE c == [net[s] EXCEPT !.broken = TRUE]
  <2>1. /\ c \in Connection /\ c.open = net[s].open /\ c.shut = net[s].shut /\ c.wire = net[s].wire
        /\ c.read = net[s].read /\ c.sent = net[s].sent /\ c.fin = net[s].fin /\ c.broken
    BY <1>1 DEF Connection
  <2>2. /\ net' = [net EXCEPT ![s] = c] /\ Spares(s)
        /\ UNCHANGED <<sk, th, writer, pairVars, returned, written>>
    BY <1>4 DEF Breaks
  <2> HIDE DEF c
  <2> QED BY <1>1, <2>1, <2>2, PeerMoves
<1>5. CASE Drains(s)
  <2> DEFINE c == [net[s] EXCEPT !.room = Room]
  <2>1. /\ c \in Connection /\ c.open = net[s].open /\ c.shut = net[s].shut /\ c.wire = net[s].wire
        /\ c.read = net[s].read /\ c.sent = net[s].sent /\ c.fin = net[s].fin /\ c.broken = net[s].broken
    BY <1>1 DEF Connection
  <2>2. /\ net' = [net EXCEPT ![s] = c] /\ due' = due
        /\ UNCHANGED <<sk, th, writer, pairVars, returned, written>>
    BY <1>5 DEF Drains, ownerVars
  <2> HIDE DEF c
  <2> QED BY <1>1, <2>1, <2>2, PeerMoves
<1> QED BY <1>2, <1>3, <1>4, <1>5 DEF Network

LEMMA DeadlinePassesKeeps ==
  ASSUME PairInv, DeadlinePasses
  PROVE  PairInv'
<1>1. /\ sk' = sk /\ net' = net /\ th' = th /\ writer' = writer /\ closeEvent' = closeEvent
      /\ exitEvent' = exitEvent /\ ClosePending' = ClosePending /\ late' = TRUE
      /\ returned' = returned /\ written' = written /\ due' = due /\ C.pc # "Out"
  BY DEF DeadlinePasses, ownerVars
<1>2. SkType' /\ NetType' /\ OwnerType' /\ FlagType' /\ BackInv'
  BY <1>1 DEF PairInv, SkType, NetType, OwnerType, FlagType, BackInv
<1>3. InputInOrder'
  BY <1>1, InputStays DEF PairInv
<1>4. SteadyMoves
  BY <1>1, <1>2, <1>3 DEF SteadyMoves
<1> QED BY <1>4, SteadyMovesKeeps

-----------------------------------------------------------------------------
(* Every step keeps the invariant. *)

LEMMA InitHolds ==
  ASSUME Init
  PROVE  PairInv
<1> DEFINE k == Unblocking(Attach(NewSocket))
<1>1. \A s \in Socket : sk[s] = k
  BY DEF Init
<1>2. <<>> \in Seq(Packet) /\ <<>> \in Seq(Byte)
  OBVIOUS
<1>3. /\ k \in SocketState /\ k.attached /\ k.RxEvent /\ k.BreakRead = "Off" /\ k.Disconnected = "No"
      /\ k.Rx = <<>> /\ k.Tx = <<>> /\ k.Packets = <<>>
  <2> DEFINE a == Attach(NewSocket)
  <2>1. NewSocket \in SocketState
    BY <1>2 DEF NewSocket, SocketState
  <2>2. /\ a \in SocketState /\ a.attached /\ a.BreakRead = "None" /\ a.Disconnected = "No"
        /\ a.Rx = <<>> /\ a.Tx = <<>> /\ a.Packets = <<>>
    BY <2>1 DEF NewSocket, SocketState, Attach
  <2>3. k = [a EXCEPT !.RxEvent = TRUE, !.BreakRead = "Off"]
    BY <2>2 DEF Unblocking
  <2> HIDE DEF a, k
  <2> QED BY ONLY <2>2, <2>3 DEF SocketState
<1> HIDE DEF k
<1>4. SkType
  BY <1>1, <1>3 DEF Init, SkType
<1>5. \A s \in Socket :
        /\ net[s] \in Connection /\ net[s].open /\ net[s].sent = 0 /\ net[s].read = 0 /\ ~net[s].fin
        /\ ~net[s].broken /\ net[s].wire = <<>> /\ ~net[s].shut
  <2>1. Room \in 0..Room /\ 0 \in 0..Room
    BY SizesAssumption
  <2>2. \A s \in Socket : net[s] = NewConnection(s)
    BY DEF Init
  <2>3. ASSUME NEW s \in Socket, NEW room \in 0..Room
        PROVE  LET c == [open |-> TRUE, sent |-> 0, read |-> 0, fin |-> FALSE, broken |-> FALSE,
                         room |-> room, wire |-> <<>>, shut |-> FALSE]
               IN  /\ c \in Connection /\ c.open /\ c.sent = 0 /\ c.read = 0 /\ ~c.fin
                   /\ ~c.broken /\ c.wire = <<>> /\ ~c.shut
    BY <1>2 DEF Connection
  <2> QED BY <2>1, <2>2, <2>3 DEF NewConnection
<1>6. NetType
  BY <1>5 DEF Init, NetType
<1>7. \A t \in Thread : th[t] = Resting /\ th[t] \in ThreadState /\ th[t].pc = "Out" /\ th[t].hand = <<>>
                        /\ th[t].call # "Flush"
  BY ReturnsFacts DEF Init
<1>8. ThType
  BY <1>7 DEF Init, ThType
<1>9. "Out" \notin InIO /\ "Out" \notin Flushing
  BY DEF InIO, Flushing
<1>10. WriterType /\ TxInv
  BY DEF Init, Idle, WriterType, TxInv, Socket
<1>11. \A s \in Socket : returned[s] = <<>> /\ written[s] = 0 /\ due[s] = 0
  BY DEF Init
<1>12. OwnerType
  BY <1>2, <1>11 DEF Init, OwnerType
<1>13. FlagType /\ ~exitEvent /\ ~closeEvent /\ ~late
  BY DEF Init, FlagType
<1>14. LockInv /\ HandInv
  BY <1>7, <1>9 DEF LockInv, HandInv
<1>15. BackInv /\ RxInv
  <2>1. 0 <= RxLimit
    BY SizesAssumption
  <2> QED BY <1>1, <1>3, <2>1, NoBytes DEF BackInv, RxInv
<1>16. [i \in 1..0 |-> i] = <<>> /\ (<<>> \o <<>>) \o <<>> = <<>>
  <2>1. [i \in 1..0 |-> i] = <<>>
    OBVIOUS
  <2>2. <<>> \o <<>> = <<>>
    BY <1>2, NothingAdded
  <2> QED BY <2>1, <2>2
<1>17. OutputInOrder
  <2>1. \A s \in Socket : Hand(s) = <<>>
    BY <1>7 DEF Hand
  <2>2. ASSUME NEW s \in Socket
        PROVE  (net[s].wire \o Hand(s)) \o Bytes(sk[s].Tx) = [i \in 1..written[s] |-> i]
    <3>1. net[s].wire = <<>> /\ Hand(s) = <<>> /\ written[s] = 0
      BY <1>5, <1>11, <2>1
    <3>2. Bytes(sk[s].Tx) = <<>>
      BY <1>1, <1>3, NoBytes
    <3> QED BY ONLY <3>1, <3>2, <1>16
  <2> QED BY ONLY <2>2 DEF OutputInOrder
<1>18. InputInOrder
  <2>1. ASSUME NEW s \in Socket
        PROVE  (returned[s] \o Bytes(sk[s].Rx)) \o Bytes(sk[s].Packets) = [i \in 1..net[s].read |-> i]
    <3>1. returned[s] = <<>> /\ net[s].read = 0
      BY <1>5, <1>11
    <3>2. Bytes(sk[s].Rx) = <<>> /\ Bytes(sk[s].Packets) = <<>>
      BY <1>1, <1>3, NoBytes
    <3> QED BY ONLY <3>1, <3>2, <1>16
  <2> QED BY ONLY <2>1 DEF InputInOrder
<1>19. WaitIsCovered
  BY <1>7 DEF WaitIsCovered
<1>20. FinInv /\ DueInv /\ FlushInv
  <2>1. Len(<<>>) >= 0
    OBVIOUS
  <2>2. FinInv /\ DueInv
    BY <1>1, <1>3, <1>11 DEF FinInv, DueInv
  <2>3. FlushInv
    BY <1>5, <1>11, <2>1 DEF FlushInv
  <2> QED BY <2>2, <2>3
<1>21. R.pc = "Out" /\ C.pc = "Out" /\ R.call # "Flush"
  BY <1>7 DEF R, C, Thread
<1>22. DrainInv
  BY <1>21 DEF DrainInv
<1>23. CloserInv
  BY <1>1, <1>3, <1>5, <1>13, <1>21 DEF CloserInv
<1> QED BY <1>4, <1>6, <1>8, <1>10, <1>12, <1>13, <1>14, <1>15, <1>17, <1>18, <1>19, <1>20, <1>22, <1>23 DEF PairInv

LEMMA CloserKeeps ==
  ASSUME PairInv, Closer
  PROVE  PairInv'
<1>1. CASE IO("closer")
  BY <1>1, IoKeeps DEF Thread
<1>2. CASE CloseLooks
  BY <1>2, CloseLooksKeeps
<1>3. CASE CloseShuts
  BY <1>3, CloseShutsKeeps
<1>4. CASE CloseTells
  BY <1>4, CloseTellsKeeps
<1>5. CASE CloseSocket
  BY <1>5, CloseSocketKeeps
<1>6. CASE DeadlinePasses
  BY <1>6, DeadlinePassesKeeps
<1> QED BY <1>1, <1>2, <1>3, <1>4, <1>5, <1>6 DEF Closer, CloserStep

LEMMA OwnerKeeps ==
  ASSUME PairInv, Owner
  PROVE  PairInv'
<1>1. ASSUME NEW forever \in BOOLEAN, StartRead(forever) \/ \E s \in Socket : StartSocketRead(s, forever)
      PROVE  PairInv'
  BY <1>1, StartReadKeeps
<1>2. ASSUME NEW s \in Sinks, NEW n \in Sizes, StartWrite(s, n) PROVE PairInv'
  BY <1>2, StartWriteKeeps
<1>3. ASSUME NEW graceful \in BOOLEAN, StartClose(graceful) PROVE PairInv'
  BY <1>3, StartCloseKeeps
<1>4. CASE Exit
  BY <1>4, ExitKeeps
<1>5. ASSUME NEW s \in Socket,
             StopPendingRead(s) \/ SwitchToBlockingMode(s) \/ SwitchToUnblockingMode(s) \/ Unread(s)
      PROVE  PairInv'
  BY <1>5, StopPendingReadKeeps, SwitchModeKeeps, UnreadKeeps
<1> QED BY <1>1, <1>2, <1>3, <1>4, <1>5 DEF Owner

LEMMA UnchangedKeeps ==
  ASSUME PairInv, UNCHANGED vars
  PROVE  PairInv'
<1>1. /\ sk' = sk /\ net' = net /\ th' = th /\ writer' = writer /\ exitEvent' = exitEvent
      /\ closeEvent' = closeEvent /\ ClosePending' = ClosePending /\ late' = late
      /\ returned' = returned /\ written' = written /\ due' = due
  BY DEF vars, pairVars, ownerVars
<1>2. SkType' /\ NetType' /\ OwnerType' /\ FlagType' /\ BackInv'
  BY <1>1 DEF PairInv, SkType, NetType, OwnerType, FlagType, BackInv
<1>3. InputInOrder'
  BY <1>1, InputStays DEF PairInv
<1>4. SteadyMoves
  BY <1>1, <1>2, <1>3 DEF SteadyMoves
<1> QED BY <1>4, SteadyMovesKeeps

(* The invariant holds for every limit, every set of calls and of events, and every bound. *)
THEOREM PairInvariance == Spec => []PairInv
<1>1. Init => PairInv
  BY InitHolds
<1>2. PairInv /\ [Next]_vars => PairInv'
  <2> SUFFICES ASSUME PairInv, [Next]_vars PROVE PairInv'
    OBVIOUS
  <2>1. CASE Reader
    BY <2>1, ReaderKeeps
  <2>2. CASE Writer
    BY <2>2, WriterKeeps
  <2>3. CASE Closer
    BY <2>3, CloserKeeps
  <2>4. CASE Owner
    BY <2>4, OwnerKeeps
  <2>5. CASE \E s \in Socket : Network(s)
    BY <2>5, NetworkKeeps
  <2>6. CASE UNCHANGED vars
    BY <2>6, UnchangedKeeps
  <2> QED BY <2>1, <2>2, <2>3, <2>4, <2>5, <2>6 DEF Next
<1> QED BY <1>1, <1>2, PTL DEF Spec

LEMMA QueuesAreTyped ==
  ASSUME NEW q \in Seq(Packet)
  PROVE  \A i \in DOMAIN q : IsBytes(q[i]) /\ q[i] # <<>>
<1> SUFFICES ASSUME NEW i \in DOMAIN q PROVE q[i] \in Packet
  BY DEF Packet, IsBytes, Byte
<1> QED BY ElementOfSeq

LEMMA TypesHold ==
  ASSUME PairInv
  PROVE  TypeOK
<1>1. ASSUME NEW s \in Socket
      PROVE  /\ {sk[s].attached, sk[s].RxEvent, sk[s].CloseNotify, sk[s].eventfd, sk[s].out} \subseteq BOOLEAN
             /\ sk[s].BreakRead \in {"None", "Off", "On"} /\ sk[s].Disconnected \in {"No", "Fin", "Tired"}
             /\ \A q \in {sk[s].Rx, sk[s].Tx, sk[s].Packets} : \A i \in DOMAIN q : IsBytes(q[i]) /\ q[i] # <<>>
  <2>1. sk[s] \in SocketState
    BY DEF PairInv, SkType
  <2>2. \A q \in {sk[s].Rx, sk[s].Tx, sk[s].Packets} : q \in Seq(Packet)
    BY <2>1 DEF SocketState
  <2>3. \A q \in {sk[s].Rx, sk[s].Tx, sk[s].Packets} : \A i \in DOMAIN q : IsBytes(q[i]) /\ q[i] # <<>>
    BY <2>2, QueuesAreTyped
  <2> QED BY <2>1, <2>3 DEF SocketState
<1>2. ASSUME NEW s \in Socket
      PROVE  /\ net[s].room \in 0..Room /\ net[s].read \in 0..net[s].sent /\ IsBytes(net[s].wire)
             /\ Total(sk[s].Rx) <= RxLimit
             /\ written[s] \in Nat /\ due[s] \in 0..written[s]
  <2>1. net[s] \in Connection /\ net[s].read <= net[s].sent
    BY DEF PairInv, NetType
  <2>2. net[s].read \in 0..net[s].sent /\ net[s].room \in 0..Room /\ IsBytes(net[s].wire)
    BY <2>1 DEF Connection, IsBytes, Byte
  <2>3. written[s] \in Nat /\ due[s] \in 0..written[s]
    BY DEF PairInv, OwnerType
  <2> QED BY <2>2, <2>3 DEF PairInv, RxInv
<1>3. ASSUME NEW t \in Thread
      PROVE  /\ th[t].s \in Socket /\ th[t].rounds \in Nat
             /\ th[t].pc \in InIO \cup {"Out", "Lock", "Done", "Check", "Select", "Look", "Tell", "Detach", "Closed"}
  BY DEF PairInv, ThType, ThreadState
<1>4. writer.pc \in {"Out", "Send", "Append", "Signal"} /\ writer.s \in Socket
  BY DEF PairInv, WriterType
<1>5. {exitEvent, closeEvent, ClosePending, late} \subseteq BOOLEAN
  BY DEF PairInv, FlagType
<1> QED BY <1>1, <1>2, <1>3, <1>4, <1>5 DEF TypeOK

(* Bytes keep their order in both directions, and none is lost, sent or returned twice, whatever the
   reader, the writer, the closer and the network do; nobody sleeps on them (SocketPair.cpp, SocketIO.cpp,
   LinuxIO.cpp, Queue.cpp). *)
THEOREM BytesAreSound == Spec => []BytesSound
<1>1. PairInv => BytesSound
  BY TypesHold DEF BytesSound, PairInv
<1> QED BY <1>1, PairInvariance, PTL

(* A read that says that the peer has closed has returned everything that peer sent (SocketPair::Read,
   Socket::IO). *)
THEOREM GoneIsDrained == Spec => []DrainedBeforeGone
<1>1. PairInv => DrainedBeforeGone
  <2> SUFFICES ASSUME PairInv, R.pc = "Done", ~R.ok, R.why = "Fin", C.pc = "Out", ~net[R.s].broken
        PROVE  Len(returned[R.s]) = net[R.s].sent
    BY DEF DrainedBeforeGone
  <2> DEFINE s == R.s
  <2>1. s \in Socket /\ sk[s].Rx = <<>> /\ sk[s].Packets = <<>> /\ net[s].read = net[s].sent
    BY ReaderState DEF PairInv, DrainInv
  <2>2. returned[s] \in Seq(Byte) /\ net[s].sent \in Nat
    BY <2>1 DEF PairInv, OwnerType, NetType, Connection
  <2>3. (returned[s] \o Bytes(sk[s].Rx)) \o Bytes(sk[s].Packets) = [i \in 1..net[s].read |-> i]
    BY <2>1 DEF PairInv, InputInOrder
  <2>4. returned[s] \o <<>> = returned[s]
    BY <2>2, NothingAdded
  <2>5. returned[s] = [i \in 1..net[s].sent |-> i]
    <3>1. net[s].read = net[s].sent
      BY <2>1
    <3>2. Bytes(sk[s].Rx) = <<>> /\ Bytes(sk[s].Packets) = <<>>
      BY <2>1, NoBytes
    <3> HIDE DEF s
    <3> QED BY ONLY <3>1, <3>2, <2>3, <2>4
  <2>6. Len([i \in 1..net[s].sent |-> i]) = net[s].sent
    BY <2>2
  <2> QED BY <2>5, <2>6
<1> QED BY <1>1, PairInvariance, PTL

(* A graceful close that ends before its deadline has delivered what Write had taken when it began,
   unless the peer or the connection is gone, the read is stopped, or the program exits
   (SocketPair::Close, Socket::Flush). *)
THEOREM CloseFlushes == Spec => []GracefulCloseFlushes
<1>1. PairInv => GracefulCloseFlushes
  <2> SUFFICES ASSUME PairInv, C.pc = "Closed", ~late, NEW s \in Socket
        PROVE  Len(net[s].wire) >= due[s]
    BY DEF GracefulCloseFlushes
  <2>1. "Closed" \notin Flushing
    BY DEF Flushing, InIO
  <2> QED BY <2>1 DEF PairInv, FlushInv, ToFlush
<1> QED BY <1>1, PairInvariance, PTL

(***************************************************************************)
(* The socket event loop                                                   *)
(***************************************************************************)

-----------------------------------------------------------------------------
(* Events and kinds *)

LEMMA KindFacts ==
  /\ DOMAIN Kind = {"READ", "WRITE", "CLOSE"}
  /\ \A e \in DOMAIN Kind : Kind[e] \in Kinds
BY DEF Kind, Kinds

LEMMA MakeEventTyped ==
  ASSUME NEW events \in SUBSET DOMAIN Kind
  PROVE  MakeEvent(events) \in SUBSET Kinds /\ MakeEvent(events) # Unregistered
<1>1. MakeEvent(events) \in SUBSET Kinds
  BY KindFacts DEF MakeEvent
<1>2. "UNREGISTERED" \notin Kinds
  BY DEF Kinds
<1> QED BY <1>1, <1>2 DEF Unregistered

LEMMA EventsOfTyped ==
  ASSUME NEW kinds \in (SUBSET Kinds) \ {{}}
  PROVE  EventsOf(kinds) \in (SUBSET DOMAIN Kind) \ {{}}
<1>1. EventsOf(kinds) \in SUBSET DOMAIN Kind
  BY DEF EventsOf
<1>2. PICK k \in kinds : k \in Kinds
  OBVIOUS
<1>3. \E e \in DOMAIN Kind : Kind[e] \in kinds \/ (e = "CLOSE" /\ "HUP" \in kinds)
  <2>1. CASE k = "HUP"
    BY <1>2, <2>1, KindFacts
  <2>2. CASE k = "IN"
    BY <1>2, <2>2, KindFacts DEF Kind
  <2>3. CASE k = "OUT"
    BY <1>2, <2>3, KindFacts DEF Kind
  <2>4. CASE k = "RDHUP"
    BY <1>2, <2>4, KindFacts DEF Kind
  <2> QED BY <1>2, <2>1, <2>2, <2>3, <2>4 DEF Kinds
<1> QED BY <1>1, <1>3 DEF EventsOf

LEMMA ConstantResults ==
  /\ NoResult \in Result
  /\ [NoResult EXCEPT !.op = "Wake"] \in Result
  /\ [NoResult EXCEPT !.op = "Stop", !.events = {"CLOSE"}] \in Result
BY DEF NoResult, Result

LEMMA SocketResultTyped ==
  ASSUME NEW entry \in [skt: Skt \cup {NoSocket}, events: SUBSET DOMAIN Kind],
         entry.skt # NoSocket, NEW events \in (SUBSET DOMAIN Kind) \ {{}}
  PROVE  SocketResult(entry, events) \in Result
<1>1. Operation(events) \in {"Read", "Write", "Close"}
  BY DEF Operation
<1> QED BY <1>1 DEF SocketResult, Result

(* What Pop does to the list of results. *)
LEMMA PopFacts ==
  ASSUME LoopTypeOK, Pop
  PROVE  /\ pending' \in Seq(Result) /\ result' \in Result
         /\ Len(pending') < Len(pending)
BY HeadTailProperties DEF LoopTypeOK, Pop

-----------------------------------------------------------------------------
(* The owners *)

Fields == [skt: Skt \cup {NoSocket}, events: SUBSET DOMAIN Kind]

LEMMA MaskTyped == ASSUME NEW events \in Masks PROVE events \in SUBSET DOMAIN Kind
BY MasksAssumption, KindFacts

LEMMA OpenFacts ==
  ASSUME LoopTypeOK, NEW s \in Open
  PROVE  s \in Skt /\ handle[s] \in Fd
BY DEF LoopTypeOK, Open

LEMMA AttachKeeps ==
  ASSUME LoopInv, NEW s \in Skt, NEW d \in Fd, Accept(s, d)
  PROVE  LoopInv'
<1>1. LoopTypeOK'
  <2>1. \A k \in Readiness : k \in SUBSET Kinds
    BY MasksAssumption DEF Kinds
  <2> QED BY <2>1 DEF LoopInv, LoopTypeOK, Accept, wakeVars, waitVars
<1>2. /\ s \notin Open /\ \A f \in Fd : entries[f].skt # s
      /\ handle' = [handle EXCEPT ![s] = d] /\ \A t \in Skt : handle[t] # d
      /\ UNCHANGED <<entries, interest>>
  BY DEF Accept, Watched
<1>3. handle \in [Skt -> Fd \cup {NoFd}]
  BY DEF LoopInv, LoopTypeOK
<1>4. Open' = Open \cup {s} /\ \A t \in Open : handle'[t] = handle[t]
  BY <1>2, <1>3, NamesAssumption DEF Open
<1>5. EntriesMatchEpoll'
  BY <1>2, <1>3 DEF LoopInv, EntriesMatchEpoll, IsRegistered
<1>6. OneHolder'
  BY <1>2, <1>3, <1>4 DEF LoopInv, OneHolder, Open
<1>7. OpenIsRegistered'
  BY <1>2, <1>4 DEF LoopInv, OpenIsRegistered, IsRegistered
<1>8. EntriesNameSockets'
  BY <1>2 DEF LoopInv, EntriesNameSockets
<1> QED BY <1>1, <1>5, <1>6, <1>7, <1>8 DEF LoopInv

(* Add finds no entry of s elsewhere: s is open and was not registered. *)
LEMMA AddKeeps ==
  ASSUME LoopInv, NEW s \in Skt, NEW events \in Masks, Add(s, events)
  PROVE  LoopInv'
<1> DEFINE d == handle[s]
           entry == [skt |-> s, events |-> events]
<1>1. /\ s \in Open /\ ~IsRegistered(d)
      /\ interest' = [interest EXCEPT ![d] = MakeEvent(events)]
      /\ entries' = [entries EXCEPT ![d] = entry]
      /\ UNCHANGED <<handle, ready, wakeVars, waitVars, pending>>
  BY DEF Add, Enter
<1>2. d \in Fd /\ entry \in Fields
  BY <1>1, OpenFacts, MaskTyped DEF LoopInv, Fields
<1>3. MakeEvent(events) \in SUBSET Kinds /\ MakeEvent(events) # Unregistered
  BY MaskTyped, MakeEventTyped
<1>4. entries \in [Fd -> Fields] /\ interest \in [Fd -> (SUBSET Kinds) \cup {Unregistered}]
  BY DEF LoopInv, LoopTypeOK, Fields
<1>5. entries' \in [Fd -> Fields] /\ interest' \in [Fd -> (SUBSET Kinds) \cup {Unregistered}]
  BY <1>1, <1>2, <1>3, <1>4
<1>6. LoopTypeOK'
  BY <1>1, <1>5 DEF LoopInv, LoopTypeOK, Fields, wakeVars, waitVars
<1>7. /\ entries'[d] = entry /\ interest'[d] = MakeEvent(events)
      /\ \A f \in Fd \ {d} : entries'[f] = entries[f] /\ interest'[f] = interest[f]
  BY <1>1, <1>2, <1>4
<1>8. entry.skt = s /\ entry.events = events /\ s # NoSocket
  BY NamesAssumption
<1>9. EntriesMatchEpoll'
  BY <1>1, <1>7, <1>8 DEF LoopInv, EntriesMatchEpoll, IsRegistered
<1>10. OneHolder'
  BY <1>1 DEF LoopInv, OneHolder, Open
<1>11. OpenIsRegistered'
  BY <1>1, <1>3, <1>7, <1>8 DEF LoopInv, OpenIsRegistered, IsRegistered, Open
<1>12. EntriesNameSockets'
  BY <1>7, <1>8 DEF LoopInv, EntriesNameSockets
<1> QED BY <1>6, <1>9, <1>10, <1>11, <1>12 DEF LoopInv

LEMMA UpdateKeeps ==
  ASSUME LoopInv, NEW s \in Skt, NEW events \in Masks, Update(s, events)
  PROVE  LoopInv'
<1> DEFINE d == handle[s]
<1>1. /\ s \in Open /\ entries[d] # NoEntry
      /\ entries' = [entries EXCEPT ![d].events = events]
      /\ interest' = Modify(d, events)
      /\ UNCHANGED <<handle, ready, wakeVars, waitVars, pending>>
  BY DEF Update
<1>2. d \in Fd /\ events \in SUBSET DOMAIN Kind
  BY <1>1, OpenFacts, MaskTyped DEF LoopInv
<1>3. MakeEvent(events) \in SUBSET Kinds /\ MakeEvent(events) # Unregistered
  BY MaskTyped, MakeEventTyped
<1>4. entries \in [Fd -> Fields] /\ interest \in [Fd -> (SUBSET Kinds) \cup {Unregistered}]
  BY DEF LoopInv, LoopTypeOK, Fields
<1>5. /\ entries'[d].skt = entries[d].skt /\ entries'[d].events = events
      /\ \A f \in Fd \ {d} : entries'[f] = entries[f]
      /\ entries' \in [Fd -> Fields]
  BY <1>1, <1>2, <1>4 DEF Fields
<1>6. /\ interest'[d] = IF IsRegistered(d) THEN MakeEvent(events) ELSE interest[d]
      /\ \A f \in Fd \ {d} : interest'[f] = interest[f]
      /\ interest' \in [Fd -> (SUBSET Kinds) \cup {Unregistered}]
  BY <1>1, <1>2, <1>3, <1>4 DEF Modify
<1>7. LoopTypeOK'
  BY <1>1, <1>5, <1>6 DEF LoopInv, LoopTypeOK, Fields, wakeVars, waitVars
<1>8. \A f \in Fd : (IsRegistered(f))' <=> IsRegistered(f)
  BY <1>3, <1>6 DEF IsRegistered
<1>9. EntriesMatchEpoll'
  BY <1>1, <1>5, <1>6, <1>8 DEF LoopInv, EntriesMatchEpoll
<1>10. OneHolder'
  BY <1>1 DEF LoopInv, OneHolder, Open
<1>11. OpenIsRegistered'
  <2>1. \A f \in Fd : entries'[f].skt = entries[f].skt
    BY <1>5
  <2> QED BY <1>1, <1>8, <2>1 DEF LoopInv, OpenIsRegistered, Open
<1>12. EntriesNameSockets'
  BY <1>1, <1>2, <1>5 DEF LoopInv, EntriesNameSockets
<1> QED BY <1>7, <1>9, <1>10, <1>11, <1>12 DEF LoopInv

LEMMA RemoveKeeps ==
  ASSUME LoopInv, NEW s \in Skt, RemoveSocket(s)
  PROVE  LoopInv'
<1>1. PICK d \in Fd :
        /\ entries' = [entries EXCEPT ![d] = NoEntry]
        /\ interest' = [interest EXCEPT ![d] = Unregistered]
        /\ UNCHANGED <<handle, ready, wakeVars, waitVars, pending>>
  BY DEF RemoveSocket, Erase
<1>2. entries \in [Fd -> Fields] /\ interest \in [Fd -> (SUBSET Kinds) \cup {Unregistered}]
  BY DEF LoopInv, LoopTypeOK, Fields
<1>3. NoEntry \in Fields /\ NoEntry.skt = NoSocket
  BY DEF NoEntry, Fields
<1>4. /\ entries'[d] = NoEntry /\ interest'[d] = Unregistered
      /\ \A f \in Fd \ {d} : entries'[f] = entries[f] /\ interest'[f] = interest[f]
      /\ entries' \in [Fd -> Fields]
      /\ interest' \in [Fd -> (SUBSET Kinds) \cup {Unregistered}]
  BY <1>1, <1>2, <1>3
<1>5. LoopTypeOK'
  BY <1>1, <1>4 DEF LoopInv, LoopTypeOK, Fields, wakeVars, waitVars
<1>6. EntriesMatchEpoll'
  BY <1>1, <1>4 DEF LoopInv, EntriesMatchEpoll, IsRegistered
<1>7. OneHolder'
  BY <1>1 DEF LoopInv, OneHolder, Open
<1>8. OpenIsRegistered'
  BY <1>1, <1>3, <1>4, NamesAssumption DEF LoopInv, OpenIsRegistered, IsRegistered, Open
<1>9. EntriesNameSockets'
  BY <1>4 DEF LoopInv, EntriesNameSockets
<1> QED BY <1>5, <1>6, <1>7, <1>8, <1>9 DEF LoopInv

(* What the kernel does on close keeps the entry, which is stale from then on. *)
LEMMA CloseKeeps ==
  ASSUME LoopInv, NEW s \in Skt, Close(s)
  PROVE  LoopInv'
<1> DEFINE d == handle[s]
<1>1. /\ s \in Open
      /\ handle' = [handle EXCEPT ![s] = NoFd]
      /\ ready' = [ready EXCEPT ![d] = {}]
      /\ interest' = [interest EXCEPT ![d] = Unregistered]
      /\ UNCHANGED <<entries, wakeVars, waitVars, pending>>
  BY DEF Close
<1>2. /\ handle \in [Skt -> Fd \cup {NoFd}] /\ ready \in [Fd -> SUBSET Kinds]
      /\ interest \in [Fd -> (SUBSET Kinds) \cup {Unregistered}]
  BY DEF LoopInv, LoopTypeOK
<1>3. d \in Fd
  BY <1>1, OpenFacts DEF LoopInv
<1>4. LoopTypeOK'
  <2>1. /\ handle' \in [Skt -> Fd \cup {NoFd}] /\ ready' \in [Fd -> SUBSET Kinds]
        /\ interest' \in [Fd -> (SUBSET Kinds) \cup {Unregistered}]
    BY <1>1, <1>2
  <2> QED BY <1>1, <2>1 DEF LoopInv, LoopTypeOK, wakeVars, waitVars
<1>5. Open' = Open \ {s} /\ \A t \in Open' : handle'[t] = handle[t]
  BY <1>1, <1>2 DEF Open
<1>6. interest'[d] = Unregistered /\ \A f \in Fd \ {d} : interest'[f] = interest[f]
  BY <1>1, <1>2, <1>3
<1>7. EntriesMatchEpoll'
  BY <1>1, <1>2, <1>6 DEF LoopInv, EntriesMatchEpoll, IsRegistered
<1>8. OneHolder'
  BY <1>5 DEF LoopInv, OneHolder
<1>9. OpenIsRegistered'
  <2> SUFFICES ASSUME NEW f \in Fd, entries'[f].skt \in Open'
               PROVE  handle'[entries'[f].skt] = f /\ interest'[f] # Unregistered
    BY DEF OpenIsRegistered, IsRegistered
  <2> DEFINE t == entries[f].skt
  <2>1. t \in Open /\ t # s /\ handle'[t] = handle[t] /\ entries'[f].skt = t
    BY <1>1, <1>5
  <2>2. handle[t] = f /\ interest[f] # Unregistered
    BY <2>1 DEF LoopInv, OpenIsRegistered, IsRegistered
  <2>3. f # d
    BY <1>1, <2>1, <2>2 DEF LoopInv, OneHolder
  <2> QED BY <1>6, <2>1, <2>2, <2>3
<1>10. EntriesNameSockets'
  BY <1>1 DEF LoopInv, EntriesNameSockets
<1> QED BY <1>4, <1>7, <1>8, <1>9, <1>10 DEF LoopInv

-----------------------------------------------------------------------------
(* The connections, the calls that wake, and Wait *)

LEMMA LinksStay ==
  ASSUME LoopInv, UNCHANGED <<handle, entries, interest>>, LoopTypeOK'
  PROVE  LoopInv'
BY DEF LoopInv, EntriesMatchEpoll, OneHolder, OpenIsRegistered, EntriesNameSockets,
       Open, IsRegistered

LEMMA TrafficKeeps ==
  ASSUME LoopInv, NEW s \in Skt, Traffic(s)
  PROVE  LoopInv'
<1>1. \A k \in Readiness : k \in SUBSET Kinds
  BY MasksAssumption DEF Kinds
<1>2. PICK k \in Readiness : ready' = [ready EXCEPT ![handle[s]] = k]
  BY DEF Traffic
<1>3. ready' \in [Fd -> SUBSET Kinds]
  BY <1>1, <1>2 DEF LoopInv, LoopTypeOK
<1>4. UNCHANGED <<ownVars, interest, wakeVars, waitVars, pending>>
  BY DEF Traffic
<1>5. LoopTypeOK'
  BY <1>3, <1>4 DEF LoopInv, LoopTypeOK, ownVars, wakeVars, waitVars
<1> QED BY <1>4, <1>5, LinksStay DEF ownVars

LEMMA WakeKeeps ==
  ASSUME LoopInv, Wake \/ StopStep
  PROVE  LoopInv'
<1>1. LoopTypeOK' /\ UNCHANGED <<handle, entries, interest>>
  BY DEF LoopInv, LoopTypeOK, Wake, StopStep, Stop, Signal, ownVars, kernelVars, waitVars
<1> QED BY <1>1, LinksStay

(* A result is queued for the entry that its descriptor has. *)
LEMMA QueuedFacts ==
  ASSUME LoopInv, NEW ev \in batch, ev[1] # StopEvent
  PROVE  /\ Queued(ev[1], EventsOf(ev[2])) \in Seq(Result)
         /\ \/ Queued(ev[1], EventsOf(ev[2])) = pending
            \/ /\ Len(Queued(ev[1], EventsOf(ev[2]))) = Len(pending) + 1
               /\ Queued(ev[1], EventsOf(ev[2]))[Len(pending) + 1].skt = entries[ev[1]].skt
<1> DEFINE d == ev[1]
           events == EventsOf(ev[2])
           r == SocketResult(entries[d], events)
<1>1. d \in Fd /\ ev[2] \in (SUBSET Kinds) \ {{}} /\ pending \in Seq(Result)
  BY DEF LoopInv, LoopTypeOK
<1>2. CASE entries[d] = NoEntry
  BY <1>1, <1>2 DEF Queued
<1>3. CASE entries[d] # NoEntry
  <2>1. entries[d] \in Fields /\ entries[d].skt # NoSocket
    BY <1>1, <1>3 DEF LoopInv, LoopTypeOK, Fields, EntriesNameSockets
  <2>2. r \in Result
    BY <1>1, <2>1, EventsOfTyped, SocketResultTyped DEF Fields
  <2>3. Queued(d, events) = Append(pending, r) /\ r.skt = entries[d].skt
    BY <1>3 DEF Queued, SocketResult
  <2> QED BY <1>1, <2>2, <2>3, AppendProperties
<1> QED BY <1>2, <1>3

LEMMA WaitKeeps ==
  ASSUME LoopInv, WaitStep
  PROVE  LoopInv'
<1>1. UNCHANGED <<handle, entries, interest>>
  BY DEF WaitStep, StartWait, EpollWait, QueueSocketResult, ReadStopEvent, TestStopping,
         EndOfBatch, ownVars, kernelVars
<1> SUFFICES LoopTypeOK'
  BY <1>1, LinksStay
<1>2. CASE StartWait
  <2>1. pending' \in Seq(Result) /\ result' \in Result /\ wpc' \in {"Idle", "Poll"}
    BY <1>2, PopFacts, ConstantResults DEF StartWait, Pop, LoopInv, LoopTypeOK
  <2> QED BY <1>2, <2>1 DEF StartWait, LoopInv, LoopTypeOK, ownVars, wakeVars, kernelVars
<1>3. CASE EpollWait
  <2>1. \A d \in Fd : Reported(d) \in SUBSET Kinds
    BY DEF Reported, LoopInv, LoopTypeOK
  <2>2. ReadySet \subseteq (Fd \cup {StopEvent}) \X ((SUBSET Kinds) \ {{}})
    BY <2>1 DEF ReadySet, Kinds
  <2> QED BY <1>3, <2>2 DEF EpollWait, LoopInv, LoopTypeOK, ownVars, wakeVars, kernelVars
<1>4. CASE QueueSocketResult
  BY <1>4, QueuedFacts DEF QueueSocketResult, LoopInv, LoopTypeOK, ownVars, wakeVars, kernelVars
<1>5. CASE ReadStopEvent
  BY <1>5 DEF ReadStopEvent, LoopInv, LoopTypeOK, ownVars, kernelVars
<1>6. CASE TestStopping
  <2>1. pending' \in Seq(Result) /\ result' \in Result
    BY <1>6, ConstantResults, AppendProperties DEF TestStopping, LoopInv, LoopTypeOK
  <2> QED BY <1>6, <2>1 DEF TestStopping, LoopInv, LoopTypeOK, ownVars, wakeVars, kernelVars
<1>7. CASE EndOfBatch
  BY <1>7, PopFacts DEF EndOfBatch, Pop, LoopInv, LoopTypeOK, ownVars, wakeVars, kernelVars
<1> QED BY <1>2, <1>3, <1>4, <1>5, <1>6, <1>7 DEF WaitStep

-----------------------------------------------------------------------------
LEMMA LoopInitHolds == LoopInit => LoopInv
<1> SUFFICES ASSUME LoopInit PROVE LoopInv
  OBVIOUS
<1>1. LoopTypeOK
  <2>1. NoEntry \in Fields
    BY DEF NoEntry, Fields
  <2>2. entries \in [Fd -> Fields] /\ <<>> \in Seq(Result)
    BY <2>1, EmptySeq DEF LoopInit
  <2> QED BY <2>2, ConstantResults DEF LoopInit, LoopTypeOK, Fields
<1>2. \A d \in Fd : entries[d] = NoEntry /\ ~IsRegistered(d)
  BY DEF LoopInit, IsRegistered
<1>3. Open = {}
  BY DEF LoopInit, Open
<1>4. NoEntry.skt = NoSocket
  BY DEF NoEntry
<1> QED BY <1>1, <1>2, <1>3, <1>4
        DEF LoopInv, EntriesMatchEpoll, OneHolder, OpenIsRegistered, EntriesNameSockets

LEMMA LoopNextKeeps == LoopInv /\ [LoopNext]_loopVars => LoopInv'
<1> SUFFICES ASSUME LoopInv, [LoopNext]_loopVars PROVE LoopInv'
  OBVIOUS
<1>1. ASSUME NEW s \in Skt, OwnerStep(s) PROVE LoopInv'
  BY <1>1, AttachKeeps, AddKeeps, UpdateKeeps, RemoveKeeps, CloseKeeps DEF OwnerStep
<1>2. ASSUME NEW s \in Skt, Traffic(s) PROVE LoopInv'
  BY <1>2, TrafficKeeps
<1>3. CASE Wake \/ StopStep
  BY <1>3, WakeKeeps
<1>4. CASE WaitStep
  BY <1>4, WaitKeeps
<1>5. CASE UNCHANGED loopVars
  <2>1. LoopTypeOK'
    BY <1>5 DEF LoopInv, LoopTypeOK, loopVars, ownVars, wakeVars, kernelVars, waitVars
  <2> QED BY <1>5, <2>1, LinksStay DEF loopVars, ownVars, kernelVars
<1> QED BY <1>1, <1>2, <1>3, <1>4, <1>5 DEF LoopNext

(* The handles, the entries and the epoll set of the loop fit together in every    *)
(* reachable state, for any number of sockets.                                     *)
THEOREM LoopInvariance == LoopSpec => []LoopInv
BY LoopInitHolds, LoopNextKeeps, PTL DEF LoopSpec

(* Every result names the socket or the call it is of (QueueSocketResult,          *)
(* QueueWakeResult), and all the state has its type.                               *)
THEOREM LoopTypeCorrect == LoopSpec => []LoopTypeOK
<1>1. LoopInv => LoopTypeOK
  BY DEF LoopInv
<1> QED BY <1>1, LoopInvariance, PTL

(* A descriptor in the epoll set has the entry of the socket that holds it, also   *)
(* after sockets were closed before their removal and descriptors used again.      *)
THEOREM EntriesAreOfHolders == LoopSpec => []EntriesMatchEpoll
<1>1. LoopInv => EntriesMatchEpoll
  BY DEF LoopInv
<1> QED BY <1>1, LoopInvariance, PTL

(* Only QueueSocketResult and TestStopping lengthen the list, the first with a     *)
(* result of a socket that is closed or registered.                                *)
LEMMA NothingForRemoved ==
  ASSUME LoopInv, [LoopNext]_loopVars, Len(pending') > Len(pending), NEW s \in Skt, Removed(s)
  PROVE  pending'[Len(pending')].skt # s
<1>1. Len(pending) \in Nat /\ pending \in Seq(Result)
  BY LenProperties DEF LoopInv, LoopTypeOK
<1>2. pending' # pending
  BY <1>1
<1>3. ~Pop
  BY <1>1, PopFacts DEF LoopInv
<1>4. QueueSocketResult \/ TestStopping
  BY <1>2, <1>3 DEF LoopNext, loopVars, OwnerStep, Accept, Add, Update, RemoveSocket, Close, Traffic,
       Wake, StopStep, WaitStep, StartWait, EpollWait, ReadStopEvent, EndOfBatch
<1>5. CASE QueueSocketResult
  <2>1. PICK ev \in batch : ev[1] # StopEvent /\ pending' = Queued(ev[1], EventsOf(ev[2]))
    BY <1>5 DEF QueueSocketResult
  <2>2. ev[1] \in Fd
    BY <2>1 DEF LoopInv, LoopTypeOK
  <2>3. pending'[Len(pending')].skt = entries[ev[1]].skt
    BY <1>1, <1>2, <2>1, QueuedFacts
  <2>4. entries[ev[1]].skt # s
    BY <2>2 DEF LoopInv, OpenIsRegistered, Removed
  <2> QED BY <2>3, <2>4
<1>6. CASE TestStopping
  <2> DEFINE r == [NoResult EXCEPT !.op = "Wake"]
  <2>1. pending' = Append(pending, r)
    BY <1>2, <1>6 DEF TestStopping
  <2>2. pending'[Len(pending')] = r
    BY <1>1, <2>1, ConstantResults, AppendProperties
  <2>3. r.skt = NoSocket
    BY DEF NoResult
  <2> QED BY <2>2, <2>3, NamesAssumption
<1> QED BY <1>4, <1>5, <1>6

(* No result is queued for a socket that has been removed and not closed, whatever *)
(* epoll_wait returned before its removal.                                         *)
THEOREM RemovedSocketsGetNothing == LoopSpec => RemovedGetsNothing
<1>1. LoopInv /\ [LoopNext]_loopVars =>
        [Len(pending') > Len(pending) =>
           \A s \in Skt : Removed(s) => pending'[Len(pending')].skt # s]_loopVars
  BY NothingForRemoved
<1> QED BY <1>1, LoopInvariance, PTL DEF LoopSpec, RemovedGetsNothing
=============================================================================
