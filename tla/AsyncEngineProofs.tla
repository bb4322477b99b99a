-------------------------- MODULE AsyncEngineProofs --------------------------
(***************************************************************************)
(* Proofs about AsyncEngine: for any number of streams and descriptors, an *)
(* operation that was accepted stays on its way (pending and armed for, or *)
(* among the results) and is answered once.                                *)
(***************************************************************************)
EXTENDS AsyncEngine, SequenceTheorems, TLAPS

(* A stream that was not added has no entry and no results. *)
Unborn ==
  \A s \in Stream :
    stream[s].state = "New" => (\A f \in Fd : entries[f] # s) /\ Answers(s, Op) = {}

(* The inductive invariant *)
IInv == OperationsOnTheirWay /\ AnsweredOnce /\ Unborn

-----------------------------------------------------------------------------
(* Queues of results *)

(* A result that is queued adds its place; the others keep theirs. *)
LEMMA PlacesAppend ==
  ASSUME NEW q \in Seq(ResultType), NEW r \in ResultType, NEW s, NEW ops
  PROVE  Places(Append(q, r), s, ops) =
           Places(q, s, ops) \cup (IF r.stream = s /\ r.op \in ops THEN {Len(q) + 1} ELSE {})
<1> DEFINE p == Append(q, r)
<1>1. /\ p \in Seq(ResultType) /\ Len(p) = Len(q) + 1
      /\ \A i \in 1..Len(q) : p[i] = q[i]
      /\ p[Len(q) + 1] = r
  BY AppendProperties
<1>2. DOMAIN q = 1..Len(q) /\ DOMAIN p = 1..(Len(q) + 1) /\ Len(q) \in Nat
  BY <1>1, LenProperties
<1> HIDE DEF p
<1>3. \A i : i \in DOMAIN p <=> i \in DOMAIN q \/ i = Len(q) + 1
  BY <1>2
<1>4. \A i \in DOMAIN q : p[i] = q[i]
  BY <1>1, <1>2
<1> QED BY <1>1, <1>3, <1>4 DEF Places, p

(* The results of a section are queued behind those that are there. *)
LEMMA PlacesConcat ==
  ASSUME NEW q \in Seq(ResultType), NEW p \in Seq(ResultType), NEW s, NEW ops
  PROVE  /\ q \o p \in Seq(ResultType)
         /\ Places(q \o p, s, ops) = Places(q, s, ops) \cup {Len(q) + i : i \in Places(p, s, ops)}
<1> DEFINE r == q \o p
<1>1. /\ r \in Seq(ResultType) /\ Len(r) = Len(q) + Len(p)
      /\ \A i \in 1..(Len(q) + Len(p)) : r[i] = IF i <= Len(q) THEN q[i] ELSE p[i - Len(q)]
  BY ConcatProperties
<1>2. /\ DOMAIN q = 1..Len(q) /\ DOMAIN p = 1..Len(p) /\ DOMAIN r = 1..(Len(q) + Len(p))
      /\ Len(q) \in Nat /\ Len(p) \in Nat
  BY <1>1, LenProperties
<1> HIDE DEF r
<1>3. \A i \in DOMAIN q : i \in DOMAIN r /\ r[i] = q[i]
  BY <1>1, <1>2
<1>4. \A i \in DOMAIN p : Len(q) + i \in DOMAIN r /\ r[Len(q) + i] = p[i]
  BY <1>1, <1>2
<1>5. ASSUME NEW i \in DOMAIN r PROVE i \in DOMAIN q \/ \E j \in DOMAIN p : i = Len(q) + j
  <2>1. CASE i <= Len(q)
    BY <1>2, <2>1
  <2>2. CASE ~(i <= Len(q))
    <3>1. i - Len(q) \in DOMAIN p /\ i = Len(q) + (i - Len(q))
      BY <1>2, <2>2
    <3> QED BY <3>1
  <2> QED BY <2>1, <2>2
<1>6. Places(r, s, ops) \subseteq Places(q, s, ops) \cup {Len(q) + i : i \in Places(p, s, ops)}
  BY <1>3, <1>4, <1>5 DEF Places
<1>7. Places(q, s, ops) \cup {Len(q) + i : i \in Places(p, s, ops)} \subseteq Places(r, s, ops)
  BY <1>3, <1>4 DEF Places
<1> QED BY <1>1, <1>6, <1>7 DEF r

(* The oldest result is taken: its place is gone, the others move up by one. *)
LEMMA PlacesTail ==
  ASSUME NEW q \in Seq(ResultType), q # <<>>, NEW s, NEW ops
  PROVE  /\ Head(q) \in ResultType /\ Tail(q) \in Seq(ResultType)
         /\ \A i \in Places(Tail(q), s, ops) : i \in Nat /\ i + 1 \in Places(q, s, ops) /\ i + 1 # 1
         /\ Head(q).stream = s /\ Head(q).op \in ops => 1 \in Places(q, s, ops)
         /\ ~(Head(q).stream = s /\ Head(q).op \in ops) /\ Places(q, s, ops) # {}
              => Places(Tail(q), s, ops) # {}
<1> DEFINE r == Tail(q)
<1>1. /\ Head(q) = q[1] /\ Head(q) \in ResultType
      /\ r \in Seq(ResultType) /\ Len(r) = Len(q) - 1
      /\ \A i \in 1..Len(r) : r[i] = q[i + 1]
  BY HeadTailProperties
<1>2. /\ DOMAIN q = 1..Len(q) /\ Len(q) \in Nat /\ Len(q) > 0
      /\ DOMAIN r = 1..Len(r)
  BY <1>1, LenProperties, EmptySeq
<1> HIDE DEF r
<1>3. \A i \in DOMAIN r : i \in Nat /\ i + 1 \in DOMAIN q /\ i + 1 # 1 /\ r[i] = q[i + 1]
  BY <1>1, <1>2
<1>4. 1 \in DOMAIN q
  BY <1>2
<1>5. \A i \in DOMAIN q : i = 1 \/ (i - 1 \in DOMAIN r /\ r[i - 1] = q[i])
  BY <1>1, <1>2
<1>6. \A i \in Places(r, s, ops) : i \in Nat /\ i + 1 \in Places(q, s, ops) /\ i + 1 # 1
  BY <1>3 DEF Places
<1>7. Head(q).stream = s /\ Head(q).op \in ops => 1 \in Places(q, s, ops)
  BY <1>1, <1>4 DEF Places
<1>8. ASSUME ~(Head(q).stream = s /\ Head(q).op \in ops), NEW i \in Places(q, s, ops)
      PROVE  Places(r, s, ops) # {}
  <2>1. i # 1
    BY <1>1, <1>8 DEF Places
  <2>2. i - 1 \in Places(r, s, ops)
    BY <1>5, <2>1 DEF Places
  <2> QED BY <2>2
<1> QED BY <1>1, <1>6, <1>7, <1>8 DEF r

-----------------------------------------------------------------------------
(* Sections *)

(* the record a section works on, for the stream s *)
Record(s) == [str: StreamType, skt: SocketType, out: Seq(ResultType), me: {s}, owner: {s, NoStream}]

OwnResults(x, s) == \A i \in DOMAIN x.out : x.out[i].stream = s

(* y has one result more than x *)
Adds(y, x, s, op) ==
  \A ops :
    /\ op \in ops => Places(y.out, s, ops) = Places(x.out, s, ops) \cup {Len(x.out) + 1}
    /\ op \notin ops => Places(y.out, s, ops) = Places(x.out, s, ops)

(* how an operation has fared in a section in which it was, or was not, pending: it *)
(* still is, or it has one answer, or there was an error                            *)
Fared(wasPending, isPending, answers, errors) ==
  /\ isPending => wasPending /\ answers = {}
  /\ answers # {} => wasPending
  /\ wasPending => isPending \/ answers # {} \/ errors # {}
  /\ \A i, j \in answers : i = j

(* What holds of the record of a section all the time, with the operations that were *)
(* pending at its start.                                                             *)
Section(x, s, read, write) ==
  /\ x \in Record(s)
  /\ x.str.handle = stream[s].handle /\ x.str.state = stream[s].state
  /\ x.str.Removing = stream[s].Removing
  /\ OwnResults(x, s)
  /\ Fared(read, x.str.ReadPending, Places(x.out, s, ReadAnswers), Places(x.out, s, {"Error"}))
  /\ Fared(write, x.str.WritePending, Places(x.out, s, WriteAnswers), Places(x.out, s, {"Error"}))

(* A result for the stream itself is queued, if the stream is not being removed. *)
LEMMA Queued ==
  ASSUME NEW s \in Stream, NEW x \in Record(s), ~x.str.Removing,
         OwnResults(x, s),
         NEW op \in Op \ {"Wake", "Stop"}, NEW y, y = QueueResult(x, s, op)
  PROVE  /\ y \in Record(s) /\ y.str = x.str /\ y.skt = x.skt /\ y.owner = x.owner
         /\ OwnResults(y, s) /\ Adds(y, x, s, op)
<1> DEFINE r == [stream |-> s, op |-> op]
<1>1. s # NoStream /\ x.me = s
  BY NamesAssumption DEF Record
<1>2. y = [x EXCEPT !.out = Append(@, r)]
  BY <1>1 DEF QueueResult
<1>3. r \in ResultType
  BY DEF ResultType
<1>4. x.out \in Seq(ResultType)
  BY DEF Record
<1>5. r.stream = s /\ r.op = op
  OBVIOUS
<1> HIDE DEF r
<1>6. ASSUME NEW ops
      PROVE  /\ op \in ops => Places(Append(x.out, r), s, ops) = Places(x.out, s, ops) \cup {Len(x.out) + 1}
             /\ op \notin ops => Places(Append(x.out, r), s, ops) = Places(x.out, s, ops)
  <2> DEFINE q == x.out
  <2> HIDE DEF q
  <2>1. q \in Seq(ResultType)
    BY <1>4 DEF q
  <2>2. Places(Append(q, r), s, ops) =
          Places(q, s, ops) \cup (IF r.stream = s /\ r.op \in ops THEN {Len(q) + 1} ELSE {})
    BY <1>3, <2>1, PlacesAppend
  <2> QED BY <1>5, <2>2 DEF q
<1>8. /\ y.str = x.str /\ y.skt = x.skt /\ y.owner = x.owner /\ y.out = Append(x.out, r)
      /\ y \in Record(s)
  <2>1. Append(x.out, r) \in Seq(ResultType)
    BY <1>3, <1>4, AppendProperties
  <2> DEFINE o == Append(x.out, r)
  <2>2. o \in Seq(ResultType) /\ y = [x EXCEPT !.out = o]
    BY <1>2, <2>1
  <2> HIDE DEF o
  <2>3. /\ y.str = x.str /\ y.skt = x.skt /\ y.owner = x.owner /\ y.out = o
        /\ y \in Record(s)
    BY <2>2 DEF Record
  <2> QED BY <2>3 DEF o
<1>7. \A i \in DOMAIN y.out : y.out[i].stream = s
  <2>1. /\ Len(Append(x.out, r)) = Len(x.out) + 1
        /\ \A i \in 1..Len(x.out) : Append(x.out, r)[i] = x.out[i]
        /\ Append(x.out, r)[Len(x.out) + 1] = r
        /\ Append(x.out, r) \in Seq(ResultType)
    BY <1>3, <1>4, AppendProperties
  <2>2. /\ DOMAIN Append(x.out, r) = 1..(Len(x.out) + 1) /\ DOMAIN x.out = 1..Len(x.out)
        /\ Len(x.out) \in Nat
    BY <1>4, <2>1, LenProperties
  <2> QED BY <1>5, <1>8, <2>1, <2>2 DEF OwnResults
<1> QED BY <1>6, <1>7, <1>8 DEF Adds, OwnResults

(* What a section does besides completing an operation keeps it a section. *)
LEMMA SameSection ==
  ASSUME NEW s \in Stream, NEW read \in BOOLEAN, NEW write \in BOOLEAN,
         NEW x, Section(x, s, read, write), NEW z \in Record(s),
         z.out = x.out, z.str.handle = x.str.handle, z.str.state = x.str.state,
         z.str.Removing = x.str.Removing, z.str.ReadPending = x.str.ReadPending,
         z.str.WritePending = x.str.WritePending
  PROVE  Section(z, s, read, write)
BY DEF Section, OwnResults

(* A read is completed: what was pending has its answer. *)
LEMMA ReadDoneSection ==
  ASSUME NEW s \in Stream, NEW read \in BOOLEAN, NEW write \in BOOLEAN,
         NEW x, Section(x, s, read, write), ~x.str.Removing, x.str.ReadPending, x.owner = s,
         NEW op \in ReadAnswers \cup {"Error"}
  PROVE  Section(ReadDone(x, op), s, read, write) /\ ReadDone(x, op).owner = x.owner
<1> DEFINE z == [x EXCEPT !.str.ReadPending = FALSE]
           y == QueueResult(z, s, op)
<1>1. /\ x \in Record(s) /\ x.str \in StreamType
      /\ OwnResults(x, s)
  BY DEF Section, Record
<1>2. /\ z.out = x.out /\ z.owner = x.owner
      /\ z.str = [x.str EXCEPT !.ReadPending = FALSE] /\ z \in Record(s)
  BY <1>1 DEF Record, StreamType
<1> HIDE DEF z
<1>3. /\ z.str.handle = x.str.handle /\ z.str.state = x.str.state
      /\ z.str.Removing = x.str.Removing /\ z.str.WritePending = x.str.WritePending
      /\ z.str.ReadPending = FALSE
  BY <1>1, <1>2 DEF StreamType
<1>4. op \in Op \ {"Wake", "Stop"}
  BY DEF Op, ReadAnswers
<1>5. ReadDone(x, op) = y
  BY DEF ReadDone, z
<1>6. /\ y \in Record(s) /\ y.str = z.str /\ y.owner = z.owner
      /\ OwnResults(y, s) /\ Adds(y, z, s, op)
  <2>1. ~z.str.Removing /\ OwnResults(z, s) /\ z \in Record(s)
    BY <1>1, <1>2, <1>3 DEF OwnResults
  <2>2. y = QueueResult(z, s, op)
    OBVIOUS
  <2> HIDE DEF y
  <2> QED BY <1>4, <2>1, <2>2, Queued
<1> HIDE DEF y
<1>7. Fared(write, y.str.WritePending, Places(y.out, s, WriteAnswers), Places(y.out, s, {"Error"}))
  <2>1. op \notin WriteAnswers
    BY DEF ReadAnswers, WriteAnswers
  <2>2. Places(y.out, s, WriteAnswers) = Places(x.out, s, WriteAnswers)
    BY <1>2, <1>6, <2>1 DEF Adds
  <2>3. Places(x.out, s, {"Error"}) \subseteq Places(y.out, s, {"Error"})
    BY <1>2, <1>6 DEF Adds
  <2>4. Fared(write, x.str.WritePending, Places(x.out, s, WriteAnswers), Places(x.out, s, {"Error"}))
    BY DEF Section
  <2> QED BY <1>3, <1>6, <2>2, <2>3, <2>4 DEF Fared
<1>8. Fared(read, FALSE, Places(y.out, s, ReadAnswers), Places(y.out, s, {"Error"}))
  <2>1. read /\ Places(x.out, s, ReadAnswers) = {}
    BY DEF Section, Fared
  <2>2. CASE op = "Error"
    <3>1. op \notin ReadAnswers
      BY <2>2 DEF ReadAnswers
    <3>2. Places(y.out, s, ReadAnswers) = {}
      BY <1>2, <1>6, <2>1, <3>1 DEF Adds
    <3>3. Places(y.out, s, {"Error"}) # {}
      BY <1>6, <2>2 DEF Adds
    <3> QED BY <2>1, <3>2, <3>3 DEF Fared
  <2>3. CASE op \in ReadAnswers
    <3>1. Places(y.out, s, ReadAnswers) = {Len(x.out) + 1}
      BY <1>2, <1>6, <2>1, <2>3 DEF Adds
    <3> QED BY <2>1, <3>1 DEF Fared
  <2> QED BY <2>2, <2>3
<1>9. /\ y.str.handle = stream[s].handle /\ y.str.state = stream[s].state
      /\ y.str.Removing = stream[s].Removing
  BY <1>3, <1>6 DEF Section
<1> QED BY <1>2, <1>3, <1>5, <1>6, <1>7, <1>8, <1>9 DEF Section

(* A write is completed. *)
LEMMA WriteDoneSection ==
  ASSUME NEW s \in Stream, NEW read \in BOOLEAN, NEW write \in BOOLEAN,
         NEW x, Section(x, s, read, write), ~x.str.Removing, x.str.WritePending, x.owner = s,
         NEW op \in WriteAnswers \cup {"Error"}
  PROVE  Section(WriteDone(x, op), s, read, write) /\ WriteDone(x, op).owner = x.owner
<1> DEFINE z == [x EXCEPT !.str.WritePending = FALSE, !.str.left = 0]
           y == QueueResult(z, s, op)
<1>1. /\ x \in Record(s) /\ x.str \in StreamType
      /\ OwnResults(x, s)
  BY DEF Section, Record
<1>2. /\ z.out = x.out /\ z.owner = x.owner
      /\ z.str = [x.str EXCEPT !.WritePending = FALSE, !.left = 0] /\ z \in Record(s)
  BY <1>1 DEF Record, StreamType
<1> HIDE DEF z
<1>3. /\ z.str.handle = x.str.handle /\ z.str.state = x.str.state
      /\ z.str.Removing = x.str.Removing /\ z.str.ReadPending = x.str.ReadPending
      /\ z.str.WritePending = FALSE
  BY <1>1, <1>2 DEF StreamType
<1>4. op \in Op \ {"Wake", "Stop"}
  BY DEF Op, WriteAnswers
<1>5. WriteDone(x, op) = y
  BY DEF WriteDone, z
<1>6. /\ y \in Record(s) /\ y.str = z.str /\ y.owner = z.owner
      /\ OwnResults(y, s) /\ Adds(y, z, s, op)
  <2>1. ~z.str.Removing /\ OwnResults(z, s) /\ z \in Record(s)
    BY <1>1, <1>2, <1>3 DEF OwnResults
  <2>2. y = QueueResult(z, s, op)
    OBVIOUS
  <2> HIDE DEF y
  <2> QED BY <1>4, <2>1, <2>2, Queued
<1> HIDE DEF y
<1>7. Fared(read, y.str.ReadPending, Places(y.out, s, ReadAnswers), Places(y.out, s, {"Error"}))
  <2>1. op \notin ReadAnswers
    BY DEF ReadAnswers, WriteAnswers
  <2>2. Places(y.out, s, ReadAnswers) = Places(x.out, s, ReadAnswers)
    BY <1>2, <1>6, <2>1 DEF Adds
  <2>3. Places(x.out, s, {"Error"}) \subseteq Places(y.out, s, {"Error"})
    BY <1>2, <1>6 DEF Adds
  <2>4. Fared(read, x.str.ReadPending, Places(x.out, s, ReadAnswers), Places(x.out, s, {"Error"}))
    BY DEF Section
  <2> QED BY <1>3, <1>6, <2>2, <2>3, <2>4 DEF Fared
<1>8. Fared(write, FALSE, Places(y.out, s, WriteAnswers), Places(y.out, s, {"Error"}))
  <2>1. write /\ Places(x.out, s, WriteAnswers) = {}
    BY DEF Section, Fared
  <2>2. CASE op = "Error"
    <3>1. op \notin WriteAnswers
      BY <2>2 DEF WriteAnswers
    <3>2. Places(y.out, s, WriteAnswers) = {}
      BY <1>2, <1>6, <2>1, <3>1 DEF Adds
    <3>3. Places(y.out, s, {"Error"}) # {}
      BY <1>6, <2>2 DEF Adds
    <3> QED BY <2>1, <3>2, <3>3 DEF Fared
  <2>3. CASE op \in WriteAnswers
    <3>1. Places(y.out, s, WriteAnswers) = {Len(x.out) + 1}
      BY <1>2, <1>6, <2>1, <2>3 DEF Adds
    <3> QED BY <2>1, <3>1 DEF Fared
  <2> QED BY <2>2, <2>3
<1>9. /\ y.str.handle = stream[s].handle /\ y.str.state = stream[s].state
      /\ y.str.Removing = stream[s].Removing
  BY <1>3, <1>6 DEF Section
<1> QED BY <1>2, <1>3, <1>5, <1>6, <1>7, <1>8, <1>9 DEF Section

(* recv: the read stays pending or is completed. *)
LEMMA TryReadSection ==
  ASSUME NEW s \in Stream, NEW read \in BOOLEAN, NEW write \in BOOLEAN,
         NEW x, Section(x, s, read, write), ~x.str.Removing
  PROVE  Section(TryRead(x), s, read, write) /\ TryRead(x).owner = x.owner
<1>0. /\ x \in Record(s) /\ x.str \in StreamType /\ x.skt \in SocketType
      /\ x.owner \in {s, NoStream} /\ x.out \in Seq(ResultType)
  BY DEF Section, Record
<1> DEFINE a == [x EXCEPT !.skt.inbox = @ - 1]
           b == [x EXCEPT !.skt.state = "Dead"]
           c == [x EXCEPT !.str.ReadClosed = TRUE]
<1>1. CASE ~x.str.ReadPending \/ x.owner = NoStream
  BY <1>1 DEF TryRead
<1>2. CASE x.str.ReadPending /\ x.owner # NoStream
  <2>1. x.owner = s
    BY <1>0, <1>2
  <2>2. \/ x.skt.inbox > 0 /\ TryRead(x) = ReadDone(a, "Read")
        \/ TryRead(x) = ReadDone(b, "Error")
        \/ TryRead(x) = ReadDone(c, "ReadClosed")
        \/ TryRead(x) = x
    BY <1>2 DEF TryRead
  <2>3. ASSUME x.skt.inbox > 0
        PROVE  a \in Record(s) /\ a.str = x.str /\ a.out = x.out /\ a.owner = x.owner
    BY <1>0, <2>3 DEF Record, SocketType
  <2>4. b \in Record(s) /\ b.str = x.str /\ b.out = x.out /\ b.owner = x.owner
    BY <1>0 DEF Record, SocketType
  <2>5. /\ c \in Record(s) /\ c.str = [x.str EXCEPT !.ReadClosed = TRUE] /\ c.out = x.out
        /\ c.owner = x.owner
    BY <1>0 DEF Record, StreamType
  <2> HIDE DEF a, b, c
  <2>6. /\ c.str.handle = x.str.handle /\ c.str.state = x.str.state
        /\ c.str.Removing = x.str.Removing /\ c.str.ReadPending = x.str.ReadPending
        /\ c.str.WritePending = x.str.WritePending
    BY <1>0, <2>5 DEF StreamType
  <2>7. ASSUME x.skt.inbox > 0 PROVE Section(a, s, read, write)
    BY <2>3, <2>7, SameSection
  <2>8. Section(b, s, read, write)
    BY <2>4, SameSection
  <2>9. Section(c, s, read, write)
    BY <2>5, <2>6, SameSection
  <2>10. {"Read", "ReadClosed", "Error"} \subseteq ReadAnswers \cup {"Error"}
    BY DEF ReadAnswers
  <2>11. CASE x.skt.inbox > 0 /\ TryRead(x) = ReadDone(a, "Read")
    BY <1>2, <2>1, <2>3, <2>7, <2>10, <2>11, ReadDoneSection
  <2>12. CASE TryRead(x) = ReadDone(b, "Error")
    BY <1>2, <2>1, <2>4, <2>8, <2>10, <2>12, ReadDoneSection
  <2>13. CASE TryRead(x) = ReadDone(c, "ReadClosed")
    <3>1. ~c.str.Removing /\ c.str.ReadPending /\ c.owner = s
      BY <1>2, <2>1, <2>5, <2>6
    <3>2. "ReadClosed" \in ReadAnswers \cup {"Error"}
      BY <2>10
    <3>3. Section(ReadDone(c, "ReadClosed"), s, read, write) /\ ReadDone(c, "ReadClosed").owner = c.owner
      BY <2>9, <3>1, <3>2, ReadDoneSection
    <3> QED BY <2>5, <2>13, <3>3
  <2> QED BY <2>2, <2>11, <2>12, <2>13
<1> QED BY <1>1, <1>2

(* sendmsg: the write stays pending or is completed. *)
LEMMA TryWriteSection ==
  ASSUME NEW s \in Stream, NEW read \in BOOLEAN, NEW write \in BOOLEAN,
         NEW x, Section(x, s, read, write), ~x.str.Removing
  PROVE  Section(TryWrite(x), s, read, write) /\ TryWrite(x).owner = x.owner
<1>0. /\ x \in Record(s) /\ x.str \in StreamType /\ x.skt \in SocketType
      /\ x.owner \in {s, NoStream} /\ x.out \in Seq(ResultType)
  BY DEF Section, Record
<1> DEFINE n == Min({x.str.left, x.skt.room})
           y == [x EXCEPT !.str.left = @ - n, !.skt.room = @ - n]
           b == [x EXCEPT !.skt.state = IF @ = "Reset" THEN "Dead" ELSE @]
<1>1. CASE ~x.str.WritePending \/ x.owner = NoStream
  BY <1>1 DEF TryWrite
<1>2. CASE x.str.WritePending /\ x.owner # NoStream
  <2>1. x.owner = s
    BY <1>0, <1>2
  <2>2. \/ TryWrite(x) = WriteDone(b, "Error")
        \/ TryWrite(x) = WriteDone(y, "Write")
        \/ TryWrite(x) = y
    BY <1>2 DEF TryWrite
  <2>3. n \in Nat /\ n <= x.str.left /\ n <= x.skt.room
    <3>1. x.str.left \in Nat /\ x.skt.room \in Nat
      BY <1>0 DEF StreamType, SocketType
    <3>2. \E k \in {x.str.left, x.skt.room} : \A j \in {x.str.left, x.skt.room} : k <= j
      BY <3>1
    <3> QED BY <3>1, <3>2 DEF Min
  <2> HIDE DEF n
  <2>4. /\ y.str = [x.str EXCEPT !.left = @ - n] /\ y.out = x.out /\ y.owner = x.owner
        /\ y \in Record(s)
    <3>1. x.str.left - n \in Nat /\ x.skt.room - n \in Nat
      BY <1>0, <2>3 DEF StreamType, SocketType
    <3>2. /\ [x.str EXCEPT !.left = @ - n] \in StreamType
          /\ [x.skt EXCEPT !.room = @ - n] \in SocketType
      BY <1>0, <3>1 DEF StreamType, SocketType
    <3>3. y = [x EXCEPT !.str = [x.str EXCEPT !.left = @ - n], !.skt = [x.skt EXCEPT !.room = @ - n]]
      BY <1>0 DEF Record
    <3> HIDE DEF y
    <3> QED BY <1>0, <3>2, <3>3 DEF Record
  <2>5. b \in Record(s) /\ b.str = x.str /\ b.out = x.out /\ b.owner = x.owner
    BY <1>0 DEF Record, SocketType
  <2> HIDE DEF y, b
  <2>6. /\ y.str.handle = x.str.handle /\ y.str.state = x.str.state
        /\ y.str.Removing = x.str.Removing /\ y.str.ReadPending = x.str.ReadPending
        /\ y.str.WritePending = x.str.WritePending
    BY <1>0, <2>4 DEF StreamType
  <2>7. Section(b, s, read, write)
    BY <2>5, SameSection
  <2>8. Section(y, s, read, write)
    BY <2>4, <2>6, SameSection
  <2>9. {"Write", "Error"} \subseteq WriteAnswers \cup {"Error"}
    BY DEF WriteAnswers
  <2>10. CASE TryWrite(x) = WriteDone(b, "Error")
    BY <1>2, <2>1, <2>5, <2>7, <2>9, <2>10, WriteDoneSection
  <2>11. CASE TryWrite(x) = WriteDone(y, "Write")
    <3>1. ~y.str.Removing /\ y.str.WritePending /\ y.owner = s
      BY <1>2, <2>1, <2>4, <2>6
    <3>2. "Write" \in WriteAnswers \cup {"Error"}
      BY <2>9
    <3>3. Section(WriteDone(y, "Write"), s, read, write) /\ WriteDone(y, "Write").owner = y.owner
      BY <2>8, <3>1, <3>2, WriteDoneSection
    <3> QED BY <2>4, <2>11, <3>3
  <2> QED BY <2>2, <2>4, <2>8, <2>10, <2>11
<1> QED BY <1>1, <1>2

(* A hang-up nobody waits for is told, and answers nothing. *)
LEMMA HangUpSection ==
  ASSUME NEW s \in Stream, NEW read \in BOOLEAN, NEW write \in BOOLEAN,
         NEW x, Section(x, s, read, write), ~x.str.Removing
  PROVE  /\ Section(QueueResult(x, s, "HangUp"), s, read, write)
         /\ QueueResult(x, s, "HangUp").owner = x.owner
<1> DEFINE y == QueueResult(x, s, "HangUp")
<1>1. x \in Record(s) /\ OwnResults(x, s)
  BY DEF Section
<1>2. "HangUp" \in Op \ {"Wake", "Stop"}
  BY DEF Op
<1>3. y = QueueResult(x, s, "HangUp")
  OBVIOUS
<1> HIDE DEF y
<1>4. y \in Record(s) /\ y.str = x.str /\ y.owner = x.owner /\ OwnResults(y, s) /\ Adds(y, x, s, "HangUp")
  BY <1>1, <1>2, <1>3, Queued
<1>5. "HangUp" \notin ReadAnswers /\ "HangUp" \notin WriteAnswers /\ "HangUp" \notin {"Error"}
  BY DEF ReadAnswers, WriteAnswers
<1>6. /\ Places(y.out, s, ReadAnswers) = Places(x.out, s, ReadAnswers)
      /\ Places(y.out, s, WriteAnswers) = Places(x.out, s, WriteAnswers)
      /\ Places(y.out, s, {"Error"}) = Places(x.out, s, {"Error"})
  BY <1>4, <1>5 DEF Adds
<1> QED BY <1>3, <1>4, <1>6 DEF Section

(* Both operations are given up with an error. *)
LEMMA GiveUpSection ==
  ASSUME NEW s \in Stream, NEW read \in BOOLEAN, NEW write \in BOOLEAN,
         NEW x, Section(x, s, read, write), ~x.str.Removing, x.owner = s
  PROVE  /\ Section(GiveUp(x), s, read, write) /\ GiveUp(x).owner = x.owner
         /\ ~GiveUp(x).str.ReadPending /\ ~GiveUp(x).str.WritePending
<1> DEFINE z == [x EXCEPT !.str.ReadPending = FALSE, !.str.WritePending = FALSE, !.str.left = 0]
           y == QueueResult(z, s, "Error")
<1>1. x \in Record(s) /\ x.str \in StreamType /\ OwnResults(x, s)
  BY DEF Section, Record
<1>2. /\ z.out = x.out /\ z.owner = x.owner
      /\ z.str = [x.str EXCEPT !.ReadPending = FALSE, !.WritePending = FALSE, !.left = 0]
      /\ z \in Record(s)
  BY <1>1 DEF Record, StreamType
<1>3. GiveUp(x) = y
  BY DEF GiveUp
<1> HIDE DEF z
<1>4. /\ z.str.handle = x.str.handle /\ z.str.state = x.str.state
      /\ z.str.Removing = x.str.Removing
      /\ z.str.ReadPending = FALSE /\ z.str.WritePending = FALSE
  BY <1>1, <1>2 DEF StreamType
<1>5. "Error" \in Op \ {"Wake", "Stop"} /\ "Error" \notin ReadAnswers /\ "Error" \notin WriteAnswers
  BY DEF Op, ReadAnswers, WriteAnswers
<1>6. y \in Record(s) /\ y.str = z.str /\ y.owner = z.owner /\ OwnResults(y, s) /\ Adds(y, z, s, "Error")
  <2>1. ~z.str.Removing /\ OwnResults(z, s) /\ z \in Record(s)
    BY <1>1, <1>2, <1>4 DEF OwnResults
  <2>2. y = QueueResult(z, s, "Error")
    OBVIOUS
  <2> HIDE DEF y
  <2> QED BY <1>5, <2>1, <2>2, Queued
<1> HIDE DEF y
<1>7. /\ Places(y.out, s, ReadAnswers) = Places(x.out, s, ReadAnswers)
      /\ Places(y.out, s, WriteAnswers) = Places(x.out, s, WriteAnswers)
      /\ Places(y.out, s, {"Error"}) # {}
  BY <1>2, <1>5, <1>6 DEF Adds
<1>8. /\ Fared(read, FALSE, Places(y.out, s, ReadAnswers), Places(y.out, s, {"Error"}))
      /\ Fared(write, FALSE, Places(y.out, s, WriteAnswers), Places(y.out, s, {"Error"}))
  BY <1>7 DEF Section, Fared
<1>9. /\ y.str.handle = stream[s].handle /\ y.str.state = stream[s].state
      /\ y.str.Removing = stream[s].Removing
  BY <1>4, <1>6 DEF Section
<1> QED BY <1>2, <1>3, <1>4, <1>6, <1>8, <1>9 DEF Section

-----------------------------------------------------------------------------
(* What a section leaves behind *)

(* The record x of the stream s, at the end of a section that began with the reads and *)
(* writes `read', `write': as Section, and a stream that is marked for removal in the  *)
(* section has been told of an error.                                                  *)
Outcome(x, s, read, write) ==
  /\ x \in Record(s)
  /\ x.str.handle = stream[s].handle /\ x.str.state = stream[s].state
  /\ ~x.str.Removing \/ Places(x.out, s, {"Error"}) # {}
  /\ OwnResults(x, s)
  /\ Fared(read, x.str.ReadPending, Places(x.out, s, ReadAnswers), Places(x.out, s, {"Error"}))
  /\ Fared(write, x.str.WritePending, Places(x.out, s, WriteAnswers), Places(x.out, s, {"Error"}))

(* How what the owner waits for (it `was' asked, it `is') goes with an operation that is  *)
(* pending, or not, when the section begins, and is started in it, or not; Expected is of *)
(* a stream with a descriptor.                                                            *)
Grounded(was, is, pending, started) == (pending => started) /\ (is => was \/ started)
Expected(was, is, pending, started) == (was => is) /\ (started /\ ~pending => ~was /\ is)

(* The results of s: those that were there and those of the section, which are behind *)
(* them; the results of the others are the same.                                      *)
LEMMA StoredAnswers ==
  ASSUME TypeOK, NEW s \in Stream, NEW x \in Record(s), OwnResults(x, s), Store(x)
  PROVE  /\ results' \in Seq(ResultType)
         /\ \A ops : Places(results', s, ops) =
                       Places(results, s, ops) \cup {Len(results) + i : i \in Places(x.out, s, ops)}
         /\ \A t \in Stream \ {s} : \A ops : Places(results', t, ops) = Places(results, t, ops)
<1>1. results \in Seq(ResultType) /\ x.out \in Seq(ResultType) /\ results' = results \o x.out
  BY DEF TypeOK, Record, Store
<1> DEFINE p == x.out
<1>2. p \in Seq(ResultType) /\ results' = results \o p
  BY <1>1
<1>3. \A i \in DOMAIN p : p[i].stream = s
  BY DEF OwnResults
<1> HIDE DEF p
<1>4. /\ results' \in Seq(ResultType)
      /\ \A t, ops : Places(results', t, ops) =
                       Places(results, t, ops) \cup {Len(results) + i : i \in Places(p, t, ops)}
  BY <1>1, <1>2, PlacesConcat
<1>5. ASSUME NEW t \in Stream \ {s}, NEW ops PROVE Places(p, t, ops) = {}
  BY <1>3 DEF Places
<1>6. ASSUME NEW t \in Stream \ {s}, NEW ops
      PROVE  Places(results', t, ops) = Places(results, t, ops)
  <2>1. {Len(results) + i : i \in Places(p, t, ops)} = {}
    BY <1>5
  <2>2. Places(results', t, ops) =
          Places(results, t, ops) \cup {Len(results) + i : i \in Places(p, t, ops)}
    BY <1>4
  <2> QED BY <2>1, <2>2
<1>7. \A ops : Places(results', s, ops) =
                 Places(results, s, ops) \cup {Len(results) + i : i \in Places(x.out, s, ops)}
  BY <1>4 DEF p
<1> QED BY <1>4, <1>6, <1>7

(* The stream and the socket that a section stores keep their types. *)
LEMMA StoredTypes ==
  ASSUME TypeOK, NEW s \in Stream, NEW x \in Record(s), Store(x)
  PROVE  /\ stream' \in [Stream -> StreamType]
         /\ sock' \in [Fd -> SocketType]
         /\ stream'[s] = x.str
         /\ \A t \in Stream \ {s} : stream'[t] = stream[t]
<1>1. x.str \in StreamType /\ x.skt \in SocketType /\ x.me = s
  BY DEF Record
<1>2. stream' = [stream EXCEPT ![s] = x.str] /\ stream \in [Stream -> StreamType]
  BY <1>1 DEF Store, TypeOK
<1>3. sock' = [f \in Fd |-> IF f = Handle(x.me) THEN x.skt ELSE sock[f]] /\ sock \in [Fd -> SocketType]
  BY DEF Store, TypeOK
<1>4. sock' \in [Fd -> SocketType]
  BY <1>1, <1>3
<1> QED BY <1>1, <1>2, <1>4

(* An operation is pending or answered once afterwards, unless there was an error. *)
LEMMA StillOnce ==
  ASSUME NEW was \in BOOLEAN, NEW is \in BOOLEAN, NEW pending \in BOOLEAN, NEW started \in BOOLEAN,
         NEW now \in BOOLEAN, NEW old, NEW n \in Nat, NEW new, NEW all,
         all = old \cup {n + i : i \in new},
         Grounded(was, is, pending, started), Expected(was, is, pending, started),
         Once(was, pending, old), Fared(started, now, new, {})
  PROVE  Once(is, now, all)
<1>1. CASE started
  <2>1. old = {} /\ is
    BY <1>1 DEF Expected, Once
  <2>2. now => new = {}
    BY DEF Fared
  <2>3. \A i, j \in {n + k : k \in new} : i = j
    BY DEF Fared
  <2> QED BY <2>1, <2>2, <2>3 DEF Once
<1>2. CASE ~started
  <2>1. ~now /\ new = {}
    BY <1>2 DEF Fared
  <2>2. \A i, j \in old : i = j
    BY DEF Once
  <2>3. old # {} => is
    BY DEF Once, Expected
  <2>4. old \cup {n + i : i \in new} = old
    BY <2>1
  <2> QED BY <2>1, <2>2, <2>3, <2>4 DEF Once
<1> QED BY <1>1, <1>2

(* What a section of s may find and do, for the outcome to keep the invariant. *)
Serves(s, read, write) ==
  /\ stream[s].state # "New" /\ ~stream[s].Removing
  /\ entries' = entries /\ failed' = failed
  /\ asked' \in [Stream -> SUBSET {"Read", "Write"}]
  /\ \A t \in Stream \ {s} : asked'[t] = asked[t]
  /\ Grounded("Read" \in asked[s], "Read" \in asked'[s], stream[s].ReadPending, read)
  /\ Grounded("Write" \in asked[s], "Write" \in asked'[s], stream[s].WritePending, write)
  /\ Handle(s) # NoFd =>
       /\ Expected("Read" \in asked[s], "Read" \in asked'[s], stream[s].ReadPending, read)
       /\ Expected("Write" \in asked[s], "Write" \in asked'[s], stream[s].WritePending, write)

LEMMA OutcomeForgetsNothing ==
  ASSUME IInv, NEW s \in Stream, NEW read \in BOOLEAN, NEW write \in BOOLEAN,
         NEW x, Outcome(x, s, read, write), Store(x), Serves(s, read, write)
  PROVE  NothingForgotten'
<1>1. x \in Record(s) /\ OwnResults(x, s) /\ TypeOK /\ NothingForgotten
  BY DEF Outcome, IInv, OperationsOnTheirWay
<1>2. /\ stream'[s] = x.str /\ \A t \in Stream \ {s} : stream'[t] = stream[t]
      /\ x.str \in StreamType /\ stream[s] \in StreamType
  BY <1>1, StoredTypes DEF Record, TypeOK
<1>3. /\ \A ops : Places(results', s, ops) =
                    Places(results, s, ops) \cup {Len(results) + i : i \in Places(x.out, s, ops)}
      /\ \A t \in Stream \ {s} : \A ops : Places(results', t, ops) = Places(results, t, ops)
  BY <1>1, StoredAnswers
<1>4. /\ x.str.ReadPending \in BOOLEAN /\ x.str.WritePending \in BOOLEAN /\ x.str.Removing \in BOOLEAN
      /\ stream[s].ReadPending \in BOOLEAN /\ stream[s].WritePending \in BOOLEAN
  BY <1>2 DEF StreamType
<1> DEFINE Has(ops) == Places(results', s, ops) # {}
<1>5. ASSUME NEW ops, Places(x.out, s, ops) # {} \/ Places(results, s, ops) # {} PROVE Has(ops)
  <2>1. CASE Places(results, s, ops) # {}
    BY <1>3, <2>1
  <2>2. CASE Places(x.out, s, ops) # {}
    <3>1. PICK i \in Places(x.out, s, ops) : TRUE
      BY <2>2
    <3>2. Len(results) + i \in {Len(results) + j : j \in Places(x.out, s, ops)}
      BY <3>1
    <3>3. Len(results) + i \in Places(results', s, ops)
      BY <1>3, <3>2
    <3> QED BY <3>3
  <2> QED BY <1>5, <2>1, <2>2
<1>6. ASSUME NEW ops, Places(x.out, s, ops) # {} \/ Places(x.out, s, {"Error"}) # {}
      PROVE  Has(ops \cup {"Error"})
  <2>1. Places(x.out, s, ops \cup {"Error"}) # {}
    BY <1>6 DEF Places
  <2> QED BY <1>5, <2>1
<1>7. ASSUME "Read" \in asked'[s]
      PROVE  (x.str.ReadPending /\ ~x.str.Removing) \/ Has(ReadAnswers \cup {"Error"})
  <2>1. CASE "Read" \in asked[s] /\ ~stream[s].ReadPending
    <3>1. Places(results, s, ReadAnswers \cup {"Error"}) # {}
      BY <1>1, <2>1 DEF NothingForgotten, Answers
    <3> QED BY <1>5, <3>1
  <2>2. CASE "Read" \notin asked[s] \/ stream[s].ReadPending
    <3>1. /\ Grounded("Read" \in asked[s], "Read" \in asked'[s], stream[s].ReadPending, read)
          /\ Fared(read, x.str.ReadPending, Places(x.out, s, ReadAnswers), Places(x.out, s, {"Error"}))
      BY DEF Serves, Outcome
    <3>2. \/ x.str.ReadPending \/ Places(x.out, s, ReadAnswers) # {}
          \/ Places(x.out, s, {"Error"}) # {}
      BY <1>4, <1>7, <2>2, <3>1 DEF Fared, Grounded
    <3>3. ~x.str.Removing \/ Places(x.out, s, {"Error"}) # {}
      BY DEF Outcome
    <3> QED BY <1>6, <3>2, <3>3
  <2> QED BY <2>1, <2>2
<1>8. ASSUME "Write" \in asked'[s]
      PROVE  (x.str.WritePending /\ ~x.str.Removing) \/ Has(WriteAnswers \cup {"Error"})
  <2>1. CASE "Write" \in asked[s] /\ ~stream[s].WritePending
    <3>1. Places(results, s, WriteAnswers \cup {"Error"}) # {}
      BY <1>1, <2>1 DEF NothingForgotten, Answers
    <3> QED BY <1>5, <3>1
  <2>2. CASE "Write" \notin asked[s] \/ stream[s].WritePending
    <3>1. /\ Grounded("Write" \in asked[s], "Write" \in asked'[s], stream[s].WritePending, write)
          /\ Fared(write, x.str.WritePending, Places(x.out, s, WriteAnswers), Places(x.out, s, {"Error"}))
      BY DEF Serves, Outcome
    <3>2. \/ x.str.WritePending \/ Places(x.out, s, WriteAnswers) # {}
          \/ Places(x.out, s, {"Error"}) # {}
      BY <1>4, <1>8, <2>2, <3>1 DEF Fared, Grounded
    <3>3. ~x.str.Removing \/ Places(x.out, s, {"Error"}) # {}
      BY DEF Outcome
    <3> QED BY <1>6, <3>2, <3>3
  <2> QED BY <2>1, <2>2
<1>9. ASSUME NEW t \in Stream \ {s}
      PROVE  /\ "Read" \in asked'[t] => \/ stream'[t].ReadPending /\ ~stream'[t].Removing
                                        \/ Places(results', t, ReadAnswers \cup {"Error"}) # {}
             /\ "Write" \in asked'[t] => \/ stream'[t].WritePending /\ ~stream'[t].Removing
                                         \/ Places(results', t, WriteAnswers \cup {"Error"}) # {}
  BY <1>1, <1>2, <1>3 DEF NothingForgotten, Answers, Serves
<1> QED BY <1>2, <1>7, <1>8, <1>9 DEF NothingForgotten, Answers

LEMMA OutcomeAnswersOnce ==
  ASSUME IInv, NEW s \in Stream, NEW read \in BOOLEAN, NEW write \in BOOLEAN,
         NEW x, Outcome(x, s, read, write), Store(x), Serves(s, read, write)
  PROVE  AnsweredOnce'
<1>1. x \in Record(s) /\ OwnResults(x, s) /\ TypeOK /\ AnsweredOnce
  BY DEF Outcome, IInv, OperationsOnTheirWay
<1>2. /\ stream'[s] = x.str /\ \A t \in Stream \ {s} : stream'[t] = stream[t]
      /\ x.str \in StreamType /\ stream[s] \in StreamType
  BY <1>1, StoredTypes DEF Record, TypeOK
<1>3. /\ \A ops : Places(results', s, ops) =
                    Places(results, s, ops) \cup {Len(results) + i : i \in Places(x.out, s, ops)}
      /\ \A t \in Stream \ {s} : \A ops : Places(results', t, ops) = Places(results, t, ops)
  BY <1>1, StoredAnswers
<1>4. /\ x.str.ReadPending \in BOOLEAN /\ x.str.WritePending \in BOOLEAN
      /\ stream[s].ReadPending \in BOOLEAN /\ stream[s].WritePending \in BOOLEAN
  BY <1>2 DEF StreamType
<1>5. ASSUME NEW t \in Stream, t \notin failed', Places(results', t, {"Error"}) = {},
             ~stream'[t].Removing, stream'[t].handle # NoFd
      PROVE  /\ Once("Read" \in asked'[t], stream'[t].ReadPending, Places(results', t, ReadAnswers))
             /\ Once("Write" \in asked'[t], stream'[t].WritePending, Places(results', t, WriteAnswers))
  <2>1. CASE t # s
    <3>1. /\ stream'[t] = stream[t] /\ asked'[t] = asked[t] /\ failed' = failed
          /\ \A ops : Places(results', t, ops) = Places(results, t, ops)
      BY <1>2, <1>3, <2>1 DEF Serves
    <3> QED BY <1>1, <1>5, <3>1 DEF AnsweredOnce, Answers, Handle
  <2>2. CASE t = s
    <3>1. Places(results, s, {"Error"}) = {} /\ Places(x.out, s, {"Error"}) = {}
      BY <1>3, <1>5, <2>2
    <3>2. s \notin failed /\ ~stream[s].Removing /\ Handle(s) # NoFd
      BY <1>2, <1>5, <2>2 DEF Serves, Outcome, Handle
    <3>3. /\ Once("Read" \in asked[s], stream[s].ReadPending, Places(results, s, ReadAnswers))
          /\ Once("Write" \in asked[s], stream[s].WritePending, Places(results, s, WriteAnswers))
      BY <1>1, <3>1, <3>2 DEF AnsweredOnce, Answers
    <3>4. /\ Grounded("Read" \in asked[s], "Read" \in asked'[s], stream[s].ReadPending, read)
          /\ Grounded("Write" \in asked[s], "Write" \in asked'[s], stream[s].WritePending, write)
          /\ Expected("Read" \in asked[s], "Read" \in asked'[s], stream[s].ReadPending, read)
          /\ Expected("Write" \in asked[s], "Write" \in asked'[s], stream[s].WritePending, write)
      BY <3>2 DEF Serves
    <3>5. /\ Fared(read, x.str.ReadPending, Places(x.out, s, ReadAnswers), {})
          /\ Fared(write, x.str.WritePending, Places(x.out, s, WriteAnswers), {})
      BY <3>1 DEF Outcome
    <3>6. Len(results) \in Nat
      BY <1>1, LenProperties DEF TypeOK
    <3>7. Once("Read" \in asked'[s], x.str.ReadPending,
               Places(results, s, ReadAnswers) \cup {Len(results) + i : i \in Places(x.out, s, ReadAnswers)})
      <4> DEFINE was == "Read" \in asked[s]
                 is  == "Read" \in asked'[s]
                 old == Places(results, s, ReadAnswers)
                 new == Places(x.out, s, ReadAnswers)
                 n   == Len(results)
                 all == old \cup {n + i : i \in new}
                 pending == stream[s].ReadPending
                 now == x.str.ReadPending
      <4>1. was \in BOOLEAN /\ is \in BOOLEAN /\ pending \in BOOLEAN /\ now \in BOOLEAN
        BY <1>4
      <4>2. /\ Grounded(was, is, pending, read) /\ Expected(was, is, pending, read)
            /\ Once(was, pending, old) /\ Fared(read, now, new, {})
        BY <3>3, <3>4, <3>5
      <4>3. all = old \cup {n + i : i \in new} /\ n \in Nat
        BY <3>6
      <4> HIDE DEF was, is, old, new, n, all, pending, now
      <4>4. Once(is, now, all)
        BY <4>1, <4>2, <4>3, StillOnce, SMTT(60)
      <4> QED BY <4>4 DEF is, now, old, new, n, all
    <3>8. Once("Write" \in asked'[s], x.str.WritePending,
               Places(results, s, WriteAnswers) \cup {Len(results) + i : i \in Places(x.out, s, WriteAnswers)})
      <4> DEFINE was == "Write" \in asked[s]
                 is  == "Write" \in asked'[s]
                 old == Places(results, s, WriteAnswers)
                 new == Places(x.out, s, WriteAnswers)
                 n   == Len(results)
                 all == old \cup {n + i : i \in new}
                 pending == stream[s].WritePending
                 now == x.str.WritePending
      <4>1. was \in BOOLEAN /\ is \in BOOLEAN /\ pending \in BOOLEAN /\ now \in BOOLEAN
        BY <1>4
      <4>2. /\ Grounded(was, is, pending, write) /\ Expected(was, is, pending, write)
            /\ Once(was, pending, old) /\ Fared(write, now, new, {})
        BY <3>3, <3>4, <3>5
      <4>3. all = old \cup {n + i : i \in new} /\ n \in Nat
        BY <3>6
      <4> HIDE DEF was, is, old, new, n, all, pending, now
      <4>4. Once(is, now, all)
        BY <4>1, <4>2, <4>3, StillOnce, SMTT(60)
      <4> QED BY <4>4 DEF is, now, old, new, n, all
    <3> QED BY <1>2, <1>3, <2>2, <3>7, <3>8
  <2> QED BY <2>1, <2>2
<1> QED BY <1>5 DEF AnsweredOnce, Answers, Handle

LEMMA OutcomeHolders ==
  ASSUME IInv, NEW s \in Stream, NEW read \in BOOLEAN, NEW write \in BOOLEAN,
         NEW x, Outcome(x, s, read, write), Store(x), Serves(s, read, write)
  PROVE  Holders' /\ Unborn'
<1>1. x \in Record(s) /\ OwnResults(x, s) /\ TypeOK /\ Holders /\ Unborn
  BY DEF Outcome, IInv, OperationsOnTheirWay
<1>2. stream'[s] = x.str /\ \A t \in Stream \ {s} : stream'[t] = stream[t]
  BY <1>1, StoredTypes
<1>3. \A t \in Stream \ {s} : \A ops : Places(results', t, ops) = Places(results, t, ops)
  BY <1>1, StoredAnswers
<1>4. /\ x.str.handle = stream[s].handle /\ x.str.state = stream[s].state
      /\ x.str.state # "New" /\ ~stream[s].Removing
      /\ entries' = entries /\ \A t \in Stream \ {s} : asked'[t] = asked[t]
  BY DEF Outcome, Serves
<1>5. Holders'
  BY <1>1, <1>2, <1>4 DEF Holders, Owner, Handle
<1>6. Unborn'
  BY <1>1, <1>2, <1>3, <1>4 DEF Unborn, Answers
<1> QED BY <1>5, <1>6

-----------------------------------------------------------------------------
(* Steps *)

(* What a step does to the thread in Wait and to the signals, in a section of s: an event *)
(* that Wait is through with is one of s, or of no descriptor.                            *)
Attends(s) ==
  /\ stopping' \in BOOLEAN /\ nudge' \in BOOLEAN
  /\ wpc' \in {"Out", "Poll", "Events", "Stopped"}
  /\ batch' \subseteq batch /\ (batch' # {} => wpc' = "Events")
  /\ \A e \in batch : e \in batch' \/ e.fd \notin Fd \/ entries[e.fd] = s

(* The end of a section arms the descriptor for what is pending. *)
LEMMA UpdateArms ==
  ASSUME IInv, NEW s \in Stream, NEW read \in BOOLEAN, NEW write \in BOOLEAN,
         NEW x, NEW z, Outcome(z, s, read, write), x.me = s, Store(z), Serves(s, read, write), Attends(s),
         \/ /\ z = x /\ (Idle(x) \/ Handle(s) = NoFd)
            /\ interest' = interest
         \/ /\ z = x /\ Handle(s) # NoFd
            /\ interest' = [interest EXCEPT ![Handle(s)] = MakeEvent(x.str)]
         \/ /\ ~z.str.ReadPending /\ ~z.str.WritePending
            /\ interest' = interest,
         ~z.str.Removing
  PROVE  PendingIsArmed' /\ interest' \in [Fd -> SUBSET {"ARMED", "IN", "OUT"}]
<1>1. /\ z \in Record(s) /\ TypeOK /\ Holders /\ PendingIsArmed /\ z.str.handle = Handle(s)
      /\ ~stream[s].Removing /\ entries' = entries
  BY DEF Outcome, IInv, OperationsOnTheirWay, Serves, Handle
<1>2. stream'[s] = z.str /\ \A t \in Stream \ {s} : stream'[t] = stream[t]
  BY <1>1, StoredTypes
<1>3. /\ interest \in [Fd -> SUBSET {"ARMED", "IN", "OUT"}] /\ entries \in [Fd -> Stream \cup {NoStream}]
      /\ stream \in [Stream -> StreamType]
  BY <1>1 DEF TypeOK
<1>4. MakeEvent(x.str) \in SUBSET {"ARMED", "IN", "OUT"}
  BY DEF MakeEvent
<1>5. interest' \in [Fd -> SUBSET {"ARMED", "IN", "OUT"}]
  BY <1>3, <1>4
<1>6. ASSUME NEW f \in Fd, entries[f] # NoStream, stream'[entries[f]].handle = f,
             ~stream'[entries[f]].Removing, \A e \in batch' : e.fd # f
      PROVE  /\ stream'[entries[f]].ReadPending => "IN" \in interest'[f]
             /\ stream'[entries[f]].WritePending => "OUT" \in interest'[f]
  <2>1. entries[f] \in Stream /\ f # NoFd
    BY <1>3, <1>6, NamesAssumption
  <2>2. CASE entries[f] = s
    <3>1. Handle(s) = f /\ Handle(s) # NoFd
      BY <1>1, <1>2, <1>6, <2>1, <2>2
    <3>2. CASE z = x /\ interest' = [interest EXCEPT ![Handle(s)] = MakeEvent(x.str)]
      <4>1. interest'[f] = MakeEvent(z.str)
        BY <1>3, <3>1, <3>2
      <4> QED BY <1>2, <2>2, <4>1 DEF MakeEvent
    <3>3. CASE ~z.str.ReadPending /\ ~z.str.WritePending
      BY <1>2, <2>2, <3>3
    <3>4. CASE z = x /\ Idle(x)
      BY <1>2, <2>2, <3>4 DEF Idle
    <3> QED BY <3>1, <3>2, <3>3, <3>4
  <2>3. CASE entries[f] # s
    <3>1. stream'[entries[f]] = stream[entries[f]]
      BY <1>2, <2>1, <2>3
    <3>2. \A e \in batch : e.fd # f
      BY <1>6, <2>3 DEF Attends
    <3>3. interest'[f] = interest[f]
      <4>1. Handle(s) # NoFd => entries[Handle(s)] = s
        BY <1>1 DEF Holders, Owner
      <4>2. Handle(s) # NoFd => Handle(s) # f
        BY <2>3, <4>1
      <4> QED BY <1>3, <4>2
    <3> QED BY <1>1, <1>6, <3>1, <3>2, <3>3 DEF PendingIsArmed, Handle
  <2> QED BY <2>2, <2>3
<1>7. PendingIsArmed'
  BY <1>1, <1>6 DEF PendingIsArmed, Handle
<1> QED BY <1>5, <1>7

(* A section that ends in UpdateInterestLocked keeps the invariant. *)
LEMMA SectionStep ==
  ASSUME IInv, NEW s \in Stream, NEW read \in BOOLEAN, NEW write \in BOOLEAN,
         NEW x, Section(x, s, read, write), x.owner = Owner(s), NEW u, UpdateInterest(x, u),
         Serves(s, read, write), Attends(s)
  PROVE  IInv'
<1>1. /\ x \in Record(s) /\ x.me = s /\ ~stream[s].Removing /\ ~x.str.Removing
      /\ TypeOK /\ Holders
  BY DEF Section, Record, Serves, IInv, OperationsOnTheirWay
<1>2. \E z : /\ Section(z, s, read, write) /\ Store(z)
             /\ \/ /\ z = x /\ (Idle(x) \/ Handle(s) = NoFd)
                   /\ interest' = interest
                \/ /\ z = x /\ Handle(s) # NoFd
                   /\ interest' = [interest EXCEPT ![Handle(s)] = MakeEvent(x.str)]
                \/ /\ ~z.str.ReadPending /\ ~z.str.WritePending
                   /\ interest' = interest
  <2>1. CASE Store(x) /\ (Idle(x) \/ Handle(s) = NoFd) /\ interest' = interest
    BY <2>1
  <2>2. CASE Store(x) /\ Handle(s) # NoFd /\ interest' = [interest EXCEPT ![Handle(s)] = MakeEvent(x.str)]
    BY <2>2
  <2>3. CASE Store(GiveUp(x)) /\ Handle(s) # NoFd /\ interest' = interest
    <3>1. x.owner = s
      BY <1>1, <2>3 DEF Holders
    <3>2. /\ Section(GiveUp(x), s, read, write)
          /\ ~GiveUp(x).str.ReadPending /\ ~GiveUp(x).str.WritePending
      BY <1>1, <3>1, GiveUpSection
    <3> QED BY <2>3, <3>2
  <2> QED BY <1>1, <2>1, <2>2, <2>3 DEF UpdateInterest
<1>3. PICK z : /\ Section(z, s, read, write) /\ Store(z)
               /\ \/ /\ z = x /\ (Idle(x) \/ Handle(s) = NoFd)
                     /\ interest' = interest
                  \/ /\ z = x /\ Handle(s) # NoFd
                     /\ interest' = [interest EXCEPT ![Handle(s)] = MakeEvent(x.str)]
                  \/ /\ ~z.str.ReadPending /\ ~z.str.WritePending
                     /\ interest' = interest
  BY <1>2
<1>4. Outcome(z, s, read, write) /\ z \in Record(s) /\ ~z.str.Removing /\ OwnResults(z, s)
  BY <1>1, <1>3 DEF Outcome, Section
<1>5. PendingIsArmed' /\ interest' \in [Fd -> SUBSET {"ARMED", "IN", "OUT"}]
  BY <1>1, <1>3, <1>4, UpdateArms
<1>6. NothingForgotten' /\ AnsweredOnce' /\ Holders' /\ Unborn'
  BY <1>3, <1>4, OutcomeForgetsNothing, OutcomeAnswersOnce, OutcomeHolders
<1>7. TypeOK'
  <2>1. stream' \in [Stream -> StreamType] /\ sock' \in [Fd -> SocketType]
    BY <1>1, <1>3, <1>4, StoredTypes
  <2>2. results' \in Seq(ResultType)
    BY <1>1, <1>3, <1>4, StoredAnswers
  <2>3. eventfd' \in BOOLEAN
    BY <1>1 DEF UpdateInterest, TypeOK
  <2>4. /\ entries' \in [Fd -> Stream \cup {NoStream}] /\ failed' \subseteq Stream
        /\ asked' \in [Stream -> SUBSET {"Read", "Write"}]
    BY <1>1 DEF Serves, TypeOK
  <2>5. {stopping', eventfd', nudge'} \subseteq BOOLEAN
    BY <2>3 DEF Attends
  <2>6. batch' \subseteq [fd: Fd \cup {EventFd}, events: SUBSET {"IN", "OUT", "HUP", "ERR"}]
    BY <1>1 DEF TypeOK, Attends
  <2> QED BY <1>5, <2>1, <2>2, <2>4, <2>5, <2>6 DEF TypeOK, Attends
<1> QED BY <1>5, <1>6, <1>7 DEF IInv, OperationsOnTheirWay

(* What a section begins with. *)
LEMMA ViewSection ==
  ASSUME IInv, NEW s \in Stream, ~stream[s].Removing
  PROVE  /\ Section(View(s), s, stream[s].ReadPending, stream[s].WritePending)
         /\ View(s).owner = Owner(s) /\ View(s).str = stream[s] /\ View(s).out = <<>>
         /\ View(s) \in Record(s) /\ stream[s] \in StreamType
         /\ stream[s].ReadPending \in BOOLEAN /\ stream[s].WritePending \in BOOLEAN
         /\ Handle(s) # NoFd => Owner(s) = s
<1>1. TypeOK /\ Holders
  BY DEF IInv, OperationsOnTheirWay
<1>2. stream[s] \in StreamType /\ sock \in [Fd -> SocketType]
  BY <1>1 DEF TypeOK
<1>3. /\ stream[s].ReadPending \in BOOLEAN /\ stream[s].WritePending \in BOOLEAN
      /\ Handle(s) \in Fd \cup {NoFd}
  BY <1>2 DEF StreamType, Handle
<1>4. Handle(s) # NoFd => Owner(s) = s
  BY <1>1 DEF Holders
<1>5. Owner(s) \in {s, NoStream}
  BY <1>4 DEF Owner
<1>6. Closed \in SocketType
  BY DEF Closed, SocketType
<1>7. (IF Handle(s) = NoFd THEN Closed ELSE sock[Handle(s)]) \in SocketType
  BY <1>2, <1>3, <1>6
<1>8. <<>> \in Seq(ResultType)
  BY EmptySeq
<1> DEFINE x == View(s)
<1>9. x \in Record(s) /\ x.owner = Owner(s) /\ x.str = stream[s] /\ x.out = <<>>
  BY <1>2, <1>5, <1>7, <1>8 DEF View, Record
<1> HIDE DEF x
<1>10. DOMAIN <<>> = {}
  OBVIOUS
<1>11. OwnResults(x, s) /\ \A ops : Places(x.out, s, ops) = {}
  BY <1>9, <1>10 DEF OwnResults, Places
<1>12. Section(x, s, stream[s].ReadPending, stream[s].WritePending)
  BY <1>9, <1>11 DEF Section, Fared
<1> QED BY <1>2, <1>3, <1>4, <1>9, <1>12 DEF x

LEMMA StartReadStep ==
  ASSUME IInv, NEW s \in Stream, StartRead(s)
  PROVE  IInv'
<1>1. /\ stream[s].state = "Added" /\ "Read" \notin asked[s]
      /\ ~stream[s].Removing /\ ~stream[s].ReadPending
  BY DEF StartRead
<1> DEFINE v == View(s)
           w == [v EXCEPT !.str.ReadPending = TRUE]
           write == stream[s].WritePending
<1>2. /\ Section(v, s, stream[s].ReadPending, write)
      /\ v.owner = Owner(s) /\ v.str = stream[s] /\ v.out = <<>>
      /\ v \in Record(s) /\ stream[s] \in StreamType /\ write \in BOOLEAN
      /\ Handle(s) # NoFd => Owner(s) = s
  BY <1>1, ViewSection
<1> HIDE DEF v
<1>3. /\ w.str = [v.str EXCEPT !.ReadPending = TRUE] /\ w.out = v.out /\ w.owner = v.owner
      /\ w \in Record(s)
  BY <1>2 DEF Record, StreamType
<1> HIDE DEF w
<1>4. /\ w.str.handle = v.str.handle /\ w.str.state = v.str.state /\ w.str.Removing = v.str.Removing
      /\ w.str.WritePending = v.str.WritePending /\ w.str.ReadPending = TRUE
  BY <1>2, <1>3 DEF StreamType
<1>5. \A ops : Places(w.out, s, ops) = {}
  BY <1>2, <1>3 DEF Places
<1>6. Section(w, s, TRUE, write)
  <2>1. OwnResults(w, s)
    BY <1>2, <1>3 DEF OwnResults
  <2> QED BY <1>2, <1>3, <1>4, <1>5, <2>1 DEF Section, Fared
<1> DEFINE x == TryRead(w)
<1>7. Section(x, s, TRUE, write) /\ x.owner = Owner(s)
  BY <1>1, <1>2, <1>3, <1>4, <1>6, TryReadSection
<1>8. /\ UpdateInterest(x, Started)
      /\ asked' = IF x.owner = NoStream THEN asked ELSE [asked EXCEPT ![s] = @ \cup {"Read"}]
      /\ Calls /\ UNCHANGED <<entries, waitVars, stopping, failed>>
  BY DEF StartRead, w, v
<1> HIDE DEF x, write
<1>9. TypeOK
  BY DEF IInv, OperationsOnTheirWay
<1>10. asked \in [Stream -> SUBSET {"Read", "Write"}]
  BY <1>9 DEF TypeOK
<1>11. Serves(s, TRUE, write)
  <2>1. /\ asked' \in [Stream -> SUBSET {"Read", "Write"}]
        /\ \A t \in Stream \ {s} : asked'[t] = asked[t]
        /\ "Write" \in asked'[s] <=> "Write" \in asked[s]
        /\ Owner(s) # NoStream => "Read" \in asked'[s]
    BY <1>7, <1>8, <1>10
  <2>2. Handle(s) # NoFd => "Read" \in asked'[s]
    BY <1>2, <2>1, NamesAssumption
  <2> QED BY <1>1, <1>8, <2>1, <2>2 DEF Serves, Grounded, Expected, write
<1>12. Attends(s)
  BY <1>8, <1>9 DEF Attends, Calls, waitVars, TypeOK
<1> QED BY <1>2, <1>7, <1>8, <1>11, <1>12, SectionStep

LEMMA StartWriteStep ==
  ASSUME IInv, NEW s \in Stream, StartWrite(s)
  PROVE  IInv'
<1>1. /\ stream[s].state = "Added" /\ "Write" \notin asked[s]
      /\ ~stream[s].Removing /\ ~stream[s].WritePending
  BY DEF StartWrite
<1>2. PICK n \in Sizes :
        LET x == TryWrite([View(s) EXCEPT !.str.WritePending = TRUE, !.str.left = n]) IN
        /\ UpdateInterest(x, Started)
        /\ asked' = IF x.owner = NoStream THEN asked ELSE [asked EXCEPT ![s] = @ \cup {"Write"}]
  BY DEF StartWrite
<1> DEFINE v == View(s)
           w == [v EXCEPT !.str.WritePending = TRUE, !.str.left = n]
           read == stream[s].ReadPending
<1>3. /\ Section(v, s, read, stream[s].WritePending)
      /\ v.owner = Owner(s) /\ v.str = stream[s] /\ v.out = <<>>
      /\ v \in Record(s) /\ stream[s] \in StreamType /\ read \in BOOLEAN
      /\ Handle(s) # NoFd => Owner(s) = s
  BY <1>1, ViewSection
<1> HIDE DEF v
<1>4. /\ w.str = [v.str EXCEPT !.WritePending = TRUE, !.left = n] /\ w.out = v.out /\ w.owner = v.owner
      /\ w \in Record(s)
  <2>1. n \in Nat
    BY BoundsAssumption
  <2> QED BY <1>3, <2>1 DEF Record, StreamType
<1> HIDE DEF w
<1>5. /\ w.str.handle = v.str.handle /\ w.str.state = v.str.state /\ w.str.Removing = v.str.Removing
      /\ w.str.ReadPending = v.str.ReadPending /\ w.str.WritePending = TRUE
  BY <1>3, <1>4 DEF StreamType
<1>6. \A ops : Places(w.out, s, ops) = {}
  BY <1>3, <1>4 DEF Places
<1>7. Section(w, s, read, TRUE)
  <2>1. OwnResults(w, s)
    BY <1>3, <1>4 DEF OwnResults
  <2> QED BY <1>3, <1>4, <1>5, <1>6, <2>1 DEF Section, Fared
<1> DEFINE x == TryWrite(w)
<1>8. Section(x, s, read, TRUE) /\ x.owner = Owner(s)
  BY <1>1, <1>3, <1>4, <1>5, <1>7, TryWriteSection
<1>9. /\ UpdateInterest(x, Started)
      /\ asked' = IF x.owner = NoStream THEN asked ELSE [asked EXCEPT ![s] = @ \cup {"Write"}]
  BY <1>2 DEF w, v
<1>10. Calls /\ UNCHANGED <<entries, waitVars, stopping, failed>>
  BY DEF StartWrite
<1> HIDE DEF x, read
<1>11. TypeOK
  BY DEF IInv, OperationsOnTheirWay
<1>12. asked \in [Stream -> SUBSET {"Read", "Write"}]
  BY <1>11 DEF TypeOK
<1>13. Serves(s, read, TRUE)
  <2>1. /\ asked' \in [Stream -> SUBSET {"Read", "Write"}]
        /\ \A t \in Stream \ {s} : asked'[t] = asked[t]
        /\ "Read" \in asked'[s] <=> "Read" \in asked[s]
        /\ Owner(s) # NoStream => "Write" \in asked'[s]
    BY <1>8, <1>9, <1>12
  <2>2. Handle(s) # NoFd => "Write" \in asked'[s]
    BY <1>3, <2>1, NamesAssumption
  <2> QED BY <1>1, <1>10, <2>1, <2>2 DEF Serves, Grounded, Expected, read
<1>14. Attends(s)
  BY <1>10, <1>11 DEF Attends, Calls, waitVars, TypeOK
<1> QED BY <1>3, <1>8, <1>9, <1>13, <1>14, SectionStep

(* The processing of one event is a section of its stream. *)
Processing(e) ==
  /\ wpc = "Events" /\ e \in batch /\ batch' = batch \ {e}
  /\ UNCHANGED <<wpc, stopping, nudge, ownerVars>>

LEMMA ProcessingServes ==
  ASSUME IInv, NEW e, Processing(e), NEW s \in Stream, Found(e, s), entries' = entries
  PROVE  /\ e.fd \in Fd /\ ~stream[s].Removing /\ stream[s].state # "New"
         /\ Serves(s, stream[s].ReadPending, stream[s].WritePending) /\ Attends(s)
<1>1. TypeOK /\ Unborn
  BY DEF IInv, OperationsOnTheirWay
<1>2. e.fd \in Fd
  <2>1. e \in [fd: Fd \cup {EventFd}, events: SUBSET {"IN", "OUT", "HUP", "ERR"}] /\ e.fd # EventFd
    BY <1>1 DEF TypeOK, Processing, Found
  <2> QED BY <2>1
<1>3. ~stream[s].Removing /\ stream[s].state # "New" /\ entries[e.fd] = s
  BY <1>1, <1>2 DEF Found, Unborn
<1>4. asked' = asked /\ failed' = failed /\ asked \in [Stream -> SUBSET {"Read", "Write"}]
  BY <1>1 DEF Processing, ownerVars, TypeOK
<1>5. Serves(s, stream[s].ReadPending, stream[s].WritePending)
  BY <1>3, <1>4 DEF Serves, Grounded, Expected
<1>6. Attends(s)
  BY <1>1, <1>3 DEF Attends, Processing, TypeOK
<1> QED BY <1>2, <1>3, <1>5, <1>6

LEMMA OnReadyStep ==
  ASSUME IInv, NEW e, Processing(e), NEW s \in Stream, OnReady(e, s)
  PROVE  IInv'
<1> DEFINE read == stream[s].ReadPending
           write == stream[s].WritePending
           hup == "HUP" \in e.events
           x == IF hup \/ "IN" \in e.events THEN TryRead(View(s)) ELSE View(s)
           y == IF hup \/ "OUT" \in e.events THEN TryWrite(x) ELSE x
           z == IF hup /\ ~y.str.ReadPending /\ ~y.str.WritePending
                THEN QueueResult(y, s, "HangUp") ELSE y
<1>1. Found(e, s) /\ UpdateInterest(z, used) /\ entries' = entries
  BY DEF OnReady
<1>2. ~stream[s].Removing /\ Serves(s, read, write) /\ Attends(s)
  BY <1>1, ProcessingServes
<1>3. /\ Section(View(s), s, read, write) /\ View(s).owner = Owner(s)
      /\ read \in BOOLEAN /\ write \in BOOLEAN
  BY <1>2, ViewSection
<1> HIDE DEF read, write, hup
<1>4. ASSUME NEW r, Section(r, s, read, write) PROVE ~r.str.Removing
  BY <1>2, <1>4 DEF Section
<1>5. Section(x, s, read, write) /\ x.owner = Owner(s)
  BY <1>3, <1>4, TryReadSection
<1> HIDE DEF x
<1>6. Section(y, s, read, write) /\ y.owner = Owner(s)
  BY <1>3, <1>4, <1>5, TryWriteSection
<1> HIDE DEF y
<1>7. Section(z, s, read, write) /\ z.owner = Owner(s)
  BY <1>3, <1>4, <1>6, HangUpSection
<1> HIDE DEF z
<1> QED BY <1>1, <1>2, <1>3, <1>7, SectionStep

(* The stream that had an error is told of it, and marked. *)
LEMMA OnErrorStep ==
  ASSUME IInv, NEW e, Processing(e), NEW s \in Stream, OnError(e, s)
  PROVE  IInv'
<1> DEFINE read == stream[s].ReadPending
           write == stream[s].WritePending
           v == View(s)
           y == QueueResult(v, s, "Error")
           z == [y EXCEPT !.str.Removing = TRUE, !.skt.state = IF @ = "Reset" THEN "Dead" ELSE @]
<1>1. Found(e, s) /\ Store(z) /\ entries' = entries /\ interest' = interest /\ eventfd' = eventfd
  BY DEF OnError
<1>2. /\ ~stream[s].Removing /\ Serves(s, read, write) /\ Attends(s)
      /\ TypeOK /\ PendingIsArmed
  BY <1>1, ProcessingServes DEF IInv, OperationsOnTheirWay
<1>3. /\ Section(v, s, read, write) /\ v \in Record(s) /\ v.str = stream[s] /\ v.out = <<>>
      /\ read \in BOOLEAN /\ write \in BOOLEAN /\ stream[s] \in StreamType
  BY <1>2, ViewSection
<1> HIDE DEF v
<1>4. /\ y \in Record(s) /\ y.str = v.str /\ y.skt = v.skt
      /\ OwnResults(y, s) /\ Adds(y, v, s, "Error")
  <2>1. "Error" \in Op \ {"Wake", "Stop"} /\ OwnResults(v, s) /\ ~v.str.Removing
    BY <1>2, <1>3 DEF Op, Section
  <2>2. y = QueueResult(v, s, "Error")
    OBVIOUS
  <2> HIDE DEF y
  <2> QED BY <1>3, <2>1, <2>2, Queued
<1> HIDE DEF y
<1>5. /\ z \in Record(s) /\ z.str = [y.str EXCEPT !.Removing = TRUE] /\ z.out = y.out
  BY <1>4 DEF Record, StreamType, SocketType
<1> HIDE DEF z
<1>6. /\ z.str.handle = stream[s].handle /\ z.str.state = stream[s].state /\ z.str.Removing
      /\ z.str.ReadPending = read /\ z.str.WritePending = write
  BY <1>3, <1>4, <1>5 DEF StreamType
<1>7. /\ Places(z.out, s, ReadAnswers) = {} /\ Places(z.out, s, WriteAnswers) = {}
      /\ Places(z.out, s, {"Error"}) # {}
  <2>1. "Error" \notin ReadAnswers /\ "Error" \notin WriteAnswers
    BY DEF ReadAnswers, WriteAnswers
  <2>2. \A ops : Places(v.out, s, ops) = {}
    BY <1>3 DEF Places
  <2>3. Places(z.out, s, ReadAnswers) = {} /\ Places(z.out, s, WriteAnswers) = {}
    BY <1>4, <1>5, <2>1, <2>2 DEF Adds
  <2>4. Places(z.out, s, {"Error"}) = Places(v.out, s, {"Error"}) \cup {Len(v.out) + 1}
    BY <1>4, <1>5 DEF Adds
  <2> QED BY <2>3, <2>4
<1>8. OwnResults(z, s)
  BY <1>4, <1>5 DEF OwnResults
<1>9. Outcome(z, s, read, write)
  BY <1>5, <1>6, <1>7, <1>8 DEF Outcome, Fared
<1>10. NothingForgotten' /\ AnsweredOnce' /\ Holders' /\ Unborn'
  BY <1>1, <1>2, <1>3, <1>9, OutcomeForgetsNothing, OutcomeAnswersOnce, OutcomeHolders
<1>11. /\ stream' \in [Stream -> StreamType] /\ sock' \in [Fd -> SocketType]
       /\ stream'[s] = z.str /\ \A t \in Stream \ {s} : stream'[t] = stream[t]
  BY <1>1, <1>2, <1>5, StoredTypes
<1>12. results' \in Seq(ResultType)
  BY <1>1, <1>2, <1>5, <1>8, StoredAnswers
<1>13. TypeOK'
  BY <1>1, <1>2, <1>11, <1>12 DEF TypeOK, Serves, Attends
<1>14. PendingIsArmed'
  <2>1. ASSUME NEW f \in Fd, entries[f] # NoStream, stream'[entries[f]].handle = f,
               ~stream'[entries[f]].Removing, \A d \in batch' : d.fd # f
        PROVE  /\ stream'[entries[f]].ReadPending => "IN" \in interest[f]
               /\ stream'[entries[f]].WritePending => "OUT" \in interest[f]
    <3>1. entries[f] \in Stream
      BY <1>2, <2>1 DEF TypeOK
    <3>2. entries[f] # s
      BY <1>6, <1>11, <2>1
    <3>3. stream'[entries[f]] = stream[entries[f]] /\ \A d \in batch : d.fd # f
      BY <1>2, <1>11, <2>1, <3>1, <3>2 DEF Attends
    <3> QED BY <1>2, <2>1, <3>3 DEF PendingIsArmed, Handle
  <2> QED BY <1>1, <2>1 DEF PendingIsArmed, Handle
<1> QED BY <1>10, <1>13, <1>14 DEF IInv, OperationsOnTheirWay

(* A step that leaves the streams, their results and the owner alone *)
LEMMA Unmoved ==
  ASSUME IInv, UNCHANGED <<stream, entries, ownerVars>>,
         \A s \in Stream : \A ops : Places(results', s, ops) = Places(results, s, ops)
  PROVE  Holders' /\ NothingForgotten' /\ AnsweredOnce' /\ Unborn'
<1>1. Holders /\ NothingForgotten /\ AnsweredOnce /\ Unborn
  BY DEF IInv, OperationsOnTheirWay
<1>2. stream' = stream /\ entries' = entries /\ asked' = asked /\ failed' = failed
  BY DEF ownerVars
<1>3. Holders'
  BY <1>1, <1>2 DEF Holders, Owner, Handle
<1>4. NothingForgotten'
  BY <1>1, <1>2 DEF NothingForgotten, Answers
<1>5. AnsweredOnce'
  BY <1>1, <1>2 DEF AnsweredOnce, Answers, Handle
<1>6. Unborn'
  BY <1>1, <1>2 DEF Unborn, Answers
<1> QED BY <1>3, <1>4, <1>5, <1>6

(* A step of a peer, or of the owner's shutdown *)
LEMMA SocketStep ==
  ASSUME IInv, UNCHANGED <<streamVars, interest, waitVars, wakeVars, ownerVars>>,
         sock' \in [Fd -> SocketType]
  PROVE  IInv'
<1>1. Holders' /\ NothingForgotten' /\ AnsweredOnce' /\ Unborn'
  BY Unmoved DEF streamVars
<1>2. TypeOK /\ PendingIsArmed
  BY DEF IInv, OperationsOnTheirWay
<1>3. TypeOK'
  BY <1>2 DEF TypeOK, streamVars, waitVars, wakeVars, ownerVars
<1>4. PendingIsArmed'
  BY <1>2 DEF PendingIsArmed, Handle, streamVars, waitVars
<1> QED BY <1>1, <1>3, <1>4 DEF IInv, OperationsOnTheirWay

(* A signal *)
LEMMA SignalStep ==
  ASSUME IInv, UNCHANGED <<streamVars, kernelVars, waitVars, ownerVars>>,
         {stopping', eventfd', nudge'} \subseteq BOOLEAN
  PROVE  IInv'
<1>1. Holders' /\ NothingForgotten' /\ AnsweredOnce' /\ Unborn'
  BY Unmoved DEF streamVars
<1>2. TypeOK /\ PendingIsArmed
  BY DEF IInv, OperationsOnTheirWay
<1>3. TypeOK'
  BY <1>2 DEF TypeOK, streamVars, kernelVars, waitVars, ownerVars
<1>4. PendingIsArmed'
  BY <1>2 DEF PendingIsArmed, Handle, streamVars, kernelVars, waitVars
<1> QED BY <1>1, <1>3, <1>4 DEF IInv, OperationsOnTheirWay

(* The thread in Wait enters or leaves epoll_wait with no events. *)
LEMMA TurnStep ==
  ASSUME IInv, UNCHANGED <<streamVars, kernelVars, batch, wakeVars, ownerVars>>,
         wpc' \in {"Out", "Poll"}, batch = {}
  PROVE  IInv'
<1>1. Holders' /\ NothingForgotten' /\ AnsweredOnce' /\ Unborn'
  BY Unmoved DEF streamVars
<1>2. TypeOK /\ PendingIsArmed
  BY DEF IInv, OperationsOnTheirWay
<1>3. TypeOK'
  BY <1>2 DEF TypeOK, streamVars, kernelVars, wakeVars, ownerVars
<1>4. PendingIsArmed'
  BY <1>2 DEF PendingIsArmed, Handle, streamVars, kernelVars
<1> QED BY <1>1, <1>3, <1>4 DEF IInv, OperationsOnTheirWay

(* What epoll_wait disarms is in the batch. *)
LEMMA EpollWaitStep ==
  ASSUME IInv, EpollWait
  PROVE  IInv'
<1>1. /\ wpc = "Poll" /\ wpc' = "Events"
      /\ batch' = {[fd |-> f, events |-> Events(f)] : f \in ReadyFds}
                  \cup (IF eventfd THEN {[fd |-> EventFd, events |-> {"IN"}]} ELSE {})
      /\ interest' = [f \in Fd |-> IF f \in ReadyFds THEN {} ELSE interest[f]]
      /\ UNCHANGED <<streamVars, sock, wakeVars, ownerVars>>
  BY DEF EpollWait
<1>2. TypeOK /\ PendingIsArmed
  BY DEF IInv, OperationsOnTheirWay
<1>3. Holders' /\ NothingForgotten' /\ AnsweredOnce' /\ Unborn'
  BY <1>1, Unmoved DEF streamVars
<1>4. interest' \in [Fd -> SUBSET {"ARMED", "IN", "OUT"}]
  BY <1>1, <1>2 DEF TypeOK
<1>5. batch' \subseteq [fd: Fd \cup {EventFd}, events: SUBSET {"IN", "OUT", "HUP", "ERR"}]
  <2>1. ASSUME NEW f \in Fd PROVE Events(f) \subseteq {"IN", "OUT", "HUP", "ERR"}
    BY DEF Events
  <2>2. ReadyFds \subseteq Fd
    BY DEF ReadyFds
  <2>3. ASSUME NEW f \in ReadyFds
        PROVE  [fd |-> f, events |-> Events(f)]
                 \in [fd: Fd \cup {EventFd}, events: SUBSET {"IN", "OUT", "HUP", "ERR"}]
    BY <2>1, <2>2
  <2> QED BY <1>1, <2>3
<1>6. TypeOK'
  BY <1>1, <1>2, <1>4, <1>5 DEF TypeOK, streamVars, wakeVars, ownerVars
<1>7. PendingIsArmed'
  <2>1. stream' = stream /\ entries' = entries
    BY <1>1 DEF streamVars
  <2>2. batch = {}
    BY <1>1, <1>2 DEF TypeOK
  <2>3. ASSUME NEW f \in Fd, \A e \in batch' : e.fd # f
        PROVE  interest'[f] = interest[f]
    <3>1. CASE f \in ReadyFds
      <4>1. [fd |-> f, events |-> Events(f)] \in batch'
        BY <1>1, <3>1
      <4> QED BY <2>3, <4>1
    <3>2. CASE f \notin ReadyFds
      BY <1>1, <3>2
    <3> QED BY <3>1, <3>2
  <2> QED BY <1>2, <2>1, <2>2, <2>3 DEF PendingIsArmed, Handle
<1> QED BY <1>3, <1>6, <1>7 DEF IInv, OperationsOnTheirWay

(* An event of no stream *)
LEMMA OnNobodyStep ==
  ASSUME IInv, NEW e, Processing(e), OnNobody(e)
  PROVE  IInv'
<1>1. /\ e.fd # EventFd
      /\ entries[e.fd] = NoStream \/ (entries[e.fd] # NoStream /\ stream[entries[e.fd]].Removing)
      /\ UNCHANGED <<streamVars, kernelVars, eventfd>>
      /\ batch' = batch \ {e} /\ wpc = "Events" /\ UNCHANGED <<wpc, stopping, nudge, ownerVars>>
  BY DEF OnNobody, Processing
<1>2. TypeOK /\ PendingIsArmed
  BY DEF IInv, OperationsOnTheirWay
<1>3. Holders' /\ NothingForgotten' /\ AnsweredOnce' /\ Unborn'
  BY <1>1, Unmoved DEF streamVars
<1>4. TypeOK'
  BY <1>1, <1>2 DEF TypeOK, streamVars, kernelVars, ownerVars
<1>5. PendingIsArmed'
  <2>1. stream' = stream /\ entries' = entries /\ interest' = interest
    BY <1>1 DEF streamVars, kernelVars
  <2>2. ASSUME NEW f \in Fd, \A d \in batch' : d.fd # f,
               entries[f] # NoStream, ~stream[entries[f]].Removing
        PROVE  \A d \in batch : d.fd # f
    BY <1>1, <2>2
  <2> QED BY <1>2, <2>1, <2>2 DEF PendingIsArmed, Handle
<1> QED BY <1>3, <1>4, <1>5 DEF IInv, OperationsOnTheirWay

(* A wake-up is a result of no stream. *)
LEMMA OnStopEventStep ==
  ASSUME IInv, NEW e, Processing(e), OnStopEvent(e)
  PROVE  IInv'
<1> DEFINE r == [stream |-> NoStream, op |-> IF stopping THEN "Stop" ELSE "Wake"]
<1>1. /\ e.fd = EventFd /\ eventfd' = FALSE /\ results' = Append(results, r)
      /\ UNCHANGED <<stream, entries, kernelVars>>
      /\ batch' = batch \ {e} /\ wpc = "Events" /\ UNCHANGED <<wpc, stopping, nudge, ownerVars>>
  BY DEF OnStopEvent, Processing
<1>2. TypeOK /\ PendingIsArmed
  BY DEF IInv, OperationsOnTheirWay
<1>3. r \in ResultType /\ r.stream = NoStream /\ results \in Seq(ResultType)
  BY <1>2 DEF ResultType, TypeOK
<1> HIDE DEF r
<1>4. results' \in Seq(ResultType)
  BY <1>1, <1>3, AppendProperties
<1>5. \A s \in Stream : \A ops : Places(results', s, ops) = Places(results, s, ops)
  <2> SUFFICES ASSUME NEW s \in Stream, NEW ops
               PROVE  Places(results', s, ops) = Places(results, s, ops)
    OBVIOUS
  <2>1. Places(Append(results, r), s, ops) =
          Places(results, s, ops) \cup (IF r.stream = s /\ r.op \in ops THEN {Len(results) + 1} ELSE {})
    BY <1>3, PlacesAppend
  <2>2. r.stream # s
    BY <1>3, NamesAssumption
  <2> QED BY <1>1, <2>1, <2>2
<1>6. Holders' /\ NothingForgotten' /\ AnsweredOnce' /\ Unborn'
  BY <1>1, <1>5, Unmoved
<1>7. TypeOK'
  BY <1>1, <1>2, <1>4 DEF TypeOK, kernelVars, ownerVars
<1>8. PendingIsArmed'
  <2>1. stream' = stream /\ entries' = entries /\ interest' = interest
    BY <1>1 DEF kernelVars
  <2>2. ASSUME NEW f \in Fd, \A d \in batch' : d.fd # f PROVE \A d \in batch : d.fd # f
    BY <1>1, <2>2, NamesAssumption
  <2> QED BY <1>2, <2>1, <2>2 DEF PendingIsArmed, Handle
<1> QED BY <1>6, <1>7, <1>8 DEF IInv, OperationsOnTheirWay

(* The oldest answer is handed out: the operation is not asked for any more. *)
LEMMA HandedOut ==
  ASSUME NEW was \in BOOLEAN, NEW is \in BOOLEAN, NEW pending \in BOOLEAN, NEW old, NEW new,
         NEW taken \in BOOLEAN, is <=> (was /\ ~taken), taken => 1 \in old,
         \A i \in new : i \in Nat /\ i + 1 \in old /\ i + 1 # 1,
         Once(was, pending, old)
  PROVE  Once(is, pending, new)
<1>1. \A i, j \in old : i = j
  BY DEF Once
<1>2. CASE taken
  <2>1. new = {}
    BY <1>1, <1>2
  <2>2. ~pending
    BY <1>2 DEF Once
  <2> QED BY <2>1, <2>2 DEF Once
<1>3. CASE ~taken
  <2>1. new # {} => old # {}
    OBVIOUS
  <2>2. \A i, j \in new : i = j
    BY <1>1
  <2>3. pending \/ old # {} => was
    BY DEF Once
  <2>4. pending => old = {}
    BY DEF Once
  <2> QED BY <1>3, <2>1, <2>2, <2>3, <2>4 DEF Once
<1> QED BY <1>2, <1>3

LEMMA DeliverStep ==
  ASSUME IInv, Deliver, UNCHANGED <<stream, entries, kernelVars, batch, wakeVars>>, batch = {}
  PROVE  IInv'
<1> DEFINE r == Head(results)
<1>1. /\ TypeOK /\ Holders /\ PendingIsArmed /\ NothingForgotten /\ AnsweredOnce /\ Unborn
      /\ results \in Seq(ResultType) /\ results # <<>> /\ results' = Tail(results)
      /\ stream' = stream /\ entries' = entries /\ asked \in [Stream -> SUBSET {"Read", "Write"}]
  BY DEF IInv, OperationsOnTheirWay, Deliver, TypeOK
<1>2. r \in ResultType /\ results' \in Seq(ResultType)
  BY <1>1, PlacesTail
<1>3. ASSUME NEW t \in Stream, NEW ops
      PROVE  /\ \A i \in Places(results', t, ops) : i \in Nat /\ i + 1 \in Places(results, t, ops) /\ i + 1 # 1
             /\ r.stream = t /\ r.op \in ops => 1 \in Places(results, t, ops)
             /\ ~(r.stream = t /\ r.op \in ops) /\ Places(results, t, ops) # {}
                  => Places(results', t, ops) # {}
  BY <1>1, PlacesTail
<1>4. /\ asked' \in [Stream -> SUBSET {"Read", "Write"}] /\ failed' \subseteq Stream
      /\ failed \subseteq failed' /\ wpc' \in {"Out", "Stopped"}
      /\ \A t \in Stream : r.stream = t /\ r.op = "Error" => t \in failed'
  <2>1. r.op = "Error" => r.stream \in Stream
    BY <1>2 DEF ResultType
  <2> QED BY <1>1, <2>1 DEF Deliver, TypeOK
<1>5. ASSUME NEW t \in Stream
      PROVE  /\ asked'[t] \subseteq asked[t]
             /\ "Read" \in asked'[t] <=>
                  "Read" \in asked[t] /\ ~(r.stream = t /\ r.op \in ReadAnswers \cup {"Error"})
             /\ "Write" \in asked'[t] <=>
                  "Write" \in asked[t] /\ ~(r.stream = t /\ r.op \in WriteAnswers \cup {"Error"})
  <2>1. CASE r.op = "Error"
    BY <1>1, <2>1 DEF Deliver
  <2>2. CASE r.op \in {"Read", "ReadClosed"}
    BY <1>1, <2>2 DEF Deliver, ReadAnswers, WriteAnswers
  <2>3. CASE r.op = "Write"
    BY <1>1, <2>3 DEF Deliver, ReadAnswers, WriteAnswers
  <2>4. CASE r.op \notin {"Error", "Read", "ReadClosed", "Write"}
    BY <1>1, <2>4 DEF Deliver, ReadAnswers, WriteAnswers
  <2> QED BY <2>1, <2>2, <2>3, <2>4
<1> HIDE DEF r
<1>6. NothingForgotten'
  <2>1. ASSUME NEW t \in Stream, "Read" \in asked'[t]
        PROVE  \/ stream[t].ReadPending /\ ~stream[t].Removing
               \/ Places(results', t, ReadAnswers \cup {"Error"}) # {}
    <3>1. "Read" \in asked[t] /\ ~(r.stream = t /\ r.op \in ReadAnswers \cup {"Error"})
      BY <1>5, <2>1
    <3>2. \/ stream[t].ReadPending /\ ~stream[t].Removing
          \/ Places(results, t, ReadAnswers \cup {"Error"}) # {}
      BY <1>1, <3>1 DEF NothingForgotten, Answers
    <3> QED BY <1>3, <3>1, <3>2
  <2>2. ASSUME NEW t \in Stream, "Write" \in asked'[t]
        PROVE  \/ stream[t].WritePending /\ ~stream[t].Removing
               \/ Places(results', t, WriteAnswers \cup {"Error"}) # {}
    <3>1. "Write" \in asked[t] /\ ~(r.stream = t /\ r.op \in WriteAnswers \cup {"Error"})
      BY <1>5, <2>2
    <3>2. \/ stream[t].WritePending /\ ~stream[t].Removing
          \/ Places(results, t, WriteAnswers \cup {"Error"}) # {}
      BY <1>1, <3>1 DEF NothingForgotten, Answers
    <3> QED BY <1>3, <3>1, <3>2
  <2> QED BY <1>1, <2>1, <2>2 DEF NothingForgotten, Answers
<1>7. ASSUME NEW t \in Stream, t \notin failed', Places(results', t, {"Error"}) = {},
             ~stream[t].Removing, Handle(t) # NoFd
      PROVE  /\ Once("Read" \in asked'[t], stream[t].ReadPending, Places(results', t, ReadAnswers))
             /\ Once("Write" \in asked'[t], stream[t].WritePending, Places(results', t, WriteAnswers))
  <2>1. ~(r.stream = t /\ r.op \in {"Error"}) /\ t \notin failed
    BY <1>4, <1>7
  <2>2. Places(results, t, {"Error"}) = {}
    BY <1>3, <1>7, <2>1
  <2>3. /\ Once("Read" \in asked[t], stream[t].ReadPending, Places(results, t, ReadAnswers))
        /\ Once("Write" \in asked[t], stream[t].WritePending, Places(results, t, WriteAnswers))
    BY <1>1, <1>7, <2>1, <2>2 DEF AnsweredOnce, Answers
  <2>4. stream[t].ReadPending \in BOOLEAN /\ stream[t].WritePending \in BOOLEAN
    BY <1>1 DEF TypeOK, StreamType
  <2>5. Once("Read" \in asked'[t], stream[t].ReadPending, Places(results', t, ReadAnswers))
    <3> DEFINE was == "Read" \in asked[t]
               is  == "Read" \in asked'[t]
               taken == r.stream = t /\ r.op \in ReadAnswers
               pending == stream[t].ReadPending
               old == Places(results, t, ReadAnswers)
               new == Places(results', t, ReadAnswers)
    <3>1. /\ was \in BOOLEAN /\ is \in BOOLEAN /\ taken \in BOOLEAN /\ pending \in BOOLEAN
          /\ is <=> (was /\ ~taken)
      BY <1>5, <2>1, <2>4
    <3>2. /\ taken => 1 \in old
          /\ \A i \in new : i \in Nat /\ i + 1 \in old /\ i + 1 # 1
          /\ Once(was, pending, old)
      BY <1>3, <2>3
    <3> HIDE DEF was, is, taken, pending, old, new
    <3>3. Once(is, pending, new)
      BY <3>1, <3>2, HandedOut, SMTT(60)
    <3> QED BY <3>3 DEF is, pending, new
  <2>6. Once("Write" \in asked'[t], stream[t].WritePending, Places(results', t, WriteAnswers))
    <3> DEFINE was == "Write" \in asked[t]
               is  == "Write" \in asked'[t]
               taken == r.stream = t /\ r.op \in WriteAnswers
               pending == stream[t].WritePending
               old == Places(results, t, WriteAnswers)
               new == Places(results', t, WriteAnswers)
    <3>1. /\ was \in BOOLEAN /\ is \in BOOLEAN /\ taken \in BOOLEAN /\ pending \in BOOLEAN
          /\ is <=> (was /\ ~taken)
      BY <1>5, <2>1, <2>4
    <3>2. /\ taken => 1 \in old
          /\ \A i \in new : i \in Nat /\ i + 1 \in old /\ i + 1 # 1
          /\ Once(was, pending, old)
      BY <1>3, <2>3
    <3> HIDE DEF was, is, taken, pending, old, new
    <3>3. Once(is, pending, new)
      BY <3>1, <3>2, HandedOut, SMTT(60)
    <3> QED BY <3>3 DEF is, pending, new
  <2> QED BY <2>5, <2>6
<1>8. AnsweredOnce'
  BY <1>1, <1>7 DEF AnsweredOnce, Answers, Handle
<1>9. Holders'
  BY <1>1, <1>4, <1>5 DEF Holders, Owner, Handle
<1>10. Unborn'
  <2>1. ASSUME NEW t \in Stream, Places(results, t, Op) = {} PROVE Places(results', t, Op) = {}
    BY <1>3, <2>1
  <2> QED BY <1>1, <2>1 DEF Unborn, Answers
<1>11. TypeOK'
  BY <1>1, <1>2, <1>4 DEF TypeOK, kernelVars, wakeVars
<1>12. PendingIsArmed'
  BY <1>1 DEF PendingIsArmed, Handle, kernelVars
<1> QED BY <1>6, <1>8, <1>9, <1>10, <1>11, <1>12 DEF IInv, OperationsOnTheirWay

(* A descriptor gets a stream that knows nothing yet. *)
LEMMA AddStep ==
  ASSUME IInv, NEW s \in Stream, NEW f \in Fd, Add(s, f)
  PROVE  IInv'
<1>1. /\ TypeOK /\ Holders /\ PendingIsArmed /\ NothingForgotten /\ AnsweredOnce /\ Unborn
      /\ stream \in [Stream -> StreamType] /\ entries \in [Fd -> Stream \cup {NoStream}]
  BY DEF IInv, OperationsOnTheirWay, TypeOK
<1>2. /\ stream[s] = NewStream /\ asked[s] = {} /\ Answers(s, Op) = {} /\ \A g \in Fd : entries[g] # s
  BY <1>1 DEF Holders, Unborn, Add
<1>3. /\ entries[f] = NoStream
      /\ stream' = [stream EXCEPT ![s].handle = f, ![s].state = "Added"]
      /\ entries' = [entries EXCEPT ![f] = s]
      /\ sock' = IF sock[f] = Closed THEN [sock EXCEPT ![f] = Fresh] ELSE sock
      /\ interest' = [interest EXCEPT ![f] = MakeEvent(stream[s])]
      /\ UNCHANGED <<results, waitVars, stopping, eventfd, ownerVars>> /\ Calls
  BY DEF Add
<1>4. /\ stream' \in [Stream -> StreamType]
      /\ stream'[s] = [NewStream EXCEPT !.handle = f, !.state = "Added"]
      /\ \A t \in Stream \ {s} : stream'[t] = stream[t]
  BY <1>1, <1>2, <1>3 DEF StreamType, NewStream
<1>5. /\ stream'[s].handle = f /\ stream'[s].state = "Added" /\ ~stream'[s].Removing
      /\ ~stream'[s].ReadPending /\ ~stream'[s].WritePending
  BY <1>4 DEF NewStream
<1>6. TypeOK'
  <2>1. sock' \in [Fd -> SocketType]
    <3>1. Fresh \in SocketType
      BY BoundsAssumption DEF Fresh, Closed, SocketType
    <3> QED BY <1>1, <1>3, <3>1 DEF TypeOK
  <2>2. interest' \in [Fd -> SUBSET {"ARMED", "IN", "OUT"}]
    BY <1>1, <1>3 DEF TypeOK, MakeEvent
  <2>3. entries' \in [Fd -> Stream \cup {NoStream}]
    BY <1>1, <1>3
  <2> QED BY <1>1, <1>3, <1>4, <2>1, <2>2, <2>3 DEF TypeOK, Calls, waitVars, ownerVars
<1>7. Holders'
  <2>1. ASSUME NEW t \in Stream \ {s}, stream[t].handle # NoFd, ~stream[t].Removing
        PROVE  entries'[stream[t].handle] = t
    <3>1. entries[stream[t].handle] = t /\ t # NoStream
      BY <1>1, <2>1, NamesAssumption DEF Holders, Owner, Handle
    <3>2. stream[t].handle # f /\ stream[t].handle \in Fd
      BY <1>1, <1>3, <2>1, <3>1 DEF StreamType
    <3> QED BY <1>1, <1>3, <3>1, <3>2
  <2>2. entries'[f] = s /\ f # NoFd
    BY <1>1, <1>3, NamesAssumption
  <2>3. asked' = asked
    BY <1>3 DEF ownerVars
  <2> QED BY <1>1, <1>4, <1>5, <2>1, <2>2, <2>3 DEF Holders, Owner, Handle
<1>8. \A ops : ops \subseteq Op => Places(results', s, ops) = {}
  BY <1>2, <1>3 DEF Answers, Places
<1>9. results' = results /\ asked' = asked /\ failed' = failed
  BY <1>3 DEF ownerVars
<1>10. NothingForgotten'
  BY <1>1, <1>2, <1>4, <1>9 DEF NothingForgotten, Answers
<1>11. AnsweredOnce'
  <2>1. /\ Once("Read" \in asked'[s], stream'[s].ReadPending, Places(results', s, ReadAnswers))
        /\ Once("Write" \in asked'[s], stream'[s].WritePending, Places(results', s, WriteAnswers))
    <3>1. ReadAnswers \subseteq Op /\ WriteAnswers \subseteq Op
      BY DEF Op
    <3> QED BY <1>2, <1>5, <1>8, <1>9, <3>1 DEF Once
  <2> QED BY <1>1, <1>4, <1>9, <2>1 DEF AnsweredOnce, Answers, Handle
<1>12. Unborn'
  BY <1>1, <1>3, <1>4, <1>5, <1>9 DEF Unborn, Answers
<1>13. PendingIsArmed'
  <2>1. ASSUME NEW g \in Fd, g # f
        PROVE  /\ entries'[g] = entries[g] /\ interest'[g] = interest[g]
               /\ entries[g] # NoStream => stream'[entries[g]] = stream[entries[g]]
    BY <1>1, <1>2, <1>3, <1>4, <2>1 DEF TypeOK
  <2>2. entries'[f] = s /\ batch' = batch
    BY <1>1, <1>3 DEF waitVars
  <2> QED BY <1>1, <1>5, <2>1, <2>2 DEF PendingIsArmed, Handle
<1> QED BY <1>6, <1>7, <1>10, <1>11, <1>12, <1>13 DEF IInv, OperationsOnTheirWay

(* A stream is marked, and its descriptor has no entry any more. *)
LEMMA RemoveStep ==
  ASSUME IInv, NEW s \in Stream, Remove(s)
  PROVE  IInv'
<1>1. /\ TypeOK /\ Holders /\ PendingIsArmed /\ NothingForgotten /\ AnsweredOnce /\ Unborn
      /\ stream \in [Stream -> StreamType] /\ entries \in [Fd -> Stream \cup {NoStream}]
      /\ asked \in [Stream -> SUBSET {"Read", "Write"}]
  BY DEF IInv, OperationsOnTheirWay, TypeOK
<1>2. PICK f \in Fd :
        /\ entries[f] = s
        /\ stream' = [stream EXCEPT ![s].Removing = TRUE]
        /\ entries' = [entries EXCEPT ![f] = NoStream]
        /\ interest' = [interest EXCEPT ![f] = {}]
        /\ asked' = [asked EXCEPT ![s] = {}]
        /\ Calls
        /\ UNCHANGED <<results, sock, waitVars, stopping, eventfd, failed>>
  BY DEF Remove
<1>3. /\ stream' \in [Stream -> StreamType]
      /\ stream'[s] = [stream[s] EXCEPT !.Removing = TRUE]
      /\ \A t \in Stream \ {s} : stream'[t] = stream[t] /\ asked'[t] = asked[t]
      /\ asked'[s] = {}
  <2>1. stream[s] \in StreamType
    BY <1>1
  <2>2. [stream[s] EXCEPT !.Removing = TRUE] \in StreamType
    BY <2>1 DEF StreamType
  <2>3. stream' = [stream EXCEPT ![s] = [stream[s] EXCEPT !.Removing = TRUE]]
    BY <1>1, <1>2
  <2>4. /\ stream' \in [Stream -> StreamType]
        /\ stream'[s] = [stream[s] EXCEPT !.Removing = TRUE]
        /\ \A t \in Stream \ {s} : stream'[t] = stream[t]
    BY <1>1, <2>2, <2>3
  <2>5. asked'[s] = {} /\ \A t \in Stream \ {s} : asked'[t] = asked[t]
    BY <1>1, <1>2
  <2> QED BY <2>4, <2>5
<1>4. stream'[s].Removing /\ stream'[s].state = stream[s].state /\ stream[s].state # "New"
  BY <1>1, <1>2, <1>3 DEF StreamType, Unborn
<1>5. TypeOK'
  BY <1>1, <1>2, <1>3 DEF TypeOK, Calls, waitVars
<1>6. Holders'
  <2>1. ASSUME NEW t \in Stream \ {s}, stream[t].handle # NoFd, ~stream[t].Removing
        PROVE  entries'[stream[t].handle] = t
    <3>1. entries[stream[t].handle] = t
      BY <1>1, <2>1 DEF Holders, Owner, Handle
    <3>2. stream[t].handle # f /\ stream[t].handle \in Fd
      BY <1>1, <1>2, <2>1, <3>1 DEF StreamType
    <3> QED BY <1>1, <1>2, <3>1, <3>2
  <2> QED BY <1>1, <1>3, <1>4, <2>1 DEF Holders, Owner, Handle
<1>7. NothingForgotten'
  BY <1>1, <1>2, <1>3 DEF NothingForgotten, Answers
<1>8. AnsweredOnce'
  BY <1>1, <1>2, <1>3, <1>4 DEF AnsweredOnce, Answers, Handle
<1>9. Unborn'
  BY <1>1, <1>2, <1>3, <1>4, NamesAssumption DEF Unborn, Answers
<1>10. PendingIsArmed'
  <2>1. ASSUME NEW g \in Fd, g # f
        PROVE  entries'[g] = entries[g] /\ interest'[g] = interest[g]
    BY <1>1, <1>2, <2>1 DEF TypeOK
  <2>2. entries'[f] = NoStream /\ batch' = batch
    BY <1>1, <1>2 DEF waitVars
  <2>3. ASSUME NEW g \in Fd, entries[g] # NoStream, ~stream'[entries[g]].Removing
        PROVE  stream'[entries[g]] = stream[entries[g]]
    BY <1>1, <1>3, <1>4, <2>3
  <2> QED BY <1>1, <2>1, <2>2, <2>3 DEF PendingIsArmed, Handle
<1> QED BY <1>5, <1>6, <1>7, <1>8, <1>9, <1>10 DEF IInv, OperationsOnTheirWay

(* The streams of a descriptor that is closed lose it. *)
LEMMA CloseStep ==
  ASSUME IInv, NEW f \in Fd, Close(f)
  PROVE  IInv'
<1> DEFINE gone == {s \in Stream : Handle(s) = f}
<1>1. /\ TypeOK /\ Holders /\ PendingIsArmed /\ NothingForgotten /\ AnsweredOnce /\ Unborn
      /\ stream \in [Stream -> StreamType] /\ entries \in [Fd -> Stream \cup {NoStream}]
      /\ asked \in [Stream -> SUBSET {"Read", "Write"}]
  BY DEF IInv, OperationsOnTheirWay, TypeOK
<1>2. /\ stream' = [s \in Stream |-> IF s \in gone THEN [stream[s] EXCEPT !.handle = NoFd]
                                                   ELSE stream[s]]
      /\ sock' = [sock EXCEPT ![f] = Closed]
      /\ interest' = [interest EXCEPT ![f] = {}]
      /\ asked' = [s \in Stream |-> IF s \in gone THEN {} ELSE asked[s]]
      /\ Calls
      /\ UNCHANGED <<entries, results, waitVars, stopping, eventfd, failed>>
  BY DEF Close
<1>3. f # NoFd
  BY NamesAssumption
<1>4. ASSUME NEW t \in Stream, t \in gone
      PROVE  /\ stream'[t] \in StreamType /\ stream'[t].handle = NoFd
             /\ stream'[t].state = stream[t].state /\ asked'[t] = {} /\ stream[t].state # "New"
  <2>1. stream'[t] = [stream[t] EXCEPT !.handle = NoFd] /\ asked'[t] = {} /\ stream[t].handle = f
    BY <1>2, <1>4 DEF Handle
  <2>2. stream[t].state # "New"
    BY <1>1, <1>3, <2>1 DEF Holders, NewStream
  <2> QED BY <1>1, <2>1, <2>2 DEF StreamType
<1>5. ASSUME NEW t \in Stream, t \notin gone
      PROVE  stream'[t] = stream[t] /\ asked'[t] = asked[t] /\ stream[t].handle # f
  BY <1>2, <1>5 DEF Handle
<1>6. TypeOK'
  <2>1. stream' \in [Stream -> StreamType]
    BY <1>1, <1>2, <1>4, <1>5
  <2>2. Closed \in SocketType
    BY DEF Closed, SocketType
  <2> QED BY <1>1, <1>2, <2>1, <2>2 DEF TypeOK, Calls, waitVars
<1> HIDE DEF gone
<1>7. Holders'
  BY <1>1, <1>2, <1>4, <1>5 DEF Holders, Owner, Handle
<1>8. NothingForgotten'
  BY <1>1, <1>2, <1>4, <1>5 DEF NothingForgotten, Answers
<1>9. AnsweredOnce'
  BY <1>1, <1>2, <1>4, <1>5 DEF AnsweredOnce, Answers, Handle
<1>10. Unborn'
  BY <1>1, <1>2, <1>4, <1>5 DEF Unborn, Answers
<1>11. PendingIsArmed'
  <2>1. ASSUME NEW g \in Fd, entries[g] # NoStream, stream'[entries[g]].handle = g
        PROVE  stream'[entries[g]] = stream[entries[g]] /\ interest'[g] = interest[g]
    <3>1. entries[g] \in Stream /\ g # NoFd
      BY <1>1, <2>1, NamesAssumption
    <3>2. entries[g] \notin gone
      BY <1>4, <2>1, <3>1
    <3>3. stream'[entries[g]] = stream[entries[g]] /\ g # f
      BY <1>5, <2>1, <3>1, <3>2
    <3> QED BY <1>1, <1>2, <3>3 DEF TypeOK
  <2>2. entries' = entries /\ batch' = batch
    BY <1>2 DEF waitVars
  <2> QED BY <1>1, <2>1, <2>2 DEF PendingIsArmed, Handle
<1> QED BY <1>6, <1>7, <1>8, <1>9, <1>10, <1>11 DEF IInv, OperationsOnTheirWay

-----------------------------------------------------------------------------
LEMMA InitStep == Init => IInv
<1> SUFFICES ASSUME Init PROVE IInv
  OBVIOUS
<1>1. /\ stream = [s \in Stream |-> NewStream] /\ entries = [f \in Fd |-> NoStream]
      /\ results = <<>> /\ sock = [f \in Fd |-> Closed] /\ interest = [f \in Fd |-> {}]
      /\ stopping = FALSE /\ eventfd = FALSE /\ nudge = FALSE /\ wpc = "Out" /\ batch = {}
      /\ asked = [s \in Stream |-> {}] /\ failed = {}
  BY DEF Init
<1>2. NewStream \in StreamType /\ Closed \in SocketType
  BY DEF NewStream, StreamType, Closed, SocketType
<1>3. TypeOK
  BY <1>1, <1>2, EmptySeq DEF TypeOK
<1>4. Holders /\ NothingForgotten /\ AnsweredOnce
  BY <1>1 DEF Holders, NothingForgotten, AnsweredOnce, Handle, NewStream
<1>5. PendingIsArmed
  BY <1>1 DEF PendingIsArmed
<1>6. Unborn
  <2>1. DOMAIN <<>> = {}
    OBVIOUS
  <2> QED BY <1>1, <2>1, NamesAssumption DEF Unborn, Answers, Places
<1> QED BY <1>3, <1>4, <1>5, <1>6 DEF IInv, OperationsOnTheirWay

(* The steps of the thread in Wait *)
LEMMA WaitSteps ==
  ASSUME IInv, WaitStep \/ TimeOut
  PROVE  IInv'
<1>1. TypeOK
  BY DEF IInv, OperationsOnTheirWay
<1>2. CASE PopPendingResult
  BY <1>1, <1>2, DeliverStep DEF PopPendingResult, TypeOK
<1>3. CASE EnterPoll
  BY <1>1, <1>3, TurnStep DEF EnterPoll, TypeOK
<1>4. CASE EpollWait
  BY <1>4, EpollWaitStep
<1>5. CASE ProcessEpollEvent
  <2>1. PICK e \in batch :
          /\ batch' = batch \ {e}
          /\ \/ OnStopEvent(e)
             \/ OnNobody(e)
             \/ \E s \in Stream : OnError(e, s) \/ OnReady(e, s)
    BY <1>5 DEF ProcessEpollEvent
  <2>2. Processing(e)
    BY <1>5, <2>1 DEF ProcessEpollEvent, Processing
  <2>3. CASE OnStopEvent(e)
    BY <2>2, <2>3, OnStopEventStep
  <2>4. CASE OnNobody(e)
    BY <2>2, <2>4, OnNobodyStep
  <2>5. ASSUME NEW s \in Stream, OnError(e, s) PROVE IInv'
    BY <2>2, <2>5, OnErrorStep
  <2>6. ASSUME NEW s \in Stream, OnReady(e, s) PROVE IInv'
    BY <2>2, <2>6, OnReadyStep
  <2> QED BY <2>1, <2>3, <2>4, <2>5, <2>6
<1>6. CASE WaitEnds
  BY <1>6, DeliverStep DEF WaitEnds
<1>7. CASE WaitAgain
  BY <1>7, TurnStep DEF WaitAgain
<1>8. CASE TimeOut
  BY <1>1, <1>8, TurnStep DEF TimeOut, TypeOK
<1> QED BY <1>2, <1>3, <1>4, <1>5, <1>6, <1>7, <1>8 DEF WaitStep

(* The steps of the peers, and the shutdown of a socket *)
LEMMA SocketSteps ==
  ASSUME IInv, (\E s \in Stream : ShutdownSend(s)) \/ (\E f \in Fd : Peer(f))
  PROVE  IInv'
<1>1. TypeOK /\ sock \in [Fd -> SocketType]
  BY DEF IInv, OperationsOnTheirWay, TypeOK
<1>2. ASSUME NEW s \in Stream, ShutdownSend(s) PROVE IInv'
  <2>1. Handle(s) \in Fd
    BY <1>1, <1>2 DEF ShutdownSend, Handle, TypeOK, StreamType
  <2>2. sock' \in [Fd -> SocketType]
    BY <1>1, <1>2, <2>1 DEF ShutdownSend, SocketType
  <2> QED BY <1>2, <2>2, SocketStep DEF ShutdownSend
<1>3. ASSUME NEW f \in Fd, Peer(f) PROVE IInv'
  <2>1. sock[f] \in SocketType
    BY <1>1
  <2>2. CASE PeerSends(f)
    <3>1. sock' = [sock EXCEPT ![f] = [sock[f] EXCEPT !.inbox = @ + 1, !.sent = @ + 1]]
      BY <1>1, <2>1, <2>2 DEF PeerSends, SocketType
    <3>2. sock[f].inbox + 1 \in Nat /\ sock[f].sent + 1 \in Nat
      BY <2>1 DEF SocketType
    <3> DEFINE i == sock[f].inbox + 1
               j == sock[f].sent + 1
    <3>3. [sock[f] EXCEPT !.inbox = i, !.sent = j] \in SocketType
      <4> HIDE DEF i, j
      <4>1. i \in Nat /\ j \in Nat
        BY <3>2 DEF i, j
      <4> QED BY <2>1, <4>1 DEF SocketType
    <3> QED BY <1>1, <2>2, <3>1, <3>3, SocketStep DEF PeerSends
  <2>3. CASE PeerReads(f)
    <3>1. [sock[f] EXCEPT !.room = @ + 1] \in SocketType
      BY <2>1 DEF SocketType
    <3> QED BY <1>1, <2>3, <3>1, SocketStep DEF PeerReads
  <2>4. CASE PeerShutsDown(f)
    <3>1. [sock[f] EXCEPT !.fin = TRUE] \in SocketType
      BY <2>1 DEF SocketType
    <3> QED BY <1>1, <2>4, <3>1, SocketStep DEF PeerShutsDown
  <2>5. CASE PeerResets(f)
    <3>1. sock' = [sock EXCEPT ![f] = [sock[f] EXCEPT !.state = "Reset", !.inbox = 0]]
      BY <1>1, <2>1, <2>5 DEF PeerResets, SocketType
    <3>2. [sock[f] EXCEPT !.state = "Reset", !.inbox = 0] \in SocketType
      BY <2>1 DEF SocketType
    <3> QED BY <1>1, <2>5, <3>1, <3>2, SocketStep DEF PeerResets
  <2> QED BY <1>3, <2>2, <2>3, <2>4, <2>5 DEF Peer
<1> QED BY <1>2, <1>3

LEMMA NextStep == IInv /\ [Next]_vars => IInv'
<1> SUFFICES ASSUME IInv, [Next]_vars PROVE IInv'
  OBVIOUS
<1>1. TypeOK
  BY DEF IInv, OperationsOnTheirWay
<1>2. CASE UNCHANGED vars
  <2>1. sock' \in [Fd -> SocketType]
    BY <1>1, <1>2 DEF TypeOK, vars, kernelVars
  <2> QED BY <1>2, <2>1, SocketStep DEF vars, kernelVars
<1>3. CASE WaitStep \/ TimeOut
  BY <1>3, WaitSteps
<1>4. CASE Wake \/ Stop \/ SignalStopEvent
  <2>1. /\ UNCHANGED <<streamVars, kernelVars, waitVars, ownerVars>>
        /\ {stopping', eventfd', nudge'} \subseteq BOOLEAN
    BY <1>1, <1>4 DEF TypeOK, Wake, Stop, SignalStopEvent
  <2> QED BY <2>1, SignalStep
<1>5. CASE (\E s \in Stream : ShutdownSend(s)) \/ (\E f \in Fd : Peer(f))
  BY <1>5, SocketSteps
<1>6. ASSUME NEW s \in Stream, Remove(s) PROVE IInv'
  BY <1>6, RemoveStep
<1>7. ASSUME NEW s \in Stream, StartRead(s) PROVE IInv'
  BY <1>7, StartReadStep
<1>8. ASSUME NEW s \in Stream, StartWrite(s) PROVE IInv'
  BY <1>8, StartWriteStep
<1>9. ASSUME NEW s \in Stream, NEW f \in Fd, Add(s, f) PROVE IInv'
  BY <1>9, AddStep
<1>10. ASSUME NEW f \in Fd, Close(f) PROVE IInv'
  BY <1>10, CloseStep
<1> QED BY <1>2, <1>3, <1>4, <1>5, <1>6, <1>7, <1>8, <1>9, <1>10 DEF Next

-----------------------------------------------------------------------------
(* The inductive invariant holds of every engine, whatever its owner, its peers and *)
(* epoll do.                                                                        *)
THEOREM EngineInvariance == Spec => []IInv
<1> QED BY InitStep, NextStep, PTL DEF Spec

(* No operation that was accepted is lost: it is pending in its stream, whose        *)
(* descriptor is armed for it or held by Wait, or its answer or an error is queued   *)
(* (StartRead, StartWrite, ProcessEpollEvent, UpdateInterestLocked, Remove, Close).  *)
THEOREM OperationsStayOnTheirWay == Spec => []OperationsOnTheirWay
<1>1. IInv => OperationsOnTheirWay
  BY DEF IInv
<1> QED BY <1>1, EngineInvariance, PTL

(* No operation is answered twice and no answer comes without one, until the stream  *)
(* fails (TryReadLocked, TryWriteLocked, CompleteWriteLocked).   *)
THEOREM OperationsAreAnsweredOnce == Spec => []AnsweredOnce
<1>1. IInv => AnsweredOnce
  BY DEF IInv
<1> QED BY <1>1, EngineInvariance, PTL
=============================================================================
