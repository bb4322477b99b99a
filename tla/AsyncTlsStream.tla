--------------------------- MODULE AsyncTlsStream ---------------------------
(***************************************************************************)
(* A TLS stream over a lower AsyncStream (Async/AsyncTlsStream.cpp), with  *)
(* its AsyncWriteQueue, the TLS library, the lower stream, the peer and    *)
(* the owner around it.                                                    *)
(*                                                                         *)
(* Every call and every lower result runs under the stream's Lock to its   *)
(* end, so each is one step; what it does to the stream is a function of   *)
(* the record t, composed as the code calls its parts.  t.ok is what a     *)
(* part returned, t.rc what the library said last, t.woken that the sink   *)
(* has told the owner.                                                     *)
(*                                                                         *)
(* The library is external: t.rbio are the records it was fed and has not  *)
(* read - a handshake flight "hs", application data "app", close_notify    *)
(* "bye", "key" that starts a new handshake, and "bad" - and t.wbio the    *)
(* records it has made, numbered in the order they were made (t.own of     *)
(* them are not the owner's data).  The lower stream is t.up and the chunk *)
(* t.flight it is writing.                                                 *)
(***************************************************************************)
EXTENDS AsyncWriteQueue, SequencesExt

CONSTANTS
  Starts,      \* the handshake is to be done ("New") or was done before ("Done")
  Adopted,     \* how many buffers of plaintext the library holds when it was done before
  Sizes,       \* how many records a write takes
  BatchLimit,  \* TLS_WRITE_BATCH_LIMIT, in records
  MaxRecords,  \* bound: records the peer sends
  MaxReads, MaxWrites  \* bounds: calls of StartRead and StartWrite

ASSUME StartAssumption == Starts \subseteq {"New", "Done"} /\ Adopted \subseteq Nat
ASSUME SizeAssumption == Sizes \subseteq Nat \ {0} /\ BatchLimit \in Nat \ {0}
ASSUME BoundAssumption == {MaxRecords, MaxReads, MaxWrites} \subseteq Nat

VARIABLES
  tls,    \* the stream, its library and its lower stream
  net,    \* the records on their way from the peer
  peer,   \* "hs" while the peer owes a flight, "open", "bye", "fin"; "err", "gone": no connection
  sent,   \* how many records the peer has sent
  asked,  \* the operations the owner waits for
  owner,  \* "idle", "serving" results, "broken": told that the stream is, "closed"
  calls   \* the calls of StartRead and StartWrite

vars == <<tls, net, peer, sent, asked, owner, calls>>

-----------------------------------------------------------------------------
NewTls(done) ==
  [Removing |-> FALSE, HandshakeStarted |-> done, HandshakeCompleted |-> done,
   HandshakeResultQueued |-> FALSE, LowerReadPending |-> FALSE, LowerReadClosed |-> FALSE,
   TlsReadClosed |-> FALSE, ShutdownPending |-> FALSE, ShutdownCompleted |-> FALSE,
   LowerSendShutdownCompleted |-> FALSE, PlainReadPending |-> FALSE, PlainWritePending |-> FALSE,
   PlainWriteNeedsRead |-> FALSE, left |-> 0, adopted |-> 0,
   results |-> <<>>, ResultSink |-> FALSE, ResultNotified |-> FALSE, woken |-> FALSE,
   LowerWriter |-> NewQueue(TRUE), ok |-> TRUE, rc |-> "",
   rbio |-> <<>>, wbio |-> <<>>, made |-> 0, own |-> 0, hello |-> done,
   again |-> FALSE, closeSent |-> FALSE, closeReceived |-> FALSE, dead |-> FALSE,
   up |-> TRUE, flight |-> <<>>, written |-> 0]

(* What a library that did the handshake elsewhere has read ahead is taken  *)
(* from it: n buffers, and perhaps the peer's close_notify behind them.    *)
AdoptPlaintextPending(t, n, bye) ==
  [t EXCEPT !.adopted = n, !.TlsReadClosed = bye, !.closeReceived = bye]

Init ==
  /\ \/ "New" \in Starts /\ tls = NewTls(FALSE) /\ peer = "hs"
     \/ /\ "Done" \in Starts
        /\ \E n \in Adopted, bye \in BOOLEAN :
             /\ tls = AdoptPlaintextPending(NewTls(TRUE), n, bye)
             /\ peer = IF bye THEN "bye" ELSE "open"
  /\ net = <<>> /\ sent = 0 /\ asked = {} /\ owner = "idle"
  /\ calls = [reads |-> 0, writes |-> 0]

-----------------------------------------------------------------------------
(* The TLS library *)

Said(t, rc) == [t EXCEPT !.rc = rc]
Emit(t) == [t EXCEPT !.wbio = Append(@, t.made + 1), !.made = @ + 1, !.own = @ + 1]
Take(t) == [t EXCEPT !.rbio = Tail(@)]
Next1(t) == IF t.rbio = <<>> THEN "" ELSE Head(t.rbio)
Fails(t) == Said([t EXCEPT !.dead = TRUE], "error")
GotClose(t) == Said([Take(t) EXCEPT !.closeReceived = TRUE], "closed")

SslHandshake(t) ==
  LET h == IF t.hello THEN t ELSE Emit([t EXCEPT !.hello = TRUE]) IN
  CASE Next1(h) = ""    -> Said(h, "want")
    [] Next1(h) = "hs"  -> Said(Emit(Take(h)), "done")
    [] Next1(h) = "bye" -> GotClose(h)
    [] OTHER            -> Fails(Emit(Take(h)))

(* The answer to a handshake the peer has started again *)
Renewed(t) == IF t.again /\ Next1(t) = "hs" THEN [Emit(Take(t)) EXCEPT !.again = FALSE] ELSE t

SslRead(u) ==
  LET t == Renewed(u) IN
  CASE t.dead -> Said(t, "error")
    [] ~t.dead /\ t.closeReceived -> Said(t, "closed")
    [] ~t.dead /\ ~t.closeReceived ->
         CASE Next1(t) = ""    -> Said(t, "want")
           [] Next1(t) = "app" -> Said(Take(t), "done")
           [] Next1(t) = "bye" -> GotClose(t)
           [] Next1(t) = "key" -> Said([Emit(Take(t)) EXCEPT !.again = TRUE], "want")
           [] OTHER            -> Fails(Emit(Take(t)))

(* n calls that each make a record *)
SslWrite(u, n) ==
  LET t == Renewed(u) IN
  CASE t.dead \/ t.closeSent -> Said(t, "error")
    [] ~(t.dead \/ t.closeSent) /\ t.again ->
         IF Next1(t) = "" THEN Said(t, "want")
         ELSE IF Next1(t) = "bye" THEN Said([GotClose(t) EXCEPT !.dead = TRUE], "error")
         ELSE Fails(Emit(Take(t)))
    [] OTHER -> [t EXCEPT !.wbio = @ \o [i \in 1..n |-> t.made + i], !.made = @ + n, !.rc = "done"]

(* The first call sends close_notify, a later one reads for the peer's. *)
SslShutdown(t) ==
  CASE t.dead \/ t.again -> Said(t, "error")
    [] ~(t.dead \/ t.again) /\ ~t.closeSent ->
         Said(Emit([t EXCEPT !.closeSent = TRUE]), IF t.closeReceived THEN "done" ELSE "sent")
    [] OTHER ->
         CASE t.closeReceived  -> Said(t, "done")
           [] ~t.closeReceived /\ Next1(t) = ""    -> Said(t, "want")
           [] ~t.closeReceived /\ Next1(t) = "bye" -> Said(GotClose(t), "done")
           [] OTHER -> Fails(t)

-----------------------------------------------------------------------------
(* Results *)

(* The sink is called once until the results have been collected. *)
NotifyResultReady(t) ==
  IF t.ResultNotified \/ ~t.ResultSink THEN t
  ELSE [t EXCEPT !.ResultNotified = TRUE, !.woken = TRUE]

QueueResult(t, op) == NotifyResultReady([t EXCEPT !.results = Append(@, op), !.ok = TRUE])

IsHandshakeTerminated(t) == ~t.HandshakeCompleted /\ t.HandshakeResultQueued

(* Mutant of Terminal: every error is reported. *)
TerminalAgain(t, op) == QueueResult([t EXCEPT !.HandshakeResultQueued = TRUE], op)

(* Before the handshake is done, one result ends it. *)
Terminal(t, op) ==
  IF t.HandshakeResultQueued THEN [t EXCEPT !.ok = TRUE]
  ELSE QueueResult([t EXCEPT !.HandshakeResultQueued = TRUE], op)

QueueError(t) == IF t.HandshakeCompleted THEN QueueResult(t, "Error") ELSE Terminal(t, "Error")

ReadDone(t) == [t EXCEPT !.PlainReadPending = FALSE]
ResetPlainWrite(t) ==
  [t EXCEPT !.PlainWritePending = FALSE, !.PlainWriteNeedsRead = FALSE, !.left = 0]

-----------------------------------------------------------------------------
(* The lower stream *)

Accepts(t) == t.up /\ t.flight = <<>>
PutDown(t, q) ==
  [t EXCEPT !.LowerWriter = q, !.ok = q.ok, !.flight = IF q.handed = <<>> THEN @ ELSE q.handed]

DrainEncryptedOutput(t) ==
  IF t.wbio = <<>> THEN [t EXCEPT !.ok = TRUE]
  ELSE PutDown([t EXCEPT !.wbio = <<>>], Push(t.LowerWriter, t.wbio, Accepts(t)))

UnwrittenCiphertext(t) == t.LowerWriter.QueuedBytes + Len(t.wbio)

(* A read is kept pending only while something needs input. *)
NeedsInput(t) ==
  IF t.HandshakeCompleted THEN t.PlainReadPending \/ t.PlainWriteNeedsRead \/ t.ShutdownPending
                          ELSE t.HandshakeStarted

(* Mutant of StartLowerRead: a shutdown alone asks for no input. *)
StartLowerReadForRead(t) ==
  IF t.LowerReadPending \/ t.LowerReadClosed \/ t.Removing \/ ~(NeedsInput(t) /\ (t.HandshakeCompleted => t.PlainReadPending))
  THEN [t EXCEPT !.ok = TRUE]
  ELSE [t EXCEPT !.LowerReadPending = t.up, !.ok = t.up]

StartLowerRead(t) ==
  IF t.LowerReadPending \/ t.LowerReadClosed \/ t.Removing \/ ~NeedsInput(t)
  THEN [t EXCEPT !.ok = TRUE]
  ELSE [t EXCEPT !.LowerReadPending = t.up, !.ok = t.up]

CompleteLowerShutdown(t) ==
  IF ~t.ShutdownCompleted \/ ~IsIdle(t.LowerWriter) \/ t.LowerSendShutdownCompleted
  THEN [t EXCEPT !.ok = TRUE]
  ELSE [t EXCEPT !.LowerSendShutdownCompleted = t.up, !.ok = t.up]

-----------------------------------------------------------------------------
(* Drive *)

(* The parts run one after the other until one fails.  (Binding u makes    *)
(* TLC compute t once.)                                                    *)
Then(t, F(_)) == CHOOSE r \in {IF u.ok THEN F(u) ELSE u : u \in {t}} : TRUE

DriveHandshake(t) ==
  LET u == SslHandshake(t) IN
  CASE t.HandshakeCompleted \/ t.HandshakeResultQueued -> [t EXCEPT !.ok = TRUE]
    [] OTHER ->
         CASE u.rc = "done"   -> Terminal([u EXCEPT !.HandshakeCompleted = TRUE], "Handshake")
           [] u.rc = "want"   -> [u EXCEPT !.ok = TRUE]
           [] u.rc = "closed" -> Terminal([u EXCEPT !.TlsReadClosed = TRUE], "ReadClosed")
           [] OTHER           -> QueueError(u)

DeliverAdopted(t) == QueueResult([ReadDone(t) EXCEPT !.adopted = @ - 1], "Read")

DrivePlainRead(t) ==
  LET u == SslRead(t) IN
  CASE ~t.PlainReadPending -> t
    [] t.PlainReadPending /\ t.adopted > 0 -> DeliverAdopted(t)
    [] OTHER ->
         CASE u.rc = "done"   -> QueueResult(ReadDone(u), "Read")
           [] u.rc = "want"   -> u
           [] u.rc = "closed" -> QueueResult([ReadDone(u) EXCEPT !.TlsReadClosed = TRUE], "ReadClosed")
           [] OTHER           -> QueueError(ReadDone(u))

(* Mutant of Answered: the result does not wait for the lower writer. *)
AnsweredEarly(t) ==
  IF t.left > 0 THEN t ELSE QueueResult(ResetPlainWrite(t), "Write")

(* all is encrypted and written *)
Answered(t) ==
  IF t.left > 0 \/ ~IsIdle(t.LowerWriter) THEN t ELSE QueueResult(ResetPlainWrite(t), "Write")

BatchRoom(t) ==
  IF UnwrittenCiphertext(t) < BatchLimit THEN BatchLimit - UnwrittenCiphertext(t) ELSE 0

DrivePlainWrite(t) ==
  LET n == Min({t.left, BatchRoom(t)})
      u == SslWrite(t, n) IN
  CASE ~t.PlainWritePending -> t
    [] t.PlainWritePending /\ t.left = 0 -> Answered(t)
    [] t.PlainWritePending /\ t.left > 0 /\ n = 0 -> DrainEncryptedOutput(t)
    [] OTHER ->
         CASE u.rc = "done" -> Then(DrainEncryptedOutput([u EXCEPT !.left = @ - n, !.PlainWriteNeedsRead = FALSE]), Answered)
           [] u.rc = "want" -> DrainEncryptedOutput([u EXCEPT !.PlainWriteNeedsRead = TRUE])
           [] OTHER         -> QueueError(ResetPlainWrite(u))

DriveShutdown(t) ==
  LET u == SslShutdown(t) IN
  CASE ~t.ShutdownPending \/ t.ShutdownCompleted -> t
    [] OTHER ->
         CASE u.rc = "done" -> [u EXCEPT !.ShutdownCompleted = TRUE, !.ShutdownPending = FALSE]
           [] u.rc \in {"sent", "want"} -> u
           [] OTHER -> QueueError(u)

(* the handshake goes on, or has ended unfinished *)
Unfinished(t) ==
  IF t.LowerReadClosed THEN Terminal(t, "ReadClosed")
  ELSE IF t.HandshakeResultQueued THEN t ELSE StartLowerRead(t)

Work(t) ==
  Then(Then(Then(Then(Then(DrivePlainRead(t), DrivePlainWrite), DriveShutdown),
                 DrainEncryptedOutput), CompleteLowerShutdown), StartLowerRead)

Handshaken(t) ==
  IF t.HandshakeCompleted THEN Work(t) ELSE Then(DrainEncryptedOutput(t), Unfinished)

Drive(u) ==
  LET t == [u EXCEPT !.ok = TRUE] IN
  IF ~t.HandshakeCompleted /\ ~t.HandshakeStarted THEN t ELSE Then(DriveHandshake(t), Handshaken)

-----------------------------------------------------------------------------
(* The calls of the owner, from any of its threads *)

Usable == owner \in {"idle", "serving"}

(* What a call makes of the stream; an accepted operation is waited for. *)
Called(t, op) ==
  /\ tls' \in {t}
  /\ asked' = IF tls'.ok THEN asked \cup {op} ELSE asked
  /\ UNCHANGED <<net, peer, sent, owner>>

StartHandshake ==
  /\ Usable /\ ~tls.HandshakeStarted /\ ~IsHandshakeTerminated(tls)
  /\ Called(Drive([tls EXCEPT !.HandshakeStarted = TRUE]), "Handshake")
  /\ UNCHANGED calls

StartRead ==
  /\ Usable /\ calls.reads < MaxReads
  /\ ~tls.TlsReadClosed /\ ~tls.PlainReadPending /\ ~IsHandshakeTerminated(tls)
  /\ Called(Drive([tls EXCEPT !.PlainReadPending = TRUE]), "Read")
  /\ calls' = [calls EXCEPT !.reads = @ + 1]

StartWrite ==
  /\ Usable /\ calls.writes < MaxWrites
  /\ ~tls.PlainWritePending /\ ~IsHandshakeTerminated(tls)
  /\ \E n \in Sizes :
       Called(Drive([tls EXCEPT !.PlainWritePending = TRUE, !.PlainWriteNeedsRead = FALSE, !.left = n]),
              "Write")
  /\ calls' = [calls EXCEPT !.writes = @ + 1]

ShutdownSend ==
  /\ Usable /\ ~tls.ShutdownCompleted /\ ~tls.ShutdownPending /\ ~IsHandshakeTerminated(tls)
  /\ Called(Drive([tls EXCEPT !.ShutdownPending = TRUE]), "Shutdown")
  /\ UNCHANGED calls

Close ==
  /\ owner # "closed"
  /\ owner' = "closed" /\ asked' = {}
  /\ tls' = [ResetPlainWrite(ReadDone(tls)) EXCEPT
               !.Removing = TRUE, !.ShutdownPending = FALSE, !.results = <<>>,
               !.ResultNotified = FALSE, !.ResultSink = FALSE, !.woken = FALSE,
               !.adopted = 0, !.LowerWriter = Clear(@), !.flight = <<>>]
  /\ UNCHANGED <<net, peer, sent, calls>>

(* The owner has begun to read the lower stream itself: it hands the read   *)
(* over to the TLS stream, or what it has read.                            *)
AdoptPendingLowerRead ==
  /\ Usable /\ tls.up /\ ~tls.HandshakeStarted
  /\ ~tls.LowerReadClosed /\ ~tls.LowerReadPending
  /\ tls' = [tls EXCEPT !.LowerReadPending = TRUE]
  /\ UNCHANGED <<net, peer, sent, asked, owner, calls>>

Feed(t, n) == [t EXCEPT !.rbio = @ \o SubSeq(net, 1, n)]

FeedEncryptedInput ==
  /\ Usable /\ ~tls.LowerReadPending /\ ~tls.LowerReadClosed /\ ~tls.HandshakeCompleted
  /\ \E n \in 1..Len(net) :
       /\ tls' = IF tls.HandshakeStarted THEN Drive(Feed(tls, n)) ELSE Feed(tls, n)
       /\ net' = SubSeq(net, n + 1, Len(net))
  /\ owner' = IF tls'.ok THEN owner ELSE "broken"
  /\ UNCHANGED <<peer, sent, asked, calls>>

SetResultSink ==
  /\ Usable /\ ~tls.ResultSink
  /\ tls' = [tls EXCEPT !.ResultSink = TRUE, !.ResultNotified = tls.results # <<>>,
                        !.woken = tls.results # <<>>]
  /\ UNCHANGED <<net, peer, sent, asked, owner, calls>>

(* The owner, told by the sink, collects results until there are no more. *)
Wakes ==
  /\ owner = "idle" /\ tls.woken
  /\ tls' = [tls EXCEPT !.woken = FALSE]
  /\ owner' = "serving"
  /\ UNCHANGED <<net, peer, sent, asked, calls>>

Ends(op) ==
  CASE op = "ReadClosed" -> {"Read", "Handshake"}
    [] op = "Error"      -> {"Handshake", "Read", "Write", "Shutdown"}
    [] OTHER             -> {op}

(* Mutant of Popped: only a call that finds nothing arms the sink again. *)
PoppedUnarmed(t) == [t EXCEPT !.results = Tail(@)]

Popped(t) == [t EXCEPT !.results = Tail(@), !.ResultNotified = @ /\ Len(t.results) > 1]

(* the stream is of no use to the owner any more *)
Ended(t) == IsHandshakeTerminated(t) \/ Head(t.results) = "Error"

PopPendingResult ==
  /\ owner = "serving"
  /\ \/ /\ tls.results = <<>>
        /\ tls' = [tls EXCEPT !.ResultNotified = FALSE]
        /\ owner' = "idle"
        /\ UNCHANGED asked
     \/ /\ tls.results # <<>>
        /\ tls' = Popped(tls)
        /\ owner' = IF Ended(tls) THEN "broken" ELSE owner
        /\ asked' = IF Ended(tls) THEN {} ELSE asked \ Ends(Head(tls.results))
  /\ UNCHANGED <<net, peer, sent, calls>>

(* HasPendingResult: the owner does not call to find nothing. *)
HasNoPendingResult ==
  /\ owner = "serving" /\ tls.results = <<>>
  /\ owner' = "idle"
  /\ UNCHANGED <<tls, net, peer, sent, asked, calls>>

(* IsShutdownCompleted, asked now and then *)
IsShutdownCompleted ==
  /\ "Shutdown" \in asked /\ tls.ShutdownCompleted /\ tls.LowerSendShutdownCompleted
  /\ asked' = asked \ {"Shutdown"}
  /\ UNCHANGED <<tls, net, peer, sent, owner, calls>>

-----------------------------------------------------------------------------
(* ProcessLowerResult, for each result of the lower stream *)

(* The owner closes a stream that could not go on with a result. *)
Processed(t) ==
  /\ tls' \in {t}
  /\ owner' = IF tls'.ok THEN owner ELSE "broken"
  /\ UNCHANGED <<sent, asked, calls>>

LowerRead ==
  /\ Usable /\ tls.LowerReadPending
  /\ \E n \in 1..Len(net) :
       /\ Processed(Drive(Feed([tls EXCEPT !.LowerReadPending = FALSE], n)))
       /\ net' = SubSeq(net, n + 1, Len(net))
  /\ UNCHANGED peer

CompleteLowerWrite(t) ==
  LET free == [t EXCEPT !.flight = <<>>, !.written = @ + Len(t.flight)] IN
  Then(PutDown(free, OnWriteCompleted(t.LowerWriter, Len(t.flight), Accepts(free))),
       CompleteLowerShutdown)

LowerWrite ==
  /\ Usable /\ tls.flight # <<>>
  /\ Processed(Then(CompleteLowerWrite(tls), Drive))
  /\ UNCHANGED <<net, peer>>

OnReadClosed(t) ==
  CASE t.PlainWriteNeedsRead -> QueueError(ResetPlainWrite(ReadDone(t)))
    [] ~t.PlainWriteNeedsRead /\ t.HandshakeStarted /\ ~t.HandshakeCompleted -> Drive(t)
    [] ~t.PlainWriteNeedsRead /\ ~(t.HandshakeStarted /\ ~t.HandshakeCompleted)
       /\ t.PlainReadPending -> QueueResult(ReadDone(t), "ReadClosed")
    [] OTHER -> t

LowerReadClosed ==
  /\ Usable /\ tls.LowerReadPending /\ tls.up /\ net = <<>> /\ peer = "fin"
  /\ Processed(OnReadClosed([tls EXCEPT !.LowerReadPending = FALSE, !.LowerReadClosed = TRUE,
                                        !.TlsReadClosed = TRUE, !.ok = TRUE]))
  /\ UNCHANGED <<net, peer>>

OnError(t) == IF IsHandshakeTerminated(t) THEN t ELSE QueueError(t)

LowerError ==
  /\ Usable /\ peer = "err"
  /\ Processed(OnError([tls EXCEPT !.LowerReadPending = FALSE, !.LowerReadClosed = TRUE, !.ok = TRUE]))
  /\ peer' = "gone"
  /\ UNCHANGED net

-----------------------------------------------------------------------------
(* The peer and the connection *)

Sends(r, state) ==
  /\ sent < MaxRecords
  /\ net' = Append(net, r) /\ sent' = sent + 1 /\ peer' = state
  /\ UNCHANGED <<tls, asked, owner, calls>>

PeerSends ==
  \/ peer = "hs" /\ Sends("hs", "open")
  \/ peer = "open" /\ Sends("app", "open")
  \/ peer = "open" /\ Sends("key", "hs")
  \/ peer \in {"hs", "open"} /\ (Sends("bye", "bye") \/ Sends("bad", "bye"))

PeerShutsDown ==
  /\ peer \in {"hs", "open", "bye"} /\ peer' = "fin"
  /\ UNCHANGED <<tls, net, sent, asked, owner, calls>>

(* The lower stream fails; its Error is on its way. *)
ConnectionFails ==
  /\ peer \notin {"err", "gone"} /\ peer' = "err"
  /\ tls' = [tls EXCEPT !.up = FALSE]
  /\ UNCHANGED <<net, sent, asked, owner, calls>>

-----------------------------------------------------------------------------
Serve == Wakes \/ PopPendingResult
LowerResult == LowerRead \/ LowerWrite \/ LowerReadClosed \/ LowerError

Next ==
  \/ StartHandshake \/ StartRead \/ StartWrite \/ ShutdownSend \/ Close
  \/ AdoptPendingLowerRead \/ FeedEncryptedInput \/ SetResultSink
  \/ Serve \/ HasNoPendingResult \/ IsShutdownCompleted
  \/ LowerResult \/ PeerSends \/ PeerShutsDown \/ ConnectionFails

(* The owner's threads and the engine's run; the peer and the caller need  *)
(* not.  That some step of theirs is taken when one stays possible is      *)
(* enough: each uses something up.                                         *)
Progress ==
  \/ SetResultSink \/ Serve \/ IsShutdownCompleted \/ LowerResult
  \/ owner = "broken" /\ Close

Spec == Init /\ [][Next]_vars /\ WF_vars(Progress)

-----------------------------------------------------------------------------
(* Properties *)

Records == {"hs", "app", "bye", "key", "bad"}

(* The shape of the state; left never runs past what a write brought, and   *)
(* no more is written than was made.                                       *)
TypeOK ==
  /\ tls.left \in Nat /\ (tls.left # 0 => \E n \in Sizes : tls.left <= n) /\ tls.adopted \in Nat
  /\ {tls.made, tls.LowerWriter.QueuedBytes} \subseteq Nat
  /\ tls.own \in 0..tls.made /\ tls.written \in 0..tls.made
  /\ tls.results \in Seq({"Handshake", "Read", "Write", "ReadClosed", "Error"})
  /\ net \in Seq(Records) /\ tls.rbio \in Seq(Records)
  /\ peer \in {"hs", "open", "bye", "fin", "err", "gone"} /\ sent \in 0..MaxRecords
  /\ asked \subseteq {"Handshake", "Read", "Write", "Shutdown"}
  /\ owner \in {"idle", "serving", "broken", "closed"}

(* Every record the library makes reaches the lower stream once and in the *)
(* order it was made: what is written, what waits in the lower writer and  *)
(* what is in the BIO follow each other without a gap.                     *)
CiphertextInOrder ==
  owner # "closed" =>
    /\ FlattenSeq(tls.LowerWriter.Queue) \o tls.wbio
         = [i \in 1..(tls.made - tls.written) |-> tls.written + i]
    /\ tls.LowerWriter.WritePending => tls.flight = Head(tls.LowerWriter.Queue)

(* However slow the lower stream is, no more of the owner's ciphertext waits *)
(* than a batch (the limit UnwrittenCiphertext is compared with).           *)
CiphertextBounded == UnwrittenCiphertext(tls) <= BatchLimit + tls.own

(* While the lower stream works nothing made is left lying: the BIO is     *)
(* drained after every call and result, and the head of the queue is being *)
(* written - an alert or close_notify too.                                 *)
NothingHeldBack ==
  Usable /\ tls.up =>
    tls.wbio = <<>> /\ (tls.LowerWriter.Queue # <<>> => tls.LowerWriter.WritePending)

(* Whatever waits for the peer - the handshake, a read, a write that needs *)
(* to read, a shutdown - has a read of the lower stream pending for it,    *)
(* unless that has ended (StartLowerRead after every call and result).     *)
InputRequested ==
  Usable /\ tls.up /\ NeedsInput(tls) /\ ~IsHandshakeTerminated(tls) =>
    tls.LowerReadPending \/ tls.LowerReadClosed

(* A result nobody has collected has told the owner, or is being collected *)
(* (ResultSink is called once per drain).                                  *)
SinkTold == tls.results # <<>> /\ tls.ResultSink /\ Usable => tls.woken \/ owner = "serving"

(* Between two calls the stream owes nothing: its state is sound, ciphertext is    *)
(* bounded and under way, input is asked for and the owner is told (the parts      *)
(* above).                                                                         *)
NothingOwed == TypeOK /\ CiphertextBounded /\ NothingHeldBack /\ InputRequested /\ SinkTold

(* A handshake that ended unfinished has reported its one result: no later *)
(* lower result, completion or call reports another.                       *)
OneTerminalResult ==
  [][IsHandshakeTerminated(tls) => Len(tls'.results) <= Len(tls.results)]_vars

(* A step queues a result of a write. *)
AnswersWrite ==
  \E i \in Len(tls.results) + 1..Len(tls'.results) : tls'.results[i] = "Write"

(* A write is answered when the lower stream has written all of it, not    *)
(* when it is encrypted or queued: only what the library itself says in    *)
(* the same step may still be on its way.                                  *)
AnsweredWhenWritten ==
  [][AnswersWrite => tls'.written + (tls'.own - tls.own) >= tls'.made]_vars

(* The next move is the peer's, and it has a connection to make it on. *)
PeersTurn == net = <<>> /\ peer \in {"hs", "open", "bye"}

(* Nothing is left for the stream to do for an operation.  (A write that   *)
(* starts after the end of the input and then needs input waits for ever:  *)
(* StartLowerRead takes a closed lower read for success.)                  *)
UpToThePeer(op) ==
  \/ ~tls.HandshakeStarted
  \/ /\ PeersTurn \/ (op = "Write" /\ tls.LowerReadClosed)
     /\ op = "Write" => tls.again \/ ~tls.HandshakeCompleted
     /\ op = "Read" => tls.adopted = 0 /\ (tls.HandshakeCompleted => tls.rbio = <<>>)

(* An accepted operation is answered in the end - by its result, an Error  *)
(* or the end of the input - unless it is the peer that does not go on.    *)
AnsweredInTheEnd ==
  []<>(\A op \in asked \ {"Shutdown"} : UpToThePeer(op))

(* Writes are answered neither too early nor never.                        *)
AnswersAreTrue == AnsweredWhenWritten /\ AnsweredInTheEnd

(* When the peer has said goodbye, a shutdown the owner asked for comes to *)
(* its end: the lower stream is shut down too, or the owner hears of an    *)
(* error.                                                                  *)
ShutdownIsDone ==
  peer = "bye" /\ tls.HandshakeStarted /\ "Shutdown" \in asked ~> "Shutdown" \notin asked \/ peer # "bye"
=============================================================================
