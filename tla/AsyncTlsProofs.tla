--------------------------- MODULE AsyncTlsProofs ---------------------------
(***************************************************************************)
(* Proofs about AsyncTlsStream, for any sizes of writes, batch limit and   *)
(* numbers of calls and records.                                           *)
(*                                                                         *)
(* A call of the owner, or a lower result, is a composition of operators   *)
(* on the record of the stream: what it does first, then Drive, which      *)
(* calls the library, drains its BIO into the lower writer and asks for    *)
(* input.  So the lemmas are about these operators, from the library       *)
(* upwards, and say of a stream t and what an operator makes of it:        *)
(*   Library  the library was called: the ciphertext it made is in the     *)
(*            BIO, and it is its own, none of the owner's;                 *)
(*   Quiet    also results were queued, but none of a write;               *)
(*   Gentle   also the BIO may have been drained into the lower writer;    *)
(*   Moved    a write may have been answered too, if it was written;       *)
(*   Driven   Drive is done: the BIO is empty and input is asked for;      *)
(*   Result   the step is done.                                            *)
(* The inductive invariant is IInv: at the end of a call the stream is     *)
(* Sound, the BIO is empty, input is asked for and the owner is told.      *)
(***************************************************************************)
EXTENDS AsyncTlsStream, ListLemmas

(* The types of the state *)
Operation == {"Handshake", "Read", "Write", "ReadClosed", "Error"}
Chain == Seq(Nat) \ {<<>>}
QueueState ==
  [attached : BOOLEAN, Queue : Seq(Chain), QueuedBytes : Nat, WritePending : BOOLEAN,
   handed : Seq(Nat), ok : BOOLEAN]
TlsState ==
  [Removing : BOOLEAN, HandshakeStarted : BOOLEAN, HandshakeCompleted : BOOLEAN,
   HandshakeResultQueued : BOOLEAN, LowerReadPending : BOOLEAN, LowerReadClosed : BOOLEAN,
   TlsReadClosed : BOOLEAN, ShutdownPending : BOOLEAN, ShutdownCompleted : BOOLEAN,
   LowerSendShutdownCompleted : BOOLEAN, PlainReadPending : BOOLEAN, PlainWritePending : BOOLEAN,
   PlainWriteNeedsRead : BOOLEAN, left : Nat, adopted : Nat,
   results : Seq(Operation), ResultSink : BOOLEAN, ResultNotified : BOOLEAN, woken : BOOLEAN,
   LowerWriter : QueueState, ok : BOOLEAN, rc : {"", "want", "done", "closed", "error", "sent"},
   rbio : Seq(Records), wbio : Seq(Nat), made : Nat, own : Nat, hello : BOOLEAN,
   again : BOOLEAN, closeSent : BOOLEAN, closeReceived : BOOLEAN, dead : BOOLEAN,
   up : BOOLEAN, flight : Seq(Nat), written : Nat]

(* The ciphertext: the records after the first w up to the m-th are in the  *)
(* queue of the lower writer and in the BIO, one after the other, and the   *)
(* head of the queue is being written.                                     *)
Run(w, m) == [i \in 1..(m - w) |-> w + i]
Waiting(q) == FlattenSeq(q.Queue)
InOrder(t) == t.Removing \/ Waiting(t.LowerWriter) \o t.wbio = Run(t.written, t.made)
WriterInv(t) ==
  LET q == t.LowerWriter IN
  /\ q.attached /\ q.QueuedBytes = Len(Waiting(q))
  /\ IF q.WritePending THEN q.Queue # <<>> /\ t.flight = Head(q.Queue) ELSE t.flight = <<>>
  /\ t.up /\ q.Queue # <<>> => q.WritePending
CountInv(t) ==
  /\ t.own <= t.made /\ t.written <= t.made
  /\ t.LowerWriter.QueuedBytes + Len(t.wbio) <= BatchLimit + t.own

(* The sink has been told of results, once. *)
SinkInv(t) == t.ResultNotified <=> t.results # <<>> /\ t.ResultSink

(* A write has no more to encrypt than it brought. *)
LeftInv(t) == t.left # 0 => \E n \in Sizes : t.left <= n

(* The lower read has ended, and a handshake that ended before it began ended with it. *)
ReadInv(t) ==
  /\ t.LowerReadClosed => ~t.LowerReadPending
  /\ t.HandshakeResultQueued /\ ~t.HandshakeStarted => t.LowerReadClosed

Sound(t) ==
  t \in TlsState /\ InOrder(t) /\ WriterInv(t) /\ CountInv(t) /\ SinkInv(t) /\ LeftInv(t) /\ ReadInv(t)

(* What needs input has asked for it. *)
Asked(t) ==
  t.up /\ ~t.Removing /\ NeedsInput(t) /\ ~IsHandshakeTerminated(t) => t.LowerReadPending \/ t.LowerReadClosed

(* The owner was told of results, or is at them. *)
Told == Usable /\ tls.ResultNotified => tls.woken \/ owner = "serving"

OwnerInv ==
  /\ net \in Seq(Records)
  /\ peer \in {"hs", "open", "bye", "fin", "err", "gone"} /\ sent \in 0..MaxRecords
  /\ asked \subseteq {"Handshake", "Read", "Write", "Shutdown"}
  /\ owner \in {"idle", "serving", "broken", "closed"}
  /\ owner = "closed" <=> tls.Removing

(* The inductive invariant. *)
IInv == Sound(tls) /\ tls.wbio = <<>> /\ Asked(tls) /\ Told /\ OwnerInv

-----------------------------------------------------------------------------
(* Runs of records *)

LEMMA RunTyped ==
  ASSUME NEW w \in Nat, NEW m \in Nat, w <= m
  PROVE  /\ Run(w, m) \in Seq(Nat) /\ Len(Run(w, m)) = m - w
         /\ \A i \in 1..(m - w) : Run(w, m)[i] = w + i
<1>1. m - w \in Nat
  OBVIOUS
<1>2. \A n \in Nat : [i \in 1..n |-> w + i] \in Seq(Nat) /\ Len([i \in 1..n |-> w + i]) = n
  OBVIOUS
<1> QED BY <1>1, <1>2 DEF Run

LEMMA RunJoins ==
  ASSUME NEW w \in Nat, NEW m \in Nat, NEW n \in Nat, w <= m
  PROVE  Run(w, m) \o Run(m, m + n) = Run(w, m + n)
<1> DEFINE a == Run(w, m)
           b == Run(m, m + n)
           c == Run(w, m + n)
<1>1. m + n \in Nat /\ m <= m + n /\ w <= m + n /\ (m + n) - m = n /\ (m + n) - w = (m - w) + n /\ m - w \in Nat
  OBVIOUS
<1>2. a \in Seq(Nat) /\ Len(a) = m - w /\ \A i \in 1..(m - w) : a[i] = w + i
  BY RunTyped
<1>3. b \in Seq(Nat) /\ Len(b) = n /\ \A i \in 1..n : b[i] = m + i
  BY <1>1, RunTyped
<1>4. c \in Seq(Nat) /\ Len(c) = (m - w) + n /\ \A i \in 1..((m - w) + n) : c[i] = w + i
  BY <1>1, RunTyped
<1> HIDE DEF a, b, c
<1>5. /\ a \o b \in Seq(Nat) /\ Len(a \o b) = (m - w) + n
      /\ \A i \in 1..((m - w) + n) : (a \o b)[i] = IF i <= m - w THEN a[i] ELSE b[i - (m - w)]
  <2>1. /\ a \o b \in Seq(Nat) /\ Len(a \o b) = Len(a) + Len(b)
        /\ \A i \in 1..(Len(a) + Len(b)) : (a \o b)[i] = IF i <= Len(a) THEN a[i] ELSE b[i - Len(a)]
    BY <1>2, <1>3, ConcatProperties
  <2>2. Len(a) = m - w /\ Len(b) = n
    BY <1>2, <1>3
  <2> QED BY ONLY <2>1, <2>2
<1>6. \A i \in 1..((m - w) + n) : (a \o b)[i] = c[i]
  <2> SUFFICES ASSUME NEW i \in 1..((m - w) + n) PROVE (a \o b)[i] = w + i
    BY <1>4
  <2>1. CASE i <= m - w
    BY <1>1, <1>2, <1>5, <2>1
  <2>2. CASE ~(i <= m - w)
    <3>1. i - (m - w) \in 1..n /\ m + (i - (m - w)) = w + i
      BY <1>1, <2>2
    <3> QED BY <1>3, <1>5, <2>2, <3>1
  <2> QED BY <2>1, <2>2
<1>7. a \o b = c
  BY <1>4, <1>5, <1>6, SeqEqual
<1> QED BY <1>7 DEF a, b, c

LEMMA NextInRun ==
  ASSUME NEW m \in Nat
  PROVE  Run(m, m + 1) = <<m + 1>>
<1> DEFINE a == Run(m, m + 1)
           b == <<m + 1>>
<1>1. m + 1 \in Nat /\ (m + 1) - m = 1 /\ m <= m + 1
  OBVIOUS
<1>2. a \in Seq(Nat) /\ Len(a) = 1 /\ a[1] = m + 1
  <2>1. a \in Seq(Nat) /\ Len(a) = (m + 1) - m /\ \A i \in 1..((m + 1) - m) : a[i] = m + i
    BY <1>1, RunTyped
  <2>2. a \in Seq(Nat) /\ Len(a) = 1 /\ \A i \in 1..1 : a[i] = m + i
    BY ONLY <1>1, <2>1
  <2>3. 1 \in 1..1
    OBVIOUS
  <2> QED BY ONLY <2>2, <2>3
<1>3. b \in Seq(Nat) /\ Len(b) = 1 /\ b[1] = m + 1
  BY <1>1
<1> HIDE DEF a, b
<1>4. \A i \in 1..Len(a) : a[i] = b[i]
  BY <1>2, <1>3
<1>5. a = b
  BY <1>2, <1>3, <1>4, SeqEqual
<1> QED BY <1>5 DEF a, b

(* What is left of a run when its beginning is taken. *)
LEMMA RunCut ==
  ASSUME NEW p \in Seq(Nat), NEW s \in Seq(Nat), NEW w \in Nat, NEW m \in Nat, w <= m,
         p \o s = Run(w, m)
  PROVE  s = Run(w + Len(p), m)
<1>1. Len(p) \in Nat /\ Len(s) \in Nat /\ m - w \in Nat
  BY LenProperties
<1>2. /\ Len(p \o s) = Len(p) + Len(s)
      /\ \A i \in 1..(Len(p) + Len(s)) : (p \o s)[i] = IF i <= Len(p) THEN p[i] ELSE s[i - Len(p)]
  BY ConcatProperties
<1>3. Len(p) + Len(s) = m - w /\ \A i \in 1..(m - w) : (p \o s)[i] = w + i
  <2>1. Len(Run(w, m)) = m - w /\ \A i \in 1..(m - w) : Run(w, m)[i] = w + i
    BY RunTyped
  <2>2. p \o s = Run(w, m)
    OBVIOUS
  <2> QED BY ONLY <1>2, <2>1, <2>2
<1>4. w + Len(p) \in Nat /\ w + Len(p) <= m /\ m - (w + Len(p)) = Len(s)
  BY <1>1, <1>3
<1> DEFINE r == Run(w + Len(p), m)
<1>5. r \in Seq(Nat) /\ Len(r) = Len(s) /\ \A i \in 1..Len(s) : r[i] = (w + Len(p)) + i
  BY <1>4, RunTyped
<1> HIDE DEF r
<1>6. ASSUME NEW i \in 1..Len(s) PROVE s[i] = r[i]
  <2>1. Len(p) + i \in 1..(Len(p) + Len(s)) /\ ~(Len(p) + i <= Len(p)) /\ (Len(p) + i) - Len(p) = i
    BY <1>1
  <2>2. (p \o s)[Len(p) + i] = s[i]
    BY <1>2, <2>1
  <2>3. (p \o s)[Len(p) + i] = w + (Len(p) + i)
    BY <1>3, <2>1
  <2>4. w + (Len(p) + i) = (w + Len(p)) + i
    BY <1>1
  <2> QED BY <1>5, <2>2, <2>3, <2>4
<1>7. s = r
  BY <1>5, <1>6, SeqEqual
<1> QED BY <1>4, <1>7 DEF r

LEMMA RunRest ==
  ASSUME NEW p \in Seq(Nat), NEW s \in Seq(Nat), NEW w \in Nat, NEW m \in Nat, w <= m,
         p \o s = Run(w, m)
  PROVE  w + Len(p) \in Nat /\ w + Len(p) <= m
<1>1. Len(p) \in Nat /\ Len(s) \in Nat /\ m - w \in Nat
  BY LenProperties
<1>2. Len(p \o s) = Len(p) + Len(s)
  BY ConcatProperties
<1>3. Len(Run(w, m)) = m - w
  BY RunTyped
<1>4. Len(p \o s) = Len(Run(w, m))
  OBVIOUS
<1>5. Len(p) + Len(s) = m - w
  BY ONLY <1>2, <1>3, <1>4
<1> QED BY <1>1, <1>5

LEMMA Associated ==
  ASSUME NEW a \in Seq(Nat), NEW b \in Seq(Nat), NEW c \in Seq(Nat)
  PROVE  (a \o b) \o c = a \o (b \o c)
BY ConcatAssociative

LEMMA NothingAdded ==
  ASSUME NEW a \in Seq(Nat)
  PROVE  a \o <<>> = a /\ <<>> \o a = a
BY ConcatEmptySeq

LEMMA PutTogether ==
  ASSUME NEW a \in Seq(Nat), NEW b \in Seq(Nat)
  PROVE  a \o b \in Seq(Nat) /\ Len(a \o b) = Len(a) + Len(b)
BY ConcatProperties

LEMMA ChainsAreLists ==
  ASSUME NEW q \in Seq(Chain)
  PROVE  q \in Seq(Seq(Nat)) /\ FlattenSeq(q) \in Seq(Nat) /\ Len(FlattenSeq(q)) \in Nat
<1>1. q \in Seq(Seq(Nat))
  BY SeqMonotonic DEF Chain
<1>2. FlattenSeq(q) \in Seq(Nat)
  BY <1>1, FlattenTyped
<1> QED BY <1>1, <1>2, LenProperties

LEMMA FirstChain ==
  ASSUME NEW q \in Seq(Chain), q # <<>>
  PROVE  /\ Head(q) \in Seq(Nat) /\ Head(q) # <<>> /\ Len(Head(q)) \in Nat /\ Tail(q) \in Seq(Chain)
         /\ FlattenSeq(q) = Head(q) \o FlattenSeq(Tail(q))
         /\ Len(FlattenSeq(q)) = Len(Head(q)) + Len(FlattenSeq(Tail(q)))
<1>1. Head(q) \in Chain /\ Tail(q) \in Seq(Chain)
  BY HeadTailProperties
<1>2. Head(q) \in Seq(Nat) /\ Head(q) # <<>> /\ Len(Head(q)) \in Nat
  BY <1>1, LenProperties DEF Chain
<1>3. FlattenSeq(q) = Head(q) \o FlattenSeq(Tail(q))
  BY ChainsAreLists, FlattenHead
<1>4. FlattenSeq(Tail(q)) \in Seq(Nat)
  BY <1>1, ChainsAreLists
<1> QED BY <1>1, <1>2, <1>3, <1>4, ConcatProperties

LEMMA NextChain ==
  ASSUME NEW q \in Seq(Chain), NEW c \in Chain
  PROVE  /\ Append(q, c) \in Seq(Chain) /\ Append(q, c) # <<>> /\ c \in Seq(Nat)
         /\ FlattenSeq(Append(q, c)) = FlattenSeq(q) \o c
         /\ Len(FlattenSeq(Append(q, c))) = Len(FlattenSeq(q)) + Len(c)
         /\ Head(Append(q, c)) = IF q = <<>> THEN c ELSE Head(q)
<1>1. c \in Seq(Nat)
  BY DEF Chain
<1>2. FlattenSeq(Append(q, c)) = FlattenSeq(q) \o c
  BY <1>1, ChainsAreLists, FlattenAppend
<1>3. Append(q, c) \in Seq(Chain) /\ Append(q, c) # <<>>
  BY AppendProperties
<1>4. Head(Append(q, c)) = IF q = <<>> THEN c ELSE Head(q)
  BY HeadTailAppend
<1> QED BY <1>1, <1>2, <1>3, <1>4, ChainsAreLists, ConcatProperties

LEMMA NoChains == FlattenSeq(<<>>) = <<>> /\ Len(<<>>) = 0 /\ <<>> \in Seq(Chain) /\ <<>> \in Seq(Nat)
BY FlattenEmpty

-----------------------------------------------------------------------------
(* Steps that leave the lower writer alone *)

SamePipe(t, r) ==
  /\ r.wbio = t.wbio /\ r.made = t.made /\ r.own = t.own

SameLower(t, r) ==
  /\ r.Removing = t.Removing /\ r.up = t.up /\ r.LowerWriter = t.LowerWriter
  /\ r.flight = t.flight /\ r.written = t.written
  /\ r.LowerReadPending = t.LowerReadPending /\ r.LowerReadClosed = t.LowerReadClosed
  /\ r.HandshakeStarted = t.HandshakeStarted

SameSink(t, r) ==
  /\ r.results = t.results /\ r.ResultSink = t.ResultSink
  /\ r.ResultNotified = t.ResultNotified /\ r.woken = t.woken

(* Results are added, and none of them is a write's. *)
NoWrites(t, r) ==
  /\ Len(t.results) <= Len(r.results)
  /\ \A i \in 1..Len(t.results) : r.results[i] = t.results[i]
  /\ \A i \in Len(t.results) + 1..Len(r.results) : r.results[i] # "Write"

(* The sink is told of what is added. *)
Tells(t, r) == (t.woken => r.woken) /\ (r.ResultNotified => t.ResultNotified \/ r.woken)

(* A part that makes no ciphertext of the owner's and answers no write. *)
Quiet(t, r) ==
  /\ Sound(r) /\ SameLower(t, r) /\ (t.HandshakeCompleted => r.HandshakeCompleted)
  /\ (t.ok => r.ok)
  /\ t.own <= r.own /\ r.made + t.own = t.made + r.own
  /\ Len(r.wbio) + t.own = Len(t.wbio) + r.own
  /\ Tells(t, r) /\ NoWrites(t, r)

LEMMA NothingNew ==
  ASSUME NEW t \in TlsState, NEW r, r.results = t.results
  PROVE  NoWrites(t, r)
<1>1. Len(t.results) \in Nat /\ ~(\E i \in Len(t.results) + 1..Len(t.results) : TRUE)
  <2>1. Len(t.results) \in Nat
    BY LenProperties DEF TlsState
  <2>2. \A n \in Nat : ~(\E i \in n + 1..n : TRUE)
    OBVIOUS
  <2> QED BY <2>1, <2>2
<1> QED BY <1>1 DEF NoWrites

LEMMA OneNew ==
  ASSUME NEW t \in TlsState, NEW r, NEW op \in Operation, r.results = Append(t.results, op), op # "Write"
  PROVE  NoWrites(t, r)
<1> DEFINE s == t.results
           n == Len(s)
<1>1. s \in Seq(Operation) /\ n \in Nat
  BY LenProperties DEF TlsState
<1> HIDE DEF s
<1>2. /\ Len(Append(s, op)) = n + 1 /\ Append(s, op)[n + 1] = op
      /\ \A i \in 1..n : Append(s, op)[i] = s[i]
  BY <1>1, AppendProperties
<1> HIDE DEF n
<1>3. n <= n + 1 /\ \A i \in n + 1..n + 1 : i = n + 1
  BY <1>1
<1> QED BY <1>2, <1>3 DEF NoWrites, s, n

LEMMA NoWritesTwice ==
  ASSUME NEW t \in TlsState, NEW u \in TlsState, NEW r \in TlsState, NoWrites(t, u), NoWrites(u, r)
  PROVE  NoWrites(t, r)
<1> DEFINE a == Len(t.results)
           b == Len(u.results)
           c == Len(r.results)
<1>1. a \in Nat /\ b \in Nat /\ c \in Nat
  BY LenProperties DEF TlsState
<1>2. a <= b /\ b <= c
  BY DEF NoWrites
<1>3. /\ \A i \in 1..a : u.results[i] = t.results[i]
      /\ \A i \in a + 1..b : u.results[i] # "Write"
      /\ \A i \in 1..b : r.results[i] = u.results[i]
      /\ \A i \in b + 1..c : r.results[i] # "Write"
  BY DEF NoWrites
<1> HIDE DEF a, b, c
<1>4. a <= c
  BY <1>1, <1>2
<1>5. \A i \in 1..a : r.results[i] = t.results[i]
  BY <1>1, <1>2, <1>3
<1>6. ASSUME NEW i \in a + 1..c PROVE r.results[i] # "Write"
  <2>1. i \in a + 1..b \/ i \in b + 1..c
    BY <1>1, <1>2
  <2>2. i \in a + 1..b => i \in 1..b
    BY <1>1
  <2> QED BY <1>3, <2>1, <2>2
<1> QED BY <1>4, <1>5, <1>6 DEF NoWrites, a, b, c

LEMMA QuietTwice ==
  ASSUME NEW t \in TlsState, NEW u, NEW r, Quiet(t, u), Quiet(u, r)
  PROVE  Quiet(t, r)
<1>1. u \in TlsState /\ r \in TlsState
  BY DEF Quiet, Sound
<1>2. NoWrites(t, r)
  BY <1>1, NoWritesTwice DEF Quiet
<1>3. SameLower(t, r) /\ Tells(t, r) /\ (t.HandshakeCompleted => r.HandshakeCompleted) /\ (t.ok => r.ok)
  BY DEF Quiet, SameLower, Tells
<1>4. /\ t.own \in Nat /\ u.own \in Nat /\ r.own \in Nat /\ t.made \in Nat /\ u.made \in Nat /\ r.made \in Nat
      /\ Len(t.wbio) \in Nat /\ Len(u.wbio) \in Nat /\ Len(r.wbio) \in Nat
  BY <1>1, LenProperties DEF TlsState
<1>5. /\ t.own <= u.own /\ u.own <= r.own /\ u.made + t.own = t.made + u.own /\ r.made + u.own = u.made + r.own
      /\ Len(u.wbio) + t.own = Len(t.wbio) + u.own /\ Len(r.wbio) + u.own = Len(u.wbio) + r.own
  BY DEF Quiet
<1>6. t.own <= r.own /\ r.made + t.own = t.made + r.own /\ Len(r.wbio) + t.own = Len(t.wbio) + r.own
  <2> DEFINE a == t.own   b == u.own   c == r.own   x == t.made   y == u.made   z == r.made
             l == Len(t.wbio)   m == Len(u.wbio)   n == Len(r.wbio)
  <2> HIDE DEF a, b, c, x, y, z, l, m, n
  <2>1. /\ a \in Nat /\ b \in Nat /\ c \in Nat /\ x \in Nat /\ y \in Nat /\ z \in Nat
        /\ l \in Nat /\ m \in Nat /\ n \in Nat
        /\ a <= b /\ b <= c /\ y + a = x + b /\ z + b = y + c /\ m + a = l + b /\ n + b = m + c
    BY ONLY <1>4, <1>5 DEF a, b, c, x, y, z, l, m, n
  <2>2. a <= c /\ z + a = x + c /\ n + a = l + c
    BY ONLY <2>1
  <2> QED BY ONLY <2>2 DEF a, c, x, z, l, n
<1> QED BY <1>2, <1>3, <1>6 DEF Quiet

(* Only the pipe, the sink and the ends of the reading matter to soundness. *)
LEMMA SoundStays ==
  ASSUME NEW t, NEW r \in TlsState, Sound(t), SamePipe(t, r), SameLower(t, r),
         SinkInv(r), LeftInv(r), ReadInv(r)
  PROVE  Sound(r)
<1>1. InOrder(r) /\ CountInv(r)
  BY DEF Sound, SamePipe, SameLower, InOrder, CountInv
<1>2. WriterInv(r)
  BY DEF Sound, SameLower, WriterInv
<1> QED BY <1>1, <1>2 DEF Sound

(* Flags are set, and nothing else. *)
LEMMA FlagsSet ==
  ASSUME NEW t, NEW r \in TlsState, Sound(t), SamePipe(t, r), SameLower(t, r), SameSink(t, r),
         t.HandshakeCompleted => r.HandshakeCompleted, t.ok => r.ok, r.left \in {0, t.left},
         r.HandshakeResultQueued /\ ~t.HandshakeResultQueued => t.HandshakeStarted \/ t.LowerReadClosed
  PROVE  Quiet(t, r)
<1>1. SinkInv(r) /\ LeftInv(r)
  BY DEF Sound, SameSink, SinkInv, LeftInv
<1>2. ReadInv(r)
  BY DEF Sound, SameLower, ReadInv
<1>3. Sound(r)
  BY <1>1, <1>2, SoundStays
<1>4. NoWrites(t, r)
  BY NothingNew DEF Sound, SameSink
<1>5. t.own \in Nat /\ t.made \in Nat /\ Len(t.wbio) \in Nat
  BY LenProperties DEF Sound, TlsState
<1>6. t.own <= r.own /\ r.made + t.own = t.made + r.own /\ Len(r.wbio) + t.own = Len(t.wbio) + r.own
  BY <1>5 DEF SamePipe
<1> QED BY <1>3, <1>4, <1>6 DEF Quiet, SameSink, Tells

(* Flags of the stream and of the library *)

LEMMA OkSet ==
  ASSUME NEW t, Sound(t)
  PROVE  LET r == [t EXCEPT !.ok = TRUE] IN
         Quiet(t, r) /\ r.ok /\ SamePipe(t, r) /\ SameSink(t, r)
         /\ r.HandshakeCompleted = t.HandshakeCompleted /\ r.HandshakeResultQueued = t.HandshakeResultQueued
         /\ r.PlainWritePending = t.PlainWritePending /\ r.left = t.left
<1> DEFINE r == [t EXCEPT !.ok = TRUE]
<1>1. t \in TlsState
  BY DEF Sound
<1>2. r \in TlsState
  BY <1>1 DEF TlsState
<1>3. SamePipe(t, r) /\ SameSink(t, r) /\ r.ok
  BY <1>1 DEF TlsState, SamePipe, SameSink
<1>4. SameLower(t, r)
  BY <1>1 DEF TlsState, SameLower
<1>5. /\ r.HandshakeCompleted = t.HandshakeCompleted /\ r.HandshakeResultQueued = t.HandshakeResultQueued
      /\ r.PlainWritePending = t.PlainWritePending /\ r.left = t.left
  BY <1>1 DEF TlsState
<1> HIDE DEF r
<1>6. Quiet(t, r)
  BY <1>2, <1>3, <1>4, <1>5, FlagsSet
<1> QED BY <1>3, <1>5, <1>6 DEF r

LEMMA ReadDoneIsQuiet ==
  ASSUME NEW t, Sound(t)
  PROVE  LET r == ReadDone(t) IN
         Quiet(t, r) /\ r.HandshakeCompleted = t.HandshakeCompleted /\ SamePipe(t, r) /\ SameSink(t, r)
         /\ r.HandshakeResultQueued = t.HandshakeResultQueued
<1> DEFINE r == ReadDone(t)
<1>1. t \in TlsState
  BY DEF Sound
<1>2. r \in TlsState
  BY <1>1 DEF TlsState, ReadDone
<1>3. SamePipe(t, r) /\ SameSink(t, r)
  BY <1>1 DEF TlsState, SamePipe, SameSink, ReadDone
<1>4. SameLower(t, r)
  BY <1>1 DEF TlsState, SameLower, ReadDone
<1>5. /\ r.HandshakeCompleted = t.HandshakeCompleted /\ r.HandshakeResultQueued = t.HandshakeResultQueued
      /\ r.left = t.left /\ r.ok = t.ok
  BY <1>1 DEF TlsState, ReadDone
<1> HIDE DEF r
<1>6. Quiet(t, r)
  BY <1>2, <1>3, <1>4, <1>5, FlagsSet
<1> QED BY <1>3, <1>5, <1>6 DEF r

LEMMA ResetIsQuiet ==
  ASSUME NEW t, Sound(t)
  PROVE  LET r == ResetPlainWrite(t) IN
         Quiet(t, r) /\ r.HandshakeCompleted = t.HandshakeCompleted /\ SamePipe(t, r) /\ SameSink(t, r)
         /\ r.HandshakeResultQueued = t.HandshakeResultQueued
<1> DEFINE r == ResetPlainWrite(t)
<1>1. t \in TlsState
  BY DEF Sound
<1>2. r \in TlsState
  BY <1>1 DEF TlsState, ResetPlainWrite
<1>3. SamePipe(t, r) /\ SameSink(t, r)
  BY <1>1 DEF TlsState, SamePipe, SameSink, ResetPlainWrite
<1>4. SameLower(t, r)
  BY <1>1 DEF TlsState, SameLower, ResetPlainWrite
<1>5. /\ r.HandshakeCompleted = t.HandshakeCompleted /\ r.HandshakeResultQueued = t.HandshakeResultQueued
      /\ r.left = 0 /\ r.ok = t.ok
  BY <1>1 DEF TlsState, ResetPlainWrite
<1> HIDE DEF r
<1>6. Quiet(t, r)
  BY <1>2, <1>3, <1>4, <1>5, FlagsSet
<1> QED BY <1>3, <1>5, <1>6 DEF r

(* A result is queued, and the sink told. *)
LEMMA Queued ==
  ASSUME NEW t, Sound(t), NEW op \in Operation
  PROVE  LET r == QueueResult(t, op) IN
         /\ Sound(r) /\ SameLower(t, r) /\ SamePipe(t, r) /\ Tells(t, r) /\ r.ok
         /\ r.results = Append(t.results, op)
         /\ r.HandshakeCompleted = t.HandshakeCompleted /\ (op # "Write" => Quiet(t, r))
<1> DEFINE w == Append(t.results, op)
           u == [t EXCEPT !.results = w, !.ok = TRUE]
           r == QueueResult(t, op)
<1>1. t \in TlsState /\ t.results \in Seq(Operation)
  BY DEF Sound, TlsState
<1>2. w \in Seq(Operation) /\ w # <<>>
  BY <1>1, AppendProperties
<1>3. r = NotifyResultReady(u)
  BY DEF QueueResult
<1> HIDE DEF w, r
<1>4. u \in TlsState /\ u.results = w /\ u.ok /\ u.ResultNotified = t.ResultNotified
      /\ u.ResultSink = t.ResultSink /\ u.woken = t.woken
  BY <1>1, <1>2 DEF TlsState
<1>5. /\ SameLower(t, u) /\ SamePipe(t, u) /\ u.left = t.left
      /\ u.HandshakeCompleted = t.HandshakeCompleted /\ u.HandshakeResultQueued = t.HandshakeResultQueued
  BY <1>1 DEF TlsState, SamePipe, SameLower
<1> HIDE DEF u
<1>6. /\ r \in TlsState /\ r.results = w /\ r.ok /\ r.ResultSink = t.ResultSink
      /\ SameLower(t, r) /\ SamePipe(t, r) /\ r.left = t.left
      /\ r.HandshakeCompleted = t.HandshakeCompleted /\ r.HandshakeResultQueued = t.HandshakeResultQueued
      /\ \/ r.ResultNotified = t.ResultNotified /\ r.woken = t.woken /\ (t.ResultNotified \/ ~t.ResultSink)
         \/ r.ResultNotified /\ r.woken /\ t.ResultSink
  <2>1. CASE u.ResultNotified \/ ~u.ResultSink
    <3>1. r = u
      BY <1>3, <2>1 DEF NotifyResultReady
    <3> QED BY <1>4, <1>5, <2>1, <3>1
  <2>2. CASE ~(u.ResultNotified \/ ~u.ResultSink)
    <3>1. r = [u EXCEPT !.ResultNotified = TRUE, !.woken = TRUE]
      BY <1>3, <2>2 DEF NotifyResultReady
    <3>2. /\ r \in TlsState /\ r.results = u.results /\ r.ok = u.ok /\ r.ResultNotified /\ r.woken
          /\ r.ResultSink = u.ResultSink /\ r.left = u.left
      <4>1. u \in TlsState
        BY <1>4
      <4>2. [u EXCEPT !.ResultNotified = TRUE, !.woken = TRUE] \in TlsState
        BY ONLY <4>1 DEF TlsState
      <4>3. /\ r.results = u.results /\ r.ok = u.ok /\ r.ResultNotified /\ r.woken
            /\ r.ResultSink = u.ResultSink /\ r.left = u.left
        BY ONLY <3>1, <4>1 DEF TlsState
      <4> QED BY <3>1, <4>2, <4>3
    <3>3. SameLower(u, r) /\ SamePipe(u, r)
      BY <1>4, <3>1 DEF TlsState, SamePipe, SameLower
    <3>4. r.HandshakeCompleted = u.HandshakeCompleted /\ r.HandshakeResultQueued = u.HandshakeResultQueued
      BY <1>4, <3>1 DEF TlsState
    <3>5. SameLower(t, r) /\ SamePipe(t, r)
      BY <1>5, <3>3 DEF SamePipe, SameLower
    <3> QED BY <1>4, <1>5, <2>2, <3>2, <3>4, <3>5
  <2> QED BY <2>1, <2>2
<1>7. SinkInv(r)
  BY <1>2, <1>6 DEF Sound, SinkInv
<1>8. LeftInv(r) /\ ReadInv(r)
  BY <1>6 DEF Sound, LeftInv, ReadInv, SameLower
<1>9. Sound(r)
  BY <1>6, <1>7, <1>8, SoundStays
<1>10. Tells(t, r)
  BY <1>6 DEF Tells
<1>11. ASSUME op # "Write" PROVE Quiet(t, r)
  <2>1. NoWrites(t, r)
    BY <1>1, <1>6, <1>11, OneNew DEF w
  <2>2. t.own \in Nat /\ t.made \in Nat /\ Len(t.wbio) \in Nat
    BY <1>1, LenProperties DEF TlsState
  <2>3. t.own <= r.own /\ r.made + t.own = t.made + r.own /\ Len(r.wbio) + t.own = Len(t.wbio) + r.own
    BY <1>6, <2>2 DEF SamePipe
  <2> QED BY <1>6, <1>9, <1>10, <2>1, <2>3 DEF Quiet
<1> QED BY <1>6, <1>9, <1>10, <1>11 DEF r, w

LEMMA TerminalIsQuiet ==
  ASSUME NEW t, Sound(t), NEW op \in Operation, op # "Write", t.HandshakeStarted \/ t.LowerReadClosed
  PROVE  LET r == Terminal(t, op) IN
         Quiet(t, r) /\ r.ok /\ SamePipe(t, r) /\ r.HandshakeCompleted = t.HandshakeCompleted
         /\ (t.HandshakeResultQueued => r.results = t.results)
<1>1. CASE t.HandshakeResultQueued
  BY <1>1, OkSet DEF Terminal, SameSink
<1>2. CASE ~t.HandshakeResultQueued
  <2> DEFINE u == [t EXCEPT !.HandshakeResultQueued = TRUE]
             r == QueueResult(u, op)
  <2>1. t \in TlsState
    BY DEF Sound
  <2>2. u \in TlsState
    BY <2>1 DEF TlsState
  <2>3. SamePipe(t, u) /\ SameSink(t, u) /\ SameLower(t, u)
    BY <2>1 DEF TlsState, SamePipe, SameSink, SameLower
  <2>4. u.HandshakeCompleted = t.HandshakeCompleted /\ u.left = t.left /\ u.ok = t.ok
    BY <2>1 DEF TlsState
  <2>5. Terminal(t, op) = r
    BY <1>2 DEF Terminal
  <2> HIDE DEF u
  <2>6. Quiet(t, u)
    BY <2>2, <2>3, <2>4, FlagsSet
  <2>7. Quiet(u, r) /\ r.ok /\ SamePipe(u, r) /\ r.HandshakeCompleted = u.HandshakeCompleted
    BY <2>6, Queued DEF Quiet
  <2>8. Quiet(t, r)
    BY <2>1, <2>6, <2>7, QuietTwice
  <2>9. SamePipe(t, r)
    BY <2>3, <2>7 DEF SamePipe
  <2> HIDE DEF r
  <2> QED BY <1>2, <2>4, <2>5, <2>7, <2>8, <2>9
<1> QED BY <1>1, <1>2

LEMMA QueueErrorIsQuiet ==
  ASSUME NEW t, Sound(t), t.HandshakeCompleted \/ t.HandshakeStarted \/ t.LowerReadClosed
  PROVE  LET r == QueueError(t) IN
         Quiet(t, r) /\ r.ok /\ SamePipe(t, r)
         /\ (IsHandshakeTerminated(t) => r.results = t.results)
<1>1. "Error" \in Operation /\ "Error" # "Write"
  BY DEF Operation
<1>2. CASE t.HandshakeCompleted
  BY <1>1, <1>2, Queued DEF QueueError, IsHandshakeTerminated
<1>3. CASE ~t.HandshakeCompleted
  BY <1>1, <1>3, TerminalIsQuiet DEF QueueError, IsHandshakeTerminated
<1> QED BY <1>2, <1>3

-----------------------------------------------------------------------------
(* The library *)

LEMMA MoreMade ==
  ASSUME NEW t, Sound(t), NEW r \in TlsState, NEW n \in Nat,
         r.wbio = t.wbio \o Run(t.made, t.made + n), r.made = t.made + n, r.own <= r.made,
         t.LowerWriter.QueuedBytes + Len(r.wbio) <= BatchLimit + r.own,
         SameLower(t, r), SinkInv(r), LeftInv(r), ReadInv(r)
  PROVE  Sound(r)
<1>1. t \in TlsState
  BY DEF Sound
<1>2. /\ t.wbio \in Seq(Nat) /\ t.made \in Nat /\ t.written \in Nat /\ t.written <= t.made
      /\ t.LowerWriter \in QueueState
  BY <1>1 DEF TlsState, Sound, CountInv
<1>3. Waiting(t.LowerWriter) \in Seq(Nat)
  BY <1>2, ChainsAreLists DEF QueueState, Waiting
<1>4. InOrder(r)
  <2>1. CASE t.Removing
    BY <2>1 DEF InOrder, SameLower
  <2>2. CASE ~t.Removing
    <3>1. Waiting(t.LowerWriter) \o t.wbio = Run(t.written, t.made)
      BY <2>2 DEF Sound, InOrder
    <3>2. t.made + n \in Nat /\ t.made <= t.made + n
      BY <1>2
    <3>3. Run(t.made, t.made + n) \in Seq(Nat)
      BY <1>2, <3>2, RunTyped
    <3>4. Waiting(t.LowerWriter) \o (t.wbio \o Run(t.made, t.made + n))
            = (Waiting(t.LowerWriter) \o t.wbio) \o Run(t.made, t.made + n)
      BY <1>2, <1>3, <3>3, Associated
    <3>5. Run(t.written, t.made) \o Run(t.made, t.made + n) = Run(t.written, t.made + n)
      BY <1>2, RunJoins
    <3>6. Waiting(t.LowerWriter) \o r.wbio = Run(t.written, r.made)
      BY <3>1, <3>4, <3>5
    <3> QED BY <3>6 DEF InOrder, SameLower
  <2> QED BY <2>1, <2>2
<1>5. WriterInv(r)
  BY DEF Sound, SameLower, WriterInv
<1>6. CountInv(r)
  <2>1. t.written <= t.made + n
    BY <1>2
  <2> QED BY <2>1 DEF SameLower, CountInv
<1> QED BY <1>4, <1>5, <1>6 DEF Sound

(* What no call of the library changes *)
SameStream(t, u) ==
  /\ SameLower(t, u) /\ SameSink(t, u)
  /\ u.HandshakeCompleted = t.HandshakeCompleted /\ u.HandshakeResultQueued = t.HandshakeResultQueued
  /\ u.PlainReadPending = t.PlainReadPending /\ u.PlainWritePending = t.PlainWritePending
  /\ u.PlainWriteNeedsRead = t.PlainWriteNeedsRead /\ u.ShutdownPending = t.ShutdownPending
  /\ u.left = t.left /\ u.ok = t.ok

(* What a call of the library does *)
Library(t, u) == Quiet(t, u) /\ SameStream(t, u)

LEMMA LibraryTwice ==
  ASSUME NEW t \in TlsState, NEW u, NEW r, Library(t, u), Library(u, r)
  PROVE  Library(t, r)
<1>1. Quiet(t, r)
  BY QuietTwice DEF Library
<1>2. SameLower(t, r) /\ SameSink(t, r)
  BY DEF Library, SameStream, SameLower, SameSink
<1> QED BY <1>1, <1>2 DEF Library, SameStream

LEMMA LibrarySet ==
  ASSUME NEW t, NEW r \in TlsState, Sound(t), SamePipe(t, r), SameStream(t, r)
  PROVE  Library(t, r)
BY FlagsSet DEF Library, SameStream

LEMMA SaidIsLibrary ==
  ASSUME NEW t, Sound(t), NEW rc \in {"", "want", "done", "closed", "error", "sent"}
  PROVE  Library(t, Said(t, rc)) /\ Said(t, rc).rc = rc /\ SamePipe(t, Said(t, rc))
<1> DEFINE r == Said(t, rc)
<1>1. t \in TlsState
  BY DEF Sound
<1>2. r \in TlsState /\ r.rc = rc /\ SamePipe(t, r)
  BY <1>1 DEF TlsState, Said, SamePipe
<1>3. SameLower(t, r) /\ SameSink(t, r)
  BY <1>1 DEF TlsState, Said, SameLower, SameSink
<1>4. SameStream(t, r)
  BY <1>1, <1>3 DEF TlsState, Said, SameStream
<1> HIDE DEF r
<1>5. Library(t, r)
  BY <1>2, <1>4, LibrarySet
<1> QED BY <1>2, <1>5 DEF r

(* One field that only the library uses is changed. *)
LEMMA DeadIsLibrary ==
  ASSUME NEW t, Sound(t), NEW b \in BOOLEAN
  PROVE  Library(t, [t EXCEPT !.dead = b])
<1> DEFINE r == [t EXCEPT !.dead = b]
<1>1. t \in TlsState
  BY DEF Sound
<1>2. r \in TlsState /\ SamePipe(t, r)
  BY <1>1 DEF TlsState, SamePipe
<1>3. SameLower(t, r) /\ SameSink(t, r)
  BY <1>1 DEF TlsState, SameLower, SameSink
<1>4. SameStream(t, r)
  BY <1>1, <1>3 DEF TlsState, SameStream
<1> HIDE DEF r
<1> QED BY <1>2, <1>4, LibrarySet DEF r

LEMMA HelloIsLibrary ==
  ASSUME NEW t, Sound(t), NEW b \in BOOLEAN
  PROVE  Library(t, [t EXCEPT !.hello = b])
<1> DEFINE r == [t EXCEPT !.hello = b]
<1>1. t \in TlsState
  BY DEF Sound
<1>2. r \in TlsState /\ SamePipe(t, r)
  BY <1>1 DEF TlsState, SamePipe
<1>3. SameLower(t, r) /\ SameSink(t, r)
  BY <1>1 DEF TlsState, SameLower, SameSink
<1>4. SameStream(t, r)
  BY <1>1, <1>3 DEF TlsState, SameStream
<1> HIDE DEF r
<1> QED BY <1>2, <1>4, LibrarySet DEF r

LEMMA AgainIsLibrary ==
  ASSUME NEW t, Sound(t), NEW b \in BOOLEAN
  PROVE  Library(t, [t EXCEPT !.again = b])
<1> DEFINE r == [t EXCEPT !.again = b]
<1>1. t \in TlsState
  BY DEF Sound
<1>2. r \in TlsState /\ SamePipe(t, r)
  BY <1>1 DEF TlsState, SamePipe
<1>3. SameLower(t, r) /\ SameSink(t, r)
  BY <1>1 DEF TlsState, SameLower, SameSink
<1>4. SameStream(t, r)
  BY <1>1, <1>3 DEF TlsState, SameStream
<1> HIDE DEF r
<1> QED BY <1>2, <1>4, LibrarySet DEF r

LEMMA ClosesAreLibrary ==
  ASSUME NEW t, Sound(t), NEW b \in BOOLEAN
  PROVE  Library(t, [t EXCEPT !.closeSent = b]) /\ Library(t, [t EXCEPT !.closeReceived = b])
<1>1. t \in TlsState
  BY DEF Sound
<1>2. Library(t, [t EXCEPT !.closeSent = b])
  <2> DEFINE r == [t EXCEPT !.closeSent = b]
  <2>2. r \in TlsState /\ SamePipe(t, r)
    BY <1>1 DEF TlsState, SamePipe
  <2>3. SameLower(t, r) /\ SameSink(t, r)
    BY <1>1 DEF TlsState, SameLower, SameSink
  <2>4. SameStream(t, r)
    BY <1>1, <2>3 DEF TlsState, SameStream
  <2> HIDE DEF r
  <2> QED BY <2>2, <2>4, LibrarySet DEF r
<1>3. Library(t, [t EXCEPT !.closeReceived = b])
  <2> DEFINE r == [t EXCEPT !.closeReceived = b]
  <2>2. r \in TlsState /\ SamePipe(t, r)
    BY <1>1 DEF TlsState, SamePipe
  <2>3. SameLower(t, r) /\ SameSink(t, r)
    BY <1>1 DEF TlsState, SameLower, SameSink
  <2>4. SameStream(t, r)
    BY <1>1, <2>3 DEF TlsState, SameStream
  <2> HIDE DEF r
  <2> QED BY <2>2, <2>4, LibrarySet DEF r
<1> QED BY <1>2, <1>3

LEMMA TakeIsLibrary ==
  ASSUME NEW t, Sound(t), Next1(t) # ""
  PROVE  Library(t, Take(t))
<1> DEFINE w == Tail(t.rbio)
           r == [t EXCEPT !.rbio = w]
<1>1. t \in TlsState /\ t.rbio \in Seq(Records) /\ t.rbio # <<>>
  BY DEF Sound, TlsState, Next1
<1>2. w \in Seq(Records)
  BY <1>1, HeadTailProperties
<1>3. Take(t) = r
  BY DEF Take
<1> HIDE DEF w
<1>4. r \in TlsState /\ SamePipe(t, r)
  BY <1>1, <1>2 DEF TlsState, SamePipe
<1>5. SameLower(t, r) /\ SameSink(t, r)
  BY <1>1 DEF TlsState, SameLower, SameSink
<1>6. SameStream(t, r)
  BY <1>1, <1>5 DEF TlsState, SameStream
<1> HIDE DEF r
<1> QED BY <1>3, <1>4, <1>6, LibrarySet

(* A record of the library's own *)
LEMMA EmitIsLibrary ==
  ASSUME NEW t, Sound(t)
  PROVE  Library(t, Emit(t))
<1> DEFINE m == t.made + 1
           w == Append(t.wbio, m)
           o == t.own + 1
           r == [t EXCEPT !.wbio = w, !.made = m, !.own = o]
<1>1. t \in TlsState /\ t.wbio \in Seq(Nat) /\ t.made \in Nat /\ t.own \in Nat /\ Len(t.wbio) \in Nat
      /\ t.LowerWriter \in QueueState /\ BatchLimit \in Nat
  BY LenProperties, SizeAssumption DEF Sound, TlsState
<1>2. w \in Seq(Nat) /\ Len(w) = Len(t.wbio) + 1 /\ m \in Nat /\ o \in Nat
  BY <1>1, AppendProperties
<1>3. w = t.wbio \o Run(t.made, m)
  <2>1. Run(t.made, m) = <<m>>
    BY <1>1, NextInRun
  <2> QED BY <1>1, <1>2, <2>1, AppendIsConcat
<1>4. Emit(t) = r
  BY DEF Emit
<1>5. t.own <= t.made /\ t.LowerWriter.QueuedBytes + Len(t.wbio) <= BatchLimit + t.own
      /\ t.LowerWriter.QueuedBytes \in Nat
  BY <1>1 DEF Sound, CountInv, QueueState
<1>6. o <= m /\ t.LowerWriter.QueuedBytes + Len(w) <= BatchLimit + o /\ t.own <= o /\ m + t.own = t.made + o
      /\ Len(w) + t.own = Len(t.wbio) + o
  <2> DEFINE a == t.own   b == t.made   q == t.LowerWriter.QueuedBytes   l == Len(t.wbio)   k == Len(w)   x == BatchLimit
  <2>1. Len(w) = Len(t.wbio) + 1
    BY <1>2
  <2> HIDE DEF a, b, q, l, k, x
  <2>2. /\ a \in Nat /\ b \in Nat /\ q \in Nat /\ l \in Nat /\ x \in Nat
        /\ a <= b /\ q + l <= x + a /\ k = l + 1
    BY ONLY <1>1, <1>5, <2>1 DEF a, b, q, l, k, x
  <2>3. /\ a + 1 <= b + 1 /\ q + k <= x + (a + 1) /\ a <= a + 1
        /\ (b + 1) + a = b + (a + 1) /\ k + a = l + (a + 1)
    BY ONLY <2>2
  <2> QED BY ONLY <2>3 DEF a, b, q, l, k, x
<1>7. m = t.made + 1
  OBVIOUS
<1> HIDE DEF m, w, o
<1>8. r \in TlsState /\ r.wbio = w /\ r.made = m /\ r.own = o
  BY <1>1, <1>2 DEF TlsState
<1>9. SameLower(t, r) /\ SameSink(t, r)
  BY <1>1 DEF TlsState, SameLower, SameSink
<1>10. SameStream(t, r)
  BY <1>1, <1>9 DEF TlsState, SameStream
<1> HIDE DEF r
<1>11. SinkInv(r) /\ LeftInv(r) /\ ReadInv(r)
  BY <1>10 DEF Sound, SinkInv, LeftInv, ReadInv, SameStream, SameSink, SameLower
<1>12. Sound(r)
  BY <1>3, <1>6, <1>7, <1>8, <1>9, <1>11, MoreMade
<1>13. NoWrites(t, r) /\ Tells(t, r)
  BY <1>1, <1>9, NothingNew DEF SameSink, Tells
<1>14. Quiet(t, r)
  BY <1>6, <1>8, <1>10, <1>12, <1>13 DEF Quiet, SameStream
<1> QED BY <1>4, <1>10, <1>14 DEF Library

LEMMA EmitTakeIsLibrary ==
  ASSUME NEW t, Sound(t), Next1(t) # ""
  PROVE  Library(t, Emit(Take(t)))
<1>1. Library(t, Take(t)) /\ t \in TlsState
  BY TakeIsLibrary DEF Sound
<1>2. Library(Take(t), Emit(Take(t)))
  BY <1>1, EmitIsLibrary DEF Library, Quiet
<1> QED BY <1>1, <1>2, LibraryTwice

LEMMA FailsIsLibrary ==
  ASSUME NEW t, Sound(t)
  PROVE  Library(t, Fails(t)) /\ Fails(t).rc = "error"
<1> DEFINE u == [t EXCEPT !.dead = TRUE]
<1>1. Library(t, u) /\ t \in TlsState
  BY DeadIsLibrary DEF Sound
<1> HIDE DEF u
<1>2. Library(u, Said(u, "error")) /\ Said(u, "error").rc = "error"
  BY <1>1, SaidIsLibrary DEF Library, Quiet
<1>3. Fails(t) = Said(u, "error")
  BY DEF Fails, u
<1> QED BY <1>1, <1>2, <1>3, LibraryTwice

LEMMA EmitTakeFails ==
  ASSUME NEW t, Sound(t), Next1(t) # ""
  PROVE  Library(t, Fails(Emit(Take(t)))) /\ Fails(Emit(Take(t))).rc = "error"
<1>1. Library(t, Emit(Take(t))) /\ t \in TlsState
  BY EmitTakeIsLibrary DEF Sound
<1>2. Library(Emit(Take(t)), Fails(Emit(Take(t)))) /\ Fails(Emit(Take(t))).rc = "error"
  BY <1>1, FailsIsLibrary DEF Library, Quiet
<1> QED BY <1>1, <1>2, LibraryTwice

LEMMA EmitTakeSaid ==
  ASSUME NEW t, Sound(t), Next1(t) # ""
  PROVE  Library(t, Said(Emit(Take(t)), "done")) /\ Said(Emit(Take(t)), "done").rc = "done"
<1>1. Library(t, Emit(Take(t))) /\ t \in TlsState
  BY EmitTakeIsLibrary DEF Sound
<1>2. Library(Emit(Take(t)), Said(Emit(Take(t)), "done")) /\ Said(Emit(Take(t)), "done").rc = "done"
  BY <1>1, SaidIsLibrary DEF Library, Quiet
<1> QED BY <1>1, <1>2, LibraryTwice

LEMMA TakeSaid ==
  ASSUME NEW t, Sound(t), Next1(t) # ""
  PROVE  Library(t, Said(Take(t), "done")) /\ Said(Take(t), "done").rc = "done"
<1>1. Library(t, Take(t)) /\ t \in TlsState
  BY TakeIsLibrary DEF Sound
<1>2. Library(Take(t), Said(Take(t), "done")) /\ Said(Take(t), "done").rc = "done"
  BY <1>1, SaidIsLibrary DEF Library, Quiet
<1> QED BY <1>1, <1>2, LibraryTwice

LEMMA GotCloseIsLibrary ==
  ASSUME NEW t, Sound(t), Next1(t) # ""
  PROVE  Library(t, GotClose(t)) /\ GotClose(t).rc = "closed"
<1> DEFINE a == Take(t)
           u == [a EXCEPT !.closeReceived = TRUE]
<1>1. Library(t, a) /\ t \in TlsState
  BY TakeIsLibrary DEF Sound
<1>2. GotClose(t) = Said(u, "closed")
  BY DEF GotClose
<1> HIDE DEF a
<1>3. Library(a, u)
  BY <1>1, ClosesAreLibrary DEF Library, Quiet
<1> HIDE DEF u
<1>4. Library(t, u)
  BY <1>1, <1>3, LibraryTwice
<1>5. Library(u, Said(u, "closed")) /\ Said(u, "closed").rc = "closed"
  BY <1>4, SaidIsLibrary DEF Library, Quiet
<1> QED BY <1>1, <1>2, <1>4, <1>5, LibraryTwice

LEMMA RenewedIsLibrary ==
  ASSUME NEW t, Sound(t)
  PROVE  Library(t, Renewed(t))
<1>1. t \in TlsState
  BY DEF Sound
<1>2. Library(t, t)
  BY <1>1, LibrarySet DEF SamePipe, SameStream, SameLower, SameSink
<1>3. CASE t.again /\ Next1(t) = "hs"
  <2> DEFINE a == Emit(Take(t))
  <2>1. Library(t, a)
    BY <1>3, EmitTakeIsLibrary
  <2>2. Renewed(t) = [a EXCEPT !.again = FALSE]
    BY <1>3 DEF Renewed
  <2> HIDE DEF a
  <2>3. Library(a, [a EXCEPT !.again = FALSE])
    BY <2>1, AgainIsLibrary DEF Library, Quiet
  <2> QED BY <1>1, <2>1, <2>2, <2>3, LibraryTwice
<1>4. CASE ~(t.again /\ Next1(t) = "hs")
  BY <1>2, <1>4 DEF Renewed
<1> QED BY <1>3, <1>4

LEMMA HandshakeIsLibrary ==
  ASSUME NEW t, Sound(t)
  PROVE  Library(t, SslHandshake(t)) /\ SslHandshake(t).rc \in {"want", "done", "closed", "error"}
<1> DEFINE g == [t EXCEPT !.hello = TRUE]
           h == IF t.hello THEN t ELSE Emit(g)
           r == SslHandshake(t)
<1>1. t \in TlsState
  BY DEF Sound
<1>2. Library(t, t)
  BY <1>1, LibrarySet DEF SamePipe, SameStream, SameLower, SameSink
<1>3. Library(t, g)
  BY HelloIsLibrary
<1> HIDE DEF g
<1>4. Library(t, Emit(g))
  <2>1. Library(g, Emit(g))
    BY <1>3, EmitIsLibrary DEF Library, Quiet
  <2> QED BY <1>1, <1>3, <2>1, LibraryTwice
<1>5. Library(t, h) /\ Sound(h)
  BY <1>2, <1>4 DEF Library, Quiet
<1>6. r = CASE Next1(h) = ""    -> Said(h, "want")
            [] Next1(h) = "hs"  -> Said(Emit(Take(h)), "done")
            [] Next1(h) = "bye" -> GotClose(h)
            [] OTHER            -> Fails(Emit(Take(h)))
  BY DEF SslHandshake, g
<1> HIDE DEF h, r
<1>7. Library(h, r) /\ r.rc \in {"want", "done", "closed", "error"}
  <2>1. CASE Next1(h) = ""
    BY <1>5, <1>6, <2>1, SaidIsLibrary
  <2>2. CASE Next1(h) = "hs"
    BY <1>5, <1>6, <2>2, EmitTakeSaid
  <2>3. CASE Next1(h) = "bye"
    BY <1>5, <1>6, <2>3, GotCloseIsLibrary
  <2>4. CASE Next1(h) \notin {"", "hs", "bye"}
    BY <1>5, <1>6, <2>4, EmitTakeFails
  <2> QED BY <2>1, <2>2, <2>3, <2>4
<1>8. Library(t, r)
  BY <1>1, <1>5, <1>7, LibraryTwice
<1> QED BY <1>7, <1>8 DEF r

LEMMA ReadIsLibrary ==
  ASSUME NEW u, Sound(u)
  PROVE  Library(u, SslRead(u))
<1> DEFINE t == Renewed(u)
           r == SslRead(u)
<1>1. u \in TlsState /\ Library(u, t) /\ Sound(t)
  BY RenewedIsLibrary DEF Sound, Library, Quiet
<1>2. r = CASE t.dead -> Said(t, "error")
            [] ~t.dead /\ t.closeReceived -> Said(t, "closed")
            [] ~t.dead /\ ~t.closeReceived ->
                 CASE Next1(t) = ""    -> Said(t, "want")
                   [] Next1(t) = "app" -> Said(Take(t), "done")
                   [] Next1(t) = "bye" -> GotClose(t)
                   [] Next1(t) = "key" -> Said([Emit(Take(t)) EXCEPT !.again = TRUE], "want")
                   [] OTHER            -> Fails(Emit(Take(t)))
  BY DEF SslRead
<1> HIDE DEF t, r
<1> SUFFICES Library(u, r)
  BY DEF r
<1>3. CASE t.dead
  BY <1>1, <1>2, <1>3, SaidIsLibrary, LibraryTwice
<1>4. CASE ~t.dead /\ t.closeReceived
  BY <1>1, <1>2, <1>4, SaidIsLibrary, LibraryTwice
<1>5. CASE ~t.dead /\ ~t.closeReceived
  <2>1. r = CASE Next1(t) = ""    -> Said(t, "want")
              [] Next1(t) = "app" -> Said(Take(t), "done")
              [] Next1(t) = "bye" -> GotClose(t)
              [] Next1(t) = "key" -> Said([Emit(Take(t)) EXCEPT !.again = TRUE], "want")
              [] OTHER            -> Fails(Emit(Take(t)))
    BY <1>2, <1>5
  <2>2. CASE Next1(t) = ""
    BY <1>1, <2>1, <2>2, SaidIsLibrary, LibraryTwice
  <2>3. CASE Next1(t) = "app"
    BY <1>1, <2>1, <2>3, TakeSaid, LibraryTwice
  <2>4. CASE Next1(t) = "bye"
    BY <1>1, <2>1, <2>4, GotCloseIsLibrary, LibraryTwice
  <2>5. CASE Next1(t) = "key"
    <3> DEFINE a == Emit(Take(t))
               b == [a EXCEPT !.again = TRUE]
    <3>1. Library(t, a) /\ t \in TlsState
      BY <1>1, <2>5, EmitTakeIsLibrary DEF Sound
    <3>2. r = Said(b, "want")
      BY <2>1, <2>5
    <3> HIDE DEF a
    <3>3. Library(a, b)
      BY <3>1, AgainIsLibrary DEF Library, Quiet
    <3> HIDE DEF b
    <3>4. Library(t, b) /\ Sound(b)
      BY <3>1, <3>3, LibraryTwice DEF Library, Quiet
    <3>5. Library(b, r)
      BY <3>2, <3>4, SaidIsLibrary
    <3> QED BY <1>1, <3>1, <3>4, <3>5, LibraryTwice
  <2>6. CASE Next1(t) \notin {"", "app", "bye", "key"}
    BY <1>1, <2>1, <2>6, EmitTakeFails, LibraryTwice
  <2> QED BY <2>2, <2>3, <2>4, <2>5, <2>6
<1> QED BY <1>3, <1>4, <1>5

LEMMA ShutdownIsLibrary ==
  ASSUME NEW t, Sound(t)
  PROVE  Library(t, SslShutdown(t))
<1> DEFINE r == SslShutdown(t)
<1>1. t \in TlsState
  BY DEF Sound
<1>2. CASE t.dead \/ t.again
  BY <1>2, SaidIsLibrary DEF SslShutdown
<1>3. CASE ~(t.dead \/ t.again) /\ ~t.closeSent
  <2> DEFINE a == [t EXCEPT !.closeSent = TRUE]
             b == Emit(a)
             rc == IF t.closeReceived THEN "done" ELSE "sent"
  <2>1. Library(t, a)
    BY ClosesAreLibrary
  <2>2. r = Said(b, rc)
    BY <1>3 DEF SslShutdown
  <2> HIDE DEF a, r
  <2>3. Library(a, b)
    BY <2>1, EmitIsLibrary DEF Library, Quiet
  <2> HIDE DEF b
  <2>4. Library(t, b) /\ Sound(b)
    BY <1>1, <2>1, <2>3, LibraryTwice DEF Library, Quiet
  <2>5. rc \in {"", "want", "done", "closed", "error", "sent"}
    OBVIOUS
  <2> HIDE DEF rc
  <2>6. Library(b, r)
    BY <2>2, <2>4, <2>5, SaidIsLibrary
  <2>7. Library(t, r)
    BY <1>1, <2>4, <2>6, LibraryTwice
  <2> QED BY <2>7 DEF r
<1>4. CASE ~(t.dead \/ t.again) /\ t.closeSent
  <2>1. r = CASE t.closeReceived  -> Said(t, "done")
              [] ~t.closeReceived /\ Next1(t) = ""    -> Said(t, "want")
              [] ~t.closeReceived /\ Next1(t) = "bye" -> Said(GotClose(t), "done")
              [] OTHER -> Fails(t)
    BY <1>4 DEF SslShutdown
  <2> HIDE DEF r
  <2> SUFFICES Library(t, r)
    BY DEF r
  <2>2. CASE t.closeReceived \/ Next1(t) = ""
    BY <2>1, <2>2, SaidIsLibrary
  <2>3. CASE ~t.closeReceived /\ Next1(t) = "bye"
    <3>1. Library(t, GotClose(t)) /\ Sound(GotClose(t))
      BY <2>3, GotCloseIsLibrary DEF Library, Quiet
    <3>2. Library(GotClose(t), Said(GotClose(t), "done"))
      BY <3>1, SaidIsLibrary
    <3>3. r = Said(GotClose(t), "done")
      BY <2>1, <2>3
    <3> QED BY <1>1, <3>1, <3>2, <3>3, LibraryTwice
  <2>4. CASE ~t.closeReceived /\ Next1(t) \notin {"", "bye"}
    BY <2>1, <2>4, FailsIsLibrary
  <2> QED BY <2>2, <2>3, <2>4
<1> QED BY <1>2, <1>3, <1>4

(* n calls that each make a record, when there is room for n. *)
LEMMA WriteMakes ==
  ASSUME NEW u, Sound(u), NEW n \in Nat, u.LowerWriter.QueuedBytes + Len(u.wbio) + n <= BatchLimit
  PROVE  LET r == SslWrite(u, n) IN
         \/ r.rc # "done" /\ Library(u, r)
         \/ r.rc = "done" /\ Sound(r) /\ SameStream(u, r) /\ u.own <= r.own
<1> DEFINE t == Renewed(u)
           c == [i \in 1..n |-> t.made + i]
           w == t.wbio \o c
           m == t.made + n
           k == [t EXCEPT !.wbio = w, !.made = m, !.rc = "done"]
           r == SslWrite(u, n)
<1>1. u \in TlsState /\ Library(u, t) /\ Sound(t) /\ t \in TlsState
  BY RenewedIsLibrary DEF Sound, Library, Quiet
<1>2. r = CASE t.dead \/ t.closeSent -> Said(t, "error")
            [] ~(t.dead \/ t.closeSent) /\ t.again ->
                 IF Next1(t) = "" THEN Said(t, "want")
                 ELSE IF Next1(t) = "bye" THEN Said([GotClose(t) EXCEPT !.dead = TRUE], "error")
                 ELSE Fails(Emit(Take(t)))
            [] OTHER -> k
  BY DEF SslWrite
<1> HIDE DEF t
<1>3. /\ t.wbio \in Seq(Nat) /\ t.made \in Nat /\ t.own \in Nat /\ Len(t.wbio) \in Nat
      /\ u.own \in Nat /\ Len(u.wbio) \in Nat
      /\ t.LowerWriter = u.LowerWriter /\ t.LowerWriter.QueuedBytes \in Nat
  BY <1>1, LenProperties DEF TlsState, QueueState, Library, Quiet, SameLower
<1>4. c = Run(t.made, m)
  <2>1. (t.made + n) - t.made = n
    BY <1>3
  <2> QED BY <2>1 DEF Run
<1>5. m \in Nat /\ t.made <= m /\ m - t.made = n
  BY <1>3
<1>6. m = t.made + n
  OBVIOUS
<1> HIDE DEF m
<1>7. c \in Seq(Nat) /\ Len(c) = n
  BY <1>3, <1>4, <1>5, RunTyped
<1> HIDE DEF c
<1>8. w \in Seq(Nat) /\ Len(w) = Len(t.wbio) + n
  BY <1>3, <1>7, PutTogether
<1>9. w = t.wbio \o Run(t.made, t.made + n)
  BY <1>4, <1>6
<1> HIDE DEF w
<1> SUFFICES \/ r.rc # "done" /\ Library(u, r)
             \/ r.rc = "done" /\ Sound(r) /\ SameStream(u, r) /\ u.own <= r.own
  OBVIOUS
<1>10. CASE r = Said(t, "error") \/ r = Said(t, "want")
  <2>1. Library(t, r) /\ r.rc # "done"
    BY <1>1, <1>10, SaidIsLibrary
  <2> QED BY <1>1, <2>1, LibraryTwice
<1>11. CASE Next1(t) = "bye" /\ r = Said([GotClose(t) EXCEPT !.dead = TRUE], "error")
  <2> DEFINE a == GotClose(t)
             b == [a EXCEPT !.dead = TRUE]
  <2>1. Library(t, a)
    BY <1>1, <1>11, GotCloseIsLibrary
  <2>2. r = Said(b, "error")
    BY <1>11
  <2> HIDE DEF a, r
  <2>3. Library(a, b)
    BY <2>1, DeadIsLibrary DEF Library, Quiet
  <2> HIDE DEF b
  <2>4. Library(t, b) /\ Sound(b)
    BY <1>1, <2>1, <2>3, LibraryTwice DEF Library, Quiet
  <2>5. Library(b, r) /\ r.rc # "done"
    BY <2>2, <2>4, SaidIsLibrary
  <2>6. Library(u, b)
    BY <1>1, <2>4, LibraryTwice
  <2>7. Library(u, r)
    BY <1>1, <2>5, <2>6, LibraryTwice
  <2> QED BY <2>5, <2>7 DEF r
<1>12. CASE Next1(t) # "" /\ r = Fails(Emit(Take(t)))
  <2>1. Library(t, r) /\ r.rc # "done"
    BY <1>1, <1>12, EmitTakeFails
  <2> QED BY <1>1, <2>1, LibraryTwice
<1>13. CASE r = k
  <2>1. k \in TlsState /\ k.wbio = w /\ k.made = m /\ k.own = t.own /\ k.rc = "done"
    BY <1>1, <1>5, <1>8 DEF TlsState
  <2>2. SameLower(t, k) /\ SameSink(t, k)
    BY <1>1 DEF TlsState, SameLower, SameSink
  <2>3. SameStream(t, k)
    BY <1>1, <2>2 DEF TlsState, SameStream
  <2> HIDE DEF k
  <2>4. SinkInv(k) /\ LeftInv(k) /\ ReadInv(k)
    BY <1>1, <2>3 DEF Sound, SinkInv, LeftInv, ReadInv, SameStream, SameSink, SameLower
  <2>5. u.own <= t.own /\ Len(t.wbio) + u.own = Len(u.wbio) + t.own /\ t.own <= t.made
    BY <1>1 DEF Library, Quiet, Sound, CountInv
  <2>6. k.own <= k.made
    BY <1>3, <1>5, <2>1, <2>5
  <2>7. t.LowerWriter.QueuedBytes + Len(k.wbio) <= BatchLimit + k.own
    <3> DEFINE p == u.own   o == t.own   q == t.LowerWriter.QueuedBytes   l == Len(u.wbio)   h == Len(t.wbio)
               j == Len(w)   x == BatchLimit
    <3>1. Len(w) = Len(t.wbio) + n /\ n \in Nat
      BY <1>8
    <3>2. t.LowerWriter.QueuedBytes + Len(u.wbio) + n <= BatchLimit /\ BatchLimit \in Nat
      BY <1>3, SizeAssumption
    <3> HIDE DEF p, o, q, l, h, j, x
    <3>3. /\ p \in Nat /\ o \in Nat /\ q \in Nat /\ l \in Nat /\ h \in Nat /\ n \in Nat /\ x \in Nat
          /\ p <= o /\ h + p = l + o /\ j = h + n /\ q + l + n <= x
      BY ONLY <1>3, <2>5, <3>1, <3>2 DEF p, o, q, l, h, j, x
    <3>4. q + j <= x + o
      BY ONLY <3>3
    <3>5. q + Len(w) <= x + t.own
      BY ONLY <3>4 DEF j, o
    <3> QED BY <2>1, <3>5 DEF q, x
  <2>8. Sound(k)
    BY <1>1, <1>6, <1>9, <2>1, <2>2, <2>4, <2>6, <2>7, MoreMade
  <2>9. SameStream(u, k)
    <3>1. SameLower(u, k) /\ SameSink(u, k)
      BY <1>1, <2>2 DEF Library, SameStream, SameLower, SameSink
    <3> QED BY <1>1, <2>3, <3>1 DEF Library, SameStream
  <2> QED BY <1>13, <2>1, <2>5, <2>8, <2>9
<1> QED BY <1>2, <1>10, <1>11, <1>12, <1>13

-----------------------------------------------------------------------------
(* The lower writer *)

(* The queue counts what it holds, and has what it is writing. *)
QueueInv(q) ==
  /\ q \in QueueState /\ q.attached /\ q.QueuedBytes = Len(Waiting(q)) /\ (q.WritePending => q.Queue # <<>>)

(* A call has handed over the head of a queue that it found at rest, or nothing. *)
Handed(q, r, accepts) ==
  /\ QueueInv(r) /\ r.Queue = q.Queue
  /\ \/ r.handed = <<>> /\ r.WritePending = q.WritePending
     \/ ~q.WritePending /\ r.WritePending /\ r.handed = Head(r.Queue) /\ r.handed # <<>>
  /\ accepts \/ q.WritePending => (r.Queue # <<>> => r.WritePending) /\ r.ok
  /\ accepts \/ r.handed = <<>>

LEMMA ReturnsTyped ==
  ASSUME NEW q \in QueueState, NEW b \in BOOLEAN
  PROVE  LET r == Returns(q, b) IN
         /\ r \in QueueState /\ r.attached = q.attached /\ r.Queue = q.Queue /\ r.QueuedBytes = q.QueuedBytes
         /\ r.WritePending = q.WritePending /\ r.handed = <<>> /\ r.ok = b
<1>1. <<>> \in Seq(Nat)
  OBVIOUS
<1> DEFINE e == <<>>
<1>2. e \in Seq(Nat)
  BY <1>1
<1> HIDE DEF e
<1>3. Returns(q, b) = [q EXCEPT !.handed = e, !.ok = b]
  BY DEF Returns, e
<1>4. LET r == [q EXCEPT !.handed = e, !.ok = b] IN
      /\ r \in QueueState /\ r.attached = q.attached /\ r.Queue = q.Queue /\ r.QueuedBytes = q.QueuedBytes
      /\ r.WritePending = q.WritePending /\ r.handed = e /\ r.ok = b
  BY <1>2 DEF QueueState
<1> QED BY <1>3, <1>4 DEF e

LEMMA StartNextHands ==
  ASSUME NEW q, QueueInv(q), NEW a \in BOOLEAN
  PROVE  Handed(q, StartNext(q, a), a)
<1>1. q \in QueueState
  BY DEF QueueInv
<1>2. CASE q.WritePending \/ q.Queue = <<>>
  <2>1. StartNext(q, a) = Returns(q, TRUE)
    BY <1>2 DEF StartNext
  <2> QED BY <1>1, <1>2, <2>1, ReturnsTyped DEF Handed, QueueInv, Waiting
<1>3. CASE ~(q.WritePending \/ q.Queue = <<>>) /\ ~a
  <2>1. StartNext(q, a) = Returns(q, FALSE)
    BY <1>3 DEF StartNext
  <2> QED BY <1>1, <1>3, <2>1, ReturnsTyped DEF Handed, QueueInv, Waiting
<1>4. CASE ~(q.WritePending \/ q.Queue = <<>>) /\ a
  <2> DEFINE h == Head(q.Queue)
             r == [q EXCEPT !.WritePending = TRUE, !.handed = h, !.ok = TRUE]
  <2>1. StartNext(q, a) = r
    BY <1>4 DEF StartNext, QueueInv
  <2>2. h \in Seq(Nat) /\ h # <<>>
    BY <1>1, <1>4, FirstChain DEF QueueState
  <2> HIDE DEF h
  <2>3. /\ r \in QueueState /\ r.attached = q.attached /\ r.Queue = q.Queue /\ r.QueuedBytes = q.QueuedBytes
        /\ r.WritePending /\ r.handed = h /\ r.ok
    BY <1>1, <2>2 DEF QueueState
  <2> HIDE DEF r
  <2>4. r.handed = Head(r.Queue) /\ Waiting(r) = Waiting(q)
    BY <2>3 DEF h, Waiting
  <2> QED BY <1>4, <2>1, <2>2, <2>3, <2>4 DEF Handed, QueueInv
<1> QED BY <1>2, <1>3, <1>4

LEMMA PushHands ==
  ASSUME NEW q, QueueInv(q), NEW c \in Chain, NEW a \in BOOLEAN
  PROVE  LET r == Push(q, c, a) IN
         /\ QueueInv(r) /\ r.Queue = Append(q.Queue, c) /\ Waiting(r) = Waiting(q) \o c /\ r.Queue # <<>>
         /\ r.QueuedBytes = q.QueuedBytes + Len(c)
         /\ \/ r.handed = <<>> /\ r.WritePending = q.WritePending
            \/ ~q.WritePending /\ r.WritePending /\ r.handed = Head(r.Queue) /\ r.handed # <<>>
         /\ (a \/ q.WritePending => r.WritePending /\ r.ok)
         /\ (q.Queue # <<>> => Head(r.Queue) = Head(q.Queue))
<1> DEFINE z == Append(q.Queue, c)
           b == q.QueuedBytes + Len(c)
           u == [q EXCEPT !.Queue = z, !.QueuedBytes = b]
           r == Push(q, c, a)
<1>1. q \in QueueState /\ q.Queue \in Seq(Chain) /\ q.QueuedBytes \in Nat /\ q.QueuedBytes = Len(FlattenSeq(q.Queue))
  BY DEF QueueInv, QueueState, Waiting
<1>2. /\ z \in Seq(Chain) /\ z # <<>> /\ c \in Seq(Nat) /\ FlattenSeq(z) = FlattenSeq(q.Queue) \o c
      /\ Len(FlattenSeq(z)) = Len(FlattenSeq(q.Queue)) + Len(c)
      /\ Head(z) = IF q.Queue = <<>> THEN c ELSE Head(q.Queue)
  BY <1>1, NextChain
<1>3. b \in Nat /\ b = Len(FlattenSeq(z))
  BY <1>1, <1>2, LenProperties
<1>4. c # <<>>
  BY DEF Chain
<1>5. r = StartNext(u, a)
  BY <1>4 DEF Push
<1>6. b = q.QueuedBytes + Len(c) /\ z = Append(q.Queue, c)
  OBVIOUS
<1> HIDE DEF z, b, r
<1>7. /\ u \in QueueState /\ u.Queue = z /\ u.QueuedBytes = b /\ u.attached = q.attached
      /\ u.WritePending = q.WritePending
  BY <1>1, <1>2, <1>3 DEF QueueState
<1> HIDE DEF u
<1>8. QueueInv(u)
  BY <1>2, <1>3, <1>7 DEF QueueInv, Waiting
<1>9. Handed(u, r, a)
  BY <1>5, <1>8, StartNextHands
<1>10. r.Queue = z /\ r.QueuedBytes = Len(FlattenSeq(r.Queue))
  BY <1>7, <1>9 DEF Handed, QueueInv, Waiting
<1> QED BY <1>2, <1>3, <1>6, <1>7, <1>9, <1>10 DEF Handed, Waiting, r

LEMMA CompletedHands ==
  ASSUME NEW q, QueueInv(q), q.WritePending, NEW a \in BOOLEAN
  PROVE  LET r == OnWriteCompleted(q, Len(Head(q.Queue)), a) IN
         /\ QueueInv(r) /\ Waiting(q) = Head(q.Queue) \o Waiting(r) /\ Head(q.Queue) \in Seq(Nat)
         /\ Waiting(r) \in Seq(Nat)
         /\ q.QueuedBytes = Len(Head(q.Queue)) + r.QueuedBytes
         /\ \/ r.handed = <<>> /\ ~r.WritePending
            \/ r.WritePending /\ r.handed = Head(r.Queue) /\ r.handed # <<>>
         /\ (a => r.ok /\ (r.Queue # <<>> => r.WritePending))
<1> DEFINE h == Head(q.Queue)
           z == Tail(q.Queue)
           b == q.QueuedBytes - Len(h)
           u == [q EXCEPT !.Queue = z, !.QueuedBytes = b, !.WritePending = FALSE]
           r == OnWriteCompleted(q, Len(h), a)
<1>1. /\ q \in QueueState /\ q.Queue \in Seq(Chain) /\ q.Queue # <<>> /\ q.QueuedBytes \in Nat
      /\ q.QueuedBytes = Len(FlattenSeq(q.Queue))
  BY DEF QueueInv, QueueState, Waiting
<1>2. /\ z \in Seq(Chain) /\ h \in Seq(Nat) /\ FlattenSeq(q.Queue) = h \o FlattenSeq(z)
      /\ Len(FlattenSeq(q.Queue)) = Len(h) + Len(FlattenSeq(z)) /\ Len(h) \in Nat
  BY <1>1, FirstChain
<1>3. FlattenSeq(z) \in Seq(Nat) /\ Len(FlattenSeq(z)) \in Nat
  BY <1>2, ChainsAreLists
<1>4. b \in Nat /\ b = Len(FlattenSeq(z)) /\ q.QueuedBytes = Len(h) + b
  <2> DEFINE k == Len(h)   l == Len(FlattenSeq(z))   y == q.QueuedBytes
  <2>1. y = k + l /\ k \in Nat /\ l \in Nat
    BY <1>1, <1>2, <1>3
  <2> HIDE DEF k, l, y
  <2>2. y - k \in Nat /\ y - k = l /\ y = k + (y - k)
    BY ONLY <2>1
  <2> QED BY ONLY <2>2 DEF k, l, y
<1>5. r = StartNext(u, a)
  BY <1>1 DEF OnWriteCompleted
<1> HIDE DEF z, b, h, r
<1>6. /\ u \in QueueState /\ u.Queue = z /\ u.QueuedBytes = b /\ u.attached = q.attached
      /\ ~u.WritePending
  BY <1>1, <1>2, <1>4 DEF QueueState
<1> HIDE DEF u
<1>7. QueueInv(u)
  BY <1>4, <1>6 DEF QueueInv, Waiting
<1>8. Handed(u, r, a)
  BY <1>5, <1>7, StartNextHands
<1>9. r.Queue = z /\ r.QueuedBytes = Len(FlattenSeq(r.Queue))
  BY <1>6, <1>8 DEF Handed, QueueInv, Waiting
<1> QED BY <1>2, <1>3, <1>4, <1>6, <1>8, <1>9 DEF Handed, Waiting, r, h

-----------------------------------------------------------------------------
(* Steps of the stream *)

(* What the parts of a call keep *)
Steps(t, r) ==
  /\ Sound(r)
  /\ r.Removing = t.Removing /\ r.up = t.up /\ r.written = t.written
  /\ r.LowerReadClosed = t.LowerReadClosed /\ r.HandshakeStarted = t.HandshakeStarted
  /\ (t.HandshakeCompleted => r.HandshakeCompleted)
  /\ (t.up /\ t.ok => r.ok) /\ Tells(t, r)

(* A part that makes no ciphertext of the owner's and answers no write; it  *)
(* may drain the BIO.                                                      *)
Gentle(t, r) ==
  /\ Steps(t, r) /\ NoWrites(t, r)
  /\ t.own <= r.own /\ r.made + t.own = t.made + r.own
  /\ Len(r.wbio) + t.own <= Len(t.wbio) + r.own

(* Only what is written answers a write. *)
Pays(t, r) == NoWrites(t, r) \/ r.made + t.own <= r.written + r.own + Len(t.wbio)

(* What any part of Drive does *)
Moved(t, r) == Steps(t, r) /\ Pays(t, r) /\ t.own <= r.own

(* What draining leaves alone *)
SameRest(t, r) ==
  /\ SameSink(t, r) /\ r.made = t.made /\ r.own = t.own
  /\ r.Removing = t.Removing /\ r.up = t.up /\ r.written = t.written
  /\ r.LowerReadPending = t.LowerReadPending /\ r.LowerReadClosed = t.LowerReadClosed
  /\ r.HandshakeStarted = t.HandshakeStarted /\ r.HandshakeCompleted = t.HandshakeCompleted
  /\ r.HandshakeResultQueued = t.HandshakeResultQueued /\ r.left = t.left

LEMMA NumbersOf ==
  ASSUME NEW t, Sound(t)
  PROVE  /\ t \in TlsState /\ t.own \in Nat /\ t.made \in Nat /\ t.written \in Nat /\ Len(t.wbio) \in Nat
         /\ t.own <= t.made /\ t.written <= t.made /\ t.wbio \in Seq(Nat) /\ t.LowerWriter \in QueueState
         /\ QueueInv(t.LowerWriter) /\ Waiting(t.LowerWriter) \in Seq(Nat) /\ t.left \in Nat
         /\ t.LowerWriter.QueuedBytes \in Nat
<1>1. /\ t \in TlsState /\ t.own \in Nat /\ t.made \in Nat /\ t.written \in Nat /\ Len(t.wbio) \in Nat
      /\ t.own <= t.made /\ t.written <= t.made /\ t.wbio \in Seq(Nat) /\ t.LowerWriter \in QueueState /\ t.left \in Nat
  BY LenProperties DEF Sound, CountInv, TlsState
<1>2. QueueInv(t.LowerWriter)
  BY <1>1 DEF Sound, WriterInv, QueueInv
<1>3. Waiting(t.LowerWriter) \in Seq(Nat) /\ t.LowerWriter.QueuedBytes \in Nat
  BY <1>1, ChainsAreLists DEF QueueState, Waiting
<1> QED BY <1>1, <1>2, <1>3

LEMMA QuietIsGentle ==
  ASSUME NEW t, NEW r, Sound(t), Quiet(t, r)
  PROVE  Gentle(t, r)
<1>1. Steps(t, r)
  BY DEF Quiet, SameLower, Steps
<1>2. Len(r.wbio) + t.own = Len(t.wbio) + r.own /\ Len(r.wbio) + t.own \in Nat
  BY NumbersOf DEF Quiet
<1>3. Len(r.wbio) + t.own <= Len(t.wbio) + r.own
  BY <1>2
<1> QED BY <1>1, <1>3 DEF Quiet, Gentle

LEMMA StepsTwice ==
  ASSUME NEW t, NEW u, NEW r, Steps(t, u), Steps(u, r)
  PROVE  Steps(t, r)
BY DEF Steps, Tells

LEMMA GentleTwice ==
  ASSUME NEW t, NEW u, NEW r, Sound(t), Gentle(t, u), Gentle(u, r)
  PROVE  Gentle(t, r)
<1>1. Sound(u) /\ Sound(r)
  BY DEF Gentle, Steps
<1>2. NoWrites(t, r) /\ Steps(t, r)
  BY <1>1, NoWritesTwice, NumbersOf, StepsTwice DEF Gentle
<1> DEFINE a == t.own   b == u.own   c == r.own   x == t.made   y == u.made   z == r.made
           l == Len(t.wbio)   m == Len(u.wbio)   n == Len(r.wbio)
<1>3. /\ a \in Nat /\ b \in Nat /\ c \in Nat /\ x \in Nat /\ y \in Nat /\ z \in Nat
      /\ l \in Nat /\ m \in Nat /\ n \in Nat
  BY <1>1, NumbersOf
<1>4. a <= b /\ b <= c /\ y + a = x + b /\ z + b = y + c /\ m + a <= l + b /\ n + b <= m + c
  BY DEF Gentle
<1> HIDE DEF a, b, c, x, y, z, l, m, n
<1>5. a <= c /\ z + a = x + c /\ n + a <= l + c
  BY ONLY <1>3, <1>4
<1> QED BY <1>2, <1>5 DEF Gentle, a, c, x, z, l, n

LEMMA GentleIsMoved ==
  ASSUME NEW t, NEW r, Gentle(t, r)
  PROVE  Moved(t, r)
BY DEF Gentle, Moved, Pays

LEMMA GentleMoved ==
  ASSUME NEW t, NEW u, NEW r, Sound(t), Gentle(t, u), Moved(u, r)
  PROVE  Moved(t, r)
<1>1. Sound(u) /\ Sound(r)
  BY DEF Gentle, Moved, Steps
<1>2. Steps(t, r)
  BY StepsTwice DEF Gentle, Moved
<1> DEFINE a == t.own   b == u.own   c == r.own   z == r.made   w == r.written
           l == Len(t.wbio)   m == Len(u.wbio)
<1>3. a \in Nat /\ b \in Nat /\ c \in Nat /\ z \in Nat /\ w \in Nat /\ l \in Nat /\ m \in Nat
  BY <1>1, NumbersOf
<1>4. a <= b /\ b <= c /\ m + a <= l + b
  BY DEF Gentle, Moved
<1> HIDE DEF a, b, c, z, w, l, m
<1>5. a <= c
  BY ONLY <1>3, <1>4
<1>6. Pays(t, r)
  <2>1. CASE NoWrites(u, r)
    BY <1>1, <2>1, NoWritesTwice, NumbersOf DEF Gentle, Pays
  <2>2. CASE r.made + u.own <= r.written + r.own + Len(u.wbio)
    <3>1. z + b <= w + c + m
      BY <2>2 DEF z, b, w, c, m
    <3>2. z + a <= w + c + l
      BY ONLY <1>3, <1>4, <3>1
    <3> QED BY <3>2 DEF Pays, z, a, w, c, l
  <2> QED BY <2>1, <2>2 DEF Moved, Pays
<1> QED BY <1>2, <1>5, <1>6 DEF Moved, a, c

LEMMA MovedGentle ==
  ASSUME NEW t, NEW u, NEW r, Sound(t), Moved(t, u), Gentle(u, r)
  PROVE  Moved(t, r)
<1>1. Sound(u) /\ Sound(r)
  BY DEF Gentle, Moved, Steps
<1>2. Steps(t, r) /\ r.written = u.written
  BY StepsTwice DEF Gentle, Moved, Steps
<1> DEFINE a == t.own   b == u.own   c == r.own   y == u.made   z == r.made   w == u.written
           l == Len(t.wbio)
<1>3. a \in Nat /\ b \in Nat /\ c \in Nat /\ y \in Nat /\ z \in Nat /\ w \in Nat /\ l \in Nat
  BY <1>1, NumbersOf
<1>4. a <= b /\ b <= c /\ z + b = y + c
  BY DEF Gentle, Moved
<1> HIDE DEF a, b, c, y, z, w, l
<1>5. a <= c
  BY ONLY <1>3, <1>4
<1>6. Pays(t, r)
  <2>1. CASE NoWrites(t, u)
    BY <1>1, <2>1, NoWritesTwice, NumbersOf DEF Gentle, Pays
  <2>2. CASE u.made + t.own <= u.written + u.own + Len(t.wbio)
    <3>1. y + a <= w + b + l
      BY <2>2 DEF y, a, w, b, l
    <3>2. z + a <= w + c + l
      BY ONLY <1>3, <1>4, <3>1
    <3> QED BY <1>2, <3>2 DEF Pays, z, a, w, c, l
  <2> QED BY <2>1, <2>2 DEF Moved, Pays
<1> QED BY <1>2, <1>5, <1>6 DEF Moved, a, c

(* A queue is put down with what it handed over. *)
LEMMA PutDownDoes ==
  ASSUME NEW t \in TlsState, NEW q, QueueInv(q),
         q.handed # <<>> => q.WritePending /\ q.handed = Head(q.Queue),
         q.handed = <<>> => IF q.WritePending THEN t.flight = Head(q.Queue) ELSE t.flight = <<>>,
         t.up => (q.Queue # <<>> => q.WritePending),
         InOrder([t EXCEPT !.LowerWriter = q]), t.own <= t.made, t.written <= t.made,
         q.QueuedBytes + Len(t.wbio) <= BatchLimit + t.own, SinkInv(t), LeftInv(t), ReadInv(t)
  PROVE  LET r == PutDown(t, q) IN
         Sound(r) /\ SameRest(t, r) /\ r.wbio = t.wbio /\ r.LowerWriter = q /\ r.ok = q.ok
<1> DEFINE f == IF q.handed = <<>> THEN t.flight ELSE q.handed
           o == q.ok
           r == [t EXCEPT !.LowerWriter = q, !.ok = o, !.flight = f]
           k == [t EXCEPT !.LowerWriter = q]
<1>1. PutDown(t, q) = r
  BY DEF PutDown
<1>2. q \in QueueState /\ f \in Seq(Nat) /\ o \in BOOLEAN
  BY DEF QueueInv, QueueState, TlsState
<1>3. (IF q.WritePending THEN q.Queue # <<>> /\ f = Head(q.Queue) ELSE f = <<>>)
  BY DEF QueueInv
<1>4. o = q.ok
  OBVIOUS
<1> HIDE DEF f, o
<1>5. r \in TlsState /\ r.LowerWriter = q /\ r.ok = o /\ r.flight = f /\ r.wbio = t.wbio
  <2>1. t \in TlsState
    OBVIOUS
  <2>2. r \in TlsState
    BY ONLY <1>2, <2>1 DEF TlsState
  <2>3. r.LowerWriter = q /\ r.ok = o /\ r.flight = f /\ r.wbio = t.wbio
    BY ONLY <2>1 DEF TlsState
  <2> QED BY <2>2, <2>3
<1>6. SameSink(t, r)
  BY DEF TlsState, SameSink
<1>7. SameRest(t, r)
  BY <1>6 DEF TlsState, SameRest
<1>8. k.Removing = t.Removing /\ k.LowerWriter = q /\ k.wbio = t.wbio /\ k.written = t.written /\ k.made = t.made
  BY DEF TlsState
<1>9. InOrder(k)
  OBVIOUS
<1> HIDE DEF k, r
<1>10. InOrder(r)
  BY <1>5, <1>7, <1>8, <1>9 DEF InOrder, SameRest
<1>11. WriterInv(r)
  BY <1>3, <1>5, <1>7 DEF WriterInv, QueueInv, SameRest
<1>12. CountInv(r)
  BY <1>5, <1>7 DEF CountInv, SameRest
<1>13. SinkInv(r) /\ LeftInv(r) /\ ReadInv(r)
  BY <1>7 DEF SinkInv, LeftInv, ReadInv, SameRest, SameSink
<1> QED BY <1>1, <1>4, <1>5, <1>7, <1>10, <1>11, <1>12, <1>13 DEF Sound

LEMMA DrainDoes ==
  ASSUME NEW t, Sound(t)
  PROVE  LET r == DrainEncryptedOutput(t) IN
         Sound(r) /\ SameRest(t, r) /\ r.wbio = <<>> /\ (t.up => r.ok)
<1>1. CASE t.wbio = <<>>
  <2> DEFINE r == [t EXCEPT !.ok = TRUE]
  <2>1. DrainEncryptedOutput(t) = r
    BY <1>1 DEF DrainEncryptedOutput
  <2>2. Quiet(t, r) /\ r.ok /\ SamePipe(t, r) /\ SameSink(t, r) /\ r.HandshakeCompleted = t.HandshakeCompleted
        /\ r.HandshakeResultQueued = t.HandshakeResultQueued /\ r.left = t.left
    BY OkSet
  <2> HIDE DEF r
  <2> QED BY <1>1, <2>1, <2>2 DEF Quiet, SamePipe, SameLower, SameRest
<1>2. CASE t.wbio # <<>>
  <2> DEFINE e == <<>>
             u == [t EXCEPT !.wbio = e]
             a == Accepts(t)
             q == Push(t.LowerWriter, t.wbio, a)
             k == [u EXCEPT !.LowerWriter = q]
  <2>1. DrainEncryptedOutput(t) = PutDown(u, q)
    BY <1>2 DEF DrainEncryptedOutput
  <2>2. t \in TlsState /\ QueueInv(t.LowerWriter) /\ t.wbio \in Chain /\ a \in BOOLEAN /\ t.wbio \in Seq(Nat)
        /\ Waiting(t.LowerWriter) \in Seq(Nat)
    BY <1>2, NumbersOf DEF Chain, TlsState, Accepts
  <2>3. /\ QueueInv(q) /\ Waiting(q) = Waiting(t.LowerWriter) \o t.wbio /\ q.Queue # <<>>
        /\ q.QueuedBytes = t.LowerWriter.QueuedBytes + Len(t.wbio)
        /\ \/ q.handed = <<>> /\ q.WritePending = t.LowerWriter.WritePending
           \/ ~t.LowerWriter.WritePending /\ q.WritePending /\ q.handed = Head(q.Queue) /\ q.handed # <<>>
        /\ (a \/ t.LowerWriter.WritePending => q.WritePending /\ q.ok)
        /\ (t.LowerWriter.Queue # <<>> => Head(q.Queue) = Head(t.LowerWriter.Queue))
    <3> DEFINE l == t.LowerWriter
               w == t.wbio
    <3>1. QueueInv(l) /\ w \in Chain /\ a \in BOOLEAN
      BY <2>2
    <3>2. q = Push(l, w, a)
      OBVIOUS
    <3> HIDE DEF l, w, a, q
    <3>3. /\ QueueInv(q) /\ Waiting(q) = Waiting(l) \o w /\ q.Queue # <<>>
          /\ q.QueuedBytes = l.QueuedBytes + Len(w)
      BY ONLY <3>1, <3>2, PushHands
    <3>4. /\ \/ q.handed = <<>> /\ q.WritePending = l.WritePending
             \/ ~l.WritePending /\ q.WritePending /\ q.handed = Head(q.Queue) /\ q.handed # <<>>
          /\ (a \/ l.WritePending => q.WritePending /\ q.ok)
          /\ (l.Queue # <<>> => Head(q.Queue) = Head(l.Queue))
      BY ONLY <3>1, <3>2, PushHands
    <3> QED BY <3>3, <3>4 DEF l, w
  <2>4. /\ (t.LowerWriter.WritePending => t.LowerWriter.Queue # <<>> /\ t.flight = Head(t.LowerWriter.Queue))
        /\ (~t.LowerWriter.WritePending => t.flight = <<>>)
    BY DEF Sound, WriterInv
  <2>5. t.up => a \/ t.LowerWriter.WritePending
    BY <2>4 DEF Accepts
  <2>6. e \in Seq(Nat) /\ e = <<>> /\ Len(e) = 0
    OBVIOUS
  <2> HIDE DEF e, q, a
  <2>7. u \in TlsState /\ u.wbio = e /\ u.flight = t.flight
    <3>1. t \in TlsState /\ e \in Seq(Nat)
      BY <2>2, <2>6
    <3>2. u \in TlsState
      BY ONLY <3>1 DEF TlsState
    <3>3. u.wbio = e /\ u.flight = t.flight
      BY ONLY <3>1 DEF TlsState
    <3> QED BY <3>2, <3>3
  <2>8. SameSink(t, u)
    BY <2>2 DEF TlsState, SameSink
  <2>9. SameRest(t, u)
    BY <2>2, <2>8 DEF TlsState, SameRest
  <2> HIDE DEF u
  <2>10. k.Removing = u.Removing /\ k.LowerWriter = q /\ k.wbio = u.wbio /\ k.written = u.written /\ k.made = u.made
    BY <2>7 DEF TlsState
  <2> HIDE DEF k
  <2>11. InOrder(k)
    <3>1. CASE t.Removing
      BY <2>9, <2>10, <3>1 DEF InOrder, SameRest
    <3>2. CASE ~t.Removing
      <4>1. Waiting(t.LowerWriter) \o t.wbio = Run(t.written, t.made)
        BY <3>2 DEF Sound, InOrder
      <4>2. Waiting(q) \in Seq(Nat)
        BY <2>2, <2>3, PutTogether
      <4>3. Waiting(q) \o e = Waiting(q)
        BY <2>6, <4>2, NothingAdded
      <4> QED BY <2>3, <2>7, <2>9, <2>10, <4>1, <4>3 DEF InOrder, SameRest
    <3> QED BY <3>1, <3>2
  <2>12. u.own <= u.made /\ u.written <= u.made /\ q.QueuedBytes + Len(u.wbio) <= BatchLimit + u.own
    <3>1. t.own <= t.made /\ t.written <= t.made /\ t.LowerWriter.QueuedBytes + Len(t.wbio) <= BatchLimit + t.own
      BY DEF Sound, CountInv
    <3>2. q.QueuedBytes + 0 = q.QueuedBytes
      BY <2>3 DEF QueueInv, QueueState
    <3> QED BY <2>3, <2>6, <2>7, <2>9, <3>1, <3>2 DEF SameRest
  <2>13. SinkInv(u) /\ LeftInv(u) /\ ReadInv(u)
    BY <2>9 DEF Sound, SinkInv, LeftInv, ReadInv, SameRest, SameSink
  <2>14. /\ (q.handed # <<>> => q.WritePending /\ q.handed = Head(q.Queue))
         /\ (q.handed = <<>> => IF q.WritePending THEN u.flight = Head(q.Queue) ELSE u.flight = <<>>)
         /\ (u.up => (q.Queue # <<>> => q.WritePending))
    BY <2>3, <2>4, <2>5, <2>7, <2>9 DEF SameRest
  <2> DEFINE r == PutDown(u, q)
  <2>15. Sound(r) /\ SameRest(u, r) /\ r.wbio = u.wbio /\ r.LowerWriter = q /\ r.ok = q.ok
    BY <2>3, <2>7, <2>11, <2>12, <2>13, <2>14, PutDownDoes DEF k
  <2> HIDE DEF r
  <2>16. SameRest(t, r)
    BY <2>9, <2>15 DEF SameRest, SameSink
  <2>17. t.up => r.ok
    BY <2>3, <2>5, <2>15
  <2> QED BY <2>1, <2>6, <2>7, <2>15, <2>16, <2>17 DEF r
<1> QED BY <1>1, <1>2

LEMMA DrainIsGentle ==
  ASSUME NEW t, Sound(t)
  PROVE  LET r == DrainEncryptedOutput(t) IN
         Gentle(t, r) /\ SameRest(t, r) /\ r.wbio = <<>> /\ (t.up => r.ok)
<1> DEFINE r == DrainEncryptedOutput(t)
<1>1. Sound(r) /\ SameRest(t, r) /\ r.wbio = <<>> /\ (t.up => r.ok)
  BY DrainDoes
<1> HIDE DEF r
<1>2. Steps(t, r)
  BY <1>1 DEF Steps, SameRest, SameSink, Tells
<1>3. NoWrites(t, r)
  BY <1>1, NothingNew, NumbersOf DEF SameRest, SameSink
<1>4. t.own <= r.own /\ r.made + t.own = t.made + r.own /\ Len(r.wbio) + t.own <= Len(t.wbio) + r.own
  <2>1. t.own \in Nat /\ t.made \in Nat /\ Len(t.wbio) \in Nat
    BY NumbersOf
  <2>2. Len(r.wbio) = 0 /\ r.own = t.own /\ r.made = t.made
    BY <1>1 DEF SameRest
  <2> QED BY <2>1, <2>2
<1> QED BY <1>1, <1>2, <1>3, <1>4 DEF Gentle, r

-----------------------------------------------------------------------------
(* The parts of Drive *)

LEMMA ThenAnswered ==
  ASSUME NEW t
  PROVE  Then(t, Answered) = IF t.ok THEN Answered(t) ELSE t
<1>1. \A x : (CHOOSE r \in {x} : TRUE) = x
  OBVIOUS
<1> DEFINE e(u) == IF u.ok THEN Answered(u) ELSE u
<1>2. {e(u) : u \in {t}} = {e(t)}
  OBVIOUS
<1>3. Then(t, Answered) = CHOOSE r \in {e(u) : u \in {t}} : TRUE
  BY DEF Then
<1> QED BY <1>1, <1>2, <1>3

LEMMA ThenPlainWrite ==
  ASSUME NEW t
  PROVE  Then(t, DrivePlainWrite) = IF t.ok THEN DrivePlainWrite(t) ELSE t
<1>1. \A x : (CHOOSE r \in {x} : TRUE) = x
  OBVIOUS
<1> DEFINE e(u) == IF u.ok THEN DrivePlainWrite(u) ELSE u
<1>2. {e(u) : u \in {t}} = {e(t)}
  OBVIOUS
<1>3. Then(t, DrivePlainWrite) = CHOOSE r \in {e(u) : u \in {t}} : TRUE
  BY DEF Then
<1> QED BY <1>1, <1>2, <1>3

LEMMA ThenShutdown ==
  ASSUME NEW t
  PROVE  Then(t, DriveShutdown) = IF t.ok THEN DriveShutdown(t) ELSE t
<1>1. \A x : (CHOOSE r \in {x} : TRUE) = x
  OBVIOUS
<1> DEFINE e(u) == IF u.ok THEN DriveShutdown(u) ELSE u
<1>2. {e(u) : u \in {t}} = {e(t)}
  OBVIOUS
<1>3. Then(t, DriveShutdown) = CHOOSE r \in {e(u) : u \in {t}} : TRUE
  BY DEF Then
<1> QED BY <1>1, <1>2, <1>3

LEMMA ThenDrain ==
  ASSUME NEW t
  PROVE  Then(t, DrainEncryptedOutput) = IF t.ok THEN DrainEncryptedOutput(t) ELSE t
<1>1. \A x : (CHOOSE r \in {x} : TRUE) = x
  OBVIOUS
<1> DEFINE e(u) == IF u.ok THEN DrainEncryptedOutput(u) ELSE u
<1>2. {e(u) : u \in {t}} = {e(t)}
  OBVIOUS
<1>3. Then(t, DrainEncryptedOutput) = CHOOSE r \in {e(u) : u \in {t}} : TRUE
  BY DEF Then
<1> QED BY <1>1, <1>2, <1>3

LEMMA ThenLowerShutdown ==
  ASSUME NEW t
  PROVE  Then(t, CompleteLowerShutdown) = IF t.ok THEN CompleteLowerShutdown(t) ELSE t
<1>1. \A x : (CHOOSE r \in {x} : TRUE) = x
  OBVIOUS
<1> DEFINE e(u) == IF u.ok THEN CompleteLowerShutdown(u) ELSE u
<1>2. {e(u) : u \in {t}} = {e(t)}
  OBVIOUS
<1>3. Then(t, CompleteLowerShutdown) = CHOOSE r \in {e(u) : u \in {t}} : TRUE
  BY DEF Then
<1> QED BY <1>1, <1>2, <1>3

LEMMA ThenLowerRead ==
  ASSUME NEW t
  PROVE  Then(t, StartLowerRead) = IF t.ok THEN StartLowerRead(t) ELSE t
<1>1. \A x : (CHOOSE r \in {x} : TRUE) = x
  OBVIOUS
<1> DEFINE e(u) == IF u.ok THEN StartLowerRead(u) ELSE u
<1>2. {e(u) : u \in {t}} = {e(t)}
  OBVIOUS
<1>3. Then(t, StartLowerRead) = CHOOSE r \in {e(u) : u \in {t}} : TRUE
  BY DEF Then
<1> QED BY <1>1, <1>2, <1>3

LEMMA ThenUnfinished ==
  ASSUME NEW t
  PROVE  Then(t, Unfinished) = IF t.ok THEN Unfinished(t) ELSE t
<1>1. \A x : (CHOOSE r \in {x} : TRUE) = x
  OBVIOUS
<1> DEFINE e(u) == IF u.ok THEN Unfinished(u) ELSE u
<1>2. {e(u) : u \in {t}} = {e(t)}
  OBVIOUS
<1>3. Then(t, Unfinished) = CHOOSE r \in {e(u) : u \in {t}} : TRUE
  BY DEF Then
<1> QED BY <1>1, <1>2, <1>3

LEMMA ThenHandshaken ==
  ASSUME NEW t
  PROVE  Then(t, Handshaken) = IF t.ok THEN Handshaken(t) ELSE t
<1>1. \A x : (CHOOSE r \in {x} : TRUE) = x
  OBVIOUS
<1> DEFINE e(u) == IF u.ok THEN Handshaken(u) ELSE u
<1>2. {e(u) : u \in {t}} = {e(t)}
  OBVIOUS
<1>3. Then(t, Handshaken) = CHOOSE r \in {e(u) : u \in {t}} : TRUE
  BY DEF Then
<1> QED BY <1>1, <1>2, <1>3

LEMMA ThenDrive ==
  ASSUME NEW t
  PROVE  Then(t, Drive) = IF t.ok THEN Drive(t) ELSE t
<1>1. \A x : (CHOOSE r \in {x} : TRUE) = x
  OBVIOUS
<1> DEFINE e(u) == IF u.ok THEN Drive(u) ELSE u
<1>2. {e(u) : u \in {t}} = {e(t)}
  OBVIOUS
<1>3. Then(t, Drive) = CHOOSE r \in {e(u) : u \in {t}} : TRUE
  BY DEF Then
<1> QED BY <1>1, <1>2, <1>3

LEMMA StaysQuiet ==
  ASSUME NEW t, Sound(t)
  PROVE  Quiet(t, t)
BY FlagsSet DEF Sound, SamePipe, SameLower, SameSink

LEMMA ThenQueued ==
  ASSUME NEW t \in TlsState, NEW u, Quiet(t, u), NEW op \in Operation, op # "Write"
  PROVE  Quiet(t, QueueResult(u, op)) /\ QueueResult(u, op).ok
<1>1. Quiet(u, QueueResult(u, op)) /\ QueueResult(u, op).ok
  BY Queued DEF Quiet
<1> QED BY <1>1, QuietTwice

LEMMA ReadClosedSet ==
  ASSUME NEW t, Sound(t)
  PROVE  LET r == [t EXCEPT !.TlsReadClosed = TRUE] IN
         Quiet(t, r) /\ r.HandshakeResultQueued = t.HandshakeResultQueued
         /\ r.HandshakeCompleted = t.HandshakeCompleted
<1> DEFINE r == [t EXCEPT !.TlsReadClosed = TRUE]
<1>1. t \in TlsState
  BY DEF Sound
<1>2. r \in TlsState /\ SamePipe(t, r)
  BY <1>1 DEF TlsState, SamePipe
<1>3. SameLower(t, r) /\ SameSink(t, r)
  BY <1>1 DEF TlsState, SameLower, SameSink
<1>4. /\ r.HandshakeCompleted = t.HandshakeCompleted /\ r.HandshakeResultQueued = t.HandshakeResultQueued
      /\ r.left = t.left /\ r.ok = t.ok
  BY <1>1 DEF TlsState
<1> HIDE DEF r
<1>5. Quiet(t, r)
  BY <1>2, <1>3, <1>4, FlagsSet
<1> QED BY <1>4, <1>5 DEF r

LEMMA CompletedSet ==
  ASSUME NEW t, Sound(t)
  PROVE  Quiet(t, [t EXCEPT !.HandshakeCompleted = TRUE])
<1> DEFINE r == [t EXCEPT !.HandshakeCompleted = TRUE]
<1>1. t \in TlsState
  BY DEF Sound
<1>2. r \in TlsState /\ SamePipe(t, r)
  BY <1>1 DEF TlsState, SamePipe
<1>3. SameLower(t, r) /\ SameSink(t, r)
  BY <1>1 DEF TlsState, SameLower, SameSink
<1>4. r.HandshakeCompleted /\ r.HandshakeResultQueued = t.HandshakeResultQueued /\ r.left = t.left /\ r.ok = t.ok
  BY <1>1 DEF TlsState
<1> HIDE DEF r
<1> QED BY <1>2, <1>3, <1>4, FlagsSet DEF r

LEMMA HandshakeDriven ==
  ASSUME NEW t, Sound(t), t.ok, t.HandshakeStarted \/ t.HandshakeCompleted
  PROVE  LET r == DriveHandshake(t) IN
         /\ Quiet(t, r) /\ r.ok
         /\ IsHandshakeTerminated(t) => SameSink(t, r) /\ IsHandshakeTerminated(r)
<1> DEFINE u == SslHandshake(t)
           r == DriveHandshake(t)
<1>1. t \in TlsState
  BY DEF Sound
<1>2. CASE t.HandshakeCompleted \/ t.HandshakeResultQueued
  <2>1. r = [t EXCEPT !.ok = TRUE]
    BY <1>2 DEF DriveHandshake
  <2> HIDE DEF r
  <2>2. Quiet(t, r) /\ r.ok /\ SameSink(t, r) /\ r.HandshakeCompleted = t.HandshakeCompleted
        /\ r.HandshakeResultQueued = t.HandshakeResultQueued
    BY <2>1, OkSet
  <2> QED BY <2>2 DEF IsHandshakeTerminated, r
<1>3. CASE ~(t.HandshakeCompleted \/ t.HandshakeResultQueued)
  <2>1. Library(t, u) /\ u.rc \in {"want", "done", "closed", "error"}
    BY HandshakeIsLibrary
  <2>2. r = CASE u.rc = "done"   -> Terminal([u EXCEPT !.HandshakeCompleted = TRUE], "Handshake")
              [] u.rc = "want"   -> [u EXCEPT !.ok = TRUE]
              [] u.rc = "closed" -> Terminal([u EXCEPT !.TlsReadClosed = TRUE], "ReadClosed")
              [] OTHER           -> QueueError(u)
    BY <1>3 DEF DriveHandshake
  <2> HIDE DEF u, r
  <2>3. Quiet(t, u) /\ Sound(u) /\ u.HandshakeStarted
    BY <1>3, <2>1 DEF Library, Quiet, SameStream, SameLower
  <2>4. "Handshake" \in Operation /\ "ReadClosed" \in Operation
    BY DEF Operation
  <2> SUFFICES Quiet(t, r) /\ r.ok
    BY <1>3 DEF IsHandshakeTerminated, r
  <2>5. CASE u.rc = "done"
    <3> DEFINE v == [u EXCEPT !.HandshakeCompleted = TRUE]
    <3>1. Quiet(u, v)
      BY <2>3, CompletedSet
    <3>2. r = Terminal(v, "Handshake")
      BY <2>2, <2>5
    <3> HIDE DEF v
    <3>3. Sound(v) /\ v.HandshakeStarted
      BY <2>3, <3>1 DEF Quiet, SameLower
    <3>4. Quiet(v, r) /\ r.ok
      BY <2>4, <3>2, <3>3, TerminalIsQuiet
    <3>5. Quiet(t, v)
      BY <1>1, <2>3, <3>1, QuietTwice
    <3> QED BY <1>1, <3>4, <3>5, QuietTwice
  <2>6. CASE u.rc = "want"
    <3>1. r = [u EXCEPT !.ok = TRUE]
      BY <2>2, <2>6
    <3>2. Quiet(u, r) /\ r.ok
      BY <2>3, <3>1, OkSet
    <3> QED BY <1>1, <2>3, <3>2, QuietTwice
  <2>7. CASE u.rc = "closed"
    <3> DEFINE v == [u EXCEPT !.TlsReadClosed = TRUE]
    <3>1. Quiet(u, v)
      BY <2>3, ReadClosedSet
    <3>2. r = Terminal(v, "ReadClosed")
      BY <2>2, <2>7
    <3> HIDE DEF v
    <3>3. Sound(v) /\ v.HandshakeStarted
      BY <2>3, <3>1 DEF Quiet, SameLower
    <3>4. Quiet(v, r) /\ r.ok
      BY <2>4, <3>2, <3>3, TerminalIsQuiet
    <3>5. Quiet(t, v)
      BY <1>1, <2>3, <3>1, QuietTwice
    <3> QED BY <1>1, <3>4, <3>5, QuietTwice
  <2>8. CASE u.rc = "error"
    <3>1. r = QueueError(u)
      BY <2>2, <2>8
    <3>2. Quiet(u, r) /\ r.ok
      BY <2>3, <3>1, QueueErrorIsQuiet
    <3> QED BY <1>1, <2>3, <3>2, QuietTwice
  <2> QED BY <2>1, <2>5, <2>6, <2>7, <2>8
<1> QED BY <1>2, <1>3

LEMMA PlainReadDriven ==
  ASSUME NEW t, Sound(t), t.ok, t.HandshakeCompleted
  PROVE  LET r == DrivePlainRead(t) IN Quiet(t, r) /\ r.ok
<1> DEFINE u == SslRead(t)
           r == DrivePlainRead(t)
<1>1. t \in TlsState
  BY DEF Sound
<1>2. "Read" \in Operation /\ "ReadClosed" \in Operation
  BY DEF Operation
<1>3. CASE ~t.PlainReadPending
  BY <1>3, StaysQuiet DEF DrivePlainRead
<1>4. CASE t.PlainReadPending /\ t.adopted > 0
  <2> DEFINE d == ReadDone(t)
             n == d.adopted - 1
             v == [d EXCEPT !.adopted = n]
  <2>1. r = QueueResult(v, "Read")
    BY <1>4 DEF DrivePlainRead, DeliverAdopted
  <2>2. Quiet(t, d) /\ d \in TlsState /\ Sound(d)
    BY ReadDoneIsQuiet DEF Quiet, Sound
  <2>3. d.adopted = t.adopted
    BY <1>1 DEF ReadDone, TlsState
  <2>4. n \in Nat
    <3>1. t.adopted \in Nat /\ t.adopted > 0
      BY <1>1, <1>4 DEF TlsState
    <3>2. \A a \in Nat : a > 0 => a - 1 \in Nat
      OBVIOUS
    <3> QED BY <2>3, <3>1, <3>2
  <2> HIDE DEF d, n, r
  <2>5. v \in TlsState /\ SamePipe(d, v)
    BY <2>2, <2>4 DEF TlsState, SamePipe
  <2>6. SameLower(d, v) /\ SameSink(d, v)
    BY <2>2 DEF TlsState, SameLower, SameSink
  <2>7. /\ v.HandshakeCompleted = d.HandshakeCompleted /\ v.HandshakeResultQueued = d.HandshakeResultQueued
        /\ v.left = d.left /\ v.ok = d.ok
    BY <2>2 DEF TlsState
  <2> HIDE DEF v
  <2>8. Quiet(d, v)
    BY <2>2, <2>5, <2>6, <2>7, FlagsSet
  <2>9. Quiet(t, v)
    BY <1>1, <2>2, <2>8, QuietTwice
  <2>10. Quiet(t, r) /\ r.ok
    BY <1>1, <1>2, <2>1, <2>9, ThenQueued
  <2> QED BY <2>10 DEF r
<1>5. CASE t.PlainReadPending /\ ~(t.adopted > 0)
  <2> DEFINE d == ReadDone(u)
  <2>1. Library(t, u)
    BY ReadIsLibrary
  <2>2. r = CASE u.rc = "done"   -> QueueResult(ReadDone(u), "Read")
              [] u.rc = "want"   -> u
              [] u.rc = "closed" -> QueueResult([ReadDone(u) EXCEPT !.TlsReadClosed = TRUE], "ReadClosed")
              [] OTHER           -> QueueError(ReadDone(u))
    BY <1>5 DEF DrivePlainRead
  <2> HIDE DEF u, r
  <2>3. Quiet(t, u) /\ Sound(u) /\ u.ok /\ u.HandshakeCompleted
    BY <2>1 DEF Library, Quiet
  <2>4. Quiet(u, d) /\ d.HandshakeCompleted
    BY <2>3, ReadDoneIsQuiet
  <2> HIDE DEF d
  <2>5. Quiet(t, d) /\ Sound(d)
    BY <1>1, <2>3, <2>4, QuietTwice DEF Quiet
  <2>6. CASE u.rc = "done"
    <3>1. r = QueueResult(d, "Read")
      BY <2>2, <2>6 DEF d
    <3>2. Quiet(t, r) /\ r.ok
      BY <1>1, <1>2, <2>5, <3>1, ThenQueued
    <3> QED BY <3>2 DEF r
  <2>7. CASE u.rc = "want"
    BY <2>2, <2>3, <2>7 DEF r
  <2>8. CASE u.rc = "closed"
    <3> DEFINE v == [d EXCEPT !.TlsReadClosed = TRUE]
    <3>1. r = QueueResult(v, "ReadClosed")
      BY <2>2, <2>8 DEF d
    <3>2. Quiet(d, v)
      BY <2>5, ReadClosedSet
    <3> HIDE DEF v
    <3>3. Quiet(t, v)
      BY <1>1, <2>5, <3>2, QuietTwice
    <3>4. Quiet(t, r) /\ r.ok
      BY <1>1, <1>2, <3>1, <3>3, ThenQueued
    <3> QED BY <3>4 DEF r
  <2>9. CASE u.rc \notin {"done", "want", "closed"}
    <3>1. r = QueueError(d)
      BY <2>2, <2>9 DEF d
    <3>2. Quiet(d, r) /\ r.ok
      BY <2>4, <2>5, <3>1, QueueErrorIsQuiet
    <3>3. Quiet(t, r)
      BY <1>1, <2>5, <3>2, QuietTwice
    <3> QED BY <3>2, <3>3 DEF r
  <2> QED BY <2>6, <2>7, <2>8, <2>9
<1> QED BY <1>3, <1>4, <1>5

LEMMA FlagsGentle ==
  ASSUME NEW t, NEW r \in TlsState, Sound(t), SamePipe(t, r), SameSink(t, r),
         r.Removing = t.Removing, r.up = t.up, r.LowerWriter = t.LowerWriter, r.flight = t.flight,
         r.written = t.written, r.LowerReadClosed = t.LowerReadClosed,
         r.HandshakeStarted = t.HandshakeStarted, r.HandshakeCompleted = t.HandshakeCompleted,
         r.left = t.left, t.up => r.ok, ReadInv(r)
  PROVE  Gentle(t, r)
<1>1. InOrder(r) /\ CountInv(r)
  BY DEF Sound, SamePipe, InOrder, CountInv
<1>2. WriterInv(r)
  BY DEF Sound, WriterInv
<1>3. SinkInv(r) /\ LeftInv(r)
  BY DEF Sound, SameSink, SinkInv, LeftInv
<1>4. Sound(r)
  BY <1>1, <1>2, <1>3 DEF Sound
<1>5. Steps(t, r)
  BY <1>4 DEF Steps, SameSink, Tells
<1>6. NoWrites(t, r)
  BY NothingNew, NumbersOf DEF SameSink
<1>7. t.own <= r.own /\ r.made + t.own = t.made + r.own /\ Len(r.wbio) + t.own <= Len(t.wbio) + r.own
  <2>1. t.own \in Nat /\ t.made \in Nat /\ Len(t.wbio) \in Nat
    BY NumbersOf
  <2>2. \A n \in Nat : n <= n
    OBVIOUS
  <2>3. Len(t.wbio) + t.own \in Nat
    BY <2>1
  <2> QED BY <2>1, <2>2, <2>3 DEF SamePipe
<1> QED BY <1>5, <1>6, <1>7 DEF Gentle

LEMMA LowerShutdownCompletes ==
  ASSUME NEW t, Sound(t)
  PROVE  LET r == CompleteLowerShutdown(t) IN
         Gentle(t, r) /\ r.wbio = t.wbio /\ (t.up => r.ok) /\ SameSink(t, r)
         /\ r.HandshakeResultQueued = t.HandshakeResultQueued /\ r.HandshakeCompleted = t.HandshakeCompleted
         /\ r.own = t.own
<1> DEFINE r == CompleteLowerShutdown(t)
           b == t.up
           s == [t EXCEPT !.LowerSendShutdownCompleted = b, !.ok = b]
<1>1. t \in TlsState /\ b \in BOOLEAN
  BY DEF Sound, TlsState
<1>2. CASE r = [t EXCEPT !.ok = TRUE]
  <2> HIDE DEF r
  <2>1. Quiet(t, r) /\ r.ok /\ SamePipe(t, r) /\ SameSink(t, r) /\ r.HandshakeCompleted = t.HandshakeCompleted
        /\ r.HandshakeResultQueued = t.HandshakeResultQueued
    BY <1>2, OkSet
  <2> QED BY <2>1, QuietIsGentle DEF SamePipe, r
<1>3. CASE r = s
  <2>0. b = t.up
    OBVIOUS
  <2> HIDE DEF r, b
  <2>1. s \in TlsState /\ SamePipe(t, s) /\ s.ok = b
    <3>1. s \in TlsState
      BY ONLY <1>1 DEF TlsState
    <3>2. SamePipe(t, s)
      BY <1>1 DEF TlsState, SamePipe
    <3>3. s.ok = b
      BY ONLY <1>1 DEF TlsState
    <3> QED BY <3>1, <3>2, <3>3
  <2>2. SameSink(t, s) /\ SameLower(t, s)
    BY <1>1 DEF TlsState, SameSink, SameLower
  <2>3. s.HandshakeCompleted = t.HandshakeCompleted /\ s.HandshakeResultQueued = t.HandshakeResultQueued
        /\ s.left = t.left
    BY <1>1 DEF TlsState
  <2> HIDE DEF s
  <2>4. ReadInv(s)
    BY <2>2, <2>3 DEF Sound, ReadInv, SameLower
  <2>5. Gentle(t, s)
    BY <2>0, <2>1, <2>2, <2>3, <2>4, FlagsGentle DEF SameLower
  <2> QED BY <1>3, <2>0, <2>1, <2>2, <2>3, <2>5 DEF SamePipe, r
<1> QED BY <1>2, <1>3 DEF CompleteLowerShutdown

LEMMA LowerReadStarts ==
  ASSUME NEW t, Sound(t)
  PROVE  LET r == StartLowerRead(t) IN
         Gentle(t, r) /\ r.wbio = t.wbio /\ (t.up => r.ok) /\ SameSink(t, r) /\ Asked(r)
<1> DEFINE r == StartLowerRead(t)
           b == t.up
           s == [t EXCEPT !.LowerReadPending = b, !.ok = b]
           z == [t EXCEPT !.ok = TRUE]
<1>1. t \in TlsState /\ b \in BOOLEAN
  BY DEF Sound, TlsState
<1>2. CASE t.LowerReadPending \/ t.LowerReadClosed \/ t.Removing \/ ~NeedsInput(t)
  <2>1. r = z
    BY <1>2 DEF StartLowerRead
  <2>2. Quiet(t, z) /\ z.ok /\ SamePipe(t, z) /\ SameSink(t, z) /\ z.HandshakeCompleted = t.HandshakeCompleted
        /\ z.HandshakeResultQueued = t.HandshakeResultQueued
    BY OkSet
  <2>3. /\ z.LowerReadPending = t.LowerReadPending /\ z.LowerReadClosed = t.LowerReadClosed
        /\ z.Removing = t.Removing
        /\ z.PlainReadPending = t.PlainReadPending /\ z.PlainWriteNeedsRead = t.PlainWriteNeedsRead
        /\ z.ShutdownPending = t.ShutdownPending /\ z.HandshakeStarted = t.HandshakeStarted
    BY <1>1 DEF TlsState
  <2> HIDE DEF z
  <2>4. Asked(z)
    BY <1>2, <2>2, <2>3 DEF Asked, NeedsInput
  <2>5. Gentle(t, z)
    BY <2>2, QuietIsGentle
  <2> QED BY <2>1, <2>2, <2>4, <2>5 DEF SamePipe
<1>3. CASE ~(t.LowerReadPending \/ t.LowerReadClosed \/ t.Removing \/ ~NeedsInput(t))
  <2>1. r = s
    BY <1>3 DEF StartLowerRead
  <2>2. b = t.up
    OBVIOUS
  <2> HIDE DEF r, b
  <2>3. s \in TlsState /\ SamePipe(t, s) /\ s.ok = b /\ s.LowerReadPending = b
    <3>1. s \in TlsState
      BY ONLY <1>1 DEF TlsState
    <3>2. SamePipe(t, s)
      BY <1>1 DEF TlsState, SamePipe
    <3>3. s.ok = b /\ s.LowerReadPending = b
      BY ONLY <1>1 DEF TlsState
    <3> QED BY <3>1, <3>2, <3>3
  <2>4. SameSink(t, s)
    BY <1>1 DEF TlsState, SameSink
  <2>5. s.HandshakeCompleted = t.HandshakeCompleted /\ s.HandshakeResultQueued = t.HandshakeResultQueued
        /\ s.left = t.left
    BY <1>1 DEF TlsState
  <2>6. /\ s.Removing = t.Removing /\ s.up = t.up /\ s.LowerWriter = t.LowerWriter /\ s.flight = t.flight
        /\ s.written = t.written /\ s.LowerReadClosed = t.LowerReadClosed
        /\ s.HandshakeStarted = t.HandshakeStarted
    BY <1>1 DEF TlsState
  <2> HIDE DEF s
  <2>7. ReadInv(s)
    BY <1>3, <2>5, <2>6 DEF Sound, ReadInv
  <2>8. Gentle(t, s)
    BY <2>2, <2>3, <2>4, <2>5, <2>6, <2>7, FlagsGentle
  <2>9. Asked(s)
    BY <2>2, <2>3, <2>6 DEF Asked
  <2> QED BY <2>1, <2>2, <2>3, <2>4, <2>8, <2>9 DEF SamePipe, r
<1> QED BY <1>2, <1>3

(* An idle writer: what was made and is not written is in the BIO. *)
LEMMA NothingWaits ==
  ASSUME NEW t, Sound(t), ~t.Removing, IsIdle(t.LowerWriter)
  PROVE  t.made = t.written + Len(t.wbio)
<1>1. Waiting(t.LowerWriter) = <<>>
  BY NoChains DEF IsIdle, Waiting
<1>2. t.wbio \in Seq(Nat) /\ t.made \in Nat /\ t.written \in Nat /\ t.written <= t.made
  BY NumbersOf
<1>3. t.wbio = Run(t.written, t.made)
  <2>1. Waiting(t.LowerWriter) \o t.wbio = Run(t.written, t.made)
    BY DEF Sound, InOrder
  <2>2. <<>> \o t.wbio = t.wbio
    BY <1>2, NothingAdded
  <2> QED BY <1>1, <2>1, <2>2
<1>4. Len(t.wbio) = t.made - t.written
  BY <1>2, <1>3, RunTyped
<1> QED BY <1>2, <1>4

LEMMA AnsweredPays ==
  ASSUME NEW t, Sound(t), t.ok, ~t.Removing
  PROVE  LET r == Answered(t) IN Moved(t, r) /\ r.ok /\ r.wbio = t.wbio /\ r.HandshakeCompleted = t.HandshakeCompleted
<1> DEFINE r == Answered(t)
<1>1. t \in TlsState
  BY DEF Sound
<1>2. CASE t.left > 0 \/ ~IsIdle(t.LowerWriter)
  <2>1. r = t
    BY <1>2 DEF Answered
  <2>2. Moved(t, t)
    BY StaysQuiet, QuietIsGentle, GentleIsMoved
  <2> QED BY <2>1, <2>2
<1>3. CASE ~(t.left > 0 \/ ~IsIdle(t.LowerWriter))
  <2> DEFINE u == ResetPlainWrite(t)
  <2>1. r = QueueResult(u, "Write")
    BY <1>3 DEF Answered
  <2>2. Quiet(t, u) /\ u.HandshakeCompleted = t.HandshakeCompleted /\ SamePipe(t, u) /\ Sound(u)
    BY ResetIsQuiet DEF Quiet
  <2>3. "Write" \in Operation
    BY DEF Operation
  <2> HIDE DEF u, r
  <2>4. /\ Sound(r) /\ SameLower(u, r) /\ SamePipe(u, r) /\ Tells(u, r) /\ r.ok
        /\ r.HandshakeCompleted = u.HandshakeCompleted
    BY <2>1, <2>2, <2>3, Queued
  <2>5. SameLower(t, r) /\ SamePipe(t, r) /\ Tells(t, r)
    BY <2>2, <2>4 DEF Quiet, SameLower, SamePipe, Tells
  <2>6. Steps(t, r)
    BY <2>2, <2>4, <2>5 DEF Steps, SameLower
  <2>7. t.made = t.written + Len(t.wbio)
    BY <1>3, NothingWaits
  <2>8. r.made = t.made /\ r.own = t.own /\ r.written = t.written
    BY <2>5 DEF SamePipe, SameLower
  <2>9. t.own <= r.own /\ r.made + t.own <= r.written + r.own + Len(t.wbio)
    <3>1. t.made \in Nat /\ t.own \in Nat /\ t.written \in Nat /\ Len(t.wbio) \in Nat
      BY NumbersOf
    <3> QED BY <2>7, <2>8, <3>1
  <2>10. Moved(t, r)
    BY <2>6, <2>9 DEF Moved, Pays
  <2> QED BY <2>2, <2>4, <2>5, <2>10 DEF SamePipe, r
<1> QED BY <1>2, <1>3

LEMMA ShutdownDriven ==
  ASSUME NEW t, Sound(t), t.ok, t.HandshakeCompleted
  PROVE  LET r == DriveShutdown(t) IN Quiet(t, r) /\ r.ok
<1> DEFINE u == SslShutdown(t)
           r == DriveShutdown(t)
<1>1. t \in TlsState
  BY DEF Sound
<1>2. CASE ~t.ShutdownPending \/ t.ShutdownCompleted
  <2>1. r = t
    BY <1>2 DEF DriveShutdown
  <2> QED BY <2>1, StaysQuiet
<1>3. CASE ~(~t.ShutdownPending \/ t.ShutdownCompleted)
  <2> DEFINE v == [u EXCEPT !.ShutdownCompleted = TRUE, !.ShutdownPending = FALSE]
  <2>1. Library(t, u)
    BY ShutdownIsLibrary
  <2>2. r = CASE u.rc = "done" -> v
              [] u.rc \in {"sent", "want"} -> u
              [] OTHER -> QueueError(u)
    BY <1>3 DEF DriveShutdown
  <2> SUFFICES Quiet(t, r) /\ r.ok
    OBVIOUS
  <2> HIDE DEF u, r
  <2>3. Quiet(t, u) /\ Sound(u) /\ u \in TlsState /\ u.ok /\ u.HandshakeCompleted
    BY <2>1 DEF Library, Quiet, Sound
  <2>4. CASE u.rc = "done"
    <3>0. u \in TlsState
      BY <2>3
    <3>1. v \in TlsState /\ SamePipe(u, v)
      <4>1. v \in TlsState
        BY ONLY <3>0 DEF TlsState
      <4>2. SamePipe(u, v)
        BY ONLY <3>0 DEF TlsState, SamePipe
      <4> QED BY <4>1, <4>2
    <3>2. SameLower(u, v) /\ SameSink(u, v)
      BY <2>3 DEF TlsState, SameLower, SameSink
    <3>3. /\ v.HandshakeCompleted = u.HandshakeCompleted /\ v.HandshakeResultQueued = u.HandshakeResultQueued
          /\ v.left = u.left /\ v.ok = u.ok
      BY <2>3 DEF TlsState
    <3>4. r = v
      BY <2>2, <2>4
    <3> HIDE DEF v
    <3>5. Quiet(u, v)
      BY <2>3, <3>1, <3>2, <3>3, FlagsSet
    <3>6. Quiet(t, v) /\ v.ok
      BY <1>1, <2>3, <3>3, <3>5, QuietTwice
    <3> QED BY <3>4, <3>6
  <2>5. CASE u.rc \in {"sent", "want"}
    BY <2>2, <2>3, <2>5
  <2>6. CASE u.rc \notin {"done", "sent", "want"}
    <3>1. r = QueueError(u)
      BY <2>2, <2>6
    <3>2. Quiet(u, r) /\ r.ok
      BY <2>3, <3>1, QueueErrorIsQuiet
    <3> QED BY <1>1, <2>3, <3>2, QuietTwice
  <2> QED BY <2>4, <2>5, <2>6
<1> QED BY <1>2, <1>3

LEMMA PlainWriteDriven ==
  ASSUME NEW t, Sound(t), t.ok, ~t.Removing, t.HandshakeCompleted
  PROVE  LET r == DrivePlainWrite(t) IN Moved(t, r) /\ (r.ok \/ r.wbio = <<>>)
<1> DEFINE b == BatchRoom(t)
           n == Min({t.left, b})
           u == SslWrite(t, n)
           r == DrivePlainWrite(t)
<1>1. t \in TlsState /\ t.left \in Nat /\ t.LowerWriter.QueuedBytes \in Nat /\ Len(t.wbio) \in Nat /\ BatchLimit \in Nat
      /\ t.own \in Nat
  BY NumbersOf, SizeAssumption
<1>2. b \in Nat /\ (b # 0 => t.LowerWriter.QueuedBytes + Len(t.wbio) + b <= BatchLimit)
  <2> DEFINE x == BatchLimit   y == t.LowerWriter.QueuedBytes + Len(t.wbio)
  <2>1. b = IF y < x THEN x - y ELSE 0
    BY DEF BatchRoom, UnwrittenCiphertext
  <2>2. x \in Nat /\ y \in Nat
    BY <1>1
  <2> HIDE DEF x, y, b
  <2>3. b \in Nat /\ (b # 0 => y + b <= x)
    BY ONLY <2>1, <2>2
  <2> QED BY <2>3 DEF x, y
<1> HIDE DEF b
<1>3. n \in Nat /\ n <= t.left /\ n <= b
  BY <1>1, <1>2, MinOfTwo
<1>4. r = CASE ~t.PlainWritePending -> t
            [] t.PlainWritePending /\ t.left = 0 -> Answered(t)
            [] t.PlainWritePending /\ t.left > 0 /\ n = 0 -> DrainEncryptedOutput(t)
            [] OTHER ->
                 CASE u.rc = "done" -> Then(DrainEncryptedOutput([u EXCEPT !.left = @ - n, !.PlainWriteNeedsRead = FALSE]), Answered)
                   [] u.rc = "want" -> DrainEncryptedOutput([u EXCEPT !.PlainWriteNeedsRead = TRUE])
                   [] OTHER         -> QueueError(ResetPlainWrite(u))
  BY DEF DrivePlainWrite, b
<1> HIDE DEF r, n
<1> SUFFICES Moved(t, r) /\ (r.ok \/ r.wbio = <<>>)
  BY DEF r
<1>5. CASE ~t.PlainWritePending
  <2>1. r = t
    BY <1>4, <1>5
  <2> QED BY <2>1, StaysQuiet, QuietIsGentle, GentleIsMoved
<1>6. CASE t.PlainWritePending /\ t.left = 0
  <2>1. r = Answered(t)
    BY <1>4, <1>6
  <2> QED BY <2>1, AnsweredPays
<1>7. CASE t.PlainWritePending /\ t.left > 0 /\ n = 0
  <2>1. r = DrainEncryptedOutput(t)
    <3>1. t.left # 0
      BY <1>1, <1>7
    <3> QED BY <1>4, <1>7, <3>1
  <2> QED BY <2>1, DrainIsGentle, GentleIsMoved
<1>8. CASE t.PlainWritePending /\ t.left # 0 /\ n # 0
  <2>1. r = CASE u.rc = "done" -> Then(DrainEncryptedOutput([u EXCEPT !.left = @ - n, !.PlainWriteNeedsRead = FALSE]), Answered)
              [] u.rc = "want" -> DrainEncryptedOutput([u EXCEPT !.PlainWriteNeedsRead = TRUE])
              [] OTHER         -> QueueError(ResetPlainWrite(u))
    BY <1>4, <1>8
  <2>2. t.LowerWriter.QueuedBytes + Len(t.wbio) + n <= BatchLimit
    <3> DEFINE x == BatchLimit   y == t.LowerWriter.QueuedBytes   z == Len(t.wbio)
    <3>1. x \in Nat /\ y \in Nat /\ z \in Nat /\ n \in Nat /\ b \in Nat /\ n <= b /\ n # 0 /\ (b # 0 => y + z + b <= x)
      BY <1>1, <1>2, <1>3, <1>8
    <3> HIDE DEF x, y, z
    <3>2. y + z + n <= x
      BY ONLY <3>1
    <3> QED BY <3>2 DEF x, y, z
  <2>3. \/ u.rc # "done" /\ Library(t, u)
        \/ u.rc = "done" /\ Sound(u) /\ SameStream(t, u) /\ t.own <= u.own
    BY <1>3, <2>2, WriteMakes
  <2> HIDE DEF u
  <2>4. CASE u.rc = "done"
    <3> DEFINE l == u.left - n
               v == [u EXCEPT !.left = l, !.PlainWriteNeedsRead = FALSE]
               d == DrainEncryptedOutput(v)
    <3>1. u \in TlsState /\ Sound(u) /\ SameStream(t, u) /\ t.own <= u.own
      BY <2>3, <2>4 DEF Sound
    <3>2. l \in Nat /\ l <= u.left
      <4>1. u.left = t.left
        BY <3>1 DEF SameStream
      <4> QED BY <1>1, <1>3, <4>1
    <3>3. r = Then(d, Answered)
      BY <2>1, <2>4
    <3> HIDE DEF l
    <3>4. v \in TlsState /\ SamePipe(u, v) /\ v.left = l /\ v.ok = u.ok /\ v.HandshakeCompleted = u.HandshakeCompleted
          /\ v.HandshakeResultQueued = u.HandshakeResultQueued
      <4>1. u \in TlsState /\ l \in Nat
        BY <3>1, <3>2
      <4>2. v \in TlsState
        BY ONLY <4>1 DEF TlsState
      <4>3. SamePipe(u, v)
        BY ONLY <4>1 DEF TlsState, SamePipe
      <4>4. /\ v.left = l /\ v.ok = u.ok /\ v.HandshakeCompleted = u.HandshakeCompleted
            /\ v.HandshakeResultQueued = u.HandshakeResultQueued
        BY ONLY <4>1 DEF TlsState
      <4> QED BY <4>2, <4>3, <4>4
    <3>5. SameLower(u, v) /\ SameSink(u, v)
      BY <3>1 DEF TlsState, SameLower, SameSink
    <3> HIDE DEF v
    <3>6. LeftInv(v)
      <4>1. CASE l = 0
        BY <3>4, <4>1 DEF LeftInv
      <4>2. CASE l # 0
        <5>1. u.left # 0 /\ u.left \in Nat
          BY <3>1, <3>2, <4>2, NumbersOf
        <5>2. PICK k \in Sizes : u.left <= k
          BY <3>1, <5>1 DEF Sound, LeftInv
        <5>3. k \in Nat
          BY SizeAssumption
        <5>4. v.left <= k
          BY <3>2, <3>4, <5>1, <5>2, <5>3
        <5> QED BY <5>4 DEF LeftInv
      <4> QED BY <4>1, <4>2
    <3>7. SinkInv(v) /\ ReadInv(v)
      BY <3>1, <3>4, <3>5 DEF Sound, SinkInv, ReadInv, SameLower, SameSink
    <3>8. Sound(v)
      BY <3>1, <3>4, <3>5, <3>6, <3>7, SoundStays
    <3>9. /\ SameSink(t, v) /\ v.Removing = t.Removing /\ v.up = t.up /\ v.written = t.written
          /\ v.LowerReadClosed = t.LowerReadClosed /\ v.HandshakeStarted = t.HandshakeStarted
          /\ v.HandshakeCompleted = t.HandshakeCompleted /\ v.own = u.own /\ v.ok = t.ok
      BY <3>1, <3>4, <3>5 DEF SameStream, SameLower, SameSink, SamePipe
    <3>10. Gentle(v, d) /\ SameRest(v, d) /\ d.wbio = <<>> /\ (v.up => d.ok)
      BY <3>8, DrainIsGentle
    <3> HIDE DEF d
    <3>11. Gentle(t, t) /\ Steps(t, d) /\ NoWrites(t, d) /\ t.own <= d.own
      <4>1. Gentle(t, t)
        BY StaysQuiet, QuietIsGentle
      <4>2. /\ Sound(d) /\ SameSink(t, d) /\ d.Removing = t.Removing /\ d.up = t.up /\ d.written = t.written
            /\ d.LowerReadClosed = t.LowerReadClosed /\ d.HandshakeStarted = t.HandshakeStarted
            /\ d.HandshakeCompleted = t.HandshakeCompleted /\ d.own = u.own
        BY <3>9, <3>10 DEF Gentle, Steps, SameRest, SameSink
      <4>3. Steps(t, d)
        BY <3>9, <3>10, <4>2 DEF Steps, SameSink, Tells
      <4>4. NoWrites(t, d)
        BY <1>1, <4>2, NothingNew DEF SameSink
      <4> QED BY <3>1, <4>1, <4>2, <4>3, <4>4
    <3>12. Moved(t, d)
      BY <3>11 DEF Moved, Pays
    <3>13. CASE ~d.ok
      <4>1. r = d
        BY <3>3, <3>13, ThenAnswered
      <4> QED BY <3>10, <3>12, <4>1
    <3>14. CASE d.ok
      <4>1. r = Answered(d)
        BY <3>3, <3>14, ThenAnswered
      <4>2. Sound(d) /\ ~d.Removing
        BY <3>11 DEF Steps
      <4>3. Moved(d, r) /\ r.ok
        BY <3>14, <4>1, <4>2, AnsweredPays
      <4>4. Steps(t, r) /\ Sound(r)
        BY <3>11, <4>3, StepsTwice DEF Moved, Steps
      <4>5. /\ t.own \in Nat /\ d.own \in Nat /\ r.own \in Nat /\ r.made \in Nat /\ r.written \in Nat
            /\ Len(t.wbio) \in Nat /\ Len(d.wbio) = 0
        BY <3>10, <4>2, <4>4, NumbersOf
      <4>6. t.own <= d.own /\ d.own <= r.own
        BY <3>11, <4>3 DEF Moved
      <4>7. Pays(t, r)
        <5>1. CASE NoWrites(d, r)
          BY <1>1, <3>11, <4>2, <4>4, <5>1, NoWritesTwice, NumbersOf DEF Pays
        <5>2. CASE r.made + d.own <= r.written + r.own + Len(d.wbio)
          <6> DEFINE a == t.own   f == d.own   c == r.own   z == r.made   w == r.written   m == Len(t.wbio)   e == Len(d.wbio)
          <6>1. /\ a \in Nat /\ f \in Nat /\ c \in Nat /\ z \in Nat /\ w \in Nat /\ m \in Nat /\ e = 0
                /\ a <= f /\ z + f <= w + c + e
            BY <4>5, <4>6, <5>2
          <6> HIDE DEF a, f, c, z, w, m, e
          <6>2. z + a <= w + c + m
            BY ONLY <6>1
          <6> QED BY <6>2 DEF Pays, z, a, w, c, m
        <5> QED BY <4>3, <5>1, <5>2 DEF Moved, Pays
      <4>8. t.own <= r.own
        BY <4>5, <4>6
      <4> QED BY <4>3, <4>4, <4>7, <4>8 DEF Moved
    <3> QED BY <3>13, <3>14
  <2>5. CASE u.rc # "done"
    <3>1. Quiet(t, u) /\ Sound(u) /\ u \in TlsState /\ u.ok /\ u.HandshakeCompleted
      BY <2>3, <2>5 DEF Library, Quiet, Sound
    <3>2. CASE u.rc = "want"
      <4> DEFINE v == [u EXCEPT !.PlainWriteNeedsRead = TRUE]
      <4>1. r = DrainEncryptedOutput(v)
        BY <2>1, <3>2
      <4>2. v \in TlsState /\ SamePipe(u, v)
        BY <3>1 DEF TlsState, SamePipe
      <4>3. SameLower(u, v) /\ SameSink(u, v)
        BY <3>1 DEF TlsState, SameLower, SameSink
      <4>4. /\ v.HandshakeCompleted = u.HandshakeCompleted /\ v.HandshakeResultQueued = u.HandshakeResultQueued
            /\ v.left = u.left /\ v.ok = u.ok
        BY <3>1 DEF TlsState
      <4> HIDE DEF v
      <4>5. Quiet(u, v)
        BY <3>1, <4>2, <4>3, <4>4, FlagsSet
      <4>6. Quiet(t, v)
        BY <1>1, <3>1, <4>5, QuietTwice
      <4>7. Gentle(v, r) /\ r.wbio = <<>>
        BY <4>1, <4>6, DrainIsGentle DEF Quiet
      <4> QED BY <4>6, <4>7, QuietIsGentle, GentleTwice, GentleIsMoved
    <3>3. CASE u.rc # "want"
      <4> DEFINE v == ResetPlainWrite(u)
      <4>1. r = QueueError(v)
        BY <2>1, <2>5, <3>3
      <4>2. Quiet(u, v) /\ v.HandshakeCompleted /\ Sound(v)
        BY <3>1, ResetIsQuiet DEF Quiet
      <4> HIDE DEF v
      <4>3. Quiet(v, r) /\ r.ok
        BY <4>1, <4>2, QueueErrorIsQuiet
      <4>4. Quiet(t, v)
        BY <1>1, <3>1, <4>2, QuietTwice
      <4>5. Quiet(t, r)
        BY <1>1, <4>3, <4>4, QuietTwice
      <4> QED BY <4>3, <4>5, QuietIsGentle, GentleIsMoved
    <3> QED BY <3>2, <3>3
  <2> QED BY <2>4, <2>5
<1> QED BY <1>1, <1>5, <1>6, <1>7, <1>8

(* What Drive has done when it comes back *)
Driven(t, r) == Moved(t, r) /\ r.wbio = <<>> /\ (r.up => r.ok) /\ Asked(r)

LEMMA WorkDone ==
  ASSUME NEW t, Sound(t), t.ok, ~t.Removing, t.HandshakeCompleted
  PROVE  Driven(t, Work(t))
<1> DEFINE a == DrivePlainRead(t)
           b == Then(a, DrivePlainWrite)
           c == Then(b, DriveShutdown)
           d == Then(c, DrainEncryptedOutput)
           e == Then(d, CompleteLowerShutdown)
           r == Then(e, StartLowerRead)
<1>1. Work(t) = r
  BY DEF Work
<1>2. Gentle(t, a) /\ a.ok /\ Sound(a) /\ ~a.Removing /\ a.HandshakeCompleted
  BY PlainReadDriven, QuietIsGentle DEF Quiet, SameLower
<1> HIDE DEF a
<1>3. Moved(a, b) /\ (b.ok \/ b.wbio = <<>>)
  BY <1>2, ThenPlainWrite, PlainWriteDriven
<1> HIDE DEF b
<1>4. Moved(t, b) /\ Sound(b) /\ b.HandshakeCompleted
  BY <1>2, <1>3, GentleMoved DEF Moved, Steps
<1>5. Gentle(b, c) /\ (c.ok \/ c.wbio = <<>>)
  <2>1. CASE b.ok
    BY <1>4, <2>1, ThenShutdown, ShutdownDriven, QuietIsGentle
  <2>2. CASE ~b.ok
    BY <1>3, <1>4, <2>2, ThenShutdown, StaysQuiet, QuietIsGentle
  <2> QED BY <2>1, <2>2
<1> HIDE DEF c
<1>6. Moved(t, c) /\ Sound(c)
  BY <1>4, <1>5, MovedGentle DEF Moved, Steps
<1>7. Gentle(c, d) /\ d.wbio = <<>>
  <2>1. CASE c.ok
    BY <1>6, <2>1, ThenDrain, DrainIsGentle
  <2>2. CASE ~c.ok
    BY <1>5, <1>6, <2>2, ThenDrain, StaysQuiet, QuietIsGentle
  <2> QED BY <2>1, <2>2
<1> HIDE DEF d
<1>8. Moved(t, d) /\ Sound(d)
  BY <1>6, <1>7, MovedGentle DEF Moved, Steps
<1>9. Gentle(d, e) /\ e.wbio = <<>>
  <2>1. CASE d.ok
    BY <1>7, <1>8, <2>1, ThenLowerShutdown, LowerShutdownCompletes
  <2>2. CASE ~d.ok
    BY <1>7, <1>8, <2>2, ThenLowerShutdown, StaysQuiet, QuietIsGentle
  <2> QED BY <2>1, <2>2
<1> HIDE DEF e
<1>10. Moved(t, e) /\ Sound(e)
  BY <1>8, <1>9, MovedGentle DEF Moved, Steps
<1>11. e.up => e.ok
  BY <1>10 DEF Moved, Steps
<1>12. Gentle(e, r) /\ r.wbio = <<>> /\ Asked(r)
  <2>1. CASE e.ok
    BY <1>9, <1>10, <2>1, ThenLowerRead, LowerReadStarts
  <2>2. CASE ~e.ok
    BY <1>9, <1>10, <1>11, <2>2, ThenLowerRead, StaysQuiet, QuietIsGentle DEF Asked
  <2> QED BY <2>1, <2>2
<1> HIDE DEF r
<1>13. Moved(t, r)
  BY <1>10, <1>12, MovedGentle
<1>14. r.up => r.ok
  BY <1>13 DEF Moved, Steps
<1> QED BY <1>1, <1>12, <1>13, <1>14 DEF Driven

LEMMA UnfinishedDone ==
  ASSUME NEW t, Sound(t), t.ok, t.HandshakeStarted, ~t.HandshakeCompleted
  PROVE  LET r == Unfinished(t) IN
         /\ Gentle(t, r) /\ (t.wbio = <<>> => r.wbio = <<>>) /\ (r.up => r.ok) /\ Asked(r)
         /\ (IsHandshakeTerminated(t) => r.results = t.results)
<1>1. CASE t.LowerReadClosed
  <2> DEFINE r == Terminal(t, "ReadClosed")
  <2>1. Unfinished(t) = r
    BY <1>1 DEF Unfinished
  <2>2. "ReadClosed" \in Operation
    BY DEF Operation
  <2>3. Quiet(t, r) /\ r.ok /\ SamePipe(t, r) /\ (t.HandshakeResultQueued => r.results = t.results)
    BY <2>2, TerminalIsQuiet
  <2> HIDE DEF r
  <2>4. Asked(r)
    BY <1>1, <2>3 DEF Quiet, SameLower, Asked
  <2> QED BY <2>1, <2>3, <2>4, QuietIsGentle DEF SamePipe, IsHandshakeTerminated
<1>2. CASE ~t.LowerReadClosed /\ t.HandshakeResultQueued
  <2>1. Unfinished(t) = t
    BY <1>2 DEF Unfinished
  <2>2. Asked(t)
    BY <1>2 DEF Asked, IsHandshakeTerminated
  <2> QED BY <2>1, <2>2, StaysQuiet, QuietIsGentle
<1>3. CASE ~t.LowerReadClosed /\ ~t.HandshakeResultQueued
  <2>1. Unfinished(t) = StartLowerRead(t)
    BY <1>3 DEF Unfinished
  <2>2. t.up => StartLowerRead(t).ok
    BY LowerReadStarts
  <2> QED BY <1>3, <2>1, <2>2, LowerReadStarts DEF Gentle, Steps, IsHandshakeTerminated
<1> QED BY <1>1, <1>2, <1>3

LEMMA HandshakenDone ==
  ASSUME NEW t, Sound(t), t.ok, ~t.Removing, t.HandshakeStarted \/ t.HandshakeCompleted
  PROVE  LET r == Handshaken(t) IN
         Driven(t, r) /\ (IsHandshakeTerminated(t) => r.results = t.results)
<1>1. CASE t.HandshakeCompleted
  BY <1>1, WorkDone DEF Handshaken, IsHandshakeTerminated
<1>2. CASE ~t.HandshakeCompleted
  <2> DEFINE d == DrainEncryptedOutput(t)
             r == Then(d, Unfinished)
  <2>1. Handshaken(t) = r
    BY <1>2 DEF Handshaken
  <2>2. Gentle(t, d) /\ SameRest(t, d) /\ d.wbio = <<>> /\ (t.up => d.ok)
    BY DrainIsGentle
  <2> HIDE DEF d
  <2>3. /\ Sound(d) /\ d.HandshakeStarted /\ ~d.HandshakeCompleted /\ d.results = t.results
        /\ (IsHandshakeTerminated(t) => IsHandshakeTerminated(d)) /\ (d.up => d.ok)
    BY <1>2, <2>2 DEF Gentle, Steps, SameRest, SameSink, IsHandshakeTerminated
  <2>4. CASE d.ok
    <3>1. r = Unfinished(d)
      BY <2>4, ThenUnfinished
    <3> HIDE DEF r
    <3>2. /\ Gentle(d, r) /\ r.wbio = <<>> /\ (r.up => r.ok) /\ Asked(r)
          /\ (IsHandshakeTerminated(d) => r.results = d.results)
      BY <2>2, <2>3, <2>4, <3>1, UnfinishedDone
    <3>3. Moved(t, r)
      BY <2>2, <3>2, GentleTwice, GentleIsMoved
    <3> QED BY <2>1, <2>3, <3>2, <3>3 DEF Driven
  <2>5. CASE ~d.ok
    <3>1. r = d
      BY <2>5, ThenUnfinished
    <3>2. Asked(d)
      BY <2>3, <2>5 DEF Asked
    <3> HIDE DEF r
    <3> QED BY <2>1, <2>2, <2>3, <2>5, <3>1, <3>2, GentleIsMoved DEF Driven
  <2> QED BY <2>4, <2>5
<1> QED BY <1>1, <1>2

LEMMA DriveDone ==
  ASSUME NEW t, Sound(t), ~t.Removing, t.wbio = <<>>
  PROVE  LET r == Drive(t) IN
         Driven(t, r) /\ (IsHandshakeTerminated(t) => r.results = t.results)
<1> DEFINE u == [t EXCEPT !.ok = TRUE]
           h == DriveHandshake(u)
           r == Drive(t)
<1>1. Quiet(t, u) /\ u.ok /\ SamePipe(t, u) /\ SameSink(t, u) /\ u.HandshakeCompleted = t.HandshakeCompleted
      /\ u.HandshakeResultQueued = t.HandshakeResultQueued
  BY OkSet
<1>2. r = IF ~u.HandshakeCompleted /\ ~u.HandshakeStarted THEN u ELSE Then(h, Handshaken)
  BY DEF Drive
<1> HIDE DEF u, r
<1> SUFFICES Driven(t, r) /\ (IsHandshakeTerminated(t) => r.results = t.results)
  BY DEF r
<1>3. Sound(u) /\ ~u.Removing /\ u.results = t.results /\ (IsHandshakeTerminated(t) => IsHandshakeTerminated(u))
  BY <1>1 DEF Quiet, SameLower, SameSink, IsHandshakeTerminated
<1>4. CASE ~u.HandshakeCompleted /\ ~u.HandshakeStarted
  <2>1. r = u
    BY <1>2, <1>4
  <2>2. Asked(u)
    BY <1>4 DEF Asked, NeedsInput
  <2>3. Moved(t, u)
    BY <1>1, QuietIsGentle, GentleIsMoved
  <2> QED BY <1>1, <1>3, <2>1, <2>2, <2>3 DEF Driven, SamePipe
<1>5. CASE u.HandshakeCompleted \/ u.HandshakeStarted
  <2>1. Quiet(u, h) /\ h.ok /\ (IsHandshakeTerminated(u) => SameSink(u, h) /\ IsHandshakeTerminated(h))
    BY <1>1, <1>3, <1>5, HandshakeDriven
  <2>2. r = Handshaken(h)
    BY <1>2, <1>5, <2>1, ThenHandshaken
  <2> HIDE DEF h
  <2>3. Sound(h) /\ ~h.Removing /\ (h.HandshakeStarted \/ h.HandshakeCompleted)
    BY <1>3, <1>5, <2>1 DEF Quiet, SameLower
  <2>4. Driven(h, r) /\ (IsHandshakeTerminated(h) => r.results = h.results)
    BY <2>1, <2>2, <2>3, HandshakenDone
  <2>5. Quiet(t, h)
    BY <1>1, <2>1, NumbersOf, QuietTwice
  <2>6. Moved(t, r)
    BY <2>4, <2>5, QuietIsGentle, GentleMoved DEF Driven
  <2>7. IsHandshakeTerminated(t) => r.results = t.results
    BY <1>3, <2>1, <2>4 DEF SameSink
  <2> QED BY <2>4, <2>6, <2>7 DEF Driven
<1> QED BY <1>4, <1>5

-----------------------------------------------------------------------------
(* The steps of the specification *)

(* What a step makes of a stream that is not closed *)
Result(t, r) ==
  /\ Sound(r) /\ r.wbio = <<>> /\ Asked(r) /\ ~r.Removing /\ Tells(t, r)
  /\ (IsHandshakeTerminated(t) => Len(r.results) <= Len(t.results))
  /\ (NoWrites(t, r) \/ r.made + t.own <= r.written + r.own)
  /\ t.own <= r.own

(* What a step does to the sink and to the writes *)
OneTerminal == IsHandshakeTerminated(tls) => Len(tls'.results) <= Len(tls.results)
AnswerWritten == AnswersWrite => tls'.written + (tls'.own - tls.own) >= tls'.made

(* A stream that is driven next *)
Begins(t, x) ==
  /\ Sound(x) /\ ~x.Removing /\ x.wbio = <<>> /\ SameSink(t, x) /\ x.own = t.own
  /\ (IsHandshakeTerminated(t) => IsHandshakeTerminated(x))

(* The lower side but for its read *)
SameWriter(t, r) ==
  /\ r.Removing = t.Removing /\ r.up = t.up /\ r.LowerWriter = t.LowerWriter
  /\ r.flight = t.flight /\ r.written = t.written

LEMMA SoundKept ==
  ASSUME NEW t, NEW r \in TlsState, Sound(t), SamePipe(t, r), SameWriter(t, r),
         SinkInv(r), LeftInv(r), ReadInv(r)
  PROVE  Sound(r)
<1>1. InOrder(r) /\ CountInv(r)
  BY DEF Sound, SamePipe, SameWriter, InOrder, CountInv
<1>2. WriterInv(r)
  BY DEF Sound, SameWriter, WriterInv
<1> QED BY <1>1, <1>2 DEF Sound

(* Only the reading is changed before the stream is driven. *)
LEMMA BeginsSo ==
  ASSUME NEW t, NEW x \in TlsState, Sound(t), t.wbio = <<>>, ~t.Removing,
         SamePipe(t, x), SameWriter(t, x), SameSink(t, x), LeftInv(x), ReadInv(x),
         x.HandshakeCompleted = t.HandshakeCompleted, x.HandshakeResultQueued = t.HandshakeResultQueued
  PROVE  Begins(t, x)
<1>1. SinkInv(x)
  BY DEF Sound, SinkInv, SameSink
<1>2. Sound(x)
  BY <1>1, SoundKept
<1> QED BY <1>2 DEF Begins, SamePipe, SameWriter, IsHandshakeTerminated

LEMMA DriveResults ==
  ASSUME NEW t, NEW x, Sound(t), Begins(t, x)
  PROVE  Result(t, Drive(x))
<1> DEFINE r == Drive(x)
<1>1. Driven(x, r) /\ (IsHandshakeTerminated(x) => r.results = x.results)
  BY DriveDone DEF Begins
<1> HIDE DEF r
<1>2. Sound(x) /\ Sound(r) /\ Moved(x, r) /\ Steps(x, r)
  BY <1>1 DEF Begins, Driven, Moved, Steps
<1>3. Tells(t, r) /\ ~r.Removing
  BY <1>2 DEF Begins, SameSink, Steps, Tells
<1>4. IsHandshakeTerminated(t) => Len(r.results) <= Len(t.results)
  <2>1. Len(t.results) \in Nat
    BY LenProperties DEF Sound, TlsState
  <2>2. \A n \in Nat : n <= n
    OBVIOUS
  <2>3. IsHandshakeTerminated(t) => r.results = t.results
    BY <1>1 DEF Begins, SameSink
  <2> QED BY <2>1, <2>2, <2>3
<1>5. NoWrites(t, r) \/ r.made + t.own <= r.written + r.own
  <2>1. CASE NoWrites(x, r)
    BY <2>1 DEF NoWrites, Begins, SameSink
  <2>2. CASE r.made + x.own <= r.written + r.own + Len(x.wbio)
    <3>1. r.written \in Nat /\ r.own \in Nat /\ Len(x.wbio) = 0
      BY <1>2, NumbersOf DEF Begins
    <3>2. r.written + r.own + 0 = r.written + r.own
      BY <3>1
    <3> QED BY <2>2, <3>1, <3>2 DEF Begins
  <2> QED BY <1>2, <2>1, <2>2 DEF Moved, Pays
<1>6. t.own <= r.own
  BY <1>2 DEF Moved, Begins
<1>7. r.wbio = <<>> /\ Asked(r)
  BY <1>1 DEF Driven
<1> QED BY <1>2, <1>3, <1>4, <1>5, <1>6, <1>7 DEF Result, r

(* Nothing is added. *)
LEMMA StaysResult ==
  ASSUME NEW t, NEW r, Sound(t), Sound(r), r.wbio = <<>>, Asked(r), ~r.Removing, Tells(t, r),
         r.results = t.results, r.own = t.own
  PROVE  Result(t, r)
<1>1. NoWrites(t, r)
  BY NothingNew, NumbersOf
<1>2. Len(t.results) \in Nat /\ t.own \in Nat
  BY LenProperties DEF Sound, TlsState
<1>3. \A n \in Nat : n <= n
  OBVIOUS
<1>4. Len(r.results) <= Len(t.results) /\ t.own <= r.own
  BY <1>2, <1>3
<1> QED BY <1>1, <1>4 DEF Result

LEMMA ResultStep ==
  ASSUME IInv, NEW r, tls' = r, Result(tls, r), Usable, owner' \in {owner, "broken"},
         net' \in Seq(Records), peer' \in {"hs", "open", "bye", "fin", "err", "gone"}, sent' = sent,
         asked' \subseteq {"Handshake", "Read", "Write", "Shutdown"}
  PROVE  IInv' /\ OneTerminal /\ AnswerWritten
<1>1. Sound(tls) /\ Told /\ OwnerInv
  BY DEF IInv
<1>2. OneTerminal
  BY DEF Result, OneTerminal
<1>3. AnswerWritten
  <2>1. SUFFICES ASSUME AnswersWrite PROVE tls'.written + (tls'.own - tls.own) >= tls'.made
    BY DEF AnswerWritten
  <2>2. ~NoWrites(tls, r)
    BY <2>1 DEF AnswersWrite, NoWrites
  <2>3. r.made + tls.own <= r.written + r.own
    BY <2>2 DEF Result
  <2>4. r.made \in Nat /\ r.own \in Nat /\ r.written \in Nat /\ tls.own \in Nat
    BY <1>1, NumbersOf DEF Result
  <2> DEFINE a == r.made   b == r.own   c == r.written   d == tls.own
  <2> HIDE DEF a, b, c, d
  <2>5. a \in Nat /\ b \in Nat /\ c \in Nat /\ d \in Nat /\ a + d <= c + b
    BY ONLY <2>3, <2>4 DEF a, b, c, d
  <2>6. c + (b - d) >= a
    BY ONLY <2>5
  <2> QED BY <2>6 DEF a, b, c, d
<1>4. Sound(r) /\ r.wbio = <<>> /\ Asked(r) /\ ~r.Removing
  BY DEF Result
<1>5. owner # "closed" /\ owner' # "closed" /\ owner' \in {"idle", "serving", "broken"}
  BY DEF Usable
<1>6. Told'
  BY <1>1 DEF Told, Usable, Result, Tells
<1>7. OwnerInv'
  BY <1>1, <1>4, <1>5 DEF OwnerInv
<1>8. IInv'
  BY <1>4, <1>6, <1>7 DEF IInv
<1> QED BY <1>2, <1>3, <1>8

LEMMA NotClosed ==
  ASSUME IInv, Usable
  PROVE  ~tls.Removing /\ Sound(tls) /\ tls.wbio = <<>> /\ tls \in TlsState /\ OwnerInv /\ Told /\ Asked(tls)
BY DEF IInv, OwnerInv, Usable, Sound

LEMMA CalledStep ==
  ASSUME IInv, Usable, NEW x, Begins(tls, x), NEW op \in {"Handshake", "Read", "Write", "Shutdown"},
         Called(Drive(x), op)
  PROVE  IInv' /\ OneTerminal /\ AnswerWritten
<1> DEFINE r == Drive(x)
<1>1. Result(tls, r)
  BY NotClosed, DriveResults
<1>2. tls' = r /\ net' = net /\ peer' = peer /\ sent' = sent /\ owner' = owner
      /\ (asked' = asked \/ asked' = asked \cup {op})
  BY DEF Called
<1> HIDE DEF r
<1>3. asked' \subseteq {"Handshake", "Read", "Write", "Shutdown"}
  BY <1>2, NotClosed DEF OwnerInv
<1> QED BY <1>1, <1>2, <1>3, NotClosed, ResultStep DEF OwnerInv

LEMMA StartHandshakeStep ==
  ASSUME IInv, StartHandshake
  PROVE  IInv' /\ OneTerminal /\ AnswerWritten
<1> DEFINE x == [tls EXCEPT !.HandshakeStarted = TRUE]
<1>1. Usable /\ ~IsHandshakeTerminated(tls) /\ Called(Drive(x), "Handshake")
  BY DEF StartHandshake
<1>2. ~tls.Removing /\ Sound(tls) /\ tls.wbio = <<>> /\ tls \in TlsState
  BY <1>1, NotClosed
<1>3. x \in TlsState /\ SamePipe(tls, x)
  BY <1>2 DEF TlsState, SamePipe
<1>4. SameWriter(tls, x) /\ SameSink(tls, x)
  BY <1>2 DEF TlsState, SameWriter, SameSink
<1>5. /\ x.HandshakeCompleted = tls.HandshakeCompleted /\ x.HandshakeResultQueued = tls.HandshakeResultQueued
      /\ x.left = tls.left /\ x.LowerReadClosed = tls.LowerReadClosed /\ x.LowerReadPending = tls.LowerReadPending
      /\ x.HandshakeStarted
  BY <1>2 DEF TlsState
<1> HIDE DEF x
<1>6. LeftInv(x) /\ ReadInv(x)
  BY <1>2, <1>5 DEF Sound, LeftInv, ReadInv
<1>7. Begins(tls, x)
  BY <1>2, <1>3, <1>4, <1>5, <1>6, BeginsSo
<1> QED BY <1>1, <1>7, CalledStep

LEMMA StartReadStep ==
  ASSUME IInv, StartRead
  PROVE  IInv' /\ OneTerminal /\ AnswerWritten
<1> DEFINE x == [tls EXCEPT !.PlainReadPending = TRUE]
<1>1. Usable /\ Called(Drive(x), "Read")
  BY DEF StartRead
<1>2. ~tls.Removing /\ Sound(tls) /\ tls.wbio = <<>> /\ tls \in TlsState
  BY <1>1, NotClosed
<1>3. x \in TlsState /\ SamePipe(tls, x)
  BY <1>2 DEF TlsState, SamePipe
<1>4. SameWriter(tls, x) /\ SameSink(tls, x)
  BY <1>2 DEF TlsState, SameWriter, SameSink
<1>5. /\ x.HandshakeCompleted = tls.HandshakeCompleted /\ x.HandshakeResultQueued = tls.HandshakeResultQueued
      /\ x.left = tls.left /\ x.LowerReadClosed = tls.LowerReadClosed /\ x.LowerReadPending = tls.LowerReadPending
      /\ x.HandshakeStarted = tls.HandshakeStarted
  BY <1>2 DEF TlsState
<1> HIDE DEF x
<1>6. LeftInv(x) /\ ReadInv(x)
  BY <1>2, <1>5 DEF Sound, LeftInv, ReadInv
<1>7. Begins(tls, x)
  BY <1>2, <1>3, <1>4, <1>5, <1>6, BeginsSo
<1> QED BY <1>1, <1>7, CalledStep

LEMMA StartWriteStep ==
  ASSUME IInv, StartWrite
  PROVE  IInv' /\ OneTerminal /\ AnswerWritten
<1>1. Usable
  BY DEF StartWrite
<1>2. ~tls.Removing /\ Sound(tls) /\ tls.wbio = <<>> /\ tls \in TlsState
  BY <1>1, NotClosed
<1>3. PICK n \in Sizes :
        Called(Drive([tls EXCEPT !.PlainWritePending = TRUE, !.PlainWriteNeedsRead = FALSE, !.left = n]), "Write")
  BY DEF StartWrite
<1>4. n \in Nat /\ n <= n
  BY SizeAssumption
<1> DEFINE x == [tls EXCEPT !.PlainWritePending = TRUE, !.PlainWriteNeedsRead = FALSE, !.left = n]
<1>5. x \in TlsState /\ SamePipe(tls, x)
  BY <1>2, <1>4 DEF TlsState, SamePipe
<1>6. SameWriter(tls, x) /\ SameSink(tls, x)
  BY <1>2 DEF TlsState, SameWriter, SameSink
<1>7. /\ x.HandshakeCompleted = tls.HandshakeCompleted /\ x.HandshakeResultQueued = tls.HandshakeResultQueued
      /\ x.left = n /\ x.LowerReadClosed = tls.LowerReadClosed /\ x.LowerReadPending = tls.LowerReadPending
      /\ x.HandshakeStarted = tls.HandshakeStarted
  BY <1>2 DEF TlsState
<1>8. Called(Drive(x), "Write")
  BY <1>3
<1> HIDE DEF x
<1>9. LeftInv(x) /\ ReadInv(x)
  BY <1>2, <1>4, <1>7 DEF Sound, LeftInv, ReadInv
<1>10. Begins(tls, x)
  BY <1>2, <1>5, <1>6, <1>7, <1>9, BeginsSo
<1> QED BY <1>1, <1>8, <1>10, CalledStep

LEMMA ShutdownSendStep ==
  ASSUME IInv, ShutdownSend
  PROVE  IInv' /\ OneTerminal /\ AnswerWritten
<1> DEFINE x == [tls EXCEPT !.ShutdownPending = TRUE]
<1>1. Usable /\ Called(Drive(x), "Shutdown")
  BY DEF ShutdownSend
<1>2. ~tls.Removing /\ Sound(tls) /\ tls.wbio = <<>> /\ tls \in TlsState
  BY <1>1, NotClosed
<1>3. x \in TlsState /\ SamePipe(tls, x)
  BY <1>2 DEF TlsState, SamePipe
<1>4. SameWriter(tls, x) /\ SameSink(tls, x)
  BY <1>2 DEF TlsState, SameWriter, SameSink
<1>5. /\ x.HandshakeCompleted = tls.HandshakeCompleted /\ x.HandshakeResultQueued = tls.HandshakeResultQueued
      /\ x.left = tls.left /\ x.LowerReadClosed = tls.LowerReadClosed /\ x.LowerReadPending = tls.LowerReadPending
      /\ x.HandshakeStarted = tls.HandshakeStarted
  BY <1>2 DEF TlsState
<1> HIDE DEF x
<1>6. LeftInv(x) /\ ReadInv(x)
  BY <1>2, <1>5 DEF Sound, LeftInv, ReadInv
<1>7. Begins(tls, x)
  BY <1>2, <1>3, <1>4, <1>5, <1>6, BeginsSo
<1> QED BY <1>1, <1>7, CalledStep

LEMMA CloseStep ==
  ASSUME IInv, Close
  PROVE  IInv' /\ OneTerminal /\ AnswerWritten
<1> DEFINE e == <<>>
           q == Clear(tls.LowerWriter)
           d == ResetPlainWrite(ReadDone(tls))
           r == [d EXCEPT !.Removing = TRUE, !.ShutdownPending = FALSE, !.results = e,
                          !.ResultNotified = FALSE, !.ResultSink = FALSE, !.woken = FALSE,
                          !.adopted = 0, !.LowerWriter = q, !.flight = e]
<1>1. Sound(tls) /\ tls.wbio = <<>> /\ OwnerInv /\ tls \in TlsState
  BY DEF IInv, Sound
<1>2. Sound(d) /\ d \in TlsState /\ d.wbio = <<>> /\ d.LowerWriter = tls.LowerWriter
  <2>1. Quiet(tls, ReadDone(tls)) /\ SamePipe(tls, ReadDone(tls))
    BY <1>1, ReadDoneIsQuiet
  <2>2. Quiet(ReadDone(tls), d) /\ SamePipe(ReadDone(tls), d)
    BY <2>1, ResetIsQuiet DEF Quiet
  <2> QED BY <1>1, <2>1, <2>2 DEF Quiet, SamePipe, SameLower, Sound
<1>3. d.left = 0
  <2>1. ReadDone(tls) \in TlsState
    BY <1>1, ReadDoneIsQuiet DEF Quiet, Sound
  <2> HIDE DEF d
  <2>2. d = ResetPlainWrite(ReadDone(tls))
    BY DEF d
  <2> QED BY <2>1, <2>2 DEF ResetPlainWrite, TlsState
<1>4. e \in Seq(Nat) /\ e \in Seq(Chain) /\ e \in Seq(Operation) /\ e = <<>> /\ Len(e) = 0
  OBVIOUS
<1>5. q \in QueueState /\ q.attached /\ q.Queue = <<>> /\ q.QueuedBytes = 0 /\ ~q.WritePending
  <2> DEFINE w == Returns(tls.LowerWriter, TRUE)
             v == [w EXCEPT !.Queue = e, !.QueuedBytes = 0, !.WritePending = FALSE]
  <2>1. q = v
    BY DEF Clear
  <2>2. w \in QueueState /\ w.attached
    <3>1. tls.LowerWriter \in QueueState /\ tls.LowerWriter.attached
      BY <1>1, NumbersOf DEF QueueInv
    <3>2. w \in QueueState /\ w.attached = tls.LowerWriter.attached
      BY <3>1, ReturnsTyped
    <3> QED BY <3>1, <3>2
  <2> HIDE DEF w, e
  <2>3. v \in QueueState /\ v.attached = w.attached /\ v.Queue = e /\ v.QueuedBytes = 0 /\ ~v.WritePending
    BY <1>4, <2>2 DEF QueueState
  <2> QED BY <1>4, <2>1, <2>2, <2>3
<1>6. /\ tls' = r /\ owner # "closed" /\ owner' = "closed" /\ asked' = {} /\ net' = net /\ peer' = peer /\ sent' = sent
  BY <1>2 DEF Close
<1> HIDE DEF e, q, d
<1>7. r \in TlsState
  <2> DEFINE f == [d EXCEPT !.Removing = TRUE, !.ShutdownPending = FALSE, !.ResultNotified = FALSE]
             g == [f EXCEPT !.ResultSink = FALSE, !.woken = FALSE]
             h == [g EXCEPT !.results = e, !.adopted = 0]
             k == [h EXCEPT !.LowerWriter = q, !.flight = e]
  <2>1. d \in TlsState
    BY <1>2
  <2>2. f \in TlsState
    BY ONLY <2>1 DEF TlsState
  <2>3. r = k
    BY DEF r
  <2> HIDE DEF f, r
  <2>4. g \in TlsState
    BY ONLY <2>2 DEF TlsState
  <2> HIDE DEF g
  <2>5. h \in TlsState
    BY ONLY <2>4, <1>4 DEF TlsState
  <2> HIDE DEF h
  <2>6. k \in TlsState
    BY ONLY <2>5, <1>4, <1>5 DEF TlsState
  <2> QED BY <2>3, <2>6
<1>8. r.Removing /\ r.results = e /\ ~r.ResultNotified /\ r.LowerWriter = q /\ r.flight = e
  BY ONLY <1>2, <1>4, <1>5 DEF TlsState
<1>9. /\ r.wbio = d.wbio /\ r.made = d.made /\ r.own = d.own /\ r.written = d.written /\ r.left = d.left
      /\ r.LowerReadPending = d.LowerReadPending /\ r.LowerReadClosed = d.LowerReadClosed
      /\ r.HandshakeStarted = d.HandshakeStarted /\ r.HandshakeResultQueued = d.HandshakeResultQueued
  BY ONLY <1>2, <1>4, <1>5 DEF TlsState
<1> HIDE DEF r
<1>10. Sound(r)
  <2>1. Waiting(q) = <<>>
    BY <1>5, NoChains DEF Waiting
  <2>2. WriterInv(r)
    BY <1>4, <1>5, <1>8, <2>1 DEF WriterInv
  <2>3. CountInv(r)
    <3>1. d.own \in Nat /\ BatchLimit \in Nat /\ d.own <= d.made /\ d.written <= d.made
      BY <1>2, NumbersOf, SizeAssumption
    <3>2. Len(r.wbio) = 0 /\ q.QueuedBytes = 0 /\ 0 + 0 <= BatchLimit + d.own
      BY <1>2, <1>5, <1>9, <3>1
    <3> QED BY <1>8, <1>9, <3>1, <3>2 DEF CountInv
  <2>4. InOrder(r) /\ SinkInv(r) /\ LeftInv(r) /\ ReadInv(r)
    BY <1>2, <1>3, <1>4, <1>8, <1>9 DEF Sound, InOrder, SinkInv, LeftInv, ReadInv
  <2> QED BY <1>7, <2>2, <2>3, <2>4 DEF Sound
<1>11. Asked(r) /\ r.wbio = <<>>
  BY <1>2, <1>8, <1>9 DEF Asked
<1>12. Told' /\ OwnerInv'
  BY <1>1, <1>6, <1>8 DEF Told, Usable, OwnerInv
<1>13. IInv'
  BY <1>6, <1>10, <1>11, <1>12 DEF IInv
<1>14. OneTerminal /\ AnswerWritten
  <2>1. Len(tls.results) \in Nat /\ Len(tls'.results) = 0
    BY <1>1, <1>4, <1>6, <1>8, LenProperties DEF TlsState
  <2>2. \A n \in Nat : 0 <= n /\ ~(\E i \in n + 1..0 : TRUE)
    OBVIOUS
  <2>3. OneTerminal
    BY <2>1, <2>2 DEF OneTerminal
  <2>4. ~AnswersWrite
    BY <2>1, <2>2 DEF AnswersWrite
  <2> QED BY <2>3, <2>4 DEF AnswerWritten
<1> QED BY <1>13, <1>14

LEMMA AdoptReadStep ==
  ASSUME IInv, AdoptPendingLowerRead
  PROVE  IInv' /\ OneTerminal /\ AnswerWritten
<1> DEFINE x == [tls EXCEPT !.LowerReadPending = TRUE]
<1>1. /\ Usable /\ ~tls.LowerReadClosed /\ tls' = x
      /\ net' = net /\ peer' = peer /\ sent' = sent /\ asked' = asked /\ owner' = owner
  BY DEF AdoptPendingLowerRead
<1>2. ~tls.Removing /\ Sound(tls) /\ tls.wbio = <<>> /\ tls \in TlsState /\ OwnerInv
  BY <1>1, NotClosed
<1>3. x \in TlsState /\ SamePipe(tls, x)
  BY <1>2 DEF TlsState, SamePipe
<1>4. SameWriter(tls, x) /\ SameSink(tls, x)
  BY <1>2 DEF TlsState, SameWriter, SameSink
<1>5. /\ x.HandshakeCompleted = tls.HandshakeCompleted /\ x.HandshakeResultQueued = tls.HandshakeResultQueued
      /\ x.left = tls.left /\ x.LowerReadClosed = tls.LowerReadClosed /\ x.LowerReadPending
      /\ x.HandshakeStarted = tls.HandshakeStarted
  BY <1>2 DEF TlsState
<1> HIDE DEF x
<1>6. LeftInv(x) /\ ReadInv(x)
  BY <1>1, <1>2, <1>5 DEF Sound, LeftInv, ReadInv
<1>7. Begins(tls, x)
  BY <1>2, <1>3, <1>4, <1>5, <1>6, BeginsSo
<1>8. Result(tls, x)
  BY <1>2, <1>4, <1>5, <1>7, StaysResult DEF Begins, Asked, SameSink, Tells
<1> QED BY <1>1, <1>2, <1>8, ResultStep DEF OwnerInv

(* The library is fed. *)
LEMMA Fed ==
  ASSUME NEW t, Sound(t), net \in Seq(Records), NEW n \in 1..Len(net)
  PROVE  LET r == Feed(t, n) IN
         /\ Library(t, r) /\ SamePipe(t, r)
         /\ SubSeq(net, n + 1, Len(net)) \in Seq(Records)
<1> DEFINE s == SubSeq(net, 1, n)
           w == t.rbio \o s
           r == [t EXCEPT !.rbio = w]
<1>1. t \in TlsState /\ t.rbio \in Seq(Records) /\ Len(net) \in Nat
  BY LenProperties DEF Sound, TlsState
<1>2. \A i \in Nat : \A j \in 1..i : j \in Nat /\ 1..j \subseteq 1..i /\ (j + 1)..i \subseteq 1..i /\ 1 \in Nat /\ j + 1 \in Nat
  OBVIOUS
<1>3. s \in Seq(Records) /\ SubSeq(net, n + 1, Len(net)) \in Seq(Records)
  <2>1. \A i \in 1..Len(net) : net[i] \in Records
    BY ElementOfSeq
  <2>2. 1..n \subseteq 1..Len(net) /\ (n + 1)..Len(net) \subseteq 1..Len(net) /\ n \in Nat /\ n + 1 \in Nat
    BY <1>1, <1>2
  <2> QED BY <1>1, <2>1, <2>2, SubSeqProperties
<1>4. w \in Seq(Records)
  BY <1>1, <1>3, ConcatProperties
<1>5. Feed(t, n) = r
  BY DEF Feed
<1> HIDE DEF w, s
<1>6. r \in TlsState /\ SamePipe(t, r)
  BY <1>1, <1>4 DEF TlsState, SamePipe
<1>7. SameLower(t, r) /\ SameSink(t, r)
  BY <1>1 DEF TlsState, SameLower, SameSink
<1>8. SameStream(t, r)
  BY <1>1, <1>7 DEF TlsState, SameStream
<1> HIDE DEF r
<1>9. Library(t, r)
  BY <1>6, <1>8, LibrarySet
<1> QED BY <1>3, <1>5, <1>6, <1>9

LEMMA FeedStep ==
  ASSUME IInv, FeedEncryptedInput
  PROVE  IInv' /\ OneTerminal /\ AnswerWritten
<1>1. Usable /\ ~tls.HandshakeCompleted
  BY DEF FeedEncryptedInput
<1>2. ~tls.Removing /\ Sound(tls) /\ tls.wbio = <<>> /\ tls \in TlsState /\ OwnerInv /\ Asked(tls)
  BY <1>1, NotClosed
<1>3. PICK n \in 1..Len(net) :
        /\ tls' = IF tls.HandshakeStarted THEN Drive(Feed(tls, n)) ELSE Feed(tls, n)
        /\ net' = SubSeq(net, n + 1, Len(net))
  BY DEF FeedEncryptedInput
<1>4. peer' = peer /\ sent' = sent /\ asked' = asked /\ owner' \in {owner, "broken"}
  BY DEF FeedEncryptedInput
<1> DEFINE x == Feed(tls, n)
<1>5. Library(tls, x) /\ SamePipe(tls, x) /\ net' \in Seq(Records)
  BY <1>2, <1>3, Fed DEF OwnerInv
<1> HIDE DEF x
<1>6. Begins(tls, x)
  BY <1>2, <1>5 DEF Library, Quiet, SameStream, SameLower, SamePipe, Begins, IsHandshakeTerminated
<1>7. CASE tls.HandshakeStarted
  <2>1. Result(tls, Drive(x))
    BY <1>2, <1>6, DriveResults
  <2>2. tls' = Drive(x)
    BY <1>3, <1>7 DEF x
  <2> QED BY <1>1, <1>2, <1>4, <1>5, <2>1, <2>2, ResultStep DEF OwnerInv
<1>8. CASE ~tls.HandshakeStarted
  <2>1. Asked(x)
    BY <1>1, <1>5, <1>8 DEF Library, SameStream, SameLower, Asked, NeedsInput
  <2>2. Result(tls, x)
    BY <1>2, <1>6, <2>1, StaysResult DEF Begins, SameSink, Tells
  <2>3. tls' = x
    BY <1>3, <1>8 DEF x
  <2> QED BY <1>1, <1>2, <1>4, <1>5, <2>2, <2>3, ResultStep DEF OwnerInv
<1> QED BY <1>7, <1>8

LEMMA SetSinkStep ==
  ASSUME IInv, SetResultSink
  PROVE  IInv' /\ OneTerminal /\ AnswerWritten
<1> DEFINE b == tls.results # <<>>
           x == [tls EXCEPT !.ResultSink = TRUE, !.ResultNotified = b, !.woken = b]
<1>1. /\ Usable /\ ~tls.ResultSink /\ tls' = x
      /\ net' = net /\ peer' = peer /\ sent' = sent /\ asked' = asked /\ owner' = owner
  BY DEF SetResultSink
<1>2. /\ ~tls.Removing /\ Sound(tls) /\ tls.wbio = <<>> /\ tls \in TlsState /\ OwnerInv /\ Asked(tls)
      /\ ~tls.ResultNotified
  BY <1>1, NotClosed DEF Sound, SinkInv
<1>3. b \in BOOLEAN /\ (b <=> tls.results # <<>>)
  OBVIOUS
<1> HIDE DEF b
<1>4. x \in TlsState
  BY ONLY <1>2, <1>3 DEF TlsState
<1>5. x.ResultSink /\ x.ResultNotified = b /\ x.results = tls.results
  BY ONLY <1>2, <1>3 DEF TlsState
<1>6. SamePipe(tls, x) /\ SameLower(tls, x) /\ x.left = tls.left
  BY <1>2 DEF TlsState, SamePipe, SameLower
<1>7. /\ x.HandshakeCompleted = tls.HandshakeCompleted /\ x.HandshakeResultQueued = tls.HandshakeResultQueued
      /\ x.PlainReadPending = tls.PlainReadPending /\ x.PlainWriteNeedsRead = tls.PlainWriteNeedsRead
      /\ x.ShutdownPending = tls.ShutdownPending
  BY <1>2 DEF TlsState
<1>8. x.woken = b
  BY ONLY <1>2, <1>3 DEF TlsState
<1> HIDE DEF x
<1>9. SinkInv(x) /\ LeftInv(x) /\ ReadInv(x)
  BY <1>2, <1>3, <1>5, <1>6, <1>7 DEF Sound, SinkInv, LeftInv, ReadInv, SameLower
<1>10. Sound(x)
  BY <1>2, <1>4, <1>6, <1>9, SoundStays
<1>11. Asked(x)
  BY <1>2, <1>6, <1>7 DEF Asked, NeedsInput, IsHandshakeTerminated, SameLower
<1>12. Told'
  BY <1>1, <1>5, <1>8 DEF Told
<1>13. ~x.Removing /\ x.wbio = <<>>
  BY <1>2, <1>6 DEF SamePipe, SameLower
<1>14. OwnerInv'
  BY <1>1, <1>2, <1>13 DEF OwnerInv
<1>15. IInv'
  BY <1>1, <1>10, <1>11, <1>12, <1>13, <1>14 DEF IInv
<1>16. Len(tls.results) \in Nat /\ Len(tls'.results) = Len(tls.results)
  BY <1>1, <1>2, <1>5, LenProperties DEF TlsState
<1>17. \A n \in Nat : n <= n /\ ~(\E i \in n + 1..n : TRUE)
  OBVIOUS
<1>18. OneTerminal /\ ~AnswersWrite
  BY <1>16, <1>17 DEF OneTerminal, AnswersWrite
<1> QED BY <1>15, <1>18 DEF AnswerWritten

(* What the owner does with the results answers nothing. *)
LEMMA Collected ==
  ASSUME IInv, NEW x \in TlsState, tls' = x, SamePipe(tls, x), SameLower(tls, x), x.left = tls.left,
         x.HandshakeCompleted = tls.HandshakeCompleted, x.HandshakeResultQueued = tls.HandshakeResultQueued,
         x.PlainReadPending = tls.PlainReadPending, x.PlainWriteNeedsRead = tls.PlainWriteNeedsRead,
         x.ShutdownPending = tls.ShutdownPending, SinkInv(x), Len(x.results) <= Len(tls.results),
         net' = net, peer' = peer, sent' = sent, Told', asked' \subseteq asked,
         owner' \in {"idle", "serving", "broken"}, Usable
  PROVE  IInv' /\ OneTerminal /\ AnswerWritten
<1>1. ~tls.Removing /\ Sound(tls) /\ tls.wbio = <<>> /\ tls \in TlsState /\ OwnerInv /\ Asked(tls)
  BY NotClosed
<1>2. LeftInv(x) /\ ReadInv(x)
  BY <1>1 DEF Sound, LeftInv, ReadInv, SameLower
<1>3. Sound(x)
  BY <1>1, <1>2, SoundStays
<1>4. Asked(x) /\ ~x.Removing /\ x.wbio = <<>>
  BY <1>1 DEF Asked, NeedsInput, IsHandshakeTerminated, SameLower, SamePipe
<1>5. OwnerInv'
  BY <1>1, <1>4 DEF OwnerInv
<1>6. IInv'
  BY <1>3, <1>4, <1>5 DEF IInv
<1>7. Len(tls.results) \in Nat /\ Len(x.results) \in Nat
  BY <1>1, LenProperties DEF TlsState
<1>8. \A m, n \in Nat : m <= n => ~(\E i \in n + 1..m : TRUE)
  OBVIOUS
<1>9. OneTerminal /\ ~AnswersWrite
  BY <1>7, <1>8 DEF OneTerminal, AnswersWrite
<1> QED BY <1>6, <1>9 DEF AnswerWritten

LEMMA WakesStep ==
  ASSUME IInv, Wakes
  PROVE  IInv' /\ OneTerminal /\ AnswerWritten
<1> DEFINE x == [tls EXCEPT !.woken = FALSE]
<1>1. /\ Usable /\ tls' = x /\ owner' = "serving"
      /\ net' = net /\ peer' = peer /\ sent' = sent /\ asked' = asked
  BY DEF Wakes, Usable
<1>2. Sound(tls) /\ tls \in TlsState
  BY <1>1, NotClosed
<1>3. x \in TlsState /\ SamePipe(tls, x)
  BY <1>2 DEF TlsState, SamePipe
<1>4. SameLower(tls, x) /\ x.left = tls.left
  BY <1>2 DEF TlsState, SameLower
<1>5. /\ x.HandshakeCompleted = tls.HandshakeCompleted /\ x.HandshakeResultQueued = tls.HandshakeResultQueued
      /\ x.PlainReadPending = tls.PlainReadPending /\ x.PlainWriteNeedsRead = tls.PlainWriteNeedsRead
      /\ x.ShutdownPending = tls.ShutdownPending
  BY <1>2 DEF TlsState
<1>6. x.results = tls.results /\ x.ResultSink = tls.ResultSink /\ x.ResultNotified = tls.ResultNotified
  BY <1>2 DEF TlsState
<1> HIDE DEF x
<1>7. SinkInv(x)
  BY <1>2, <1>6 DEF Sound, SinkInv
<1>8. Len(x.results) <= Len(tls.results)
  <2>1. Len(tls.results) \in Nat
    BY <1>2, LenProperties DEF TlsState
  <2>2. \A n \in Nat : n <= n
    OBVIOUS
  <2> QED BY <1>6, <2>1, <2>2
<1>9. Told'
  BY <1>1 DEF Told
<1> QED BY <1>1, <1>3, <1>4, <1>5, <1>7, <1>8, <1>9, Collected

LEMMA PopStep ==
  ASSUME IInv, PopPendingResult
  PROVE  IInv' /\ OneTerminal /\ AnswerWritten
<1>1. owner = "serving" /\ Usable /\ net' = net /\ peer' = peer /\ sent' = sent
  BY DEF PopPendingResult, Usable
<1>2. Sound(tls) /\ tls \in TlsState /\ tls.results \in Seq(Operation) /\ Len(tls.results) \in Nat
  BY <1>1, NotClosed, LenProperties DEF TlsState
<1>3. CASE tls.results = <<>> /\ tls' = [tls EXCEPT !.ResultNotified = FALSE] /\ owner' = "idle" /\ asked' = asked
  <2> DEFINE x == [tls EXCEPT !.ResultNotified = FALSE]
  <2>1. tls' = x
    BY <1>3
  <2>2. x \in TlsState /\ SamePipe(tls, x)
    BY <1>2 DEF TlsState, SamePipe
  <2>3. SameLower(tls, x) /\ x.left = tls.left
    BY <1>2 DEF TlsState, SameLower
  <2>4. /\ x.HandshakeCompleted = tls.HandshakeCompleted /\ x.HandshakeResultQueued = tls.HandshakeResultQueued
        /\ x.PlainReadPending = tls.PlainReadPending /\ x.PlainWriteNeedsRead = tls.PlainWriteNeedsRead
        /\ x.ShutdownPending = tls.ShutdownPending
    BY <1>2 DEF TlsState
  <2>5. x.results = tls.results /\ ~x.ResultNotified
    BY <1>2 DEF TlsState
  <2> HIDE DEF x
  <2>6. SinkInv(x)
    BY <1>3, <2>5 DEF SinkInv
  <2>7. Len(x.results) <= Len(tls.results)
    <3>1. \A n \in Nat : n <= n
      OBVIOUS
    <3> QED BY <1>2, <2>5, <3>1
  <2>8. Told'
    BY <2>1, <2>5 DEF Told
  <2> QED BY <1>1, <1>3, <2>1, <2>2, <2>3, <2>4, <2>6, <2>7, <2>8, Collected
<1>4. CASE /\ tls.results # <<>> /\ tls' = Popped(tls)
           /\ owner' = IF Ended(tls) THEN "broken" ELSE owner
           /\ asked' = IF Ended(tls) THEN {} ELSE asked \ Ends(Head(tls.results))
  <2> DEFINE s == Tail(tls.results)
             b == tls.ResultNotified /\ Len(tls.results) > 1
             x == [tls EXCEPT !.results = s, !.ResultNotified = b]
  <2>1. tls' = x
    BY <1>2, <1>4 DEF Popped, TlsState
  <2>2. s \in Seq(Operation) /\ Len(s) = Len(tls.results) - 1 /\ b \in BOOLEAN
    BY <1>2, <1>4, HeadTailProperties
  <2>3. b <=> tls.ResultNotified /\ s # <<>>
    <3>1. s # <<>> <=> Len(s) # 0
      BY <2>2, EmptySeq
    <3>2. Len(s) # 0 <=> Len(tls.results) > 1
      <4>1. Len(s) \in Nat
        BY <2>2, LenProperties
      <4> DEFINE m == Len(tls.results)   k == Len(s)
      <4>2. m \in Nat /\ k \in Nat /\ k = m - 1
        BY <1>2, <2>2, <4>1
      <4> HIDE DEF m, k
      <4>3. k # 0 <=> m > 1
        BY ONLY <4>2
      <4> QED BY <4>3 DEF m, k
    <3> QED BY <3>1, <3>2
  <2>4. Len(s) <= Len(tls.results)
    BY <1>2, <2>2
  <2> HIDE DEF s, b
  <2>5. x \in TlsState
    BY ONLY <1>2, <2>2 DEF TlsState
  <2>6. x.results = s /\ x.ResultNotified = b /\ x.ResultSink = tls.ResultSink
    BY ONLY <1>2, <2>2 DEF TlsState
  <2>7. SamePipe(tls, x) /\ SameLower(tls, x) /\ x.left = tls.left
    BY <1>2 DEF TlsState, SamePipe, SameLower
  <2>8. /\ x.HandshakeCompleted = tls.HandshakeCompleted /\ x.HandshakeResultQueued = tls.HandshakeResultQueued
        /\ x.PlainReadPending = tls.PlainReadPending /\ x.PlainWriteNeedsRead = tls.PlainWriteNeedsRead
        /\ x.ShutdownPending = tls.ShutdownPending
    BY <1>2 DEF TlsState
  <2> HIDE DEF x
  <2>9. SinkInv(x)
    BY <1>2, <1>4, <2>3, <2>6 DEF Sound, SinkInv
  <2>10. Told' /\ asked' \subseteq asked /\ owner' \in {"idle", "serving", "broken"}
    BY <1>1, <1>4 DEF Told, Usable
  <2> QED BY <1>1, <2>1, <2>4, <2>5, <2>6, <2>7, <2>8, <2>9, <2>10, Collected
<1> QED BY <1>3, <1>4 DEF PopPendingResult

LEMMA NoResultStep ==
  ASSUME IInv, HasNoPendingResult
  PROVE  IInv' /\ OneTerminal /\ AnswerWritten
<1>1. /\ owner = "serving" /\ Usable /\ tls.results = <<>> /\ owner' = "idle" /\ tls' = tls /\ net' = net /\ peer' = peer
      /\ sent' = sent /\ asked' = asked
  BY DEF HasNoPendingResult, Usable
<1>2. Sound(tls) /\ tls \in TlsState /\ Len(tls.results) \in Nat /\ SinkInv(tls) /\ ~tls.ResultNotified
  BY <1>1, NotClosed, LenProperties DEF TlsState, Sound, SinkInv
<1>3. \A n \in Nat : n <= n
  OBVIOUS
<1>4. Told'
  BY <1>1, <1>2 DEF Told
<1> QED BY <1>1, <1>2, <1>3, <1>4, Collected DEF SamePipe, SameLower

(* Steps that leave the stream alone *)
LEMMA StreamStays ==
  ASSUME IInv, tls' = tls, owner' = owner, net' \in Seq(Records),
         peer' \in {"hs", "open", "bye", "fin", "err", "gone"}, sent' \in 0..MaxRecords, asked' \subseteq asked
  PROVE  IInv' /\ OneTerminal /\ AnswerWritten
<1>1. Sound(tls) /\ tls.wbio = <<>> /\ Asked(tls) /\ Told /\ OwnerInv /\ tls \in TlsState
  BY DEF IInv, Sound
<1>2. Told' /\ OwnerInv'
  BY <1>1 DEF Told, Usable, OwnerInv
<1>3. IInv'
  BY <1>1, <1>2 DEF IInv
<1>4. Len(tls.results) \in Nat
  BY <1>1, LenProperties DEF TlsState
<1>5. \A n \in Nat : n <= n /\ ~(\E i \in n + 1..n : TRUE)
  OBVIOUS
<1>6. OneTerminal /\ ~AnswersWrite
  BY <1>4, <1>5 DEF OneTerminal, AnswersWrite
<1> QED BY <1>3, <1>6 DEF AnswerWritten

LEMMA OutsideStep ==
  ASSUME IInv, IsShutdownCompleted \/ PeerSends \/ PeerShutsDown
  PROVE  IInv' /\ OneTerminal /\ AnswerWritten
<1>1. net \in Seq(Records) /\ peer \in {"hs", "open", "bye", "fin", "err", "gone"} /\ sent \in 0..MaxRecords
  BY DEF IInv, OwnerInv
<1>2. CASE IsShutdownCompleted
  BY <1>1, <1>2, StreamStays DEF IsShutdownCompleted
<1>3. CASE PeerShutsDown
  BY <1>1, <1>3, StreamStays DEF PeerShutsDown
<1>4. CASE PeerSends
  <2>1. PICK r \in Records, state \in {"hs", "open", "bye"} : Sends(r, state)
    BY <1>4 DEF PeerSends, Records
  <2>2. /\ sent < MaxRecords /\ net' = Append(net, r) /\ sent' = sent + 1 /\ peer' = state
        /\ tls' = tls /\ asked' = asked /\ owner' = owner
    BY <2>1 DEF Sends
  <2>3. MaxRecords \in Nat
    BY BoundAssumption
  <2>4. net' \in Seq(Records) /\ sent' \in 0..MaxRecords
    BY <1>1, <2>2, <2>3, AppendProperties
  <2> QED BY <2>2, <2>4, StreamStays
<1> QED BY <1>2, <1>3, <1>4

LEMMA ProcessedStep ==
  ASSUME IInv, Usable, NEW r, Result(tls, r), Processed(r), net' \in Seq(Records),
         peer' \in {"hs", "open", "bye", "fin", "err", "gone"}
  PROVE  IInv' /\ OneTerminal /\ AnswerWritten
<1>1. tls' = r /\ owner' \in {owner, "broken"} /\ sent' = sent /\ asked' = asked
  BY DEF Processed
<1> QED BY <1>1, NotClosed, ResultStep DEF OwnerInv

LEMMA LowerReadStep ==
  ASSUME IInv, LowerRead
  PROVE  IInv' /\ OneTerminal /\ AnswerWritten
<1> DEFINE y == [tls EXCEPT !.LowerReadPending = FALSE]
<1>1. Usable /\ peer' = peer
  BY DEF LowerRead
<1>2. PICK n \in 1..Len(net) : Processed(Drive(Feed(y, n))) /\ net' = SubSeq(net, n + 1, Len(net))
  BY DEF LowerRead
<1>3. ~tls.Removing /\ Sound(tls) /\ tls.wbio = <<>> /\ tls \in TlsState /\ OwnerInv
  BY <1>1, NotClosed
<1>4. y \in TlsState /\ SamePipe(tls, y)
  BY <1>3 DEF TlsState, SamePipe
<1>5. SameWriter(tls, y) /\ SameSink(tls, y)
  BY <1>3 DEF TlsState, SameWriter, SameSink
<1>6. /\ y.HandshakeCompleted = tls.HandshakeCompleted /\ y.HandshakeResultQueued = tls.HandshakeResultQueued
      /\ y.left = tls.left /\ y.LowerReadClosed = tls.LowerReadClosed /\ ~y.LowerReadPending
      /\ y.HandshakeStarted = tls.HandshakeStarted
  BY <1>3 DEF TlsState
<1> HIDE DEF y
<1>7. LeftInv(y) /\ ReadInv(y)
  BY <1>3, <1>6 DEF Sound, LeftInv, ReadInv
<1>8. Begins(tls, y)
  BY <1>3, <1>4, <1>5, <1>6, <1>7, BeginsSo
<1> DEFINE x == Feed(y, n)
<1>9. Library(y, x) /\ SamePipe(y, x) /\ net' \in Seq(Records)
  BY <1>2, <1>3, <1>8, Fed DEF OwnerInv, Begins
<1> HIDE DEF x
<1>10. Begins(tls, x)
  BY <1>8, <1>9 DEF Library, Quiet, SameStream, SameLower, SamePipe, SameSink, Begins, IsHandshakeTerminated
<1>11. Result(tls, Drive(x))
  BY <1>3, <1>10, DriveResults
<1>12. Processed(Drive(x))
  BY <1>2 DEF x
<1> QED BY <1>1, <1>3, <1>9, <1>11, <1>12, ProcessedStep DEF OwnerInv

(* The chain in front is written, and the next one handed over. *)
LEMMA ChainWritten ==
  ASSUME NEW t, Sound(t), ~t.Removing, t.wbio = <<>>, t.flight # <<>>
  PROVE  LET c == CompleteLowerWrite(t) IN Begins(t, c) /\ (c.up => c.ok)
<1> DEFINE e == <<>>
           l == t.flight
           w == t.written + Len(l)
           f == [t EXCEPT !.flight = e, !.written = w]
           a == Accepts(f)
           q == OnWriteCompleted(t.LowerWriter, Len(l), a)
           p == PutDown(f, q)
           c == CompleteLowerWrite(t)
           k == [f EXCEPT !.LowerWriter = q]
<1>1. c = Then(p, CompleteLowerShutdown)
  BY DEF CompleteLowerWrite
<1>2. /\ t \in TlsState /\ t.own \in Nat /\ t.made \in Nat /\ t.written \in Nat /\ t.own <= t.made /\ t.written <= t.made
      /\ QueueInv(t.LowerWriter) /\ Waiting(t.LowerWriter) \in Seq(Nat) /\ t.LowerWriter.QueuedBytes \in Nat
      /\ t.LowerWriter.QueuedBytes + Len(t.wbio) <= BatchLimit + t.own
  BY NumbersOf DEF Sound, CountInv
<1>3. t.LowerWriter.WritePending /\ l = Head(t.LowerWriter.Queue)
  BY DEF Sound, WriterInv
<1>4. e \in Seq(Nat) /\ e = <<>> /\ Len(e) = 0
  OBVIOUS
<1>5. a \in BOOLEAN
  BY DEF Accepts
<1>6. q = OnWriteCompleted(t.LowerWriter, Len(Head(t.LowerWriter.Queue)), a)
  BY <1>3
<1>7. w = t.written + Len(l)
  OBVIOUS
<1>8. a <=> f.up /\ f.flight = <<>>
  BY DEF Accepts
<1>9. p = PutDown(f, q)
  OBVIOUS
<1> HIDE DEF q, a, c, e, l, w, p
<1>10. /\ QueueInv(q) /\ Waiting(t.LowerWriter) = l \o Waiting(q) /\ l \in Seq(Nat) /\ Waiting(q) \in Seq(Nat)
       /\ t.LowerWriter.QueuedBytes = Len(l) + q.QueuedBytes
       /\ \/ q.handed = <<>> /\ ~q.WritePending
          \/ q.WritePending /\ q.handed = Head(q.Queue) /\ q.handed # <<>>
       /\ (a => q.ok /\ (q.Queue # <<>> => q.WritePending))
  BY <1>2, <1>3, <1>5, <1>6, CompletedHands
<1>11. l \o Waiting(q) = Run(t.written, t.made)
  <2>1. Waiting(t.LowerWriter) \o t.wbio = Run(t.written, t.made)
    BY DEF Sound, InOrder
  <2>2. Waiting(t.LowerWriter) \o t.wbio = Waiting(t.LowerWriter)
    BY <1>2, NothingAdded
  <2> QED BY <1>10, <2>1, <2>2
<1>12. w \in Nat /\ w <= t.made /\ Waiting(q) = Run(w, t.made)
  <2> DEFINE s == Waiting(q)   v == t.written   m == t.made
  <2>1. l \in Seq(Nat) /\ s \in Seq(Nat) /\ v \in Nat /\ m \in Nat /\ v <= m /\ l \o s = Run(v, m)
    BY <1>2, <1>10, <1>11
  <2> HIDE DEF s, v, m
  <2>2. w = v + Len(l)
    BY <1>7 DEF v
  <2>3. v + Len(l) \in Nat /\ v + Len(l) <= m
    BY ONLY <2>1, RunRest
  <2>4. s = Run(v + Len(l), m)
    BY ONLY <2>1, RunCut
  <2>5. w \in Nat /\ w <= m /\ s = Run(w, m)
    BY ONLY <2>2, <2>3, <2>4
  <2> QED BY <2>5 DEF s, m
<1>13. f \in TlsState /\ f.flight = e /\ f.written = w /\ f.wbio = t.wbio /\ f.made = t.made /\ f.own = t.own
  <2>1. t \in TlsState /\ e \in Seq(Nat) /\ w \in Nat
    BY <1>2, <1>4, <1>12
  <2>2. f \in TlsState
    BY ONLY <2>1 DEF TlsState
  <2>3. f.flight = e /\ f.written = w /\ f.wbio = t.wbio /\ f.made = t.made /\ f.own = t.own
    BY ONLY <2>1 DEF TlsState
  <2> QED BY <2>2, <2>3
<1>14. SameSink(t, f)
  BY <1>2 DEF TlsState, SameSink
<1>15. /\ f.Removing = t.Removing /\ f.up = t.up
       /\ f.LowerReadPending = t.LowerReadPending /\ f.LowerReadClosed = t.LowerReadClosed
       /\ f.HandshakeStarted = t.HandshakeStarted /\ f.HandshakeCompleted = t.HandshakeCompleted
       /\ f.HandshakeResultQueued = t.HandshakeResultQueued /\ f.left = t.left
  BY <1>2 DEF TlsState
<1> HIDE DEF f
<1>16. a <=> t.up
  BY <1>4, <1>8, <1>13, <1>15
<1>17. k.LowerWriter = q /\ k.wbio = f.wbio /\ k.written = f.written /\ k.made = f.made
  BY <1>13 DEF TlsState
<1>18. InOrder(k)
  <2>1. Waiting(q) \o t.wbio = Waiting(q)
    BY <1>10, NothingAdded
  <2>2. Waiting(k.LowerWriter) \o k.wbio = Run(k.written, k.made)
    BY <1>12, <1>13, <1>17, <2>1
  <2> QED BY <2>2 DEF InOrder
<1>19. f.own <= f.made /\ f.written <= f.made /\ q.QueuedBytes + Len(f.wbio) <= BatchLimit + f.own
  <2> DEFINE i == t.LowerWriter.QueuedBytes   j == q.QueuedBytes   m == Len(l)   o == t.own   b == BatchLimit   n == Len(t.wbio)
  <2>1. i = m + j /\ i + n <= b + o /\ n = 0
    BY <1>2, <1>4, <1>10
  <2>2. i \in Nat /\ j \in Nat /\ m \in Nat /\ o \in Nat /\ b \in Nat
    BY <1>2, <1>10, LenProperties, SizeAssumption DEF QueueInv, QueueState
  <2> HIDE DEF i, j, m, o, b, n
  <2>3. j + n <= b + o
    BY ONLY <2>1, <2>2
  <2> QED BY <1>2, <1>12, <1>13, <2>3 DEF j, n, b, o
<1>20. SinkInv(f) /\ LeftInv(f) /\ ReadInv(f)
  BY <1>14, <1>15 DEF Sound, SinkInv, LeftInv, ReadInv, SameSink
<1>21. /\ (q.handed # <<>> => q.WritePending /\ q.handed = Head(q.Queue))
       /\ (q.handed = <<>> => IF q.WritePending THEN f.flight = Head(q.Queue) ELSE f.flight = <<>>)
       /\ (f.up => (q.Queue # <<>> => q.WritePending))
  BY <1>4, <1>10, <1>13, <1>15, <1>16
<1>22. Sound(p) /\ SameRest(f, p) /\ p.wbio = f.wbio /\ p.ok = q.ok
  BY <1>9, <1>10, <1>13, <1>18, <1>19, <1>20, <1>21, PutDownDoes
<1>23. /\ SameSink(t, p) /\ p.up = t.up /\ ~p.Removing /\ p.wbio = <<>> /\ p.own = t.own /\ (p.up => p.ok)
       /\ (IsHandshakeTerminated(t) => IsHandshakeTerminated(p))
  BY <1>10, <1>13, <1>14, <1>15, <1>16, <1>22 DEF SameRest, SameSink, IsHandshakeTerminated
<1>24. CASE ~p.ok
  <2>1. c = p
    BY <1>1, <1>24, ThenLowerShutdown
  <2>2. Begins(t, p)
    BY <1>22, <1>23 DEF Begins
  <2> QED BY <1>23, <2>1, <2>2 DEF c
<1>25. CASE p.ok
  <2>1. c = CompleteLowerShutdown(p)
    BY <1>1, <1>25, ThenLowerShutdown
  <2>2. /\ Gentle(p, c) /\ c.wbio = p.wbio /\ (p.up => c.ok) /\ SameSink(p, c)
        /\ c.HandshakeResultQueued = p.HandshakeResultQueued /\ c.HandshakeCompleted = p.HandshakeCompleted
        /\ c.own = p.own
    BY <1>22, <2>1, LowerShutdownCompletes
  <2>3. Sound(c) /\ ~c.Removing /\ (c.up => c.ok)
    BY <1>23, <2>2 DEF Gentle, Steps
  <2>4. Begins(t, c)
    BY <1>23, <2>2, <2>3 DEF Begins, SameSink, IsHandshakeTerminated
  <2> QED BY <2>3, <2>4 DEF c
<1> QED BY <1>24, <1>25

LEMMA LowerWriteStep ==
  ASSUME IInv, LowerWrite
  PROVE  IInv' /\ OneTerminal /\ AnswerWritten
<1> DEFINE c == CompleteLowerWrite(tls)
           r == Then(c, Drive)
<1>1. Usable /\ tls.flight # <<>> /\ Processed(r) /\ net' = net /\ peer' = peer
  BY DEF LowerWrite
<1>2. ~tls.Removing /\ Sound(tls) /\ tls.wbio = <<>> /\ OwnerInv
  BY <1>1, NotClosed
<1>3. Begins(tls, c) /\ (c.up => c.ok)
  BY <1>1, <1>2, ChainWritten
<1> HIDE DEF c
<1>4. Result(tls, r)
  <2>1. CASE c.ok
    BY <1>2, <1>3, <2>1, ThenDrive, DriveResults
  <2>2. CASE ~c.ok
    <3>1. r = c
      BY <2>2, ThenDrive
    <3>2. Asked(c)
      BY <1>3, <2>2 DEF Asked
    <3>3. Result(tls, c)
      BY <1>2, <1>3, <3>2, StaysResult DEF Begins, SameSink, Tells
    <3> QED BY <3>1, <3>3
  <2> QED BY <2>1, <2>2
<1> HIDE DEF r
<1> QED BY <1>1, <1>2, <1>4, ProcessedStep DEF OwnerInv

(* A result is queued after the last drive. *)
LEMMA QuietResult ==
  ASSUME NEW t, NEW x, NEW r, Sound(t), Begins(t, x), Quiet(x, r), r.wbio = <<>>, r.LowerReadClosed,
         IsHandshakeTerminated(t) => r.results = x.results
  PROVE  Result(t, r)
<1>1. Sound(r) /\ ~r.Removing /\ Asked(r) /\ Tells(t, r)
  BY DEF Begins, Quiet, SameLower, Asked, SameSink, Tells
<1>2. NoWrites(t, r)
  BY DEF Begins, Quiet, SameSink, NoWrites
<1>3. IsHandshakeTerminated(t) => Len(r.results) <= Len(t.results)
  <2>1. Len(t.results) \in Nat
    BY LenProperties DEF Sound, TlsState
  <2>2. \A n \in Nat : n <= n
    OBVIOUS
  <2>3. IsHandshakeTerminated(t) => r.results = t.results
    BY DEF Begins, SameSink
  <2> QED BY <2>1, <2>2, <2>3
<1>4. t.own <= r.own
  BY DEF Begins, Quiet
<1> QED BY <1>1, <1>2, <1>3, <1>4 DEF Result

LEMMA LowerClosedStep ==
  ASSUME IInv, LowerReadClosed
  PROVE  IInv' /\ OneTerminal /\ AnswerWritten
<1> DEFINE x == [tls EXCEPT !.LowerReadPending = FALSE, !.LowerReadClosed = TRUE, !.TlsReadClosed = TRUE, !.ok = TRUE]
           r == OnReadClosed(x)
<1>1. Usable /\ tls.LowerReadPending /\ Processed(r) /\ net' = net /\ peer' = peer
  BY DEF LowerReadClosed
<1>2. ~tls.Removing /\ Sound(tls) /\ tls.wbio = <<>> /\ tls \in TlsState /\ OwnerInv
  BY <1>1, NotClosed
<1>3. x \in TlsState /\ SamePipe(tls, x)
  BY <1>2 DEF TlsState, SamePipe
<1>4. SameWriter(tls, x) /\ SameSink(tls, x)
  BY <1>2 DEF TlsState, SameWriter, SameSink
<1>5. /\ x.HandshakeCompleted = tls.HandshakeCompleted /\ x.HandshakeResultQueued = tls.HandshakeResultQueued
      /\ x.left = tls.left /\ x.LowerReadClosed /\ ~x.LowerReadPending
      /\ x.HandshakeStarted = tls.HandshakeStarted
  BY <1>2 DEF TlsState
<1> HIDE DEF x
<1>6. LeftInv(x) /\ ReadInv(x)
  BY <1>2, <1>5 DEF Sound, LeftInv, ReadInv
<1>7. Begins(tls, x) /\ Sound(x) /\ x.wbio = <<>>
  BY <1>2, <1>3, <1>4, <1>5, <1>6, BeginsSo DEF Begins
<1>8. IsHandshakeTerminated(tls) => x.HandshakeStarted /\ ~x.HandshakeCompleted /\ IsHandshakeTerminated(x)
  BY <1>1, <1>2, <1>5 DEF Sound, ReadInv, IsHandshakeTerminated
<1> DEFINE d == ReadDone(x)
<1>9. Quiet(x, d) /\ SamePipe(x, d) /\ SameSink(x, d) /\ d.HandshakeResultQueued = x.HandshakeResultQueued
      /\ d.HandshakeCompleted = x.HandshakeCompleted /\ Sound(d)
  BY <1>7, ReadDoneIsQuiet DEF Quiet
<1>10. r = CASE x.PlainWriteNeedsRead -> QueueError(ResetPlainWrite(d))
             [] ~x.PlainWriteNeedsRead /\ x.HandshakeStarted /\ ~x.HandshakeCompleted -> Drive(x)
             [] ~x.PlainWriteNeedsRead /\ ~(x.HandshakeStarted /\ ~x.HandshakeCompleted)
                /\ x.PlainReadPending -> QueueResult(d, "ReadClosed")
             [] OTHER -> x
  BY DEF OnReadClosed
<1> HIDE DEF d, r
<1>11. Result(tls, r)
  <2>1. CASE x.PlainWriteNeedsRead
    <3> DEFINE v == ResetPlainWrite(d)
    <3>1. r = QueueError(v)
      BY <1>10, <2>1
    <3>2. Quiet(d, v) /\ SamePipe(d, v) /\ SameSink(d, v) /\ v.HandshakeResultQueued = d.HandshakeResultQueued
          /\ v.HandshakeCompleted = d.HandshakeCompleted /\ Sound(v)
      BY <1>9, ResetIsQuiet DEF Quiet
    <3> HIDE DEF v
    <3>3. Quiet(x, v)
      BY <1>3, <1>9, <3>2, QuietTwice
    <3>4. v.LowerReadClosed
      BY <1>5, <3>3 DEF Quiet, SameLower
    <3>5. Quiet(v, r) /\ SamePipe(v, r) /\ (IsHandshakeTerminated(v) => r.results = v.results)
      BY <3>1, <3>2, <3>4, QueueErrorIsQuiet
    <3>6. Quiet(x, r)
      BY <1>3, <3>3, <3>5, QuietTwice
    <3>7. r.wbio = <<>> /\ r.LowerReadClosed
      BY <1>5, <1>7, <1>9, <3>2, <3>5, <3>6 DEF SamePipe, Quiet, SameLower
    <3>8. IsHandshakeTerminated(tls) => r.results = x.results
      BY <1>8, <1>9, <3>2, <3>5 DEF SameSink, IsHandshakeTerminated
    <3> QED BY <1>2, <1>7, <3>6, <3>7, <3>8, QuietResult
  <2>2. CASE ~x.PlainWriteNeedsRead /\ x.HandshakeStarted /\ ~x.HandshakeCompleted
    <3>1. r = Drive(x)
      BY <1>10, <2>2
    <3> QED BY <1>2, <1>7, <3>1, DriveResults
  <2>3. CASE ~x.PlainWriteNeedsRead /\ ~(x.HandshakeStarted /\ ~x.HandshakeCompleted) /\ x.PlainReadPending
    <3>1. r = QueueResult(d, "ReadClosed")
      BY <1>10, <2>3
    <3>2. "ReadClosed" \in Operation
      BY DEF Operation
    <3>3. Quiet(d, r) /\ SamePipe(d, r)
      BY <1>9, <3>1, <3>2, Queued
    <3>4. Quiet(x, r)
      BY <1>3, <1>9, <3>3, QuietTwice
    <3>5. r.wbio = <<>> /\ r.LowerReadClosed /\ ~IsHandshakeTerminated(tls)
      BY <1>5, <1>7, <1>8, <1>9, <2>3, <3>3, <3>4 DEF SamePipe, Quiet, SameLower
    <3> QED BY <1>2, <1>7, <3>4, <3>5, QuietResult
  <2>4. CASE ~x.PlainWriteNeedsRead /\ ~(x.HandshakeStarted /\ ~x.HandshakeCompleted) /\ ~x.PlainReadPending
    <3>1. r = x
      BY <1>10, <2>4
    <3> QED BY <1>2, <1>5, <1>7, <3>1, StaysQuiet, QuietResult
  <2> QED BY <2>1, <2>2, <2>3, <2>4
<1>12. Processed(r)
  BY <1>1
<1> QED BY <1>1, <1>2, <1>11, <1>12, ProcessedStep DEF OwnerInv

LEMMA LowerErrorStep ==
  ASSUME IInv, LowerError
  PROVE  IInv' /\ OneTerminal /\ AnswerWritten
<1> DEFINE x == [tls EXCEPT !.LowerReadPending = FALSE, !.LowerReadClosed = TRUE, !.ok = TRUE]
           r == OnError(x)
<1>1. Usable /\ Processed(r) /\ net' = net /\ peer' = "gone"
  BY DEF LowerError
<1>2. ~tls.Removing /\ Sound(tls) /\ tls.wbio = <<>> /\ tls \in TlsState /\ OwnerInv
  BY <1>1, NotClosed
<1>3. x \in TlsState /\ SamePipe(tls, x)
  BY <1>2 DEF TlsState, SamePipe
<1>4. SameWriter(tls, x) /\ SameSink(tls, x)
  BY <1>2 DEF TlsState, SameWriter, SameSink
<1>5. /\ x.HandshakeCompleted = tls.HandshakeCompleted /\ x.HandshakeResultQueued = tls.HandshakeResultQueued
      /\ x.left = tls.left /\ x.LowerReadClosed /\ ~x.LowerReadPending
      /\ x.HandshakeStarted = tls.HandshakeStarted
  BY <1>2 DEF TlsState
<1>6. r = IF IsHandshakeTerminated(x) THEN x ELSE QueueError(x)
  BY DEF OnError
<1> HIDE DEF x, r
<1>7. LeftInv(x) /\ ReadInv(x)
  BY <1>2, <1>5 DEF Sound, LeftInv, ReadInv
<1>8. Begins(tls, x) /\ Sound(x) /\ x.wbio = <<>> /\ (IsHandshakeTerminated(tls) <=> IsHandshakeTerminated(x))
  BY <1>2, <1>3, <1>4, <1>5, <1>7, BeginsSo DEF Begins, IsHandshakeTerminated
<1>9. Result(tls, r)
  <2>1. CASE IsHandshakeTerminated(x)
    BY <1>2, <1>5, <1>6, <1>8, <2>1, StaysQuiet, QuietResult
  <2>2. CASE ~IsHandshakeTerminated(x)
    <3>1. Quiet(x, r) /\ SamePipe(x, r)
      BY <1>5, <1>6, <1>8, <2>2, QueueErrorIsQuiet
    <3>2. r.wbio = <<>> /\ r.LowerReadClosed
      BY <1>5, <1>8, <3>1 DEF SamePipe, Quiet, SameLower
    <3> QED BY <1>2, <1>8, <2>2, <3>1, <3>2, QuietResult
  <2> QED BY <2>1, <2>2
<1> QED BY <1>1, <1>2, <1>9, ProcessedStep DEF OwnerInv

LEMMA FailsStep ==
  ASSUME IInv, ConnectionFails
  PROVE  IInv' /\ OneTerminal /\ AnswerWritten
<1> DEFINE x == [tls EXCEPT !.up = FALSE]
<1>1. tls' = x /\ peer' = "err" /\ net' = net /\ sent' = sent /\ asked' = asked /\ owner' = owner
  BY DEF ConnectionFails
<1>2. Sound(tls) /\ tls.wbio = <<>> /\ tls \in TlsState /\ OwnerInv /\ Told
  BY DEF IInv, Sound
<1>3. x \in TlsState /\ SamePipe(tls, x) /\ ~x.up
  BY <1>2 DEF TlsState, SamePipe
<1>4. SameSink(tls, x) /\ x.left = tls.left
  BY <1>2 DEF TlsState, SameSink
<1>5. /\ x.Removing = tls.Removing /\ x.LowerWriter = tls.LowerWriter /\ x.flight = tls.flight /\ x.written = tls.written
      /\ x.LowerReadClosed = tls.LowerReadClosed /\ x.LowerReadPending = tls.LowerReadPending
      /\ x.HandshakeStarted = tls.HandshakeStarted /\ x.HandshakeResultQueued = tls.HandshakeResultQueued
  BY <1>2 DEF TlsState
<1> HIDE DEF x
<1>6. InOrder(x) /\ CountInv(x)
  BY <1>2, <1>3, <1>5 DEF Sound, SamePipe, InOrder, CountInv
<1>7. WriterInv(x)
  BY <1>2, <1>3, <1>5 DEF Sound, WriterInv
<1>8. SinkInv(x) /\ LeftInv(x) /\ ReadInv(x)
  BY <1>2, <1>4, <1>5 DEF Sound, SinkInv, LeftInv, ReadInv, SameSink
<1>9. Sound(x)
  BY <1>3, <1>6, <1>7, <1>8 DEF Sound
<1>10. Asked(x) /\ x.wbio = <<>>
  BY <1>2, <1>3 DEF Asked, SamePipe
<1>11. Told' /\ OwnerInv'
  BY <1>1, <1>2, <1>4, <1>5 DEF Told, Usable, OwnerInv, SameSink
<1>12. IInv'
  BY <1>1, <1>9, <1>10, <1>11 DEF IInv
<1>13. Len(tls.results) \in Nat /\ tls'.results = tls.results
  BY <1>1, <1>2, <1>4, LenProperties DEF TlsState, SameSink
<1>14. \A n \in Nat : n <= n /\ ~(\E i \in n + 1..n : TRUE)
  OBVIOUS
<1>15. OneTerminal /\ ~AnswersWrite
  BY <1>13, <1>14 DEF OneTerminal, AnswersWrite
<1> QED BY <1>12, <1>15 DEF AnswerWritten

LEMMA InitHolds ==
  ASSUME Init
  PROVE  IInv
<1> DEFINE e == <<>>
           q == NewQueue(TRUE)
           s == ""
<1>1. e = <<>> /\ e \in Seq(Nat) /\ e \in Seq(Chain) /\ e \in Seq(Operation) /\ e \in Seq(Records) /\ Len(e) = 0
  OBVIOUS
<1>2. q \in QueueState /\ q.attached /\ q.Queue = <<>> /\ q.QueuedBytes = 0 /\ ~q.WritePending
  <2>1. q = [attached |-> TRUE, Queue |-> e, QueuedBytes |-> 0, WritePending |-> FALSE, handed |-> e, ok |-> TRUE]
    BY DEF NewQueue
  <2> HIDE DEF q, e
  <2> QED BY <1>1, <2>1 DEF QueueState
<1>3. \A d \in BOOLEAN : NewTls(d) =
        [Removing |-> FALSE, HandshakeStarted |-> d, HandshakeCompleted |-> d,
         HandshakeResultQueued |-> FALSE, LowerReadPending |-> FALSE, LowerReadClosed |-> FALSE,
         TlsReadClosed |-> FALSE, ShutdownPending |-> FALSE, ShutdownCompleted |-> FALSE,
         LowerSendShutdownCompleted |-> FALSE, PlainReadPending |-> FALSE, PlainWritePending |-> FALSE,
         PlainWriteNeedsRead |-> FALSE, left |-> 0, adopted |-> 0,
         results |-> e, ResultSink |-> FALSE, ResultNotified |-> FALSE, woken |-> FALSE,
         LowerWriter |-> q, ok |-> TRUE, rc |-> s,
         rbio |-> e, wbio |-> e, made |-> 0, own |-> 0, hello |-> d,
         again |-> FALSE, closeSent |-> FALSE, closeReceived |-> FALSE, dead |-> FALSE,
         up |-> TRUE, flight |-> e, written |-> 0]
  BY DEF NewTls
<1>4. s \in {"", "want", "done", "closed", "error", "sent"} /\ 0 \in Nat
  OBVIOUS
<1> HIDE DEF e, q, s
<1>4a. ASSUME NEW d \in BOOLEAN
      PROVE
        [Removing |-> FALSE, HandshakeStarted |-> d, HandshakeCompleted |-> d,
         HandshakeResultQueued |-> FALSE, LowerReadPending |-> FALSE, LowerReadClosed |-> FALSE,
         TlsReadClosed |-> FALSE, ShutdownPending |-> FALSE, ShutdownCompleted |-> FALSE,
         LowerSendShutdownCompleted |-> FALSE, PlainReadPending |-> FALSE, PlainWritePending |-> FALSE,
         PlainWriteNeedsRead |-> FALSE, left |-> 0, adopted |-> 0,
         results |-> e, ResultSink |-> FALSE, ResultNotified |-> FALSE, woken |-> FALSE,
         LowerWriter |-> q, ok |-> TRUE, rc |-> s,
         rbio |-> e, wbio |-> e, made |-> 0, own |-> 0, hello |-> d,
         again |-> FALSE, closeSent |-> FALSE, closeReceived |-> FALSE, dead |-> FALSE,
         up |-> TRUE, flight |-> e, written |-> 0] \in TlsState
  BY <1>1, <1>2, <1>4 DEF TlsState
<1>5. ASSUME NEW d \in BOOLEAN
      PROVE  /\ NewTls(d) \in TlsState /\ NewTls(d).wbio = e /\ NewTls(d).results = e /\ NewTls(d).LowerWriter = q
             /\ NewTls(d).flight = e /\ NewTls(d).made = 0 /\ NewTls(d).own = 0 /\ NewTls(d).written = 0
             /\ NewTls(d).left = 0 /\ ~NewTls(d).ResultNotified /\ ~NewTls(d).Removing
             /\ ~NewTls(d).HandshakeResultQueued /\ ~NewTls(d).LowerReadClosed /\ ~NewTls(d).PlainReadPending
             /\ ~NewTls(d).PlainWriteNeedsRead /\ ~NewTls(d).ShutdownPending
             /\ NewTls(d).HandshakeStarted = d /\ NewTls(d).HandshakeCompleted = d
  <2> DEFINE r == NewTls(d)
  <2>1. r \in TlsState
    BY ONLY d \in BOOLEAN, <1>3, <1>4a
  <2>2. /\ r.wbio = e /\ r.results = e /\ r.LowerWriter = q /\ r.flight = e /\ r.made = 0 /\ r.own = 0 /\ r.written = 0
        /\ r.left = 0 /\ ~r.ResultNotified /\ ~r.Removing
    BY ONLY d \in BOOLEAN, <1>3
  <2>3. /\ ~r.HandshakeResultQueued /\ ~r.LowerReadClosed /\ ~r.PlainReadPending
        /\ ~r.PlainWriteNeedsRead /\ ~r.ShutdownPending
        /\ r.HandshakeStarted = d /\ r.HandshakeCompleted = d
    BY ONLY d \in BOOLEAN, <1>3
  <2> QED BY <2>1, <2>2, <2>3
<1>6. ASSUME NEW t \in TlsState, t.wbio = e, t.results = e, t.LowerWriter = q, t.flight = e, t.made = 0, t.own = 0,
             t.written = 0, t.left = 0, ~t.ResultNotified, ~t.HandshakeResultQueued, ~t.LowerReadClosed
      PROVE  Sound(t)
  <2>1. Run(0, 0) = <<>>
    <3>1. Run(0, 0) \in Seq(Nat) /\ Len(Run(0, 0)) = 0
      <4>1. 0 \in Nat /\ 0 <= 0 /\ 0 - 0 = 0
        OBVIOUS
      <4> QED BY <4>1, RunTyped
    <3> QED BY <3>1, EmptySeq
  <2>2. Waiting(q) = <<>>
    BY <1>2, NoChains DEF Waiting
  <2>3. InOrder(t)
    BY <1>1, <1>6, <2>1, <2>2, NothingAdded DEF InOrder
  <2>4. WriterInv(t)
    BY <1>1, <1>2, <1>6, <2>2 DEF WriterInv
  <2>5. CountInv(t)
    <3>1. BatchLimit \in Nat /\ 0 + 0 <= BatchLimit + 0 /\ 0 <= 0
      BY SizeAssumption
    <3> QED BY <1>1, <1>2, <1>6, <3>1 DEF CountInv
  <2> QED BY <1>1, <1>6, <2>3, <2>4, <2>5 DEF Sound, SinkInv, LeftInv, ReadInv
<1>7. Sound(tls) /\ tls.wbio = <<>> /\ Asked(tls) /\ ~tls.ResultNotified /\ ~tls.Removing /\ peer \in {"hs", "open", "bye"}
  <2>1. CASE "New" \in Starts /\ tls = NewTls(FALSE) /\ peer = "hs"
    <3>1. FALSE \in BOOLEAN
      OBVIOUS
    <3>2. ~tls.HandshakeStarted /\ ~tls.HandshakeCompleted
      BY <1>5, <2>1, <3>1
    <3>3. Asked(tls)
      BY <3>2 DEF Asked, NeedsInput
    <3>4. Sound(tls)
      BY <1>5, <1>6, <2>1, <3>1
    <3> QED BY <1>1, <1>5, <2>1, <3>1, <3>3, <3>4
  <2>2. ASSUME NEW n \in Adopted, NEW b \in BOOLEAN, tls = AdoptPlaintextPending(NewTls(TRUE), n, b),
               peer = IF b THEN "bye" ELSE "open"
        PROVE  Sound(tls) /\ tls.wbio = <<>> /\ Asked(tls) /\ ~tls.ResultNotified /\ ~tls.Removing
               /\ peer \in {"hs", "open", "bye"}
    <3> DEFINE k == NewTls(TRUE)
               r == [k EXCEPT !.adopted = n, !.TlsReadClosed = b, !.closeReceived = b]
    <3>1. n \in Nat /\ TRUE \in BOOLEAN
      BY StartAssumption
    <3>2. tls = r
      BY <2>2 DEF AdoptPlaintextPending
    <3>3. k \in TlsState
      BY <1>5, <3>1
    <3>4. /\ k.wbio = e /\ k.results = e /\ k.LowerWriter = q
          /\ k.flight = e /\ k.made = 0 /\ k.own = 0 /\ k.written = 0
          /\ k.left = 0 /\ ~k.ResultNotified /\ ~k.Removing
          /\ ~k.HandshakeResultQueued /\ ~k.LowerReadClosed /\ ~k.PlainReadPending
          /\ ~k.PlainWriteNeedsRead /\ ~k.ShutdownPending /\ k.HandshakeCompleted
      BY <1>5, <3>1
    <3> HIDE DEF k
    <3>5. r \in TlsState
      BY ONLY <3>1, <3>3, b \in BOOLEAN DEF TlsState
    <3>6. /\ r.wbio = k.wbio /\ r.results = k.results /\ r.LowerWriter = k.LowerWriter
          /\ r.flight = k.flight /\ r.made = k.made /\ r.own = k.own /\ r.written = k.written
          /\ r.left = k.left /\ r.ResultNotified = k.ResultNotified /\ r.Removing = k.Removing
      BY ONLY <3>3 DEF TlsState
    <3>7. /\ r.HandshakeResultQueued = k.HandshakeResultQueued /\ r.LowerReadClosed = k.LowerReadClosed
          /\ r.PlainReadPending = k.PlainReadPending /\ r.PlainWriteNeedsRead = k.PlainWriteNeedsRead
          /\ r.ShutdownPending = k.ShutdownPending /\ r.HandshakeCompleted = k.HandshakeCompleted
      BY ONLY <3>3 DEF TlsState
    <3> HIDE DEF r
    <3>8. Sound(r)
      BY <1>6, <3>4, <3>5, <3>6, <3>7
    <3>9. Asked(r)
      BY <3>4, <3>7 DEF Asked, NeedsInput
    <3> QED BY <1>1, <2>2, <3>2, <3>4, <3>6, <3>8, <3>9
  <2> QED BY <2>1, <2>2 DEF Init
<1>8. Told /\ OwnerInv
  <2>1. net = <<>> /\ sent = 0 /\ asked = {} /\ owner = "idle" /\ MaxRecords \in Nat
    BY BoundAssumption DEF Init
  <2> QED BY <1>7, <2>1 DEF Told, OwnerInv
<1> QED BY <1>7, <1>8 DEF IInv

LEMMA NextHolds ==
  ASSUME IInv, Next
  PROVE  IInv' /\ OneTerminal /\ AnswerWritten
BY StartHandshakeStep, StartReadStep, StartWriteStep, ShutdownSendStep, CloseStep, AdoptReadStep, FeedStep,
   SetSinkStep, WakesStep, PopStep, NoResultStep, OutsideStep, LowerReadStep, LowerWriteStep,
   LowerClosedStep, LowerErrorStep, FailsStep DEF Next, Serve, LowerResult

LEMMA StutterHolds ==
  ASSUME IInv, UNCHANGED vars
  PROVE  IInv' /\ OneTerminal /\ AnswerWritten
<1>1. net \in Seq(Records) /\ peer \in {"hs", "open", "bye", "fin", "err", "gone"} /\ sent \in 0..MaxRecords
  BY DEF IInv, OwnerInv
<1> QED BY <1>1, StreamStays DEF vars

(* The inductive invariant holds in every state of every run. *)
THEOREM TlsInvariance == Spec => []IInv
<1>1. IInv /\ [Next]_vars => IInv'
  BY NextHolds, StutterHolds
<1> QED BY InitHolds, <1>1, PTL DEF Spec

LEMMA OwesNothing ==
  ASSUME IInv
  PROVE  NothingOwed
<1>1. Sound(tls) /\ tls.wbio = <<>> /\ Asked(tls) /\ Told /\ OwnerInv /\ tls \in TlsState
  BY DEF IInv, Sound
<1>2. TypeOK
  <2>1. /\ tls.left \in Nat /\ (tls.left # 0 => \E n \in Sizes : tls.left <= n) /\ tls.adopted \in Nat
    BY <1>1 DEF Sound, LeftInv, TlsState
  <2>2. tls.own \in 0..tls.made /\ tls.written \in 0..tls.made /\ {tls.made, tls.LowerWriter.QueuedBytes} \subseteq Nat
    BY <1>1, NumbersOf
  <2>3. tls.results \in Seq({"Handshake", "Read", "Write", "ReadClosed", "Error"}) /\ tls.rbio \in Seq(Records)
    BY <1>1 DEF TlsState, Operation
  <2> QED BY <1>1, <2>1, <2>2, <2>3 DEF TypeOK, OwnerInv
<1>3. CiphertextBounded
  BY <1>1 DEF CiphertextBounded, UnwrittenCiphertext, Sound, CountInv
<1>4. NothingHeldBack
  BY <1>1 DEF NothingHeldBack, Sound, WriterInv
<1>5. InputRequested
  BY <1>1 DEF InputRequested, Asked, OwnerInv, Usable
<1>6. SinkTold
  BY <1>1 DEF SinkTold, Told, Sound, SinkInv
<1> QED BY <1>2, <1>3, <1>4, <1>5, <1>6 DEF NothingOwed

(* Between two calls the stream owes nothing: its state is sound, ciphertext is bounded by  *)
(* the batch limit and under way, the input that is needed is asked for, and the owner was  *)
(* told of results - for any sizes, batch limit and numbers of calls and records.           *)
THEOREM StreamOwesNothing == Spec => []NothingOwed
BY TlsInvariance, OwesNothing, PTL

(* What the library makes reaches the lower stream once and in the order it was made,       *)
(* through the BIO and the queue of the lower writer.                                       *)
THEOREM CiphertextStaysInOrder == Spec => []CiphertextInOrder
<1>1. IInv => CiphertextInOrder
  <2> SUFFICES ASSUME IInv, owner # "closed" PROVE
        /\ FlattenSeq(tls.LowerWriter.Queue) \o tls.wbio
             = [i \in 1..(tls.made - tls.written) |-> tls.written + i]
        /\ tls.LowerWriter.WritePending => tls.flight = Head(tls.LowerWriter.Queue)
    BY DEF CiphertextInOrder
  <2>1. Sound(tls) /\ ~tls.Removing
    BY DEF IInv, OwnerInv
  <2>2. Waiting(tls.LowerWriter) \o tls.wbio = Run(tls.written, tls.made)
    BY <2>1 DEF Sound, InOrder
  <2>3. tls.LowerWriter.WritePending => tls.flight = Head(tls.LowerWriter.Queue)
    BY <2>1 DEF Sound, WriterInv
  <2> QED BY <2>2, <2>3 DEF Run, Waiting
<1> QED BY TlsInvariance, <1>1, PTL

(* A handshake that ended unfinished reports one result: whatever lower results,            *)
(* completions and calls come after it, none of them queues another.                        *)
THEOREM TerminalResultIsOne == Spec => OneTerminalResult
<1>1. IInv /\ [Next]_vars => [IsHandshakeTerminated(tls) => Len(tls'.results) <= Len(tls.results)]_vars
  BY NextHolds DEF OneTerminal
<1> QED BY TlsInvariance, <1>1, PTL DEF Spec, OneTerminalResult

(* A write is answered when the lower stream has written all that was made of it.           *)
THEOREM WritesAreWrittenFirst == Spec => AnsweredWhenWritten
<1>1. IInv /\ [Next]_vars => [AnswersWrite => tls'.written + (tls'.own - tls.own) >= tls'.made]_vars
  BY NextHolds DEF AnswerWritten
<1> QED BY TlsInvariance, <1>1, PTL DEF Spec, AnsweredWhenWritten
=============================================================================
