------------------------------- MODULE IoQueue -------------------------------
(***************************************************************************)
(* The queue of buffers of a socket (Sockets/Queue.cpp).  A queue is the   *)
(* sequence of its packets, a packet the sequence of its bytes; Total is   *)
(* what their lengths add up to.  Each of its sections under Lock is one   *)
(* operator.  The pool of free buffers is left out.                        *)
(***************************************************************************)
EXTENDS Naturals, Sequences, SequencesExt

CONSTANTS
  BUFFER_SIZE,  \* the most bytes that are read, or joined, into one packet
  AutoJoin      \* what is appended may go to the end of the last packet

ASSUME BufferAssumption == BUFFER_SIZE \in Nat \ {0} /\ AutoJoin \in BOOLEAN

Bytes(q) == FlattenSeq(q)
Total(q) == Len(Bytes(q))

(* GetAvailableLimit, of a queue with a limit *)
Available(q, limit) == IF Total(q) >= limit THEN 0 ELSE limit - Total(q)

PopFirst(q) == [packet |-> Head(q), queue |-> Tail(q)]
PushFront(q, b) == <<b>> \o q

(* Append(p, cb), of a queue with AutoJoin or without *)
JoinsLast(q, p) == AutoJoin /\ q # <<>> /\ Len(Last(q)) + Len(p) <= BUFFER_SIZE
AppendBytes(q, p) == IF JoinsLast(q, p) THEN Front(q) \o <<Last(q) \o p>> ELSE Append(q, p)

(* Join: everything becomes one packet if the caller has room for it *)
Join(q, upto) == IF Len(q) <= 1 \/ Total(q) > upto THEN q ELSE <<Bytes(q)>>
=============================================================================
