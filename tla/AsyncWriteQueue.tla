-------------------------- MODULE AsyncWriteQueue --------------------------
(***************************************************************************)
(* The queue of chains an AsyncStream is to write, one at a time           *)
(* (Async/AsyncWriteQueue.cpp, BufferChain.cpp), as operators on its       *)
(* state; AsyncTlsStream composes it with a stream.                        *)
(*                                                                         *)
(* A chain is the sequence of the pieces of data its views refer to, all   *)
(* of one size.  `accepts' says whether StartWrite of the stream would     *)
(* accept a write now; `handed' is what a call has handed to it and `ok'   *)
(* what the call returns.                                                  *)
(***************************************************************************)
EXTENDS Naturals, Sequences

NewQueue(attached) ==
  [attached |-> attached, Queue |-> <<>>, QueuedBytes |-> 0, WritePending |-> FALSE,
   handed |-> <<>>, ok |-> TRUE]

Returns(q, ok) == [q EXCEPT !.handed = <<>>, !.ok = ok]

IsIdle(q) == q.Queue = <<>> /\ ~q.WritePending

(* What is not accepted stays queued and is offered again by the next call. *)
StartNext(q, accepts) ==
  IF q.WritePending \/ q.Queue = <<>> THEN Returns(q, TRUE)
  ELSE IF ~q.attached \/ ~accepts THEN Returns(q, FALSE)
  ELSE [q EXCEPT !.WritePending = TRUE, !.handed = Head(q.Queue), !.ok = TRUE]

(* Mutant of Push: the chain is put in front. *)
PushFront(q, chain, accepts) ==
  IF chain = <<>> THEN Returns(q, TRUE)
  ELSE StartNext([q EXCEPT !.Queue = <<chain>> \o @, !.QueuedBytes = @ + Len(chain)], accepts)

Push(q, chain, accepts) ==
  IF chain = <<>> THEN Returns(q, TRUE)
  ELSE StartNext([q EXCEPT !.Queue = Append(@, chain), !.QueuedBytes = @ + Len(chain)], accepts)

(* Only the whole chain in front can be completed. *)
OnWriteCompleted(q, bytes, accepts) ==
  IF ~q.WritePending \/ q.Queue = <<>> \/ bytes # Len(Head(q.Queue)) THEN Returns(q, FALSE)
  ELSE StartNext([q EXCEPT !.Queue = Tail(@), !.QueuedBytes = @ - bytes, !.WritePending = FALSE],
                 accepts)

Clear(q) == [Returns(q, TRUE) EXCEPT !.Queue = <<>>, !.QueuedBytes = 0, !.WritePending = FALSE]
=============================================================================
