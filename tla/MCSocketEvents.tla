--------------------------- MODULE MCSocketEvents ---------------------------
(* Instances of SocketEvents for TLC. *)
EXTENDS SocketEvents

MCMasks == {{"READ", "WRITE", "CLOSE"}}
=============================================================================
