---------------------------- MODULE MCSocketPair ----------------------------
(* SocketPair with the calls and events of its two configurations. *)
EXTENDS SocketPair

MCForEver == {<<"Both", TRUE>>}
MCBoth == {<<"Both", FALSE>>, <<"Socket", TRUE>>}

MCSafeEvents == {<<"Fin", "Client">>, <<"Error", "Client">>, <<"Unread", "Client">>}
MCLiveEvents == {<<"Fin", "Client">>, <<"Stop", "Client">>, <<"Exit", "Client">>, <<"Mode", "Server">>}
=============================================================================
