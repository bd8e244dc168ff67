----------------------------- MODULE MCWsServer -----------------------------
(***************************************************************************)
(* Instances of WsServer for TLC.                                          *)
(***************************************************************************)
EXTENDS WsServer

CONSTANTS f1, f2, f3, f4

FourFds == {f1, f2, f3, f4}

TwoFds == {f1, f2}
=============================================================================
