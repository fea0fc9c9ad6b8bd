------------------------------ MODULE MCEcho ------------------------------
(***************************************************************************)
(* The echo server with three peers, enough for two clients to be erased in *)
(* one pass, so that a later turn meets an object whose socket is closed;   *)
(* one peer may send two lines at once, and its answers come in pieces.     *)
(***************************************************************************)
EXTENDS EchoServer

MCMaxSent == <<2, 0, 0>>
=============================================================================
