-------------------------- MODULE MCOpencodeServer --------------------------
(***************************************************************************)
(* Small instances of OpencodeServer.                                      *)
(***************************************************************************)
EXTENDS OpencodeServer

=============================================================================
