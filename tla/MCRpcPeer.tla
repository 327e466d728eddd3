----------------------------- MODULE MCRpcPeer -----------------------------
(***************************************************************************)
(* RpcPeer with one call, one method-table request and two threads that    *)
(* may call stop() beside the I/O thread.                                  *)
(***************************************************************************)
EXTENDS RpcPeer
=============================================================================
