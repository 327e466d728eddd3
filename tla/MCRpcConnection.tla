-------------------------- MODULE MCRpcConnection --------------------------
(***************************************************************************)
(* RpcConnection with two outgoing frames, and three from the peer: one    *)
(* that decodes, one that the codec may refuse, and one whose length is    *)
(* beyond the cap.                                                         *)
(***************************************************************************)
EXTENDS RpcConnection

MCBodyLen == <<1, 2, 3>>
=============================================================================
