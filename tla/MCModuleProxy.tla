---------------------------- MODULE MCModuleProxy ----------------------------
(***************************************************************************)
(* ModuleProxy with two clients of one identity that talk to a provider of *)
(* the same image.                                                         *)
(***************************************************************************)
EXTENDS ModuleProxy, TLC

MCClientIdentity == [c \in Clients |-> "v"]
MCClientTarget == [c \in Clients |-> "b"]
Sym == Permutations(Clients)
=============================================================================
