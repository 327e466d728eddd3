---------------------------- MODULE CallContract ----------------------------
(***************************************************************************)
(* What a connection promises the caller of sendCall, sendCallAsync and    *)
(* sendMethods (rpc_connection_base.h, the comments on ResultHandler and   *)
(* cancelPending): a handler is invoked at most once; once the connection  *)
(* is closed every handler whose caller has not given up is invoked; and   *)
(* giving up is best effort, so the handler of a call that was given up    *)
(* may still be invoked, once.  No lock, map, thread or socket appears.    *)
(***************************************************************************)
CONSTANT Ids      \* the ids nextId() hands out, unique for the connection

VARIABLES
  phase,          \* phase[i]: how far the call i has come
  gaveUp,         \* the calls whose caller called cancelPending
  open            \* isOpen()

cvars == <<phase, gaveUp, open>>

Init ==
  /\ phase = [i \in Ids |-> "idle"]
  /\ gaveUp = {}
  /\ open = TRUE

\* A caller hands its handler to the connection.
Issue(i) ==
  /\ phase[i] = "idle"
  /\ phase' = [phase EXCEPT ![i] = "waiting"]
  /\ UNCHANGED <<gaveUp, open>>

\* The handler runs, with whatever outcome.
Answer(i) ==
  /\ phase[i] = "waiting"
  /\ phase' = [phase EXCEPT ![i] = "answered"]
  /\ UNCHANGED <<gaveUp, open>>

\* The caller gives up.  A handler nobody has taken yet is dropped; one that
\* is already on its way to being invoked is not stopped.
GiveUp(i) ==
  /\ i \notin gaveUp
  /\ gaveUp' = gaveUp \cup {i}
  /\ \/ UNCHANGED phase
     \/ /\ phase[i] = "waiting"
        /\ phase' = [phase EXCEPT ![i] = "dropped"]
  /\ UNCHANGED open

Close ==
  /\ open
  /\ open' = FALSE
  /\ UNCHANGED <<phase, gaveUp>>

Next == \/ \E i \in Ids : Issue(i) \/ Answer(i) \/ GiveUp(i)
        \/ Close

SafeSpec == Init /\ [][Next]_cvars

\* A closed connection answers every call that is still waiting.
Spec == SafeSpec /\ \A i \in Ids : WF_cvars(~open /\ Answer(i))
=============================================================================
