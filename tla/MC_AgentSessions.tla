-------------------------- MODULE MC_AgentSessions --------------------------
(* AgentSessions on a small instance; the .cfg file gives the bounds. *)
EXTENDS AgentSessions

CONSTANT ann

OneChat  == {ann}
AllKinds == {"user", "new", "stop", "status"}
=============================================================================
