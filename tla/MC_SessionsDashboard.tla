----------------------- MODULE MC_SessionsDashboard ------------------------
(* AgentSessions and Dashboard on small instances, side by side: the        *)
(* content of the sessions and the traces of the turns have no state in     *)
(* common, so that one of the two rests.                                    *)
EXTENDS MC_AgentSessions, Dashboard

VARIABLE part

mc == <<part, vars, dashboard>>

\* The iterations that the two traced turns may have.
TwoAndOne == <<2, 1>>

Begun == {r \in RunIds : turn[r].pc = "idle"}
DashboardRests == Begun = {} /\ page.status = "none" /\ mishap.errors = 0

\* Every run and no page; or one run, whose writes succeed, and a page.
DashboardBegins ==
    \/ Begun = RunIds /\ page.status = "none" /\ mishap.errors = 0
    \/ Begun = {2} /\ page.status = "disconnected" /\ mishap.errors = MaxWriteErrors

MCInit ==
    /\ Init /\ DashboardInit
    /\ \/ part = "sessions" /\ DashboardRests
       \/ part = "dashboard" /\ DashboardBegins

Chatting(step)  == part = "sessions" /\ step /\ UNCHANGED <<part, dashboard>>
Observing(step) == part = "dashboard" /\ step /\ UNCHANGED <<part, vars>>

MCNext == Chatting(Next) \/ Observing(DashboardNext)

MCSpec ==
    /\ MCInit /\ [][MCNext]_mc
    /\ WF_mc(Chatting(Loop)) /\ WF_mc(Chatting(\E i \in Tasks : Step(i)))
    /\ WF_mc(Observing(Goes))
=============================================================================
