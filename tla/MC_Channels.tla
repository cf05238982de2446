---------------------------- MODULE MC_Channels ----------------------------
(* Instances of ChannelReceive and ChannelSend, side by side: an adapter   *)
(* takes messages or sends one.  Their states have nothing in common but   *)
(* the typing indicator, so that one of the two rests.                     *)
EXTENDS ChannelReceive, ChannelSend

VARIABLE half

mc == <<half, vars, out>>

SendRests ==
    /\ SendInit /\ msg = [adapter |-> "telegram", media |-> 0, texts |-> 1, progress |-> FALSE, ready |-> TRUE]
ReceiveRests ==
    Init /\ conf = [adapter |-> "discord", kind |-> [m \in Messages |-> "plain"], resumes |-> TRUE,
                    knowsBot |-> TRUE, open |-> TRUE]

MCInit ==
    \/ half = "receive" /\ Init /\ SendRests
    \/ half = "send" /\ ReceiveRests /\ SendInit

Receive(step) == half = "receive" /\ step /\ UNCHANGED <<half, out>>
Sends(step)   == half = "send" /\ step /\ UNCHANGED <<half, vars>>

MCNext == Receive(Next) \/ Sends(SendNext)

MCSpec ==
    /\ MCInit /\ [][MCNext]_mc
    /\ WF_mc(Receive(Handles)) /\ WF_mc(Receive(Asks)) /\ WF_mc(Receive(Fetches))
=============================================================================
