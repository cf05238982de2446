---------------------------- MODULE MC_Delivery ----------------------------
(* Delivery on small instances; the .cfg file gives the bounds. *)
EXTENDS Delivery

CONSTANTS work, cron, group, mail

\* A user writes in a topic of a Telegram group, and a cron job reports to the group.
UserAndCron == {work, cron}
User == {work}

\* Nothing is enabled for mail.
TheChats == {group, mail}
Group == {group}
InGroup == [s \in Sessions |-> group]
=============================================================================
