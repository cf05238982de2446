---------------------------- MODULE MemoryLedger ----------------------------
(***************************************************************************)
(* What the memory store promises, without files, processes or texts: a    *)
(* ledger of committed snapshots that only grows, a write-ahead intent to  *)
(* publish its head, and the last revision whose publication was           *)
(* acknowledged.  Nothing is appended while an intent is open.             *)
(***************************************************************************)
EXTENDS Integers, Sequences

CONSTANTS Contents

VARIABLES ledger, intent, acked

lvars == <<ledger, intent, acked>>

None == -1
Top == Len(ledger)

Init ==
    /\ ledger = <<>>
    /\ intent = None
    /\ acked = None

\* A snapshot is committed together with the intent to publish it.
Record(c) ==
    /\ intent = None
    /\ ledger' = Append(ledger, c)
    /\ intent' = Top + 1
    /\ acked' = acked

\* The head is to be published again: its view was missing or not normalized.
Restage ==
    /\ intent = None
    /\ intent' = Top
    /\ UNCHANGED <<ledger, acked>>

Acknowledge ==
    /\ intent # None
    /\ acked' = intent
    /\ intent' = None
    /\ ledger' = ledger

\* A view that already is the head becomes the first baseline.
Adopt ==
    /\ intent = None /\ acked = None
    /\ acked' = Top
    /\ UNCHANGED <<ledger, intent>>

Next == (\E c \in Contents : Record(c)) \/ Restage \/ Acknowledge \/ Adopt

Spec == Init /\ [][Next]_lvars
=============================================================================
