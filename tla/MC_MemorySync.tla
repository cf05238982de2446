--------------------------- MODULE MC_MemorySync ---------------------------
(* MemorySync on small instances; the .cfg files give the bounds. *)
EXTENDS MemorySync, TLC

CONSTANTS empty, alice, bob, gateway, cli

TwoContents   == {empty, alice}
SmallContents == {empty, alice, bob}
OneProcess    == {gateway}
TwoProcesses  == {gateway, cli}

\* The two non-empty snapshots are interchangeable.
Swap == Permutations({alice, bob})
\* So are two processes.
SwapProcs == Permutations({gateway, cli})
=============================================================================
