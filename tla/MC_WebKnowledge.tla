-------------------------- MODULE MC_WebKnowledge --------------------------
(* WebKnowledge on small instances; the .cfg file gives the bounds. *)
EXTENDS WebKnowledge, TLC

CONSTANTS gateway, cli, home, news

TwoProcesses == {gateway, cli}
TwoUrls == {home, news}

TwoVersions == {1, 2}
\* One parent with two children; two parents with one child each.
SmallBlocks == <<<<1, 1>>, <<1, 2>>>>

\* The processes are interchangeable, and so are the pages.
Swap == Permutations(TwoProcesses) \cup Permutations(TwoUrls)

TwoModels == {"v3", "v4"}
=============================================================================
