---------------------------- MODULE MC_Standalone ----------------------------
(* Instances of the five modules that share no state with another, side by  *)
(* side, to be checked in one run: a session's transcript is used, one of   *)
(* the two evaluations of the memory runs, or `nanobot agent` or `nanobot   *)
(* onboard` does; the other four rest.                                      *)
EXTENDS Transcript, SemanticEvaluation, QueryEvaluation, InteractiveChat, Onboarding

VARIABLE part

mc == <<part, vars, evaluation, query, chat, onboarding>>

\* Items: two of one text, set apart by their sub_class, and two others.
MCClass(item) == "knowledge"
MCText(item) == IF item <= 2 THEN 1 ELSE item - 1
MCMaxItems(n) == n

\* Memories: three of one normalised text, one of them of a core class.
MCMain(memory) == IF memory = 5 THEN "profile" ELSE "knowledge"
MCNormal(memory) == IF memory \in {1, 2, 5} THEN 1 ELSE memory - 1

SessionRests == Init /\ key = "chat" /\ session.messages = <<>>
OnboardingRests == OnboardingInit /\ config_file = NoFile /\ ~wizard

MCInit ==
    /\ part \in {"session", "semantic", "query", "agent", "onboard"}
    /\ IF part = "session" THEN Init ELSE SessionRests
    /\ IF part = "onboard" THEN OnboardingInit ELSE OnboardingRests
    /\ EvaluationInit /\ QueryInit /\ ChatInit

Agent(step) == part = "agent" /\ step /\ UNCHANGED <<part, vars, evaluation, query, onboarding>>

MCNext ==
    \/ part = "session" /\ Next /\ UNCHANGED <<part, evaluation, query, chat, onboarding>>
    \/ part = "semantic" /\ EvaluationNext /\ UNCHANGED <<part, vars, query, chat, onboarding>>
    \/ part = "query" /\ QueryNext /\ UNCHANGED <<part, vars, evaluation, chat, onboarding>>
    \/ Agent(ChatNext)
    \/ part = "onboard" /\ OnboardingNext /\ UNCHANGED <<part, vars, evaluation, query, chat>>

MCSpec ==
    /\ MCInit /\ [][MCNext]_mc
    /\ WF_mc(Agent(Receive)) /\ WF_mc(Agent(TurnsEnd)) /\ WF_mc(Agent(Consumes)) /\ WF_mc(Agent(Returns))

\* Both evaluations report what they have matched: see ReportIsSound and QueryIsSound.
EvaluationIsSound == ReportIsSound /\ QueryIsSound

\* What `nanobot agent` prints, and what `nanobot onboard` saves: see TerminalIsSound
\* and ConfigIsTheUsers.
CommandLineIsSound == TerminalIsSound /\ ConfigIsTheUsers
=============================================================================
