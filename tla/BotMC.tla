------------------------------- MODULE BotMC -------------------------------
(***************************************************************************)
(* Access and AnsibleRuns side by side.  They share no variable, and no    *)
(* property is about both, so a behaviour follows one of them: requests    *)
(* and edits of the users, or playbooks of a bot that has come up.         *)
(***************************************************************************)
EXTENDS AccessMC, AnsibleRuns

VARIABLE focus    \* what the behaviour follows

botVars == <<vars, runVars, focus>>

BotInit == Init /\ RunsInit /\ focus \in {"requests", "playbooks"}

ComeUp == ReplicaCatchesUp \/ Start \/ Count \/ CreateAdmin

\* Playbooks read no table, so one way of having come up is enough for them.
Settled == service = "up" /\ ~useReplica /\ ~Lagging(users)

BotNext ==
    /\ UNCHANGED focus
    /\ \/ focus = "requests" /\ Next /\ UNCHANGED runVars
       \/ focus = "playbooks" /\ ComeUp /\ UNCHANGED runVars
       \/ focus = "playbooks" /\ Settled /\ RunsNext /\ UNCHANGED vars

\* The fairness of both modules.
BotSpec ==
    /\ BotInit /\ [][BotNext]_botVars
    /\ WF_vars(ReplicaCatchesUp) /\ WF_vars(Start) /\ WF_vars(Count) /\ WF_vars(CreateAdmin)
    /\ \A g \in RunRequests : WF_runVars(RunStep(g)) /\ WF_runVars(Timeout(g))
=============================================================================
