---------------------------- MODULE AnsibleRuns ----------------------------
(***************************************************************************)
(* Playbook runs of internal/modules/ansible: the handler of /ansible run  *)
(* stores a row with status running and leaves the rest to a goroutine,    *)
(* which waits for ansible-playbook, stores how it ended and tells the     *)
(* chat (handleRun, execPlaybook).  The row is never looked at again after *)
(* a restart, and nothing keeps one playbook from running twice at a time. *)
(*                                                                         *)
(* CombinedOutput returns when the process is gone and nobody holds its    *)
(* output open any more: the timeout kills ansible-playbook only, and the  *)
(* children it leaves behind may hold the output for as long as they like. *)
(***************************************************************************)
EXTENDS Naturals, Sequences, FiniteSets

CONSTANTS
    RunRequests,     \* accepted requests /ansible run, one-shot
    MaxRunFaults  \* bound: failed calls and restarts

ASSUME AnsibleRunsAssumption == MaxRunFaults \in Nat

VARIABLES
    runTable,        \* ansible_runs on the primary: the status of each row
    runs,         \* the goroutines: the handler's, then execPlaybook
    processes,    \* ansible-playbook of each request
    told,         \* reports that reached the chat
    runFaults        \* failed calls and restarts so far

runVars == <<runTable, runs, processes, told, runFaults>>

-----------------------------------------------------------------------------
RunStatuses == {"running", "success", "failed"}

\* row: the row's id, 0 before Create; status: execPlaybook's local variable.
Run == [pc : {"new", "create", "launch", "wait", "finish", "report", "done"},
        row : Nat, status : RunStatuses]

\* orphans: ansible-playbook is gone, its children hold the output.
Process == [state : {"none", "running", "orphans", "ended"}, ok : BOOLEAN]

NewRun == [pc |-> "new", row |-> 0, status |-> "running"]

NoProcess == [state |-> "none", ok |-> FALSE]

Goto(g, pc) == runs' = [runs EXCEPT ![g].pc = pc]

RunFault == runFaults < MaxRunFaults /\ runFaults' = runFaults + 1

RunsInit ==
    /\ runTable = <<>>
    /\ runs = [g \in RunRequests |-> NewRun]
    /\ processes = [g \in RunRequests |-> NoProcess]
    /\ told = {}
    /\ runFaults = 0

\* handleRun's guards: an admin names a playbook of the whitelist whose path
\* is inside the directory; every other request changes nothing.
Accept(g) ==
    /\ runs[g].pc = "new"
    /\ Goto(g, "create")
    /\ UNCHANGED <<runTable, processes, told, runFaults>>

InsertRun == runTable' = Append(runTable, "running")

\* handleRun, Create.
CreateRun(g) ==
    /\ runs[g].pc = "create"
    /\ InsertRun
    /\ runs' = [runs EXCEPT ![g].pc = "launch", ![g].row = Len(runTable) + 1]
    /\ UNCHANGED <<processes, told, runFaults>>

\* Create fails, or its answer is lost: the request ends, nothing is run.
CreateFailed(g) ==
    /\ runs[g].pc = "create"
    /\ RunFault
    /\ InsertRun \/ UNCHANGED runTable
    /\ Goto(g, "done")
    /\ UNCHANGED <<processes, told>>

\* The goroutine starts ansible-playbook, or cannot start it.
Launch(g) ==
    /\ runs[g].pc = "launch"
    /\ \E state \in {"running", "ended"} :
          processes' = [processes EXCEPT ![g] = [state |-> state, ok |-> FALSE]]
    /\ Goto(g, "wait")
    /\ UNCHANGED <<runTable, told, runFaults>>

\* ansible-playbook exits, with or without children that hold its output.
PlaybookEnds(g) ==
    /\ processes[g].state = "running"
    /\ \E ok \in BOOLEAN, state \in {"orphans", "ended"} :
          processes' = [processes EXCEPT ![g] = [state |-> state, ok |-> ok]]
    /\ UNCHANGED <<runTable, runs, told, runFaults>>

\* Slip: the command is not bound to the context with the timeout.
TimeoutIgnored(g) ==
    /\ processes[g].state = "running"
    /\ UNCHANGED runVars

\* cmdCtx expires: ansible-playbook is killed, with or without children.
Timeout(g) ==
    /\ processes[g].state = "running"
    /\ \E state \in {"orphans", "ended"} :
          processes' = [processes EXCEPT ![g] = [state |-> state, ok |-> FALSE]]
    /\ UNCHANGED <<runTable, runs, told, runFaults>>

OrphansEnd(g) ==
    /\ processes[g].state = "orphans"
    /\ processes' = [processes EXCEPT ![g].state = "ended"]
    /\ UNCHANGED <<runTable, runs, told, runFaults>>

\* Slip: the audit log's word for a failure ends up in the row.
CollectAuditWord(g) ==
    /\ runs[g].pc = "wait"
    /\ processes[g].state = "ended"
    /\ runs' = [runs EXCEPT ![g].pc = "finish",
                            ![g].status = IF processes[g].ok THEN "success" ELSE "error"]
    /\ UNCHANGED <<runTable, processes, told, runFaults>>

\* execPlaybook, CombinedOutput returns.
Collect(g) ==
    /\ runs[g].pc = "wait"
    /\ processes[g].state = "ended"
    /\ runs' = [runs EXCEPT ![g].pc = "finish",
                            ![g].status = IF processes[g].ok THEN "success" ELSE "failed"]
    /\ UNCHANGED <<runTable, processes, told, runFaults>>

\* Slip: the newest row is updated, whose run it is or not.
FinishNewest(g) ==
    /\ runs[g].pc = "finish"
    /\ runTable' = [runTable EXCEPT ![Len(runTable)] = runs[g].status]
    /\ Goto(g, "report")
    /\ UNCHANGED <<processes, told, runFaults>>

StoreStatus(g) == runTable' = [runTable EXCEPT ![runs[g].row] = runs[g].status]

\* execPlaybook, Finish: UPDATE ... WHERE id = $5.
Finish(g) ==
    /\ runs[g].pc = "finish"
    /\ StoreStatus(g)
    /\ Goto(g, "report")
    /\ UNCHANGED <<processes, told, runFaults>>

\* Finish fails, or its answer is lost: logged, the chat is told regardless.
FinishFailed(g) ==
    /\ runs[g].pc = "finish"
    /\ RunFault
    /\ StoreStatus(g) \/ UNCHANGED runTable
    /\ Goto(g, "report")
    /\ UNCHANGED <<processes, told>>

\* sendOutput; a message that cannot be sent is not noticed.
Report(g) ==
    /\ runs[g].pc = "report"
    /\ \/ told' = told \cup {[row |-> runs[g].row, status |-> runs[g].status]} /\ UNCHANGED runFaults
       \/ UNCHANGED told /\ RunFault
    /\ Goto(g, "done")
    /\ UNCHANGED <<runTable, processes>>

\* The container is replaced: goroutines and processes are gone, and no code
\* goes through the rows that are still running.
ReplaceContainer ==
    /\ RunFault
    /\ runs' = [g \in RunRequests |-> IF runs[g].pc = "new" THEN runs[g] ELSE [runs[g] EXCEPT !.pc = "done"]]
    /\ processes' = [g \in RunRequests |-> IF processes[g].state \in {"running", "orphans"}
                                        THEN [state |-> "ended", ok |-> FALSE] ELSE processes[g]]
    /\ UNCHANGED <<runTable, told>>

\* What the goroutine does by itself.
RunStep(g) == CreateRun(g) \/ Launch(g) \/ Collect(g) \/ Finish(g) \/ Report(g)

RunsNext ==
    \/ \E g \in RunRequests :
          \/ Accept(g) \/ RunStep(g) \/ CreateFailed(g) \/ FinishFailed(g)
          \/ PlaybookEnds(g) \/ Timeout(g) \/ OrphansEnd(g)
    \/ ReplaceContainer

RunsSpec == RunsInit /\ [][RunsNext]_runVars

\* Goroutines go on and the timer fires; neither a playbook nor the children
\* it leaves behind need ever end.
FairRunsSpec == RunsSpec /\ \A g \in RunRequests : WF_runVars(RunStep(g)) /\ WF_runVars(Timeout(g))

-----------------------------------------------------------------------------
\* Every variable has its type; a row's id names a row.
RunsTypeOK ==
    /\ runTable \in Seq(RunStatuses)
    /\ runs \in [RunRequests -> Run]
    /\ processes \in [RunRequests -> Process]
    /\ told \subseteq [row : Nat, status : RunStatuses]
    /\ runFaults \in Nat
    /\ \A g \in RunRequests : runs[g].row \in 0..Len(runTable)

\* Outcome of the playbook, where it is settled.
Outcome(g) == IF processes[g].ok THEN "success" ELSE "failed"

\* A row that says how its run ended says how its own run ended, whatever
\* other runs do meanwhile; and so does the report in the chat, which comes
\* only after the playbook is over.  A row left at running for good is the
\* work of a failed call or a restart: otherwise somebody is still on the way
\* to finish it, and what the chat was told is also what /ansible status reads
\* on the primary.
RowsAndReportsAreTrue ==
    \A i \in 1..Len(runTable) :
        LET ran == {g \in RunRequests : runs[g].row = i}
            said == {s \in RunStatuses : [row |-> i, status |-> s] \in told}
        IN  /\ runTable[i] # "running" =>
                  \E g \in ran : processes[g].state = "ended" /\ runTable[i] = Outcome(g)
            /\ \A s \in said : \E g \in ran : s = Outcome(g)
            /\ runFaults = 0 =>
                  /\ runTable[i] = "running" => \E g \in ran : runs[g].pc \in {"launch", "wait", "finish"}
                  /\ said \subseteq {runTable[i]}

\* A run that was started is over after the timeout at the latest, unless
\* children of ansible-playbook keep its output open for good.
StartedRunEnds ==
    \A g \in RunRequests :
        (runs[g].pc = "wait") ~> (runs[g].pc = "done" \/ processes[g].state = "orphans")
=============================================================================
