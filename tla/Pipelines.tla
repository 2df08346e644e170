----------------------------- MODULE Pipelines -----------------------------
(***************************************************************************)
(* CI/CD notifications and deploy decisions of internal/modules/cicd.      *)
(*                                                                         *)
(* A webhook request stores an event, posts it to the chat, with buttons   *)
(* when the run is over, and then stores the id of the post: three round   *)
(* trips (saveAndNotify, Notify).  An admin's press updates the status,    *)
(* reads the event back, from the replica when there is one, and edits the *)
(* post (handleAction, NotifyUpdate).  Every request and every press has a *)
(* goroutine of its own; nothing orders them.                              *)
(*                                                                         *)
(* Requests, presses and their steps are one-shot: Deliveries and Presses  *)
(* bound how many there are.                                               *)
(***************************************************************************)
EXTENDS Storage, FiniteSets

CONSTANTS
    Deliveries,   \* webhook requests, redeliveries included
    Reports,      \* what a CI system may say in a request
    Presses,      \* presses of a button
    Admins,       \* users that pass HasAccess(role, admin)
    Nobody,       \* no user: approved_by IS NULL, an unsigned post
    MaxFaults     \* bound: failed calls and restarts

Verdicts == {"approved", "rejected"}
FinalStatuses == {"success", "failed"}
Statuses == {"pending", "running"} \cup FinalStatuses \cup Verdicts
Report == [source : {"github", "gitlab", "jenkins"}, phase : STRING, status : STRING]

ASSUME PipelinesAssumption ==
    /\ Reports \subseteq Report
    /\ IsFiniteSet(Deliveries)
    /\ Nobody \notin Admins
    /\ MaxFaults \in Nat

VARIABLES
    history,      \* versions of the table pipeline_events (see Storage)
    useReplica,   \* db.Replica # nil in the running process
    chat,         \* posts of the notifier, in order; the position is the message id
    deliveries,   \* goroutines of the webhook server
    presses,      \* goroutines of DispatchCallback
    faults        \* failed calls and restarts so far

vars == <<history, useReplica, chat, deliveries, presses, faults>>

-----------------------------------------------------------------------------
(* A row's id is its position; message 0 is the column's default.          *)

Row == [status : Statuses, by : Admins \cup {Nobody}, message : Nat]

Table == Primary(history)
Ids == 1..Len(Table)

Post == [event : Nat, status : Statuses, signed : Admins \cup {Nobody}, buttons : BOOLEAN]

Delivery == [pc : {"new", "create", "send", "save", "done"}, status : Statuses, event : Nat, message : Nat]

NewDelivery == [pc |-> "new", status |-> "pending", event |-> 0, message |-> 0]

\* A press: who pressed which button of which event, whether the UPDATE was
\* committed, and the row that GetByID returned afterwards.
Press == [pc : {"new", "update", "read", "edit", "done"}, user : Admins \cup {Nobody}, event : Nat,
          verdict : Verdicts, wrote : BOOLEAN, seen : Row]

Unread == [status |-> "pending", by |-> Nobody, message |-> 0]

NewPress == [pc |-> "new", user |-> Nobody, event |-> 0, verdict |-> "approved",
             wrote |-> FALSE, seen |-> Unread]

-----------------------------------------------------------------------------
(* Statuses of the CI systems.                                             *)

\* Slip: a conclusion without a case of its own is stored as it came.
GithubStatusAsIs(conclusion) ==
    CASE conclusion \in {"failure", "cancelled"} -> "failed"
      [] OTHER -> conclusion

GithubStatus(conclusion) ==
    CASE conclusion = "success" -> "success"
      [] conclusion \in {"failure", "cancelled", "timed_out"} -> "failed"
      [] OTHER -> "running"

GitlabStatus(status) ==
    CASE status \in {"success", "failed", "running"} -> status
      [] OTHER -> "pending"

JenkinsStatus(phase, status) ==
    CASE phase = "COMPLETED" -> IF status = "SUCCESS" THEN "success" ELSE "failed"
      [] phase = "STARTED" -> "running"
      [] OTHER -> "pending"

StatusOf(report) ==
    CASE report.source = "github" -> GithubStatus(report.status)
      [] report.source = "gitlab" -> GitlabStatus(report.status)
      [] report.source = "jenkins" -> JenkinsStatus(report.phase, report.status)

-----------------------------------------------------------------------------
Init ==
    /\ history = << <<>> >>
    /\ useReplica \in ConnectOutcomes
    /\ chat = <<>>
    /\ deliveries = [d \in Deliveries |-> NewDelivery]
    /\ presses = [p \in Presses |-> NewPress]
    /\ faults = 0

ReplicaCatchesUp ==
    /\ Lagging(history)
    /\ history' = Replay(history)
    /\ UNCHANGED <<useReplica, chat, deliveries, presses, faults>>

Fault ==
    /\ faults < MaxFaults
    /\ faults' = faults + 1

-----------------------------------------------------------------------------
(* The webhook server.                                                     *)

\* handleGitHub, handleGitLab, handleJenkins: a request that is refused or
\* reports something else changes nothing and is left out.
Deliver(d) ==
    /\ deliveries[d].pc = "new"
    /\ \E report \in Reports :
          deliveries' = [deliveries EXCEPT ![d].pc = "create", ![d].status = StatusOf(report)]
    /\ UNCHANGED <<history, useReplica, chat, presses, faults>>

InsertEvent(d) ==
    history' = Commit(history, Append(Table, [status |-> deliveries[d].status, by |-> Nobody, message |-> 0]))

\* saveAndNotify, Create: a new row for every request, redelivered or not.
CreateEvent(d) ==
    /\ deliveries[d].pc = "create"
    /\ InsertEvent(d)
    /\ deliveries' = [deliveries EXCEPT ![d].pc = "send", ![d].event = Len(Table) + 1]
    /\ UNCHANGED <<useReplica, chat, presses, faults>>

PostEvent(d) ==
    chat' = Append(chat, [event |-> deliveries[d].event, status |-> deliveries[d].status,
                          signed |-> Nobody, buttons |-> deliveries[d].status \in FinalStatuses])

\* Notify, Send: buttons only for a run that is over.
SendPost(d) ==
    /\ deliveries[d].pc = "send"
    /\ PostEvent(d)
    /\ deliveries' = [deliveries EXCEPT ![d].pc = "save", ![d].message = Len(chat) + 1]
    /\ UNCHANGED <<history, useReplica, presses, faults>>

\* Slip: the id of the newest post is stored, whoever sent it.
SaveNewestPost(d) ==
    /\ deliveries[d].pc = "save"
    /\ history' = Commit(history, [Table EXCEPT ![deliveries[d].event].message = Len(chat)])
    /\ deliveries' = [deliveries EXCEPT ![d].pc = "done"]
    /\ UNCHANGED <<useReplica, chat, presses, faults>>

\* Slip: the whole row is written back as the webhook built it.
SaveWholeEvent(d) ==
    /\ deliveries[d].pc = "save"
    /\ history' = Commit(history, [Table EXCEPT ![deliveries[d].event] =
                     [status |-> deliveries[d].status, by |-> Nobody, message |-> deliveries[d].message]])
    /\ deliveries' = [deliveries EXCEPT ![d].pc = "done"]
    /\ UNCHANGED <<useReplica, chat, presses, faults>>

\* Notify, UpdateTGMessage: one column of the row.
SavePost(d) ==
    /\ deliveries[d].pc = "save"
    /\ history' = Commit(history, [Table EXCEPT ![deliveries[d].event].message = deliveries[d].message])
    /\ deliveries' = [deliveries EXCEPT ![d].pc = "done"]
    /\ UNCHANGED <<useReplica, chat, presses, faults>>

\* Create, Send or UpdateTGMessage fails: logged, the request is answered
\* with 200 all the same.  The call may have taken effect though its answer
\* was lost (for UpdateTGMessage that is SavePost, so it is not repeated).
DeliveryFailed(d) ==
    /\ Fault
    /\ deliveries[d].pc \in {"create", "send", "save"}
    /\ \/ UNCHANGED <<history, chat>>
       \/ deliveries[d].pc = "create" /\ InsertEvent(d) /\ UNCHANGED chat
       \/ deliveries[d].pc = "send" /\ PostEvent(d) /\ UNCHANGED history
    /\ deliveries' = [deliveries EXCEPT ![d].pc = "done"]
    /\ UNCHANGED <<useReplica, presses>>

-----------------------------------------------------------------------------
(* Decisions.                                                              *)

\* An admin presses a button; the presses of other users change nothing.
PressButton(p) ==
    /\ presses[p].pc = "new"
    /\ \E user \in Admins, m \in 1..Len(chat), verdict \in Verdicts :
          /\ chat[m].buttons
          /\ presses' = [presses EXCEPT ![p] = [NewPress EXCEPT !.pc = "update", !.user = user,
                                                 !.event = chat[m].event, !.verdict = verdict]]
    /\ UNCHANGED <<history, useReplica, chat, deliveries, faults>>

UpdateEvent(p) ==
    history' = Commit(history, [Table EXCEPT ![presses[p].event].status = presses[p].verdict,
                                             ![presses[p].event].by = presses[p].user])

\* Approve, Reject: UPDATE ... WHERE id = $4, whatever the status is by now.
Decide(p) ==
    /\ presses[p].pc = "update"
    /\ UpdateEvent(p)
    /\ presses' = [presses EXCEPT ![p].pc = "read", ![p].wrote = TRUE]
    /\ UNCHANGED <<useReplica, chat, deliveries, faults>>

\* Slip: no return after the failed UPDATE.
DecideFailedThenRead(p) ==
    /\ Fault
    /\ presses[p].pc = "update"
    /\ presses' = [presses EXCEPT ![p].pc = "read"]
    /\ UNCHANGED <<history, useReplica, chat, deliveries>>

\* The UPDATE fails, or its answer is lost: "try again", the post stays.
DecideFailed(p) ==
    /\ Fault
    /\ presses[p].pc = "update"
    /\ \/ UNCHANGED history /\ presses' = [presses EXCEPT ![p].pc = "done"]
       \/ UpdateEvent(p) /\ presses' = [presses EXCEPT ![p].pc = "done", ![p].wrote = TRUE]
    /\ UNCHANGED <<useReplica, chat, deliveries>>

\* Slip: NotifyUpdate returns when there is a post, not when there is none.
ReadEventInverted(p) ==
    /\ presses[p].pc = "read"
    /\ LET rows == ReadPool(history, useReplica)
           event == presses[p].event
       IN  presses' = [presses EXCEPT
              ![p].pc = IF event \in 1..Len(rows) /\ rows[event].message = 0 THEN "edit" ELSE "done",
              ![p].seen = IF event \in 1..Len(rows) THEN rows[event] ELSE Unread]
    /\ UNCHANGED <<history, useReplica, chat, deliveries, faults>>

\* GetByID, and the guard of NotifyUpdate: nothing is edited when the row is
\* not there (a replica may not have it yet) or does not know its post.
ReadEvent(p) ==
    /\ presses[p].pc = "read"
    /\ LET rows == ReadPool(history, useReplica)
           event == presses[p].event
       IN  presses' = [presses EXCEPT
              ![p].pc = IF event \in 1..Len(rows) /\ rows[event].message # 0 THEN "edit" ELSE "done",
              ![p].seen = IF event \in 1..Len(rows) THEN rows[event] ELSE Unread]
    /\ UNCHANGED <<history, useReplica, chat, deliveries, faults>>

\* NotifyUpdate: the text shows the status that was read, the suffix names
\* the user who pressed.
SettlePost(p) ==
    chat' = [chat EXCEPT ![presses[p].seen.message] =
                [event |-> presses[p].event, status |-> presses[p].seen.status,
                 signed |-> presses[p].user, buttons |-> FALSE]]

EditPost(p) ==
    /\ presses[p].pc = "edit"
    /\ SettlePost(p)
    /\ presses' = [presses EXCEPT ![p].pc = "done"]
    /\ UNCHANGED <<history, useReplica, deliveries, faults>>

\* GetByID or the edit fails; the edit may have taken effect.
PressFailed(p) ==
    /\ Fault
    /\ presses[p].pc \in {"read", "edit"}
    /\ \/ UNCHANGED chat
       \/ presses[p].pc = "edit" /\ SettlePost(p)
    /\ presses' = [presses EXCEPT ![p].pc = "done"]
    /\ UNCHANGED <<history, useReplica, deliveries>>

\* The process dies and is started again: its goroutines are gone.
Restart ==
    /\ Fault
    /\ useReplica' \in ConnectOutcomes
    /\ deliveries' = [d \in Deliveries |->
          IF deliveries[d].pc = "new" THEN deliveries[d] ELSE [deliveries[d] EXCEPT !.pc = "done"]]
    /\ presses' = [p \in Presses |->
          IF presses[p].pc = "new" THEN presses[p] ELSE [presses[p] EXCEPT !.pc = "done"]]
    /\ UNCHANGED <<history, chat>>

DeliveryStep(d) == Deliver(d) \/ CreateEvent(d) \/ SendPost(d) \/ SavePost(d) \/ DeliveryFailed(d)

PressStep(p) ==
    PressButton(p) \/ Decide(p) \/ DecideFailed(p) \/ ReadEvent(p) \/ EditPost(p) \/ PressFailed(p)

Next ==
    \/ ReplicaCatchesUp
    \/ \E d \in Deliveries : DeliveryStep(d)
    \/ \E p \in Presses : PressStep(p)
    \/ Restart

Spec == Init /\ [][Next]_vars

-----------------------------------------------------------------------------
\* Every variable has its type.
TypeOK ==
    /\ history \in Seq(Seq(Row)) /\ Len(history) > 0
    /\ useReplica \in ConnectOutcomes
    /\ chat \in Seq(Post)
    /\ deliveries \in [Deliveries -> Delivery]
    /\ presses \in [Presses -> Press]
    /\ faults \in Nat

Decided(e, verdict, user) ==
    \E p \in Presses : /\ presses[p].wrote /\ presses[p].event = e
                       /\ presses[p].verdict = verdict /\ presses[p].user = user

\* The row of an event always tells a decision that was taken and who took
\* it, and once a decision was taken the row tells one: a webhook that is
\* still storing the id of its post cannot undo the decision.
RowTellsADecision ==
    \A e \in Ids :
        IF Table[e].status \in Verdicts
        THEN Decided(e, Table[e].status, Table[e].by)
        ELSE Table[e].by = Nobody /\ ~\E v \in Verdicts, u \in Admins : Decided(e, v, u)

\* The id stored with an event is that of its own post, and an event whose
\* webhook met no fault knows its post.
RowKnowsItsPost ==
    /\ \A e \in Ids : Table[e].message # 0 =>
          Table[e].message \in 1..Len(chat) /\ chat[Table[e].message].event = e
    /\ \A d \in Deliveries : deliveries[d].pc = "done" /\ faults = 0 =>
          deliveries[d].event \in Ids /\ Table[deliveries[d].event].message # 0

\* NotifyUpdate's comment: the edited post names "who took the decision".
PostNamesWhoDecided ==
    \A m \in 1..Len(chat) :
        chat[m].signed # Nobody /\ chat[m].status \in Verdicts
        => Decided(chat[m].event, chat[m].status, chat[m].signed)

\* What is left of it: the user named took a decision on this event, and the
\* status shown is a decision somebody took on it, or, where a replica that is
\* behind was read, the status the webhook stored.
SignedPostShowsADecision ==
    \A m \in 1..Len(chat) :
        chat[m].signed # Nobody =>
            /\ \E v \in Verdicts : Decided(chat[m].event, v, chat[m].signed)
            /\ \/ \E u \in Admins : Decided(chat[m].event, chat[m].status, u)
               \/ /\ useReplica \/ faults > 0
                  /\ \E d \in Deliveries : /\ deliveries[d].event = chat[m].event
                                           /\ deliveries[d].status = chat[m].status

\* An event that was decided keeps its buttons, with nobody left to remove
\* them, only if no decision on it found the id of the post in the row it
\* read: every one overtook UpdateTGMessage or read a replica behind.
ButtonsLeftOnlyByRace ==
    faults = 0 =>
      \A m \in 1..Len(chat), p \in Presses :
        /\ chat[m].buttons
        /\ presses[p].event = chat[m].event /\ presses[p].pc = "done"
        => presses[p].seen.message = 0

\* The board of the chat: the posts with their buttons, and the verdict that
\* the row of an event tells.
Events == 1..Cardinality(Deliveries)

Posted == {<<chat[m].event, chat[m].buttons>> : m \in 1..Len(chat)}

NoVerdict == <<Nobody, Nobody>>

EventVerdict(e) ==
    IF e \in Ids /\ Table[e].status \in Verdicts THEN <<Table[e].status, Table[e].by>> ELSE NoVerdict

Standing == [e \in Events |-> EventVerdict(e)]

\* The pipeline keeps the promise of the board: a post loses its buttons only
\* after a decision on its event was committed, never gets them back, and a
\* decision is never withdrawn.
Board == INSTANCE DecisionBoard WITH
            Verdicts <- Verdicts \X Admins,
            None <- NoVerdict,
            posts <- Posted,
            verdict <- Standing

ImplementsBoard == Board!BoardSpec
=============================================================================
