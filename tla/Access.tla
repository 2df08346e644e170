------------------------------- MODULE Access -------------------------------
(***************************************************************************)
(* Who may do what: the table users, the bootstrap of the first admin,     *)
(* the router's check of the role and the audit log (internal/bot,         *)
(* internal/audit, cmd/tgops/main.go, the user commands of tgops-ctl).     *)
(*                                                                         *)
(* Every message and every press of a button is a request with a goroutine *)
(* of its own: it reads the user, from the replica when there is one, and  *)
(* uses what it read until its end; the audit log is written last, by one  *)
(* more goroutine.  The section of the reply menu a user is in is left     *)
(* out: the router stores it and never reads it.                           *)
(***************************************************************************)
EXTENDS Storage, FiniteSets

CONSTANTS
    Members,        \* Telegram users
    InitialAdmin,   \* telegram.initial_admin_id, or Nobody when it is 0
    Nobody,
    Requests,       \* messages and presses, one-shot
    Inputs,         \* what a request may ask for
    MaxEdits,       \* bound: commands of tgops-ctl
    MaxFaults       \* bound: failed calls, lost answers and crashes

Roles == {"viewer", "operator", "admin"}

\* kind: a command that was typed, a command of the reply menu, an inline
\* button, or a text that is none of them (an unknown command, a section).
\* minRole: the role of the command, of a button that of the command whose
\* message carries it; handlerRole: what the handler asks for by itself
\* (/ansible run and the deploy buttons check for admin).
Input == [kind : {"command", "menu", "button", "other"}, minRole : Roles, handlerRole : Roles]

ASSUME AccessAssumption ==
    /\ Nobody \notin Members /\ InitialAdmin \in Members \cup {Nobody}
    /\ Inputs \subseteq Input
    /\ MaxEdits \in Nat /\ MaxFaults \in Nat

VARIABLES
    users,        \* versions of the table users (see Storage)
    audit,        \* rows of audit_log on the primary
    service,      \* where main is
    useReplica,   \* db.Replica # nil in the running process
    requests,     \* goroutines of Dispatch and DispatchCallback
    serial,       \* users inserted so far: the last id
    edits,        \* commands of tgops-ctl so far
    faults        \* failed calls and crashes so far

vars == <<users, audit, service, useReplica, requests, serial, edits, faults>>

-----------------------------------------------------------------------------
\* A version of the table: a row per member, id 0 when there is none.
User == [id : Nat, role : Roles, active : BOOLEAN]

Absent == [id |-> 0, role |-> "viewer", active |-> FALSE]

Table == Primary(users)

SetUser(m, row) == users' = Commit(users, [Table EXCEPT ![m] = row])

\* outcome: what the user was answered; recorded: what the router logs.
Outcomes == {"none", "success", "error", "denied"}

Request == [pc : {"new", "lookup", "command", "handle", "press", "log", "done"},
            member : Members \cup {Nobody}, input : Input \cup {Nobody}, user : User,
            seen : SUBSET User, outcome : Outcomes, recorded : Outcomes]

NewRequest == [pc |-> "new", member |-> Nobody, input |-> Nobody, user |-> Absent,
               seen |-> {}, outcome |-> "none", recorded |-> "none"]

Level == [r \in Roles |-> CASE r = "viewer" -> 1 [] r = "operator" -> 2 [] r = "admin" -> 3]

HasAccess(role, required) == Level[role] >= Level[required]

\* The versions a reader may still be shown.
Visible == IF useReplica THEN 1..Len(users) ELSE {Len(users)}

-----------------------------------------------------------------------------
Init ==
    /\ users = <<[m \in Members |-> Absent]>>
    /\ audit = {}
    /\ service = "down"
    /\ useReplica = FALSE
    /\ requests = [r \in Requests |-> NewRequest]
    /\ serial = 0
    /\ edits = 0
    /\ faults = 0

Fault == faults < MaxFaults /\ faults' = faults + 1

ReplicaCatchesUp ==
    /\ Lagging(users)
    /\ users' = Replay(users)
    /\ UNCHANGED <<audit, service, useReplica, requests, serial, edits, faults>>

-----------------------------------------------------------------------------
(* main: Connect, then bootstrapAdmin.  The container is started again     *)
(* whenever the process ends.                                              *)

Start ==
    /\ service = "down"
    /\ useReplica' \in ConnectOutcomes
    /\ service' = IF InitialAdmin = Nobody THEN "up" ELSE "count"
    /\ UNCHANGED <<users, audit, requests, serial, edits, faults>>

\* Slip: users that were deactivated are not counted.
CountActive ==
    /\ service = "count"
    /\ service' = IF \E m \in Members : ReadPool(users, useReplica)[m].active THEN "up" ELSE "create"
    /\ UNCHANGED <<users, audit, useReplica, requests, serial, edits, faults>>

\* bootstrapAdmin, Count.
Count ==
    /\ service = "count"
    /\ service' = IF \E m \in Members : ReadPool(users, useReplica)[m].id # 0 THEN "up" ELSE "create"
    /\ UNCHANGED <<users, audit, useReplica, requests, serial, edits, faults>>

InsertAdmin ==
    /\ Table[InitialAdmin].id = 0
    /\ SetUser(InitialAdmin, [id |-> serial + 1, role |-> "admin", active |-> TRUE])
    /\ serial' = serial + 1

\* bootstrapAdmin, Create: telegram_id is unique, so an admin that Count did
\* not see makes the INSERT fail, and log.Fatal ends the process.
CreateAdmin ==
    /\ service = "create"
    /\ \/ InsertAdmin /\ service' = "up"
       \/ Table[InitialAdmin].id # 0 /\ service' = "down" /\ UNCHANGED <<users, serial>>
    /\ UNCHANGED <<audit, useReplica, requests, edits, faults>>

\* Count or Create fails; the INSERT may have been committed.
StartFailed ==
    /\ Fault
    /\ \/ service \in {"count", "create"} /\ UNCHANGED <<users, serial>>
       \/ service = "create" /\ InsertAdmin
    /\ service' = "down"
    /\ UNCHANGED <<audit, useReplica, requests, edits>>

\* The process ends, by a signal or a crash, and waits for no goroutine.
Crash ==
    /\ Fault
    /\ service = "up"
    /\ service' = "down"
    /\ requests' = [r \in Requests |-> IF requests[r].pc = "new" THEN requests[r]
                                       ELSE [requests[r] EXCEPT !.pc = "done"]]
    /\ UNCHANGED <<users, audit, useReplica, serial, edits>>

-----------------------------------------------------------------------------
(* A request.                                                              *)

\* Bot.Start, handleTelegramUpdate: a goroutine for the message or the press.
\* seen is a history variable: the rows of the member that a reader may be
\* shown from now until the user is read.
Receive(r) ==
    /\ service = "up"
    /\ requests[r].pc = "new"
    /\ \E m \in Members, input \in Inputs :
          requests' = [requests EXCEPT ![r] = [NewRequest EXCEPT
             !.pc = "lookup", !.member = m, !.input = input,
             !.seen = {users[i][m] : i \in Visible}]]
    /\ UNCHANGED <<users, audit, service, useReplica, serial, edits, faults>>

\* Slip: a deactivated user is let through.
LookupAnyUser(r) ==
    LET user == ReadPool(users, useReplica)[requests[r].member]
        input == requests[r].input
    IN  /\ requests[r].pc = "lookup"
        /\ requests' = [requests EXCEPT ![r].user = user,
              ![r].pc = IF user.id = 0 \/ input.kind = "other" THEN "done"
                        ELSE IF input.kind = "button" THEN "press" ELSE "command"]
        /\ UNCHANGED <<users, audit, service, useReplica, serial, edits, faults>>

\* GetByTelegramID: unknown and deactivated users are ignored.  A command of
\* the reply menu is dispatched anew, so its user is read a second time.
Lookup(r) ==
    LET user == ReadPool(users, useReplica)[requests[r].member]
        input == requests[r].input
    IN  /\ requests[r].pc = "lookup"
        /\ \/ /\ user.id = 0 \/ ~user.active \/ input.kind = "other"
              /\ requests' = [requests EXCEPT ![r].user = user, ![r].pc = "done"]
           \/ /\ user.id # 0 /\ user.active /\ input.kind = "menu"
              /\ requests' = [requests EXCEPT ![r].user = user, ![r].input.kind = "command"]
           \/ /\ user.id # 0 /\ user.active /\ input.kind \in {"command", "button"}
              /\ requests' = [requests EXCEPT ![r].user = user,
                                 ![r].pc = IF input.kind = "button" THEN "press" ELSE "command"]
        /\ UNCHANGED <<users, audit, service, useReplica, serial, edits, faults>>

LookupFailed(r) ==
    /\ Fault
    /\ requests[r].pc = "lookup"
    /\ requests' = [requests EXCEPT ![r].pc = "done"]
    /\ UNCHANGED <<users, audit, service, useReplica, serial, edits>>

\* Slip: a refusal returns before it is logged.
CheckRoleUnlogged(r) ==
    /\ requests[r].pc = "command"
    /\ requests' = [requests EXCEPT ![r] =
          IF HasAccess(@.user.role, @.input.minRole) THEN [@ EXCEPT !.pc = "handle"]
          ELSE [@ EXCEPT !.pc = "done", !.outcome = "denied", !.recorded = "denied"]]
    /\ UNCHANGED <<users, audit, service, useReplica, serial, edits, faults>>

\* handleCommand, the role.
CheckRole(r) ==
    /\ requests[r].pc = "command"
    /\ requests' = [requests EXCEPT ![r] =
          IF HasAccess(@.user.role, @.input.minRole) THEN [@ EXCEPT !.pc = "handle"]
          ELSE [@ EXCEPT !.pc = "log", !.outcome = "denied", !.recorded = "denied"]]
    /\ UNCHANGED <<users, audit, service, useReplica, serial, edits, faults>>

\* handleCommand, Handle: a handler that refuses by itself answers the user
\* and returns nil, which is logged as a success.
Handle(r) ==
    LET q == requests[r]
    IN  /\ q.pc = "handle"
        /\ \/ /\ HasAccess(q.user.role, q.input.handlerRole)
              /\ \E outcome \in {"success", "error"} :
                    requests' = [requests EXCEPT ![r].pc = "log", ![r].outcome = outcome,
                                                 ![r].recorded = outcome]
           \/ /\ ~HasAccess(q.user.role, q.input.handlerRole)
              /\ requests' = [requests EXCEPT ![r].pc = "log", ![r].outcome = "denied",
                                              ![r].recorded = "success"]
        /\ UNCHANGED <<users, audit, service, useReplica, serial, edits, faults>>

\* DispatchCallback: no role is asked for, and nothing is logged.  A keyboard
\* stays in the chat, so anybody who reads the chat may press it, and so may
\* somebody whose role was changed since.
HandlePress(r) ==
    LET q == requests[r]
    IN  /\ q.pc = "press"
        /\ \E outcome \in {"success", "error"} :
              requests' = [requests EXCEPT ![r].pc = "done",
                 ![r].outcome = IF HasAccess(q.user.role, q.input.handlerRole) THEN outcome ELSE "denied"]
        /\ UNCHANGED <<users, audit, service, useReplica, serial, edits, faults>>

AuditRow(r) == [request |-> r, user |-> requests[r].user.id, result |-> requests[r].recorded]

\* Logger.Log: user_id refers to users, so the INSERT fails when the user is
\* no longer there.
WriteAudit(r) ==
    /\ requests[r].pc = "log"
    /\ audit' = IF \E m \in Members : Table[m].id = requests[r].user.id
                THEN audit \cup {AuditRow(r)} ELSE audit
    /\ requests' = [requests EXCEPT ![r].pc = "done"]
    /\ UNCHANGED <<users, service, useReplica, serial, edits, faults>>

WriteAuditFailed(r) ==
    /\ Fault
    /\ requests[r].pc = "log"
    /\ requests' = [requests EXCEPT ![r].pc = "done"]
    /\ UNCHANGED <<users, audit, service, useReplica, serial, edits>>

-----------------------------------------------------------------------------
(* tgops-ctl: user_add, user_role, user_toggle, user_delete.               *)

\* Statements of tgops-ctl are committed on the primary; requests that have
\* not read their user yet may be shown the new row.
Edit(m, row) ==
    /\ edits < MaxEdits
    /\ edits' = edits + 1
    /\ SetUser(m, row)
    /\ requests' = [r \in Requests |->
          IF requests[r].pc = "lookup" /\ requests[r].member = m
          THEN [requests[r] EXCEPT !.seen = @ \cup {row}] ELSE requests[r]]
    /\ UNCHANGED <<audit, service, useReplica, faults>>

UserAdd(m) ==
    /\ Table[m].id = 0
    /\ \E role \in Roles : Edit(m, [id |-> serial + 1, role |-> role, active |-> TRUE])
    /\ serial' = serial + 1

\* Slip: the new role is not compared with the known ones.
UserRoleUnknown(m) ==
    /\ Table[m].id # 0
    /\ Edit(m, [Table[m] EXCEPT !.role = "owner"])
    /\ UNCHANGED serial

UserRole(m) ==
    /\ Table[m].id # 0
    /\ \E role \in Roles \ {Table[m].role} : Edit(m, [Table[m] EXCEPT !.role = role])
    /\ UNCHANGED serial

UserToggle(m) ==
    /\ Table[m].id # 0
    /\ Edit(m, [Table[m] EXCEPT !.active = ~@])
    /\ UNCHANGED serial

\* The DELETE fails while audit_log refers to the user.
UserDelete(m) ==
    /\ Table[m].id # 0
    /\ \A row \in audit : row.user # Table[m].id
    /\ Edit(m, Absent)
    /\ UNCHANGED serial

-----------------------------------------------------------------------------
RequestStep(r) ==
    Lookup(r) \/ CheckRole(r) \/ Handle(r) \/ HandlePress(r) \/ WriteAudit(r)

Next ==
    \/ ReplicaCatchesUp
    \/ Start \/ Count \/ CreateAdmin \/ StartFailed \/ Crash
    \/ \E r \in Requests : Receive(r) \/ RequestStep(r) \/ LookupFailed(r) \/ WriteAuditFailed(r)
    \/ \E m \in Members : UserAdd(m) \/ UserRole(m) \/ UserToggle(m) \/ UserDelete(m)

Spec == Init /\ [][Next]_vars

\* main goes on and is restarted, and replication goes on.
FairSpec ==
    /\ Spec
    /\ WF_vars(ReplicaCatchesUp) /\ WF_vars(Start) /\ WF_vars(Count) /\ WF_vars(CreateAdmin)

-----------------------------------------------------------------------------
\* Every variable has its type.
TypeOK ==
    /\ users \in Seq([Members -> User]) /\ Len(users) > 0
    /\ audit \subseteq [request : Requests, user : Nat, result : Outcomes]
    /\ service \in {"down", "count", "create", "up"}
    /\ useReplica \in BOOLEAN
    /\ requests \in [Requests -> Request]
    /\ serial \in Nat /\ edits \in Nat /\ faults \in Nat
    /\ \A i \in 1..Len(users), m \in Members : users[i][m].id <= serial

\* A row that permits what the input asks for: of an active user, with the
\* role of the command and the one its handler asks for.
Entitles(row, input) ==
    /\ row.id # 0 /\ row.active
    /\ HasAccess(row.role, input.minRole) /\ HasAccess(row.role, input.handlerRole)

CarriedOut(r) == requests[r].outcome \in {"success", "error"}

Pressed(r) == requests[r].input.kind = "button"

\* A command is carried out only for a user entitled to it by a row a reader
\* could be shown between the arrival of the request and the read: a handler
\* that runs long, a user edited meanwhile, the second read of a command from
\* the menu and a replica that is behind do not add to that.
CommandsOnlyIfEntitled ==
    \A r \in Requests : CarriedOut(r) /\ ~Pressed(r) =>
        \E row \in requests[r].seen : Entitles(row, requests[r].input)

\* A press is carried out only for a user who was active by such a row, with
\* the role its handler asks for - which is less than README.md:221-222 says:
\* the role of the command is not asked for again, see UnentitledAreDenied.
PressesOnlyIfActive ==
    \A r \in Requests : CarriedOut(r) /\ Pressed(r) =>
        \E row \in requests[r].seen :
            row.id # 0 /\ row.active /\ HasAccess(row.role, requests[r].input.handlerRole)

\* The request is over, and neither a fault nor the deletion of the user can
\* be why its row is not in the log.
Accountable(r) ==
    /\ requests[r].pc = "done" /\ requests[r].outcome # "none" /\ faults = 0
    /\ \E m \in Members : Table[m].id = requests[r].user.id

Logged(r, results) ==
    \E row \in audit : /\ row.request = r /\ row.user = requests[r].user.id
                       /\ row.result \in results

\* Every command that was carried out or refused is in audit_log once it is
\* over: of the right user, as an error exactly if it was one, as denied if
\* the router refused it, and never as denied unless it was refused.  Presses
\* are not: README.md:223-224 says more than this, see UnentitledAreDenied.
CommandsAreAudited ==
    \A r \in Requests :
        LET q == requests[r]
        IN  /\ Accountable(r) /\ ~Pressed(r) => Logged(r, Outcomes)
            /\ \A row \in audit : row.request = r =>
                  /\ row.user = q.user.id
                  /\ row.result = "error" <=> q.outcome = "error"
                  /\ row.result = "denied" => q.outcome = "denied"
                  /\ ~HasAccess(q.user.role, q.input.minRole) => row.result = "denied"

\* README.md:221-224: the role is checked before the handler is started, and
\* refusals are in audit_log as denied; so whoever was never entitled to what
\* he asked for is refused, with a row that says so.  The code does neither for
\* a button, and a refusal by a handler is logged as a success.
UnentitledAreDenied ==
    \A r \in Requests :
        Accountable(r) /\ ~(\E row \in requests[r].seen : Entitles(row, requests[r].input)) =>
            ~CarriedOut(r) /\ Logged(r, {"denied"})

\* The bot comes up again and again: an admin the replica does not show yet
\* makes bootstrapAdmin fail, restart after restart, but only until the
\* replica has caught up.
ServiceComesUp == []<>(service = "up")
=============================================================================
