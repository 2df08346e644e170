---------------------------- MODULE AccessProofs ----------------------------
(***************************************************************************)
(* Proofs about Access, for every set of members, requests and inputs, any *)
(* number of edits and faults, with and without a replica: no command is   *)
(* carried out for a user who was not entitled to it, no press for one who *)
(* was not active, and no command is missing in the audit log.             *)
(***************************************************************************)
EXTENDS Access, StorageProofs, TLAPS

\* A row the request could be shown lets its input through: a command by the
\* two roles, a press by the one of its handler.
Permitted(q) ==
    \E row \in q.seen :
        /\ row.id # 0 /\ row.active /\ HasAccess(row.role, q.input.handlerRole)
        /\ q.input.kind # "button" => HasAccess(row.role, q.input.minRole)

\* What a request has come to, by where it is; last is the last id given.
RequestOK(q, last) ==
    /\ q.user.id =< last
    /\ q.pc \in {"new", "lookup", "command", "handle", "press"} =>
          q.outcome = "none" /\ q.recorded = "none"
    /\ q.pc # "new" => q.member \in Members /\ q.input \in Input
    /\ q.pc \in {"command", "handle", "press"} =>
          /\ q.user.id # 0 /\ q.user.active
          /\ q.pc = "press" <=> q.input.kind = "button"
          /\ q.user \in q.seen
    /\ q.pc = "handle" => HasAccess(q.user.role, q.input.minRole)
    /\ q.pc = "log" => q.recorded # "none"
    /\ q.outcome \in {"success", "error"} => Permitted(q)
    /\ q.outcome # "none" /\ q.input.kind # "button" => q.recorded # "none"
    /\ q.recorded # "none" =>
          /\ q.user.id # 0
          /\ q.outcome = "error" <=> q.recorded = "error"
          /\ q.recorded = "denied" => q.outcome = "denied"
          /\ ~HasAccess(q.user.role, q.input.minRole) => q.recorded = "denied"

RequestsOK == \A r \in Requests : RequestOK(requests[r], serial)

\* A request that has not read its user yet has in its history variable the
\* rows of every version it may still read.
AllSeen ==
    \A r \in Requests : requests[r].pc = "lookup" =>
        \A i \in Visible : users[i][requests[r].member] \in requests[r].seen

\* Nothing runs unless the process is up, so the pool a request reads from and
\* the table bootstrapAdmin writes to do not change under it.
QuietUnlessUp == service # "up" => \A r \in Requests : requests[r].pc \in {"new", "done"}

AdminKnown == service \in {"count", "create"} => InitialAdmin \in Members

\* A row of the log belongs to a request that is over.
LogTrue ==
    \A row \in audit :
        /\ row.request \in Requests
        /\ requests[row.request].pc = "done" /\ requests[row.request].recorded # "none"
        /\ row = AuditRow(row.request)

Gone(id) == ~\E m \in Members : Table[m].id = id

LogComplete ==
    faults = 0 =>
        \A r \in Requests : requests[r].pc = "done" /\ requests[r].recorded # "none" =>
            AuditRow(r) \in audit \/ Gone(requests[r].user.id)

AccessInv ==
    /\ TypeOK
    /\ RequestsOK
    /\ AllSeen
    /\ QuietUnlessUp
    /\ AdminKnown
    /\ LogTrue
    /\ LogComplete

-----------------------------------------------------------------------------
(* Types.                                                                  *)

LEMMA StateType ==
    ASSUME TypeOK
    PROVE  /\ users \in Seq([Members -> User]) /\ Len(users) > 0 /\ Len(users) \in Nat
           /\ Table \in [Members -> User] /\ Table = users[Len(users)]
           /\ \A m \in Members : Table[m] \in User /\ Table[m].id =< serial
           /\ Visible \subseteq 1..Len(users) /\ Len(users) \in Visible
           /\ \A i \in 1..Len(users) : users[i] \in [Members -> User]
           /\ requests \in [Requests -> Request] /\ serial \in Nat /\ faults \in Nat
<1>1. /\ users \in Seq([Members -> User]) /\ Len(users) > 0 /\ Len(users) \in Nat
      /\ Len(users) \in 1..Len(users)
    BY PrimaryType DEF TypeOK
<1>2. Table \in [Members -> User] /\ Table = users[Len(users)]
    BY <1>1, PrimaryType DEF Table
<1>3. \A m \in Members : Table[m] \in User /\ Table[m].id =< serial
    BY <1>1, <1>2 DEF TypeOK
<1>4. Visible \subseteq 1..Len(users) /\ Len(users) \in Visible
    BY <1>1 DEF Visible
<1>q. QED BY <1>1, <1>2, <1>3, <1>4 DEF TypeOK

\* What a request reads is a row of a visible version.
LEMMA ReadType ==
    ASSUME TypeOK, NEW m \in Members
    PROVE  /\ ReadPool(users, useReplica)[m] \in User
           /\ ReadPool(users, useReplica)[m].id =< serial
           /\ \E i \in Visible : ReadPool(users, useReplica)[m] = users[i][m]
<1>1. useReplica \in BOOLEAN
    BY DEF TypeOK
<1>2. PICK i \in 1..Len(users) :
        ReadPool(users, useReplica) = users[i] /\ (useReplica \/ i = Len(users))
    BY <1>1, StateType, ReadPoolType
<1>3. i \in Visible
    BY <1>2 DEF Visible
<1>4. users[i][m] \in User /\ users[i][m].id =< serial
    BY <1>2, StateType DEF TypeOK
<1>q. QED BY <1>2, <1>3, <1>4

\* Replay shows no request what it could not be shown before.
LEMMA Replayed ==
    ASSUME TypeOK, Lagging(users), users' = Replay(users), UNCHANGED <<useReplica, serial>>
    PROVE  /\ users' \in Seq([Members -> User]) /\ Len(users') > 0 /\ Table' = Table
           /\ \A i \in 1..Len(users'), m \in Members : users'[i][m].id <= serial'
           /\ \A j \in Visible' : \E i \in Visible : users'[j] = users[i]
<1>1. /\ users' \in Seq([Members -> User]) /\ Len(users') > 0 /\ Len(users') = Len(users) - 1
      /\ Table' = Table
      /\ \A i \in 1..Len(users') : i + 1 \in 1..Len(users) /\ users'[i] = users[i + 1]
    BY StateType, ReplayType DEF Table
<1>2. \A i \in 1..Len(users'), m \in Members : users'[i][m].id <= serial'
    BY <1>1 DEF TypeOK
<1>3. ASSUME NEW j \in Visible'
      PROVE  \E i \in Visible : users'[j] = users[i]
    <2>1. j \in 1..Len(users') /\ (useReplica \/ j = Len(users'))
        BY <1>1, StateType DEF Visible
    <2>2. j + 1 \in Visible /\ users'[j] = users[j + 1]
        BY <1>1, <2>1, StateType DEF Visible
    <2>q. QED BY <2>2
<1>q. QED BY <1>1, <1>2, <1>3

\* A statement on one row of the table adds nothing but that row to what the
\* requests may be shown.
LEMMA Committed ==
    ASSUME TypeOK, UNCHANGED useReplica,
           NEW m \in Members, NEW row \in User, SetUser(m, row),
           serial' \in Nat, serial' >= serial, row.id =< serial'
    PROVE  /\ users' \in Seq([Members -> User]) /\ Len(users') > 0
           /\ Table' = [Table EXCEPT ![m] = row]
           /\ \A i \in 1..Len(users'), k \in Members : users'[i][k].id <= serial'
           /\ \A j \in Visible', k \in Members :
                 \/ k = m /\ users'[j][k] = row
                 \/ \E i \in Visible : users'[j][k] = users[i][k]
<1>1. PICK t : t = [Table EXCEPT ![m] = row]
    OBVIOUS
<1>2. /\ t \in [Members -> User]
      /\ \A k \in Members : t[k] = IF k = m THEN row ELSE Table[k]
    BY <1>1, StateType
<1>3. users' = Commit(users, t)
    BY <1>1 DEF SetUser
<1>4. users' \in Seq([Members -> User]) /\ Len(users') > 0 /\ Table' = t
    BY <1>2, <1>3, StateType, CommitType DEF Table
<1>5. /\ Len(users') \in Nat /\ users'[Len(users')] = t
    BY <1>2, <1>4, PrimaryType DEF Table
<1>6. \A i \in 1..Len(users') :
         users'[i] = t \/ (i \in 1..Len(users) /\ users'[i] = users[i])
    BY <1>2, <1>3, StateType, CommitVersions
<1>7. ASSUME NEW i \in 1..Len(users'), NEW k \in Members
      PROVE  users'[i][k].id <= serial'
    <2>0. serial \in Nat /\ row.id \in Nat
        BY StateType DEF User
    <2>1. CASE users'[i] = t
        <3>1. Table[k].id \in Nat /\ Table[k].id =< serial
            BY StateType DEF User
        <3>q. QED BY <1>2, <2>0, <2>1, <3>1
    <2>2. CASE i \in 1..Len(users) /\ users'[i] = users[i]
        <3>1. users[i][k] \in User /\ users[i][k].id =< serial
            BY <2>2, StateType DEF TypeOK
        <3>q. QED BY <2>0, <2>2, <3>1 DEF User
    <2>q. QED BY <1>6, <2>1, <2>2
<1>8. ASSUME NEW j \in Visible', NEW k \in Members
      PROVE  \/ k = m /\ users'[j][k] = row
             \/ \E i \in Visible : users'[j][k] = users[i][k]
    <2>1. j \in 1..Len(users') /\ (useReplica \/ j = Len(users'))
        BY <1>4, <1>5 DEF Visible
    <2>2. CASE users'[j] = t
        BY <1>2, <2>2, StateType
    <2>3. CASE useReplica /\ j \in 1..Len(users) /\ users'[j] = users[j]
        BY <2>3 DEF Visible
    <2>q. QED BY <1>5, <1>6, <2>1, <2>2, <2>3
<1>q. QED BY <1>1, <1>4, <1>7, <1>8

-----------------------------------------------------------------------------
(* A request goes one step.                                                *)

LEMMA RequestMoves ==
    ASSUME AccessInv, NEW r \in Requests, NEW q \in Request,
           requests[r].pc # "done", requests' = [requests EXCEPT ![r] = q],
           RequestOK(q, serial),
           q.pc = "lookup" =>
              \A i \in Visible : users[i][q.member] \in q.seen,
           q.pc \in {"new", "done"} \/ service = "up",
           q.pc = "done" /\ q.recorded # "none" => faults' > 0,
           faults' \in Nat, faults' >= faults,
           UNCHANGED <<users, audit, service, useReplica, serial, edits>>
    PROVE  AccessInv'
<1> USE DEF AccessInv
<1>1. /\ requests' \in [Requests -> Request]
      /\ requests'[r] = q /\ \A o \in Requests \ {r} : requests'[o] = requests[o]
    BY StateType
<1>2. Table' = Table /\ Visible' = Visible
    BY DEF Table, Visible
<1>3. TypeOK'
    BY <1>1 DEF TypeOK
<1>4. RequestsOK'
    BY <1>1 DEF RequestsOK
<1>5. AllSeen'
    BY <1>1, <1>2 DEF AllSeen
<1>6. QuietUnlessUp'
    BY <1>1 DEF QuietUnlessUp
<1>7. AdminKnown'
    BY DEF AdminKnown
<1>8. LogTrue'
    BY <1>1 DEF LogTrue, AuditRow
<1>9. LogComplete'
    <2>1. faults' = 0 => faults = 0
        BY StateType
    <2>q. QED BY <1>1, <1>2, <2>1 DEF LogComplete, AuditRow, Gone
<1>q. QED BY <1>3, <1>4, <1>5, <1>6, <1>7, <1>8, <1>9

LEMMA ReceiveInv ==
    ASSUME AccessInv, NEW r \in Requests, Receive(r)
    PROVE  AccessInv'
<1> USE DEF AccessInv
<1>1. PICK m \in Members, input \in Inputs :
        requests' = [requests EXCEPT ![r] = [NewRequest EXCEPT
             !.pc = "lookup", !.member = m, !.input = input,
             !.seen = {users[i][m] : i \in Visible}]]
    BY DEF Receive
<1>2. PICK e : e = {users[i][m] : i \in Visible}
    OBVIOUS
<1>3. PICK q : q = [NewRequest EXCEPT !.pc = "lookup", !.member = m, !.input = input, !.seen = e]
    OBVIOUS
<1>4. /\ q \in Request /\ q.pc = "lookup" /\ q.member = m /\ q.input = input
      /\ q.seen = e /\ q.user = Absent /\ q.outcome = "none" /\ q.recorded = "none"
    <2>1. e \subseteq User /\ input \in Input
        BY <1>2, StateType, AccessAssumption
    <2>q. QED BY <1>3, <2>1 DEF NewRequest, Request, Absent, User, Roles, Outcomes
<1>5. RequestOK(q, serial)
    BY <1>4, AccessAssumption, StateType DEF RequestOK, Absent
<1>6. \A i \in Visible : users[i][q.member] \in q.seen
    BY <1>2, <1>4
<1>7. requests[r].pc = "new" /\ service = "up" /\ faults' \in Nat /\ faults' >= faults
      /\ UNCHANGED <<users, audit, service, useReplica, serial, edits>>
    BY StateType DEF Receive
<1>8. requests' = [requests EXCEPT ![r] = q]
    BY <1>1, <1>2, <1>3
<1>q. QED BY <1>4, <1>5, <1>6, <1>7, <1>8, RequestMoves

LEMMA LookupInv ==
    ASSUME AccessInv, NEW r \in Requests, Lookup(r)
    PROVE  AccessInv'
<1> USE DEF AccessInv
<1>1. PICK user, input, member, p :
        /\ user = ReadPool(users, useReplica)[requests[r].member]
        /\ input = requests[r].input /\ member = requests[r].member /\ p = requests[r]
    OBVIOUS
<1>2. /\ p \in Request /\ p.pc = "lookup" /\ service = "up" /\ RequestOK(p, serial)
      /\ member \in Members /\ input \in Input
      /\ p.outcome = "none" /\ p.recorded = "none"
      /\ serial \in Nat /\ faults' \in Nat /\ faults' >= faults
      /\ UNCHANGED <<users, audit, service, useReplica, serial, edits>>
    BY <1>1, StateType DEF Lookup, RequestsOK, RequestOK, QuietUnlessUp
<1>3. /\ user \in User /\ user.id =< serial
      /\ user \in p.seen
    <2>1. /\ user \in User /\ user.id =< serial
          /\ \E i \in Visible : user = users[i][member]
        BY <1>1, <1>2, ReadType
    <2>q. QED BY <1>1, <1>2, <2>1 DEF AllSeen
<1>4. ASSUME user.id = 0 \/ ~user.active \/ input.kind = "other",
             requests' = [requests EXCEPT ![r].user = user, ![r].pc = "done"]
      PROVE  AccessInv'
    <2>1. PICK q : q = [p EXCEPT !.user = user, !.pc = "done"]
        OBVIOUS
    <2>2. /\ q \in Request /\ q.pc = "done" /\ q.member = member /\ q.input = input
          /\ q.user = user /\ q.outcome = "none" /\ q.recorded = "none"
        BY <1>1, <1>2, <1>3, <2>1 DEF Request
    <2>3. RequestOK(q, serial)
        BY <1>2, <1>3, <2>2 DEF RequestOK
    <2>4. requests' = [requests EXCEPT ![r] = q]
        BY <1>1, <1>4, <2>1, StateType
    <2>q. QED BY <1>1, <1>2, <2>2, <2>3, <2>4, RequestMoves
<1>5. ASSUME user.id # 0, user.active, input.kind = "menu",
             requests' = [requests EXCEPT ![r].user = user, ![r].input.kind = "command"]
      PROVE  AccessInv'
    <2>1. PICK typed : typed = [input EXCEPT !.kind = "command"]
        OBVIOUS
    <2>2. /\ typed \in Input /\ typed.kind = "command"
          /\ typed.minRole = input.minRole /\ typed.handlerRole = input.handlerRole
        BY <1>2, <2>1 DEF Input
    <2>3. PICK q : q = [p EXCEPT !.user = user, !.input = typed]
        OBVIOUS
    <2>4. /\ q \in Request /\ q.pc = "lookup" /\ q.member = member /\ q.input = typed
          /\ q.user = user /\ q.outcome = "none" /\ q.recorded = "none"
          /\ q.seen = p.seen
        BY <1>1, <1>2, <1>3, <2>2, <2>3 DEF Request
    <2>5. RequestOK(q, serial)
        BY <1>2, <1>3, <2>2, <2>4 DEF RequestOK
    <2>6. \A i \in Visible : users[i][q.member] \in q.seen
        BY <1>1, <1>2, <2>4 DEF AllSeen
    <2>7. requests' = [requests EXCEPT ![r] = q]
        <3>1. p.input = input
            BY <1>1
        <3>q. QED BY <1>1, <1>2, <1>5, <2>1, <2>3, StateType DEF Request
    <2>q. QED BY <1>1, <1>2, <2>4, <2>5, <2>6, <2>7, RequestMoves
<1>6. ASSUME user.id # 0, user.active, input.kind \in {"command", "button"},
             requests' = [requests EXCEPT ![r].user = user,
                             ![r].pc = IF input.kind = "button" THEN "press" ELSE "command"]
      PROVE  AccessInv'
    <2>1. PICK pc : pc = IF input.kind = "button" THEN "press" ELSE "command"
        OBVIOUS
    <2>2. PICK q : q = [p EXCEPT !.user = user, !.pc = pc]
        OBVIOUS
    <2>3. /\ q \in Request /\ q.pc = pc /\ q.member = member /\ q.input = input
          /\ q.user = user /\ q.outcome = "none" /\ q.recorded = "none"
          /\ q.seen = p.seen
        BY <1>1, <1>2, <1>3, <2>1, <2>2 DEF Request
    <2>4. RequestOK(q, serial)
        BY <1>2, <1>3, <1>6, <2>1, <2>3 DEF RequestOK
    <2>5. requests' = [requests EXCEPT ![r] = q]
        BY <1>1, <1>6, <2>1, <2>2, StateType
    <2>6. q.pc # "lookup" /\ q.pc # "done"
        BY <2>1, <2>3
    <2>q. QED BY <1>1, <1>2, <2>3, <2>4, <2>5, <2>6, RequestMoves
<1>q. QED BY <1>1, <1>4, <1>5, <1>6 DEF Lookup

LEMMA CheckRoleInv ==
    ASSUME AccessInv, NEW r \in Requests, CheckRole(r)
    PROVE  AccessInv'
<1> USE DEF AccessInv
<1>1. PICK p : p = requests[r]
    OBVIOUS
<1>2. /\ p \in Request /\ p.pc = "command" /\ service = "up" /\ RequestOK(p, serial)
      /\ serial \in Nat /\ faults' \in Nat /\ faults' >= faults
      /\ UNCHANGED <<users, audit, service, useReplica, serial, edits>>
    BY <1>1, StateType DEF CheckRole, RequestsOK, QuietUnlessUp
<1>3. CASE HasAccess(p.user.role, p.input.minRole)
    <2>1. PICK q : q = [p EXCEPT !.pc = "handle"]
        OBVIOUS
    <2>2. /\ q \in Request /\ q.pc = "handle" /\ q.member = p.member /\ q.input = p.input
          /\ q.user = p.user /\ q.outcome = p.outcome /\ q.recorded = p.recorded
          /\ q.seen = p.seen
        BY <1>2, <2>1 DEF Request
    <2>3. RequestOK(q, serial)
        BY <1>2, <1>3, <2>2 DEF RequestOK
    <2>4. requests' = [requests EXCEPT ![r] = q]
        BY <1>1, <1>3, <2>1, StateType DEF CheckRole
    <2>5. q.pc # "lookup" /\ q.pc # "done"
        BY <2>2
    <2>q. QED BY <1>1, <1>2, <2>2, <2>3, <2>4, <2>5, RequestMoves
<1>4. CASE ~HasAccess(p.user.role, p.input.minRole)
    <2>1. PICK q : q = [p EXCEPT !.pc = "log", !.outcome = "denied", !.recorded = "denied"]
        OBVIOUS
    <2>2. /\ q \in Request /\ q.pc = "log" /\ q.member = p.member /\ q.input = p.input
          /\ q.user = p.user /\ q.outcome = "denied" /\ q.recorded = "denied"
          /\ q.seen = p.seen
        BY <1>2, <2>1 DEF Request, Outcomes
    <2>3. RequestOK(q, serial)
        BY <1>2, <1>4, <2>2 DEF RequestOK
    <2>4. requests' = [requests EXCEPT ![r] = q]
        BY <1>1, <1>4, <2>1, StateType DEF CheckRole
    <2>5. q.pc # "lookup" /\ q.pc # "done"
        BY <2>2
    <2>q. QED BY <1>1, <1>2, <2>2, <2>3, <2>4, <2>5, RequestMoves
<1>q. QED BY <1>3, <1>4

LEMMA HandleInv ==
    ASSUME AccessInv, NEW r \in Requests, Handle(r)
    PROVE  AccessInv'
<1> USE DEF AccessInv
<1>1. PICK p : p = requests[r]
    OBVIOUS
<1>2. /\ p \in Request /\ p.pc = "handle" /\ service = "up" /\ RequestOK(p, serial)
      /\ serial \in Nat /\ faults' \in Nat /\ faults' >= faults
      /\ UNCHANGED <<users, audit, service, useReplica, serial, edits>>
    BY <1>1, StateType DEF Handle, RequestsOK, QuietUnlessUp
<1>3. PICK outcome \in Outcomes, recorded \in Outcomes :
        /\ requests' = [requests EXCEPT ![r].pc = "log", ![r].outcome = outcome,
                                        ![r].recorded = recorded]
        /\ \/ /\ HasAccess(p.user.role, p.input.handlerRole)
              /\ outcome \in {"success", "error"} /\ recorded = outcome
           \/ outcome = "denied" /\ recorded = "success"
    <2>1. "denied" \in Outcomes /\ "success" \in Outcomes /\ "error" \in Outcomes
        BY DEF Outcomes
    <2>q. QED BY <1>1, <2>1 DEF Handle
<1>4. PICK q : q = [p EXCEPT !.pc = "log", !.outcome = outcome, !.recorded = recorded]
    OBVIOUS
<1>5. /\ q \in Request /\ q.pc = "log" /\ q.member = p.member /\ q.input = p.input
      /\ q.user = p.user /\ q.outcome = outcome /\ q.recorded = recorded
      /\ q.seen = p.seen
    BY <1>2, <1>4 DEF Request
<1>6. RequestOK(q, serial)
    <2>1. HasAccess(p.user.role, p.input.minRole) /\ p.user.id # 0 /\ p.user.active
        BY <1>2 DEF RequestOK
    <2>2. outcome \in {"success", "error"} => Permitted(q)
        BY <1>2, <1>3, <1>5, <2>1 DEF RequestOK, Permitted
    <2>3. q.input \in Input /\ (recorded # "none") /\ recorded # "denied"
          /\ (outcome = "error" <=> recorded = "error")
        BY <1>2, <1>3, <1>5 DEF RequestOK
    <2>q. QED BY <1>2, <1>5, <2>1, <2>2, <2>3 DEF RequestOK
<1>7. requests' = [requests EXCEPT ![r] = q]
    BY <1>1, <1>3, <1>4, StateType
<1>8. q.pc # "lookup" /\ q.pc # "done"
    BY <1>5
<1>q. QED BY <1>1, <1>2, <1>5, <1>6, <1>7, <1>8, RequestMoves

LEMMA HandlePressInv ==
    ASSUME AccessInv, NEW r \in Requests, HandlePress(r)
    PROVE  AccessInv'
<1> USE DEF AccessInv
<1>1. PICK p : p = requests[r]
    OBVIOUS
<1>2. /\ p \in Request /\ p.pc = "press" /\ RequestOK(p, serial)
      /\ serial \in Nat /\ faults' \in Nat /\ faults' >= faults
      /\ UNCHANGED <<users, audit, service, useReplica, serial, edits>>
    BY <1>1, StateType DEF HandlePress, RequestsOK
<1>3. PICK outcome \in {"success", "error", "denied"} :
        /\ requests' = [requests EXCEPT ![r].pc = "done", ![r].outcome = outcome]
        /\ outcome # "denied" => HasAccess(p.user.role, p.input.handlerRole)
    BY <1>1 DEF HandlePress
<1>4. PICK q : q = [p EXCEPT !.pc = "done", !.outcome = outcome]
    OBVIOUS
<1>5. /\ q \in Request /\ q.pc = "done" /\ q.member = p.member /\ q.input = p.input
      /\ q.user = p.user /\ q.outcome = outcome /\ q.recorded = "none"
      /\ q.seen = p.seen
    BY <1>2, <1>4 DEF Request, Outcomes, RequestOK
<1>6. RequestOK(q, serial)
    <2>1. outcome \in {"success", "error"} => Permitted(q)
        BY <1>2, <1>3, <1>5 DEF RequestOK, Permitted
    <2>q. QED BY <1>2, <1>5, <2>1 DEF RequestOK
<1>7. requests' = [requests EXCEPT ![r] = q]
    BY <1>1, <1>3, <1>4, StateType
<1>q. QED BY <1>1, <1>2, <1>5, <1>6, <1>7, RequestMoves

\* The read or the INSERT of the log fails.
LEMMA RequestFailedInv ==
    ASSUME AccessInv, NEW r \in Requests, LookupFailed(r) \/ WriteAuditFailed(r)
    PROVE  AccessInv'
<1> USE DEF AccessInv
<1>1. PICK p : p = requests[r]
    OBVIOUS
<1>2. /\ p \in Request /\ p.pc \in {"lookup", "log"} /\ RequestOK(p, serial)
      /\ serial \in Nat /\ faults' \in Nat /\ faults' >= faults /\ faults' > 0
      /\ requests' = [requests EXCEPT ![r].pc = "done"]
      /\ UNCHANGED <<users, audit, service, useReplica, serial, edits>>
    BY <1>1, StateType DEF LookupFailed, WriteAuditFailed, Fault, RequestsOK
<1>3. PICK q : q = [p EXCEPT !.pc = "done"]
    OBVIOUS
<1>4. /\ q \in Request /\ q.pc = "done" /\ q.member = p.member /\ q.input = p.input
      /\ q.user = p.user /\ q.outcome = p.outcome /\ q.recorded = p.recorded
      /\ q.seen = p.seen
    BY <1>2, <1>3 DEF Request
<1>5. RequestOK(q, serial)
    <2>1. Permitted(p) => Permitted(q)
        BY <1>4 DEF Permitted
    <2>q. QED BY <1>2, <1>4, <2>1 DEF RequestOK
<1>6. requests' = [requests EXCEPT ![r] = q]
    BY <1>1, <1>2, <1>3, StateType
<1>q. QED BY <1>1, <1>2, <1>4, <1>5, <1>6, RequestMoves

LEMMA WriteAuditInv ==
    ASSUME AccessInv, NEW r \in Requests, WriteAudit(r)
    PROVE  AccessInv'
<1> USE DEF AccessInv
<1>1. /\ requests[r] \in Request /\ requests[r].pc = "log" /\ service = "up"
      /\ RequestOK(requests[r], serial)
      /\ requests' = [requests EXCEPT ![r].pc = "done"]
      /\ UNCHANGED <<users, service, useReplica, serial, edits, faults>>
    BY StateType DEF WriteAudit, RequestsOK, QuietUnlessUp
<1>2. /\ requests' \in [Requests -> Request]
      /\ requests'[r].pc = "done" /\ requests'[r].member = requests[r].member
      /\ requests'[r].input = requests[r].input /\ requests'[r].user = requests[r].user
      /\ requests'[r].outcome = requests[r].outcome /\ requests'[r].recorded = requests[r].recorded
      /\ requests'[r].seen = requests[r].seen
      /\ \A o \in Requests \ {r} : requests'[o] = requests[o]
    BY <1>1, StateType DEF Request
<1>3. Table' = Table /\ Visible' = Visible
    BY <1>1 DEF Table, Visible
<1>4. audit' = IF Gone(requests[r].user.id) THEN audit ELSE audit \cup {AuditRow(r)}
    BY DEF WriteAudit, Gone
<1>5. TypeOK'
    <2>1. AuditRow(r) \in [request : Requests, user : Nat, result : Outcomes]
        BY <1>1 DEF AuditRow, Request, User
    <2>q. QED BY <1>1, <1>2, <1>4, <2>1 DEF TypeOK
<1>6. RequestsOK'
    <2>1. Permitted(requests[r]) => Permitted(requests'[r])
        BY <1>2 DEF Permitted
    <2>2. RequestOK(requests'[r], serial)
        BY <1>1, <1>2, <2>1 DEF RequestOK
    <2>q. QED BY <1>1, <1>2, <2>2 DEF RequestsOK
<1>7. AllSeen'
    BY <1>1, <1>2, <1>3 DEF AllSeen
<1>8. QuietUnlessUp' /\ AdminKnown'
    BY <1>1, <1>2 DEF QuietUnlessUp, AdminKnown
<1>9. requests[r].recorded # "none"
    BY <1>1 DEF RequestOK
<1>10. \A o \in Requests : AuditRow(o)' = AuditRow(o)
    BY <1>2 DEF AuditRow
<1>11. LogTrue'
    <2>1. ASSUME NEW row \in audit'
          PROVE  /\ row.request \in Requests
                 /\ requests'[row.request].pc = "done" /\ requests'[row.request].recorded # "none"
                 /\ row = AuditRow(row.request)'
        <3>1. CASE row \in audit
            BY <1>2, <1>10, <3>1 DEF LogTrue
        <3>2. CASE row = AuditRow(r)
            <4>1. row.request = r
                BY <3>2 DEF AuditRow
            <4>q. QED BY <1>2, <1>9, <1>10, <3>2, <4>1
        <3>q. QED BY <1>4, <3>1, <3>2
    <2>q. QED BY <2>1 DEF LogTrue
<1>12. LogComplete'
    <2>1. AuditRow(r) \in audit' \/ Gone(requests[r].user.id)
        BY <1>4
    <2>q. QED BY <1>1, <1>2, <1>3, <1>4, <1>10, <2>1 DEF LogComplete, Gone
<1>q. QED BY <1>5, <1>6, <1>7, <1>8, <1>11, <1>12

-----------------------------------------------------------------------------
(* The process and the replica.                                            *)

LEMMA InitInv == Init => AccessInv
<1> SUFFICES ASSUME Init PROVE AccessInv
    OBVIOUS
<1>1. /\ users = <<[m \in Members |-> Absent]>> /\ audit = {} /\ service = "down"
      /\ serial = 0 /\ edits = 0 /\ faults = 0 /\ useReplica = FALSE
      /\ requests = [r \in Requests |-> NewRequest]
    BY DEF Init
<1>2. Absent \in User /\ Absent.id = 0
    BY DEF Absent, User, Roles
<1>3. /\ NewRequest \in Request /\ NewRequest.pc = "new" /\ NewRequest.user = Absent
      /\ NewRequest.outcome = "none" /\ NewRequest.recorded = "none"
    BY <1>2 DEF NewRequest, Request, Outcomes
<1>4. requests \in [Requests -> Request] /\ \A r \in Requests : requests[r] = NewRequest
    BY <1>1, <1>3
<1>5. TypeOK
    <2>1. PICK t : t = [m \in Members |-> Absent]
        OBVIOUS
    <2>2. t \in [Members -> User] /\ \A m \in Members : t[m] = Absent
        BY <1>2, <2>1
    <2>3. users = <<t>>
        BY <1>1, <2>1
    <2>4. users \in Seq([Members -> User]) /\ Len(users) = 1 /\ users[1] = t
        BY <2>2, <2>3
    <2>5. \A i \in 1..Len(users), m \in Members : users[i][m].id <= serial
        BY <1>1, <1>2, <2>2, <2>4
    <2>6. /\ audit \subseteq [request : Requests, user : Nat, result : Outcomes]
          /\ service \in {"down", "count", "create", "up"} /\ useReplica \in BOOLEAN
          /\ serial \in Nat /\ edits \in Nat /\ faults \in Nat
        BY <1>1
    <2>7. users \in Seq([Members -> User]) /\ Len(users) > 0
        BY <2>4
    <2>q. QED BY <1>4, <2>5, <2>6, <2>7 DEF TypeOK
<1>6. RequestsOK /\ AllSeen /\ QuietUnlessUp
    BY <1>1, <1>2, <1>3, <1>4 DEF RequestsOK, RequestOK, AllSeen, QuietUnlessUp
<1>7. AdminKnown /\ LogTrue
    BY <1>1 DEF AdminKnown, LogTrue
<1>8. LogComplete
    BY <1>3, <1>4 DEF LogComplete
<1>q. QED BY <1>5, <1>6, <1>7, <1>8 DEF AccessInv

LEMMA CatchUpInv ==
    ASSUME AccessInv, ReplicaCatchesUp
    PROVE  AccessInv'
<1> USE DEF AccessInv
<1>1. /\ Lagging(users) /\ users' = Replay(users)
      /\ UNCHANGED <<audit, service, useReplica, requests, serial, edits, faults>>
    BY DEF ReplicaCatchesUp
<1>2. /\ users' \in Seq([Members -> User]) /\ Len(users') > 0 /\ Table' = Table
      /\ \A i \in 1..Len(users'), m \in Members : users'[i][m].id <= serial'
      /\ \A j \in Visible' : \E i \in Visible : users'[j] = users[i]
    BY <1>1, Replayed
<1>3. TypeOK'
    BY <1>1, <1>2 DEF TypeOK
<1>4. AllSeen'
    BY <1>1, <1>2 DEF AllSeen
<1>5. RequestsOK' /\ QuietUnlessUp' /\ AdminKnown'
    BY <1>1 DEF RequestsOK, QuietUnlessUp, AdminKnown
<1>6. LogTrue' /\ LogComplete'
    BY <1>1, <1>2 DEF LogTrue, LogComplete, AuditRow, Gone
<1>q. QED BY <1>3, <1>4, <1>5, <1>6

\* main gets one step further, or ends, and the table is not touched.
LEMMA MainInv ==
    ASSUME AccessInv, UNCHANGED <<users, audit, requests, serial, edits>>,
           service # "up", service' \in {"down", "count", "create", "up"},
           service' \in {"count", "create"} => InitialAdmin \in Members,
           useReplica' \in BOOLEAN, faults' \in Nat, faults' >= faults
    PROVE  AccessInv'
<1> USE DEF AccessInv
<1>1. \A r \in Requests : requests[r].pc \in {"new", "done"}
    BY DEF QuietUnlessUp
<1>2. TypeOK'
    BY DEF TypeOK
<1>3. RequestsOK' /\ AllSeen' /\ QuietUnlessUp' /\ AdminKnown'
    BY <1>1 DEF RequestsOK, AllSeen, QuietUnlessUp, AdminKnown
<1>4. LogTrue'
    BY DEF LogTrue, AuditRow
<1>5. LogComplete'
    <2>1. faults' = 0 => faults = 0
        BY StateType
    <2>q. QED BY <2>1 DEF LogComplete, AuditRow, Gone, Table
<1>q. QED BY <1>2, <1>3, <1>4, <1>5

\* A new id or none: no user that is gone comes back.
LEMMA GoneStays ==
    ASSUME TypeOK, NEW m \in Members, NEW row \in User,
           Table' = [Table EXCEPT ![m] = row],
           row.id = 0 \/ row.id = Table[m].id \/ row.id > serial,
           NEW id \in Nat, id # 0, id =< serial, Gone(id)
    PROVE  Gone(id)'
<1>1. \A k \in Members : Table'[k] = IF k = m THEN row ELSE Table[k]
    BY StateType
<1>2. row.id # id
    BY StateType DEF Gone, User
<1>q. QED BY <1>1, <1>2 DEF Gone

\* bootstrapAdmin inserts the admin.
LEMMA InsertAdminInv ==
    ASSUME AccessInv, service = "create", InsertAdmin,
           service' \in {"down", "up"}, faults' \in Nat, faults' >= faults,
           UNCHANGED <<audit, useReplica, requests, edits>>
    PROVE  AccessInv'
<1> USE DEF AccessInv
<1>1. PICK row : row = [id |-> serial + 1, role |-> "admin", active |-> TRUE]
    OBVIOUS
<1>2. /\ InitialAdmin \in Members /\ serial \in Nat /\ serial' = serial + 1
      /\ row \in User /\ row.id = serial + 1 /\ SetUser(InitialAdmin, row)
      /\ \A r \in Requests : requests[r].pc \in {"new", "done"}
    BY <1>1, StateType DEF AdminKnown, InsertAdmin, User, Roles, QuietUnlessUp
<1>3. serial' \in Nat /\ serial' >= serial /\ row.id =< serial' /\ row.id > serial
    BY <1>2
<1>4. /\ users' \in Seq([Members -> User]) /\ Len(users') > 0
      /\ Table' = [Table EXCEPT ![InitialAdmin] = row]
      /\ \A i \in 1..Len(users'), k \in Members : users'[i][k].id <= serial'
    BY <1>2, <1>3, Committed
<1>5. TypeOK'
    BY <1>3, <1>4 DEF TypeOK
<1>6. RequestsOK'
    <2>1. ASSUME NEW r \in Requests
          PROVE  RequestOK(requests[r], serial')
        <3>1. RequestOK(requests[r], serial) /\ requests[r].user \in User
            BY StateType DEF RequestsOK, Request
        <3>q. QED BY <1>2, <3>1 DEF RequestOK, User
    <2>q. QED BY <2>1 DEF RequestsOK
<1>7. AllSeen' /\ QuietUnlessUp' /\ AdminKnown'
    BY <1>2 DEF AllSeen, QuietUnlessUp, AdminKnown
<1>8. LogTrue'
    BY DEF LogTrue, AuditRow
<1>9. LogComplete'
    <2>1. ASSUME NEW r \in Requests, faults' = 0,
                 requests[r].pc = "done", requests[r].recorded # "none"
          PROVE  AuditRow(r) \in audit \/ Gone(requests[r].user.id)'
        <3>1. AuditRow(r) \in audit \/ Gone(requests[r].user.id)
            BY <2>1, StateType DEF LogComplete
        <3>2. PICK id : id = requests[r].user.id
            OBVIOUS
        <3>3. id \in Nat /\ id # 0 /\ id =< serial
            BY <2>1, <3>2, StateType DEF RequestsOK, RequestOK, Request, User
        <3>4. Gone(id) => Gone(id)'
            BY <1>2, <1>3, <1>4, <3>3, GoneStays
        <3>q. QED BY <3>1, <3>2, <3>4
    <2>q. QED BY <2>1 DEF LogComplete, AuditRow
<1>q. QED BY <1>5, <1>6, <1>7, <1>8, <1>9

LEMMA CrashInv ==
    ASSUME AccessInv, Crash
    PROVE  AccessInv'
<1> USE DEF AccessInv
<1>1. /\ service' = "down" /\ faults' \in Nat /\ faults' > 0
      /\ UNCHANGED <<users, audit, useReplica, serial, edits>>
    BY StateType DEF Crash, Fault
<1>2. /\ requests' \in [Requests -> Request]
      /\ \A r \in Requests : \/ requests[r].pc = "new" /\ requests'[r] = requests[r]
                             \/ requests[r].pc # "new"
                                /\ requests'[r] = [requests[r] EXCEPT !.pc = "done"]
    <2>1. requests' = [r \in Requests |-> IF requests[r].pc = "new" THEN requests[r]
                                          ELSE [requests[r] EXCEPT !.pc = "done"]]
        BY DEF Crash
    <2>2. ASSUME NEW q \in Request
          PROVE  [q EXCEPT !.pc = "done"] \in Request
        BY DEF Request
    <2>q. QED BY <2>1, <2>2, StateType
<1>3. \A r \in Requests :
         /\ requests'[r].pc \in {"new", "done"}
         /\ requests[r].pc = "done" => requests'[r].pc = "done"
         /\ requests'[r].pc = "new" => requests[r].pc = "new"
         /\ requests'[r].member = requests[r].member /\ requests'[r].input = requests[r].input
         /\ requests'[r].user = requests[r].user /\ requests'[r].outcome = requests[r].outcome
         /\ requests'[r].recorded = requests[r].recorded
         /\ requests'[r].seen = requests[r].seen
    BY <1>2, StateType DEF Request
<1>4. TypeOK'
    BY <1>1, <1>2 DEF TypeOK
<1>5. RequestsOK'
    <2>1. ASSUME NEW r \in Requests
          PROVE  RequestOK(requests'[r], serial)
        <3>1. Permitted(requests[r]) => Permitted(requests'[r])
            BY <1>3 DEF Permitted
        <3>q. QED BY <1>2, <1>3, <3>1 DEF RequestsOK, RequestOK
    <2>q. QED BY <1>1, <2>1 DEF RequestsOK
<1>6. AllSeen' /\ QuietUnlessUp' /\ AdminKnown'
    BY <1>1, <1>3 DEF AllSeen, QuietUnlessUp, AdminKnown
<1>7. LogTrue'
    BY <1>1, <1>3 DEF LogTrue, AuditRow
<1>8. LogComplete'
    BY <1>1 DEF LogComplete
<1>q. QED BY <1>4, <1>5, <1>6, <1>7, <1>8

-----------------------------------------------------------------------------
(* tgops-ctl.                                                              *)

LEMMA EditInv ==
    ASSUME AccessInv, NEW m \in Members, NEW row \in User, Edit(m, row),
           serial' \in Nat, serial' >= serial, row.id =< serial',
           row.id = 0 \/ row.id = Table[m].id \/ row.id > serial
    PROVE  AccessInv'
<1> USE DEF AccessInv
<1>1. /\ SetUser(m, row) /\ edits' = edits + 1
      /\ UNCHANGED <<audit, service, useReplica, faults>>
    BY DEF Edit
<1>2. /\ users' \in Seq([Members -> User]) /\ Len(users') > 0
      /\ Table' = [Table EXCEPT ![m] = row]
      /\ \A i \in 1..Len(users'), k \in Members : users'[i][k].id <= serial'
      /\ \A j \in Visible', k \in Members :
            \/ k = m /\ users'[j][k] = row
            \/ \E i \in Visible : users'[j][k] = users[i][k]
    BY <1>1, Committed
<1>3. \A r \in Requests :
         /\ requests'[r] \in Request
         /\ requests'[r].pc = requests[r].pc
         /\ requests'[r].member = requests[r].member /\ requests'[r].input = requests[r].input
         /\ requests'[r].user = requests[r].user /\ requests'[r].outcome = requests[r].outcome
         /\ requests'[r].recorded = requests[r].recorded
         /\ requests[r].seen \subseteq requests'[r].seen
         /\ requests[r].pc = "lookup" /\ requests[r].member = m => row \in requests'[r].seen
    <2>1. requests' = [r \in Requests |->
             IF requests[r].pc = "lookup" /\ requests[r].member = m
             THEN [requests[r] EXCEPT !.seen = @ \cup {row}]
             ELSE requests[r]]
        BY DEF Edit
    <2>2. ASSUME NEW r \in Requests
          PROVE  /\ requests'[r] \in Request
                 /\ requests'[r].pc = requests[r].pc
                 /\ requests'[r].member = requests[r].member
                 /\ requests'[r].input = requests[r].input
                 /\ requests'[r].user = requests[r].user
                 /\ requests'[r].outcome = requests[r].outcome
                 /\ requests'[r].recorded = requests[r].recorded
                 /\ requests[r].seen \subseteq requests'[r].seen
                 /\ requests[r].pc = "lookup" /\ requests[r].member = m => row \in requests'[r].seen
        <3>1. requests[r] \in Request
            BY StateType
        <3>2. CASE requests[r].pc = "lookup" /\ requests[r].member = m
            <4>1. PICK e \in SUBSET User : e = requests[r].seen \cup {row}
                BY <3>1 DEF Request
            <4>2. requests'[r] = [requests[r] EXCEPT !.seen = e]
                BY <2>1, <3>2, <4>1
            <4>q. QED BY <3>1, <4>1, <4>2 DEF Request
        <3>3. CASE ~(requests[r].pc = "lookup" /\ requests[r].member = m)
            BY <2>1, <3>1, <3>3
        <3>q. QED BY <3>2, <3>3
    <2>q. QED BY <2>2
<1>4. requests' \in [Requests -> Request]
    BY <1>3 DEF Edit
<1>5. TypeOK'
    BY <1>1, <1>2, <1>4 DEF TypeOK
<1>6. RequestsOK'
    <2>1. ASSUME NEW r \in Requests
          PROVE  RequestOK(requests'[r], serial')
        <3>1. RequestOK(requests[r], serial) /\ requests[r].user \in User /\ serial \in Nat
            BY StateType DEF RequestsOK, Request
        <3>2. requests[r].user.id =< serial'
            BY <3>1 DEF RequestOK, User
        <3>3. Permitted(requests[r]) => Permitted(requests'[r])
            BY <1>3 DEF Permitted
        <3>q. QED BY <1>3, <3>1, <3>2, <3>3 DEF RequestOK
    <2>q. QED BY <2>1 DEF RequestsOK
<1>7. AllSeen'
    <2>1. ASSUME NEW r \in Requests, requests'[r].pc = "lookup", NEW j \in Visible'
          PROVE  users'[j][requests'[r].member] \in requests'[r].seen
        <3>1. PICK k : k = requests[r].member
            OBVIOUS
        <3>2. k \in Members /\ requests[r].pc = "lookup" /\ requests'[r].member = k
            BY <1>3, <2>1, <3>1 DEF RequestsOK, RequestOK
        <3>3. CASE k = m /\ users'[j][k] = row
            BY <1>3, <3>1, <3>2, <3>3
        <3>4. CASE \E i \in Visible : users'[j][k] = users[i][k]
            BY <1>3, <3>1, <3>2, <3>4 DEF AllSeen
        <3>q. QED BY <1>2, <3>2, <3>3, <3>4
    <2>q. QED BY <2>1 DEF AllSeen
<1>8. QuietUnlessUp' /\ AdminKnown'
    BY <1>1, <1>3 DEF QuietUnlessUp, AdminKnown
<1>9. LogTrue'
    BY <1>1, <1>3 DEF LogTrue, AuditRow
<1>10. LogComplete'
    <2>1. ASSUME NEW r \in Requests, faults = 0,
                 requests[r].pc = "done", requests[r].recorded # "none"
          PROVE  AuditRow(r) \in audit \/ Gone(requests[r].user.id)'
        <3>1. AuditRow(r) \in audit \/ Gone(requests[r].user.id)
            BY <2>1 DEF LogComplete
        <3>2. PICK id : id = requests[r].user.id
            OBVIOUS
        <3>3. id \in Nat /\ id # 0 /\ id =< serial
            BY <2>1, <3>2, StateType DEF RequestsOK, RequestOK, Request, User
        <3>4. Gone(id) => Gone(id)'
            BY <1>2, <3>3, GoneStays
        <3>5. requests'[r].user.id = id
            BY <1>3, <3>2
        <3>q. QED BY <3>1, <3>2, <3>4, <3>5
    <2>q. QED BY <1>1, <1>3, <2>1 DEF LogComplete, AuditRow, Gone
<1>q. QED BY <1>5, <1>6, <1>7, <1>8, <1>9, <1>10

LEMMA ControlInv ==
    ASSUME AccessInv, NEW m \in Members, UserAdd(m) \/ UserRole(m) \/ UserToggle(m) \/ UserDelete(m)
    PROVE  AccessInv'
<1>0. Table[m] \in User /\ Table[m].id =< serial /\ serial \in Nat
    BY StateType DEF AccessInv
<1>1. CASE UserAdd(m)
    <2>1. PICK role \in Roles : Edit(m, [id |-> serial + 1, role |-> role, active |-> TRUE])
        BY <1>1 DEF UserAdd
    <2>2. PICK row : row = [id |-> serial + 1, role |-> role, active |-> TRUE]
        OBVIOUS
    <2>3. row \in User /\ row.id = serial + 1 /\ Edit(m, row)
        BY <1>0, <2>1, <2>2 DEF User
    <2>4. serial' = serial + 1 /\ serial' \in Nat /\ serial' >= serial /\ row.id =< serial'
          /\ row.id > serial
        BY <1>0, <1>1, <2>3 DEF UserAdd
    <2>q. QED BY <2>3, <2>4, EditInv
<1>2. CASE UserRole(m)
    <2>1. PICK role \in Roles : Edit(m, [Table[m] EXCEPT !.role = role])
        BY <1>2 DEF UserRole
    <2>2. PICK row : row = [Table[m] EXCEPT !.role = role]
        OBVIOUS
    <2>3. row \in User /\ row.id = Table[m].id /\ Edit(m, row)
        BY <1>0, <2>1, <2>2 DEF User
    <2>4. serial' \in Nat /\ serial' >= serial /\ row.id =< serial'
        BY <1>0, <1>2, <2>3 DEF UserRole
    <2>q. QED BY <2>3, <2>4, EditInv
<1>3. CASE UserToggle(m)
    <2>1. PICK row : row = [Table[m] EXCEPT !.active = ~@]
        OBVIOUS
    <2>2. row \in User /\ row.id = Table[m].id /\ Edit(m, row)
        BY <1>0, <1>3, <2>1 DEF User, UserToggle
    <2>3. serial' \in Nat /\ serial' >= serial /\ row.id =< serial'
        BY <1>0, <1>3, <2>2 DEF UserToggle
    <2>q. QED BY <2>2, <2>3, EditInv
<1>4. CASE UserDelete(m)
    <2>1. Absent \in User /\ Absent.id = 0
        BY DEF Absent, User, Roles
    <2>2. Edit(m, Absent) /\ serial' \in Nat /\ serial' >= serial /\ Absent.id =< serial'
        BY <1>0, <1>4, <2>1 DEF UserDelete
    <2>q. QED BY <2>1, <2>2, EditInv
<1>q. QED BY <1>1, <1>2, <1>3, <1>4

-----------------------------------------------------------------------------
LEMMA NextInv == AccessInv /\ [Next]_vars => AccessInv'
<1> SUFFICES ASSUME AccessInv, [Next]_vars PROVE AccessInv'
    OBVIOUS
<1>0. faults \in Nat /\ useReplica \in BOOLEAN /\ service \in {"down", "count", "create", "up"}
    BY DEF AccessInv, TypeOK
<1>1. CASE ReplicaCatchesUp
    BY <1>1, CatchUpInv
<1>2. CASE Start
    <2>1. useReplica' \in BOOLEAN /\ faults' \in Nat /\ faults' >= faults
        <3>1. ConnectOutcomes \subseteq BOOLEAN
            BY DEF ConnectOutcomes
        <3>2. useReplica' \in ConnectOutcomes /\ faults' = faults
            BY <1>2 DEF Start
        <3>q. QED BY <1>0, <3>1, <3>2
    <2>2. service' \in {"up", "count"} /\ (service' = "count" => InitialAdmin \in Members)
        BY <1>2, AccessAssumption DEF Start
    <2>q. QED BY <1>2, <2>1, <2>2, MainInv DEF Start
<1>3. CASE Count
    <2>1. useReplica' \in BOOLEAN /\ faults' \in Nat /\ faults' >= faults
        BY <1>0, <1>3 DEF Count
    <2>2. service' \in {"up", "create"} /\ InitialAdmin \in Members
        BY <1>3 DEF Count, AccessInv, AdminKnown
    <2>q. QED BY <1>3, <2>1, <2>2, MainInv DEF Count
<1>4. CASE CreateAdmin
    <2>1. useReplica' \in BOOLEAN /\ faults' \in Nat /\ faults' >= faults
        <3>1. UNCHANGED <<useReplica, faults>>
            BY <1>4 DEF CreateAdmin
        <3>q. QED BY <1>0, <3>1
    <2>2. CASE InsertAdmin /\ service' = "up"
        BY <1>4, <2>1, <2>2, InsertAdminInv DEF CreateAdmin
    <2>3. CASE service' = "down" /\ UNCHANGED <<users, serial>>
        BY <1>4, <2>1, <2>3, MainInv DEF CreateAdmin
    <2>q. QED BY <1>4, <2>2, <2>3 DEF CreateAdmin
<1>5. CASE StartFailed
    <2>1. useReplica' \in BOOLEAN /\ faults' \in Nat /\ faults' >= faults
        <3>1. faults' = faults + 1 /\ useReplica' = useReplica
            BY <1>5 DEF StartFailed, Fault
        <3>q. QED BY <1>0, <3>1
    <2>2. CASE service \in {"count", "create"} /\ UNCHANGED <<users, serial>>
        BY <1>5, <2>1, <2>2, MainInv DEF StartFailed
    <2>3. CASE service = "create" /\ InsertAdmin
        BY <1>5, <2>1, <2>3, InsertAdminInv DEF StartFailed
    <2>q. QED BY <1>5, <2>2, <2>3 DEF StartFailed
<1>6. CASE Crash
    BY <1>6, CrashInv
<1>7. ASSUME NEW r \in Requests, Receive(r) \/ RequestStep(r) \/ LookupFailed(r) \/ WriteAuditFailed(r)
      PROVE  AccessInv'
    BY <1>7, ReceiveInv, LookupInv, CheckRoleInv, HandleInv, HandlePressInv, WriteAuditInv,
       RequestFailedInv DEF RequestStep
<1>8. ASSUME NEW m \in Members, UserAdd(m) \/ UserRole(m) \/ UserToggle(m) \/ UserDelete(m)
      PROVE  AccessInv'
    BY <1>8, ControlInv
<1>9. CASE UNCHANGED vars
    BY <1>9 DEF vars, AccessInv, TypeOK, RequestsOK, AllSeen, Visible, QuietUnlessUp,
        AdminKnown, LogTrue, LogComplete, AuditRow, Gone, Table
<1>q. QED BY <1>1, <1>2, <1>3, <1>4, <1>5, <1>6, <1>7, <1>8, <1>9 DEF Next

LEMMA AccessSafe == Spec => []AccessInv
    BY InitInv, NextInv, PTL DEF Spec

\* Every variable keeps its type: main never inserts an admin it was not given,
\* and no id of a user exceeds those that were given out.
THEOREM TypeCorrect == Spec => []TypeOK
<1>1. AccessInv => TypeOK
    BY DEF AccessInv
<1>q. QED BY <1>1, AccessSafe, PTL

\* No command is carried out for a user who was not entitled to it, by the
\* role of the command and by that of its handler, in a row that could be read
\* between the request and the read (Dispatch, handleCommand), whatever
\* tgops-ctl does meanwhile.
THEOREM OnlyTheEntitled == Spec => []CommandsOnlyIfEntitled
<1>1. ASSUME AccessInv, NEW r \in Requests, CarriedOut(r), ~Pressed(r)
      PROVE  \E row \in requests[r].seen : Entitles(row, requests[r].input)
    <2>1. /\ RequestOK(requests[r], serial)
          /\ requests[r].outcome \in {"success", "error"}
        BY <1>1 DEF AccessInv, RequestsOK, CarriedOut
    <2>2. requests[r].input \in Input /\ Permitted(requests[r])
        BY <2>1 DEF RequestOK
    <2>3. requests[r].input.kind # "button"
        BY <1>1 DEF Pressed
    <2>q. QED BY <2>2, <2>3 DEF Permitted, Entitles
<1>2. AccessInv => CommandsOnlyIfEntitled
    BY <1>1 DEF CommandsOnlyIfEntitled
<1>q. QED BY <1>2, AccessSafe, PTL

\* No press is carried out for a user who was not active, with the role its
\* handler asks for, in a row that could be read between the press and the
\* read (DispatchCallback).
THEOREM PressesOfTheActive == Spec => []PressesOnlyIfActive
<1>1. AccessInv => PressesOnlyIfActive
    BY DEF AccessInv, RequestsOK, RequestOK, Permitted, PressesOnlyIfActive, CarriedOut
<1>q. QED BY <1>1, AccessSafe, PTL

\* Every command the router carried out or refused is in audit_log, unless a
\* fault or the deletion of the user kept it out, and an error or a refusal of
\* the router is there as one (handleCommand, Logger.Log).  What a button does
\* and how a handler's own refusal is logged is not part of it.
THEOREM AuditComplete == Spec => []CommandsAreAudited
<1>1. ASSUME AccessInv, NEW r \in Requests
      PROVE  /\ Accountable(r) /\ ~Pressed(r) => Logged(r, Outcomes)
             /\ \A row \in audit : row.request = r =>
                  /\ row.user = requests[r].user.id
                  /\ row.result = "error" <=> requests[r].outcome = "error"
                  /\ row.result = "denied" => requests[r].outcome = "denied"
                  /\ ~HasAccess(requests[r].user.role, requests[r].input.minRole)
                        => row.result = "denied"
    <2>1. RequestOK(requests[r], serial) /\ requests[r] \in Request
        BY <1>1, StateType DEF AccessInv, RequestsOK
    <2>2. ASSUME NEW row \in audit, row.request = r
          PROVE  /\ row.user = requests[r].user.id /\ row.result = requests[r].recorded
                 /\ requests[r].recorded # "none"
        BY <1>1, <2>2 DEF AccessInv, LogTrue, AuditRow
    <2>3. ASSUME Accountable(r), ~Pressed(r)
          PROVE  Logged(r, Outcomes)
        <3>1. requests[r].outcome # "none" /\ requests[r].input \in Input
            BY <2>1, <2>3 DEF Accountable, RequestOK
        <3>2. requests[r].input.kind # "button"
            BY <2>3 DEF Pressed
        <3>3. requests[r].recorded # "none"
            BY <2>1, <3>1, <3>2 DEF RequestOK
        <3>4. AuditRow(r) \in audit
            BY <1>1, <2>3, <3>3 DEF Accountable, AccessInv, LogComplete, Gone
        <3>q. QED BY <2>1, <3>4 DEF Logged, AuditRow, Request
    <2>q. QED BY <2>1, <2>2, <2>3 DEF RequestOK
<1>2. AccessInv => CommandsAreAudited
    BY <1>1 DEF CommandsAreAudited
<1>q. QED BY <1>2, AccessSafe, PTL

=============================================================================
