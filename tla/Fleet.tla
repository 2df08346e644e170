------------------------------- MODULE Fleet -------------------------------
(***************************************************************************)
(* Commands that ask servers something: /status, /top, /versions,          *)
(* /updates, /backups, /cron list, /cron timers, /scan host, /scan image,  *)
(* /docker, /logs and /ping.  A command names its server, or offers a      *)
(* keyboard whose buttons name one - /docker, /logs and /ping fall back on *)
(* one instead.  The name is looked up in the list of servers              *)
(* (ComboSource.GetServers: the configuration and the table servers, which *)
(* tgops-ctl edits meanwhile) and each server that was asked for is run    *)
(* over SSH and reported in a message of its own.                          *)
(***************************************************************************)
EXTENDS Storage, FiniteSets

CONSTANTS
    Names, Hosts,     \* names and addresses of servers
    NoHost,           \* not an address
    All, NoTarget,    \* the target "all", and none given
    Checks,           \* the commands in use, of those below
    InitialConfig,    \* ssh.servers at the first start
    InitialTable,     \* servers at the first start
    Requests,         \* commands, one-shot
    CommandTimeout,   \* ssh.command_timeout
    OwnTimeout,       \* the timeout of each command's own section
    Durations,        \* how long a check may take
    MaxEdits,         \* bound: edits of the configuration and the table
    MaxFaults         \* bound: failed calls and restarts

Scans == {"host", "image"}

\* Without a keyboard.
Direct == {"docker", "logs", "ping"}

ASSUME FleetAssumption ==
    /\ NoHost \notin Hosts /\ All \notin Names /\ NoTarget \notin Names \cup {All}
    /\ Checks \subseteq {"status", "top", "versions", "updates", "backups", "list", "timers"}
                    \cup Scans \cup Direct
    /\ CommandTimeout \in Nat /\ OwnTimeout \in [Checks -> Nat] /\ Durations \subseteq Nat
    /\ MaxEdits \in Nat /\ MaxFaults \in Nat

VARIABLES
    file,        \* ssh.servers in config.yaml: the address of each name
    config,      \* what the running process loaded of it
    table,       \* history of the table servers
    useReplica,  \* db.Replica # nil in the running process
    requests,    \* the handlers' goroutines
    snapshots,   \* cron_snapshots: whose output of which command was kept
    edits, faults    \* how many so far

vars == <<file, config, table, useReplica, requests, snapshots, edits, faults>>

store == <<file, config, table, useReplica>>

-----------------------------------------------------------------------------
(* Servers.                                                                *)

Config == [Names -> Hosts \cup {NoHost}]

Absent == [host |-> NoHost, active |-> FALSE]

Table == [Names -> {Absent} \cup [host : Hosts, active : BOOLEAN]]

ASSUME InitialServersAssumption == InitialConfig \in Config /\ InitialTable \in Table

Server == [name : Names, host : Hosts]

\* The host the bot runs on.
Local == [name |-> NoTarget, host |-> NoHost]

Configured(cfg) == {s \in Server : cfg[s.name] = s.host}

\* servers, GetAll.
Active(rows) == {s \in Server : rows[s.name] = [host |-> s.host, active |-> TRUE]}

\* Slip: names are not compared.
MergeBoth(cfg, rows) == Configured(cfg) \cup Active(rows)

\* ComboSource.GetServers: the configuration has priority.
Merge(cfg, rows) == Configured(cfg) \cup {s \in Active(rows) : cfg[s.name] = NoHost}

GetServers == Merge(config, ReadPool(table, useReplica))

\* Slip: the error of the database is returned.
ListsWithoutDBFail == {{}}

\* What GetServers may return when the database fails: its error is ignored,
\* and GetAll does not look at rows.Err, so that the rows end anywhere.
ListsWithoutDB ==
    LET cfg == Configured(config)
    IN  {cfg \cup rows : rows \in SUBSET (GetServers \ cfg)}

\* What some reader could be shown: the versions the replica has yet to
\* replay, too.
Visible == {Merge(config, table[v]) : v \in IF useReplica THEN 1..Len(table) ELSE {Len(table)}}

-----------------------------------------------------------------------------
(* What a server says of itself and what is reported of it.                *)

\* nothing: no load, no updates, fresh backups, no jobs, no warnings, no
\* containers; lacking: no tool to ask, no directory to look into.
Conditions == {"nothing", "something", "lacking"}

\* How much of the output came back from Run: a command that took too long
\* leaves none of it, one that was cut off its first line.
Parts == {"all", "first", "none"}

Verdicts == {"nothing", "something", "unknown", "notFound"}

\* Collect, formatStatus: without its first number the server is down; the
\* others are zero when they could not be read.
StatusVerdict(condition, part) ==
    IF part = "none" THEN "unknown"
    ELSE IF part = "first" \/ condition = "lacking" THEN "nothing"
    ELSE condition

\* CollectTop: an error is reported; without ps the table is empty.
TopVerdict(condition, part) ==
    IF part # "all" THEN "unknown"
    ELSE IF condition = "lacking" THEN "nothing"
    ELSE condition

\* parseVersions, sendResult: what is not installed is not shown.  (nothing:
\* the first tool is not installed, another one is.)
VersionsVerdict(condition, part) ==
    IF part = "none" \/ condition = "lacking" THEN "unknown"
    ELSE IF part = "first" /\ condition = "nothing" THEN "unknown"
    ELSE "something"

\* Slip: apt unless the output says otherwise.
UpdatesVerdictApt(condition, part) ==
    IF part # "all" THEN "nothing"
    ELSE IF condition = "lacking" THEN "unknown"
    ELSE condition

\* parseOutput: the first line names the package manager; without it the
\* manager is unknown.
UpdatesVerdict(condition, part) ==
    IF part = "none" \/ condition = "lacking" THEN "unknown"
    ELSE IF part = "first" THEN "nothing"
    ELSE condition

\* parseResults: a file without its age is as good as a fresh one.
BackupsVerdict(condition, part) ==
    IF part = "none" \/ condition = "lacking" THEN "unknown"
    ELSE IF part = "first" THEN "nothing"
    ELSE condition

\* formatCrontab: no jobs, no output and no crontab look the same.
ListVerdict(condition, part) == IF condition = "something" /\ part # "none" THEN "something" ELSE "nothing"

TimersVerdict(condition, part) == IF part = "none" \/ condition = "lacking" THEN "unknown" ELSE condition

\* Slip: the mark of a missing lynis is output like any other.
HostVerdictAsIs(condition, part) == IF part = "none" THEN "nothing" ELSE condition

\* sendResult: no output means that there is nothing to report.
HostVerdict(condition, part) ==
    IF part = "none" THEN "nothing"
    ELSE IF condition = "lacking" THEN "unknown"
    ELSE condition

\* Without trivy the output is the shell's complaint.
ImageVerdict(condition, part) ==
    IF part = "none" THEN "nothing"
    ELSE IF condition = "lacking" THEN "something"
    ELSE condition

\* handlePS, handleImages: the first line is the header; without docker the
\* output is the shell's complaint.
DockerVerdict(condition, part) ==
    IF part = "none" THEN "nothing"
    ELSE IF condition = "lacking" THEN "something"
    ELSE IF part = "first" THEN "nothing"
    ELSE condition

\* handleLogs.
LogsVerdict(condition, part) ==
    IF part = "none" THEN "nothing"
    ELSE IF condition = "lacking" THEN "unknown"
    ELSE condition

\* run: the output is shown, whatever it says.
PingVerdict(condition, part) == IF part = "none" THEN "nothing" ELSE "something"

Verdict(check, condition, part) ==
    CASE check = "status" -> StatusVerdict(condition, part)
      [] check = "top" -> TopVerdict(condition, part)
      [] check = "versions" -> VersionsVerdict(condition, part)
      [] check = "docker" -> DockerVerdict(condition, part)
      [] check = "logs" -> LogsVerdict(condition, part)
      [] check = "ping" -> PingVerdict(condition, part)
      [] check = "updates" -> UpdatesVerdict(condition, part)
      [] check = "backups" -> BackupsVerdict(condition, part)
      [] check = "list" -> ListVerdict(condition, part)
      [] check = "timers" -> TimersVerdict(condition, part)
      [] check = "host" -> HostVerdict(condition, part)
      [] check = "image" -> ImageVerdict(condition, part)

\* Run waits for the shorter of its two time-outs; runCmd, on the bot's own
\* host, knows the command's alone.
TimedOut(check, s, took) == took > OwnTimeout[check] \/ (s # Local /\ took > CommandTimeout)

\* What is left of a check that took too long: nothing of the command that
\* did, but /status makes five, and runCmd returns what it has.
LeftOver(check, s) ==
    IF s = Local THEN {"first"} ELSE IF check = "status" THEN {"none", "first"} ELSE {"none"}

-----------------------------------------------------------------------------
(* Requests.                                                               *)

Targets == Names \cup {All, NoTarget}

Answer == [name : Targets, host : Hosts \cup {NoHost}, verdict : Verdicts,
           condition : Conditions, part : Parts]

\* offered: the keyboard's buttons; current: the answer being made; lost: the
\* goroutine ended before its work did; shown, kept: the servers that some
\* list, and that every list said to exist while the name was looked up.
Request == [pc : {"new", "ask", "keyboard", "resolve", "run", "save", "send", "done"},
            check : Checks, target : Targets, offered : SUBSET Targets, dead : BOOLEAN,
            todo : SUBSET (Server \cup {Local}), current : Answer, answers : SUBSET Answer, lost : BOOLEAN,
            shown : SUBSET Server, kept : SUBSET Server]

NoAnswer == [name |-> NoTarget, host |-> NoHost, verdict |-> "unknown",
             condition |-> "nothing", part |-> "none"]

New(check) == [pc |-> "new", check |-> check, target |-> NoTarget, offered |-> {}, dead |-> FALSE,
               todo |-> {}, current |-> NoAnswer, answers |-> {}, lost |-> FALSE,
               shown |-> {}, kept |-> {}]

LookUp(req, target) ==
    [req EXCEPT !.pc = "resolve", !.target = target,
                !.shown = UNION Visible, !.kept = {s \in Server : \A list \in Visible : s \in list}]

Named(target, list) == {s \in list : s.name = target}

\* The servers of which the first one is: the configuration comes first.
First(list) == IF list \cap Configured(config) # {} THEN list \cap Configured(config) ELSE list

\* resolveServer, parseArgs: what a target without a server means.
Default(check, target, list) ==
    CASE check = "ping" -> {Local}
      [] check = "docker" \/ (check = "logs" /\ target = NoTarget) -> First(list)
      [] OTHER -> {}

\* The servers a target stands for, one of those sets: only /scan knows "all".
Asked(check, target, list) ==
    IF target = All /\ check \in Scans THEN {list}
    ELSE IF Named(target, list) # {} THEN {Named(target, list)}
    ELSE IF Default(check, target, list) # {} THEN {{s} : s \in Default(check, target, list)}
    ELSE {{}}

-----------------------------------------------------------------------------
Init ==
    /\ file = InitialConfig
    /\ config = file
    /\ table = <<InitialTable>>
    /\ useReplica \in ConnectOutcomes
    /\ requests \in [Requests -> {New(check) : check \in Checks}]
    /\ snapshots = {}
    /\ edits = 0 /\ faults = 0

Fault == faults < MaxFaults /\ faults' = faults + 1

Become(r, req) ==
    /\ requests' = [requests EXCEPT ![r] = req]
    /\ UNCHANGED <<store, edits>>

-----------------------------------------------------------------------------
(* The configuration, tgops-ctl server:*, the replica, the process.        *)

ReplicaCatchesUp ==
    /\ Lagging(table)
    /\ table' = Replay(table)
    /\ UNCHANGED <<file, config, useReplica, requests, snapshots, edits, faults>>

\* A commit may be shown to whoever looks a name up.
EditTable(rows) ==
    LET list == Merge(config, rows)
    IN  /\ edits < MaxEdits
        /\ edits' = edits + 1
        /\ table' = Commit(table, rows)
        /\ requests' = [r \in Requests |->
              IF requests[r].pc # "resolve" THEN requests[r]
              ELSE [requests[r] EXCEPT !.shown = @ \cup list, !.kept = @ \cap list]]
        /\ UNCHANGED <<file, config, useReplica, snapshots, faults>>

\* server_add: the name is new to the table and to the file.
ServerAdd(n, h) ==
    /\ Primary(table)[n] = Absent
    /\ file[n] = NoHost
    /\ EditTable([Primary(table) EXCEPT ![n] = [host |-> h, active |-> TRUE]])

ServerDelete(n) ==
    /\ Primary(table)[n] # Absent
    /\ EditTable([Primary(table) EXCEPT ![n] = Absent])

ServerToggle(n) ==
    /\ Primary(table)[n] # Absent
    /\ EditTable([Primary(table) EXCEPT ![n].active = ~@])

\* config.yaml is edited by hand, whatever the table holds.
EditFile(n, h) ==
    /\ edits < MaxEdits
    /\ file[n] # h
    /\ edits' = edits + 1
    /\ file' = [file EXCEPT ![n] = h]
    /\ UNCHANGED <<config, table, useReplica, requests, snapshots, faults>>

\* Keyboards stay in the chat; a command in progress is lost.
Restart ==
    /\ Fault
    /\ config' = file
    /\ useReplica' \in ConnectOutcomes
    /\ requests' = [r \in Requests |->
          IF requests[r].pc \in {"new", "keyboard", "done"} THEN requests[r]
          ELSE [requests[r] EXCEPT !.pc = "done", !.lost = TRUE]]
    /\ UNCHANGED <<file, table, snapshots, edits>>

-----------------------------------------------------------------------------
(* Handle, HandleCallback.                                                 *)

\* Handle: with a name it goes on, without one it may offer a keyboard.
Command(r, target) ==
    /\ requests[r].pc = "new"
    /\ Become(r, IF target = NoTarget /\ requests[r].check \notin Direct THEN [requests[r] EXCEPT !.pc = "ask"]
                 ELSE LookUp(requests[r], target))
    /\ UNCHANGED <<snapshots, faults>>

Offer(req, list) ==
    IF list = {} THEN [req EXCEPT !.pc = "done"]
    ELSE [req EXCEPT !.pc = "keyboard",
                     !.offered = {s.name : s \in list} \cup IF req.check \in Scans THEN {All} ELSE {}]

\* askServer.
AskServer(r) ==
    /\ requests[r].pc = "ask"
    /\ \/ Become(r, Offer(requests[r], GetServers)) /\ UNCHANGED faults
       \/ (\E list \in ListsWithoutDB : Become(r, Offer(requests[r], list))) /\ Fault
       \/ Become(r, [requests[r] EXCEPT !.pc = "done", !.lost = TRUE]) /\ Fault
    /\ UNCHANGED snapshots

\* HandleCallback: buttons of /scan image have no branch of their own.
PressServer(r, target) ==
    /\ requests[r].pc = "keyboard"
    /\ target \in requests[r].offered
    /\ Become(r, IF requests[r].check = "image" THEN [requests[r] EXCEPT !.pc = "done", !.dead = TRUE]
                 ELSE LookUp(requests[r], target))
    /\ UNCHANGED <<snapshots, faults>>

-----------------------------------------------------------------------------
(* resolveServer, resolveTargets, and what follows for each server.        *)

Resolved(req, asked) ==
    IF asked # {} THEN [req EXCEPT !.pc = "run", !.todo = asked]
    ELSE [req EXCEPT !.pc = "send",
                     !.current = [NoAnswer EXCEPT !.name = req.target, !.verdict = "notFound"]]

Resolve(r) ==
    /\ requests[r].pc = "resolve"
    /\ \E asked \in Asked(requests[r].check, requests[r].target, GetServers) :
          Become(r, Resolved(requests[r], asked))
    /\ UNCHANGED <<snapshots, faults>>

\* Servers of the configuration must be found all the same.
ResolveWithoutDB(r) ==
    /\ requests[r].pc = "resolve"
    /\ Fault
    /\ \E list \in ListsWithoutDB : \E asked \in Asked(requests[r].check, requests[r].target, list) :
          Become(r, [Resolved(requests[r], asked) EXCEPT !.kept = @ \cap Configured(config)])
    /\ UNCHANGED snapshots

Report(r, s, condition, part) ==
    LET check == requests[r].check
    IN  Become(r, [requests[r] EXCEPT
            !.pc = IF check \in {"list", "timers"} THEN "save" ELSE "send",
            !.todo = @ \ {s},
            !.current = [name |-> s.name, host |-> s.host, condition |-> condition, part |-> part,
                         verdict |-> Verdict(check, condition, part)]])

\* executeFor and the handlers of the other commands: what Run returns is used
\* whether or not it returns an error, except by /status and /top.
RunCheck(r) ==
    /\ requests[r].pc = "run"
    /\ \E s \in requests[r].todo, condition \in Conditions, took \in Durations :
          \E part \in IF TimedOut(requests[r].check, s, took) THEN LeftOver(requests[r].check, s)
                      ELSE {"all"} :
             Report(r, s, condition, part)
    /\ UNCHANGED <<snapshots, faults>>

\* No connection, or one that breaks during the command.
RunFailed(r) ==
    /\ requests[r].pc = "run"
    /\ Fault
    /\ \E s \in requests[r].todo, condition \in Conditions, part \in {"none", "first"} :
          Report(r, s, condition, part)
    /\ UNCHANGED snapshots

Snapshot(r) == [server |-> requests[r].current.name, source |-> requests[r].check]

Snapshots == [server : Names, source : {"list", "timers"}]

\* Save, in cron_snapshots.  The bot never reads them.
SaveSnapshot(r) ==
    /\ requests[r].pc = "save"
    /\ Become(r, [requests[r] EXCEPT !.pc = "send"])
    /\ snapshots' = snapshots \cup {Snapshot(r)}
    /\ UNCHANGED faults

SaveFailed(r) ==
    /\ requests[r].pc = "save"
    /\ Fault
    /\ Become(r, [requests[r] EXCEPT !.pc = "send"])
    /\ UNCHANGED snapshots

\* sendResult.
SendResult(r) ==
    /\ requests[r].pc = "send"
    /\ Become(r, [requests[r] EXCEPT
            !.pc = IF requests[r].todo = {} THEN "done" ELSE "run",
            !.answers = @ \cup {requests[r].current}, !.current = NoAnswer])
    /\ UNCHANGED <<snapshots, faults>>

\* The error ends the loop over the servers.
SendFailed(r) ==
    /\ requests[r].pc = "send"
    /\ Fault
    /\ Become(r, [requests[r] EXCEPT !.pc = "done", !.lost = TRUE])
    /\ UNCHANGED snapshots

-----------------------------------------------------------------------------
Next ==
    \/ ReplicaCatchesUp \/ Restart
    \/ \E n \in Names : ServerDelete(n) \/ ServerToggle(n)
    \/ \E n \in Names, h \in Hosts : ServerAdd(n, h)
    \/ \E n \in Names, h \in Hosts \cup {NoHost} : EditFile(n, h)
    \/ \E r \in Requests :
          \/ \E target \in Targets : Command(r, target) \/ PressServer(r, target)
          \/ AskServer(r) \/ Resolve(r) \/ ResolveWithoutDB(r)
          \/ RunCheck(r) \/ RunFailed(r) \/ SaveSnapshot(r) \/ SaveFailed(r)
          \/ SendResult(r) \/ SendFailed(r)

Spec == Init /\ [][Next]_vars

-----------------------------------------------------------------------------
\* Every variable has its type.
TypeOK ==
    /\ file \in Config /\ config \in Config
    /\ table \in Seq(Table) /\ table # <<>>
    /\ useReplica \in ConnectOutcomes
    /\ requests \in [Requests -> Request]
    /\ snapshots \subseteq Snapshots
    /\ edits \in 0..MaxEdits /\ faults \in 0..MaxFaults

\* The answers that report a server.
Reports(answers) == {a \in answers : a.verdict # "notFound"}

ServerOf(answer) == [name |-> answer.name, host |-> answer.host]

\* The request asks for this server, or falls back on it.
AsksFor(req, s) == s.name = req.target \/ (req.target = All /\ req.check \in Scans)

FallsBackOn(req, s) ==
    /\ req.check \in Direct
    /\ req.check = "logs" => req.target = NoTarget
    /\ (s = Local) = (req.check = "ping")
    /\ Named(req.target, req.kept) = {}

IsAbout(req, s) ==
    /\ s \in req.shown \cup {Local}
    /\ (s # Local /\ AsksFor(req, s)) \/ FallsBackOn(req, s)

\* An answer is about a server that was asked for, at an address some list
\* gave that name while it was looked up - never the one it had when the
\* keyboard was offered or before a restart - and a request reports a server
\* once, also when the configuration and the table share its name.  Another
\* server than the named one answers only for /docker, or the bot's own host
\* for /ping, and only when some list lacked the name.
AnswersAboutAsked ==
    \A r \in Requests :
        /\ \A a \in Reports(requests[r].answers) : IsAbout(requests[r], ServerOf(a))
        /\ \A a, b \in Reports(requests[r].answers) : a.name = b.name => a = b

\* A request that came to its end reported every server that was asked for
\* and was in every list meanwhile: of the configuration, too, while the
\* database does not answer.  One that falls back on another server is
\* answered if there is any.  Except that the buttons of /scan image do
\* nothing.
AskedAreAnswered ==
    \A r \in Requests :
        LET req == requests[r]
            found == Reports(req.answers)
        IN  req.pc = "done" /\ ~req.lost /\ ~req.dead =>
                /\ \A s \in req.kept : AsksFor(req, s) => \E a \in found : a.name = s.name
                /\ Default(req.check, req.target, req.kept) # {} => found # {}

\* A check that took too long is not mistaken for one with nothing to report
\* by /status, /top and the commands whose output says that it is there:
\* /versions, /updates, /backups and /cron timers.  One that was cut off may
\* be.
TimeoutIsNotNothing ==
    \A r \in Requests : \A a \in requests[r].answers :
        a.verdict = "nothing" =>
            /\ requests[r].check \in {"status", "top", "versions", "updates", "backups", "timers"} =>
                  a.part # "none"
            /\ requests[r].check \in {"versions", "updates", "backups", "timers"} =>
                  a.condition = "nothing" \/ a.part = "first"

\* scan.go:289, "empty result: all is well": where nothing is reported the
\* check ran.
NothingMeansChecked ==
    \A r \in Requests : \A a \in requests[r].answers : a.verdict = "nothing" => a.part = "all"
=============================================================================
