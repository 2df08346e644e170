# tgOps in TLA+

A verification project for tgOps, the Telegram bot in Go that watches servers,
raises alerts, announces CI/CD runs, runs playbooks and answers questions about
machines over SSH. The repository has no tests; what is stated here comes from
the code, its comments and its README.

Paths below are relative to the repository's source tree (`src/`). In the
modules, an operator whose comment starts with *Slip* is not part of a
specification: it is a plausible mistake in the operator below it, kept so that
the properties can be seen to notice it.

## 1. The system

| Component | State | Operations | Talks to |
|---|---|---|---|
| storage (`internal/storage`) | tables on a PostgreSQL primary; an optional replica that serves **every** read (`ReadPool`) | one statement per repository method, no transactions | everything |
| alerts (`internal/modules/alerts`) | table `alerts`; the chat | tickers of the collector, one goroutine per target, `maybeAlert`, `SendAlert`, `/alerts` and its buttons | storage, ssh, Telegram, `tgops-ctl` |
| cicd (`internal/modules/cicd`) | table `pipeline_events`; posts with buttons | webhook handlers, `Notify`, approve / reject callbacks, `NotifyUpdate` | storage, Telegram |
| ssh (`internal/ssh`) | a channel of idle connections per host | `Run`, `getConn`, `putConn`, `dial`; `GetServers` | servers, storage |
| ansible (`internal/modules/ansible`) | table `ansible_runs`; child processes | `/ansible run`, `execPlaybook`, `/ansible status` | storage, Telegram |
| access (`internal/bot`, `internal/audit`, `cmd/tgops`) | tables `users`, `audit_log` | `bootstrapAdmin`, `Dispatch`, `DispatchCallback`, role check, `Logger.Log` | all handlers, `tgops-ctl` |
| ssl (`internal/modules/ssl`) | table `ssl_checks` | ticker, `checkAll`, `/ssl` | storage, TLS peers, alerts |
| questions to servers (`updates`, `backups`, `cron`, `scan`, `GetServers`) | table `servers`; `ssh.servers`; table `cron_snapshots`; keyboards | typed commands, keyboards, presses, one check per server | ssh, storage, `tgops-ctl` |
| other commands over ssh (`system`, `logs`, `docker`, `network`, `versions`) | none | ask a server - `/health` all of them at once -, parse, answer | ssh, `GetServers` |
| start-up (`cmd/tgops`, `RunMigrations`) | table `schema_migrations`, the schema | connect, migrate, bootstrap, start goroutines | storage, the container runtime |
| `scripts/tgops-ctl.sh` | none | SQL on the primary beside the running bot | storage |
| core, menu, formatter, config, web page, deployment | menu state (written, never read) | texts, keyboards, settings | |

How the parts meet. Telegram updates arrive by long polling or a webhook; each
one gets a goroutine. A goroutine reads its user, checks the role, calls a
module's handler and starts one more goroutine for the audit row. Background
work (collector, SSL ticker, webhook server, playbooks) runs in goroutines of
its own. Nothing in the process shares memory except the pools of the SSH
client; **all other coordination goes through the database**, one committed
statement at a time, with reads that may come from a replica that is behind.
`tgops-ctl` writes to the same tables from outside.

What is hard here, therefore:

* check-then-act over separate statements (`HasActive` … `Create`, `Count` …
  `Create`, `Approve` … `GetByID`);
* reads from a replica, which may lag behind any number of commits;
* several processes on one database, started, replaced and cut off in the
  middle of a migration, without a lock;
* several steps of which one fails: a row without its message, a message
  without its row, an update whose answer is lost;
* goroutines nobody waits for, lost when the process ends;
* ownership of connections that pass from call to call through channels;
* time-outs that bound one part of a call and not the others;
* answers read out of the output of a command that may have been cut off.

`PROJECT.json` lists each of these hazards at its line with the properties that
watch it.

### What makes each component correct

* **alerts**: one active alert per fault, everybody told of it, a fault that
  persists is never muted for good, an acknowledgement is for good.
* **cicd**: the row tells the decision taken and by whom; a post knows its
  event and an event its post; buttons disappear with the decision and never
  before it; the post names the right person.
* **ssh**: one owner per connection, no leak, no use after close, the right
  host, a bounded number of connections, calls that end.
* **ansible**: row and report tell how the run ended; no row claims to be
  running when nothing runs.
* **access**: nothing is carried out for a user who was not entitled to it, what
  is carried out or refused is in the audit log, refusals as `denied`, the bot
  comes up. (The code keeps this for commands, not for buttons: section 3.)
* **ssl**: every expiry is announced in time and shown as it is.
* **questions to servers**: an answer is about the server that was asked, at
  its present address; everybody who was asked for is reported, once; "nothing
  to report" is said only of a check that ran.
* **other commands over ssh**: one server that hangs does not keep `/health` from
  answering (it does: section 3); a long text arrives whole; a number is the number of the server it is shown for.
* **start-up**: every migration takes effect exactly once, in order, and is
  recorded in the same instant; an instance serves only on the schema its image
  needs, and comes up again.

## 2. Modules

| Module | Models | Role |
|---|---|---|
| `Storage` | `postgres.go`: primary, replica, `ReadPool` | operators on the history of a table |
| `AlertLedger` | – | abstract: alerts are raised, told and closed |
| `Alerts` | `modules/alerts`, `alert_repo.go`, `tgops-ctl` | detailed; implements `AlertLedger` |
| `DecisionBoard` | – | abstract: posts, verdicts, settled posts |
| `Pipelines` | `modules/cicd`, `pipeline_repo.go` | detailed; implements `DecisionBoard` |
| `SchemaLog` | – | abstract: migrations take effect once each, in order |
| `Startup` | `RunMigrations`, `bootstrapAdmin`, restarts and deployments | detailed; implements `SchemaLog` |
| `SSHPool` | `ssh/client.go` | the pool with concurrent calls |
| `Dashboard` | `/health`, `Collect` | composed with `SSHPool`, whose calls it makes |
| `AnsibleRuns` | `modules/ansible`, `ansible_repo.go` | runs with child processes and restarts |
| `Access` | router, audit, bootstrap, `tgops-ctl` users | requests against edits of the user table |
| `Certificates` | `modules/ssl`, `ssl_repo.go` | checker and `/ssl` against a clock |
| `Fleet` | `ssh/source.go`, `modules/{updates,backups,cron,scan,system,versions,docker,logs,network}`, `tgops-ctl` servers | questions to servers against edits of the list |
| `Outputs` | `splitText`, `sendLog`, `splitSections`, `parseResults`, `parseCPUPercent` | pure functions and what they are for |
| `Answers` | – | `Fleet` and `Outputs` composed: an answer against the outputs it may stand for |
| `AlertsMC`, `PipelinesMC`, `DashboardMC`, `AccessMC`, `CertificatesMC`, `FleetMC` | – | values for the constants, symmetry |
| `BotMC` | – | `Access` and `AnsibleRuns`, which share no variable, side by side in one run: a behaviour follows requests or, once the bot has come up, playbooks |
| `StorageProofs` | – | lemmas about `Storage`: what `Commit`, `Replay` and `ReadPool` do to a history |
| `AlertsProofs`, `PipelinesProofs`, `StartupProofs`, `AccessProofs` | – | theorems about the module of that name (section 4) |
| `WorkersProofs` | – | theorems about `Certificates` and about `AnsibleRuns`, the two jobs the bot runs in goroutines of its own |
| `FleetProofs` | – | theorems about `Fleet`, `Outputs` and `Answers` |
| `SSHPoolProofs` | – | theorems about `SSHPool`, and about `Dashboard` on top of it |

### Tables and the replica (`Storage`)

A table is the sequence of its committed versions that some reader may still be
shown. The last one is the primary; the first one is what the replica has
replayed. `Commit` appends, `Replay` drops the first. A read is
`ReadPool(history, useReplica)`, where `useReplica` is `db.Replica # nil`, fixed
by `Connect` at start-up (`ConnectOutcomes`: also a configured replica is left
out when it does not answer the ping). Without a replica the history has one
version. Each component keeps the history of its own table; nothing in the code
reads two tables consistently.

### Alerts

One process per pair `<<round, target>>`: the collector starts a goroutine per
target at each tick and never waits for the ones before, so `Rounds` is the
number of ticks whose goroutines are in flight together. A goroutine measures
(`Collect`), unless the server has fallen silent: then its measurement has no end,
and the goroutine is left behind (`WaitForEver`), while later ticks start others.
Endpoints always answer, because the HTTP client has a time-out. With a
measurement in hand the goroutine turns the reading into findings in the order of
the code, and takes each through `QueryActive` (HasActive, from `ReadPool`), `CreateAlert` and
`SendAlert`: three separate steps, each with a failing variant (`FinishFailed`:
also the failure whose effect was committed). Operators open `/alerts` and press
a button, whose UPDATE may fail (`AcknowledgeFailed`); `tgops-ctl` acknowledges
and clears beside them. A restart forgets the goroutines and chooses anew
whether there is a replica. Readings are the loads, the reachability and the
silence in `Conditions`, chosen so that each threshold is met.

### Pipelines

A delivery passes `Deliver`, `CreateEvent`, `SendPost`, `SavePost`; a press
passes `PressButton`, `Decide`, `ReadEvent`, `EditPost`. Both are one-shot. The
row of an event and the post in the chat are different state, as in the code:
buttons are on the post, the verdict is in the row, and the message id ties them
once it is saved. Statuses of GitHub, GitLab and Jenkins are mapped by the
code's tables.

### SSHPool

A connection is `closed`, `open`, `broken` or `silent`. A call holds a
connection in the states `probe` (keepalive), `handshake`, `session`, `command`
and `put`; the channel of a host holds the others. `Break` and `FallSilent` are
the network. Steps that talk to the peer are not enabled while it is silent;
what the code bounds by a time-out (the TCP connect, the command once its
session is open and the peer answers) ends, what it does not bound
(keepalive, handshake, opening the session) may wait for ever. A closed
connection's name may be used again for a new one, so any number of connections
pass through a run.

### Dashboard

`handleHealth` starts a goroutine per server (`Ask`), each makes the calls of
`Collect` one after the other (`CollectNext`), and the answer waits for all
(`wg.Wait`). The calls are those of `SSHPool`: `Proceed` is a step of the pool
with what it means for the goroutine that made the call. When the first call
fails, `Collect` makes no other; a later one that fails leaves a zero. A slot of the pool that no
goroutine of `/health` uses serves the rest of the bot.

### Startup

An instance is a process with an image (its files are the first so many
migrations). `Start` to `ReadRecorded` are `Connect` and the head of
`RunMigrations`; `NextFile`, `Execute`, `InsertVersion` and `CommitMigration` its
loop; `Count` and `CreateAdmin` `bootstrapAdmin`. A transaction's effect is
committed as a whole; until then it only locks out whoever executes the same
file (`Locked`), and it is gone when its process ends. Every error ends the
process (`End`), and the container runtime starts it again. `Fails`, `CommitLost`
and `ReadCutShort` are the faults, `Deploy` replaces an image by a newer or an
older one. The statements of a file are reduced to whether they have taken
effect; `Idempotent` are the files that say IF NOT EXISTS throughout and so may
be executed again.

### AnsibleRuns

The handler's guards and insert, then the goroutine: start of the process, the
wait in `CombinedOutput`, `Finish` and the message. The time-out kills
`ansible-playbook` alone; children that hold its output (`orphans`), whether it
was killed or exited by itself, keep `CombinedOutput` waiting. Names of the specification carry `run` (`RunsSpec`,
`runTable`, `runFaults`) so that `WorkersProofs` can extend it beside
`Certificates`.

### Access

`Start`, `Count` and `CreateAdmin` are `main` and `bootstrapAdmin`; a failure
ends the process and the container starts again. A request reads its user
(`Lookup`: twice for a command of the reply menu), is checked against the
command's role (`CheckRole`) and by the handler's own check (`Handle`), and is
logged by a goroutine (`WriteAudit`), whose INSERT fails when the user's row is
gone. A press goes to its handler without a role and without a row in the log
(`HandlePress`); keyboards stay in the chat, so that any member may press any
button. The edits are those of `tgops-ctl`, which commit on the primary at any
moment. The history variable `seen` holds the rows of the member that a reader
could be shown between the arrival of the request and its read; `Entitles` is
what the README promises of such a row, for commands and buttons alike.

### Certificates

The checker is one goroutine (`Checker`) that takes each domain through
`CheckDomain`, `SaveResult` and `Warn`, and then waits for the tick in the
ticker's channel, which holds one. A request takes the domains that are missing
in the table through `CheckDomain` and `SaveResult` beside it and reads the table
again, or, with no row to show, checks all of them (`handleLiveCheck`). Time is
a clock of `Day` ticks a day that moves only when nobody has another step to
take: steps of the program take no time, except a dial to a silent peer, which
takes as long as the peer likes. A certificate is when it expires and since when
it is served; a failed check and a refusal are one branch, as in `Check`. What a
replica shows is any part of the primary's rows: rows are never deleted, and no
property looks at the days a replica shows. Without `notify.chat_id` nothing is
ever sent (`ChatConfigured`).

### Fleet

The modules repeat one dialogue with small differences, which are kept: a
command with a name goes on, one without offers a keyboard; only `/scan` knows
`all`; a press of `/scan image` has no branch; `/docker`, `/logs` and `/ping`
have no keyboard, and fall back (`Default`) on the first server, on the first
server when none is named, and on the bot's own host. A name is looked up in
`GetServers`: `config`, loaded from `file` at the start, merged with what the
table's reader is shown, or with any part of it when the database fails
(`ListsWithoutDB`). Which of the configured servers is the first one is left
open. A server is asked by `RunCheck` (or `RunFailed`), and only then reported
(`SendResult`), `/cron` keeping a snapshot in between. What a server would say
is one of three conditions, how much of it came back one of three parts, and
each command's `…Verdict` says what the code makes of the two. `SSHPool` is what
happens inside `Run`. The history variables `shown` and `kept` in a request are
the servers that some list, and that every list said to exist while the name was
looked up. `/traceroute` and `/nslookup` run the code of `/ping`.
`backups.paths` is taken to be set.

### Outputs and Answers

`Outputs` has no state. A text is what matters of it to `splitText`, its
newlines, and a part is an interval of it; the output of `/backups` is a sequence
of lines, which may break off anywhere, also within a line; the age of a newest
file is compared with `max_age_hours` unless that is 0; a sample of `/proc/stat` is its busy, idle and guest time. Each function is followed by what
it is for: `TextsAreKept`, `StatusesAreTheirOwn`, `LoadIsBusyShare`. `Answers` asks
for them whenever `Fleet` sends an answer of the command, and ties the two
levels: the verdict `Fleet` gives on a directory is the one that comes of
parsing every output its condition and part may stand for.

## 3. Runs

| Run | Question | Bounds |
|---|---|---|
| `alerts_overlap` | How far does deduplication hold, who is not told, and does the pipeline implement the ledger? | one endpoint, two rounds in flight, one operator, one opened list, one fault, three rows |
| `alerts_live` | Can a persisting fault that is measured be muted for good? | one server with four conditions, among them silence, a lagging replica, one round, one fault |
| `alerts_duplicate` | *violation*: one active alert per fault | as the first, no fault |
| `pipelines_races` | Do rows, posts and decisions stay consistent, also behind a lagging replica, and is it the board? | two deliveries (a run that failed, one that goes on), two presses, two admins, one fault |
| `pipelines_signature` | *violation*: the post names who decided | one delivery, two presses, no fault |
| `startup` | Does each migration take effect once, does everybody come up, and on what schema? | two instances, three migrations (one may be repeated), one deployment, one fault, a replica |
| `ssh_health` | Ownership, leaks, bound and ending of calls, and who can hold up `/health`? | two hosts, two calls at a time, which `/health` (two calls to each host) and others share, three connections, pools of one |
| `bot` | Whose commands are carried out, which are logged, does the bot come up; and are rows and reports of playbooks true, and do they end? | two members, one request (of three commands, two buttons and a text), two edits, one fault; or three playbook runs, two faults |
| `access_denied` | *violation*: who lacks the role is refused, and logged as `denied` | one request (a command or a button of `/scan`), one edit, no fault, no replica |
| `certificates` | Is every expiry announced in time and not too often, and shown as it is? | two domains (one certificate about to end, one in the 30-day window), half a day a tick, four rounds, one request, two events |
| `fleet` | Who is reported, where and how often, what does "nothing to report" mean, and is what was printed what is read? | two names, two addresses, one command of twelve, two edits, one fault, checks below and above the time-outs; texts of eight characters, up to three paths, `max_age_hours` 0 and 1 with files of 0 to 2 hours, counters 0 to 3 |
| `fleet_scan_cut_short` | *violation*: nothing to report means checked | one scan, no edit, no fault |

Why these bounds are enough to be interesting. The races in this code are
between two goroutines, or one goroutine and an outside writer, over a handful
of statements: two rounds, two presses, two calls show each order of them, and
one fault can strike at each step of either. Three connections for two calls and
two pools of one let a pool be full while another call dials. Two edits of a
user change a role and revoke it, or delete and add again, around one request.
Three migrations leave one to be done
after a cut and before the newest; two instances meet at each statement; a
deployment brings an image that has fewer files than the database has seen, or
more. Eight characters make four parts of two, and so a file; counters up to
three let every difference be negative, zero and positive.
Two members are needed: the initial admin and somebody else. Four rounds of the checker are one more than any window of
two days can meet, and the first certificates are chosen so that a window opens
and closes within them: one enters the 30-day window (and leaves the statuses
that are never announced), one ends. The row bounds
(`MaxRows`, `MaxLists`) only stop the table from growing; they are in the guards
of the steps they bound. The theorems of section 4 hold for every value of these
bounds.

`CHECK_DEADLOCK FALSE` is used where requests are one-shot and the system has
nothing left to do once they are served (Pipelines, AnsibleRuns, Access, Fleet,
Startup when everybody serves and no fault or deployment is left, and
Certificates when its clock is at its bound).

### What the runs show

* Deduplication: without a replica the number of active alerts of one fault is
  at most the number of rounds in flight (`OverlapBoundsDuplicates`), because
  one goroutine never adds to its own alert (`DedupInv`); it is not one
  (`alerts_duplicate`).
* Silence: an active alert nobody was told of is the work of a fault
  (`SilencedOnlyByFaults`), and a fault that persists *and is measured* has an
  active alert again and again (`PersistentFaultIsRaised`), also behind a replica
  and after times when the server was silent. A server that stays silent is never
  raised, and no property says that it is: the keepalive, the handshake
  and the opening of a session have no deadline, `Collect` returns neither numbers
  nor an error, and each tick leaves one more goroutine waiting. A critical
  reading can stay hidden, but, once measured, only behind an active warning of
  the same type (`CriticalHiddenOnlyByWarning`): `HasActive` does not look at the
  severity.
* Decisions: a row always tells a decision that was taken and by whom
  (`RowTellsADecision`); buttons remain on a decided post only when every
  decision on it read a row without the message id (`ButtonsLeftOnlyByRace`).
  The *post* may show one admin's decision under another's name
  (`pipelines_signature`); what is left is `SignedPostShowsADecision`.
* Connections: one owner, no leak, the right host, and a host never carries more
  than the pool's capacity plus the calls in progress on it (`OpenBounded`).
  `max_connections_per_host` is therefore a bound on idle connections.
  A call ends unless its own peer falls silent (`RunEnds`). `/health` gives each
  server 12 seconds so that one that hangs does not hold up the answer
  (`system.go:155`), but only a command whose session is open is bounded by them: what
  holds is `HealthIsAnswered`, that it is answered again and again unless a peer
  stays silent for good on a connection of one of its calls. With such a peer it
  may never be, against the comment.
* Start-up: with no lock, several instances, any of them cut off at any
  statement, and a list of versions that ends early, each migration still takes
  effect once, in order, and is recorded in the same instant (`ImplementsLog`);
  an instance serves only on the whole schema of its image, with one admin
  (`ServesOnWholeSchema`), and each comes up again (`EveryoneServes`). What does
  it is the transaction around a file and its row, and the restart of the
  container; nothing else would. An older image after a newer one serves on a
  schema it does not know.
* Playbooks: rows and reports are true (`RowsAndReportsAreTrue`); a row stays at
  `running` only after a fault, and then for ever, because nothing revisits such
  rows.
* Certificates: with rounds a day apart, two-day windows make up for one failed
  call and for restarts, which begin with a round; a domain that refuses does
  not disturb the others (`WarnedInTime`). A domain that stays silent does, for
  as long as it likes: the property exempts such runs, because nothing bounds
  the dial. The price of the second day is a second warning, and one more per
  restart or held-up round (`WarnedTwiceAtMost`). Rows are at most a round old,
  and that of a certificate that is past says `expired` only because the last
  round before the end saw no whole day left; `/ssl` leaves no domain out
  (`RowsAreFresh`).
* Questions: an answer is about a server asked for, at an address it had while
  the name was looked up, and each is reported once, whatever the configuration
  and the table share (`AnswersAboutAsked`); nobody who is on the list is left
  out, also while the database fails (`AskedAreAnswered`). `/docker` answers for
  the first server when some list lacks the name it was given, without saying
  so other than by the name in the header; never while every list has it. A
  check that took too long is "unknown" to `/status`, `/top`, `/versions`,
  `/updates`, `/backups` and `/cron timers` (`TimeoutIsNotNothing`) but "all is
  well" to `/scan` (`fleet_scan_cut_short`), "no jobs" to `/cron list` and "no
  containers" to `/docker ps`; one whose connection broke after the first line
  may be mistaken by most. `/status` shows zeros for what it could not read.
* Outputs (`ReportedAsRead`): the messages of `/logs` and `/docker` are the text,
  in order, within the limit, with only newlines left out and no line torn that
  fits - though a line that does not fit may be cut within a UTF-8 character. A
  directory of `/backups` is shown with its own file and its own age however
  early the output ends, a missing age counting as fresh, and any age where
  `max_age_hours` is 0; an empty directory has
  a file only when the word `STAT_ERR` itself is torn. The load is a percentage
  whatever the counters do, and the busy share when they only grow - or more,
  because guest time is part of user time and is summed twice.
* Access: a command is carried out only for a user whom some row that could be
  read entitled to it (`CommandsOnlyIfEntitled`), and is in the audit log, as
  `error` exactly if it was one, and as `denied` if the router refused it
  (`CommandsAreAudited`). The README says more: that the role is checked before
  every handler (`README.md:221-222`) and that all actions and refusals are logged,
  these as `denied` (`README.md:223-224`). That is `UnentitledAreDenied`, and
  `access_denied` finds it violated: `/scan` is for operators, its buttons for every
  active user, and no press is logged, whatever it does. What is left is
  `PressesOnlyIfActive` (proved, section 4): an active user with the role the handler itself
  asks for. A refusal by a handler is logged as a success, which `CommandsAreAudited`
  allows and `UnentitledAreDenied` does not.

### Fairness

Liveness is claimed under weak fairness of steps the Go runtime, the database
or the container runtime takes by itself: a goroutine that can go on goes on; a
ticker ticks; a timer fires; the replica replays; the container is started again
(`restart: unless-stopped`). A call of the database or of Telegram is taken to
end, with or without an error. Never assumed: that a user presses anything, that a
server answers over SSH (in `Alerts` the step `Collect` is disabled while a server
is silent, and fairness then only says that the goroutine waits), that a playbook
or its children end, that faults stop other than by the bound of the run.

### Violations

Four runs state what the repository says of itself, in its comments or its
README, and are violated by the code; `findings` in `PROJECT.json` quotes the
lines. In none of them does a call fail or a replica lag: the order of steps, a
check that takes long (`fleet_scan_cut_short`) or a button (`access_denied`) is
enough.

## 4. Proofs

All obligations are checked by TLAPS, for every value of the constants that
meets the modules' assumptions. Every invariant and action property of the
passing runs is proved, so are the three refinements, and `PressesOnlyIfActive`, which no run
checks; liveness is left to TLC:

| Module | Theorem | Property | Inductive invariant |
|---|---|---|---|
| `AlertsProofs` | `TypeCorrect` | `TypeOK` | itself |
| | `DuplicatesBounded` | `OverlapBoundsDuplicates` | `DedupInv` |
| | `SilenceTakesAFault` | `SilencedOnlyByFaults` | itself, with the types |
| | `ButtonsStay` | `ButtonOutlivesActiveAlert` | `PointersInv` |
| | `LedgerImplemented` | `ImplementsLedger` | `DedupInv` and `PointersInv` |
| `PipelinesProofs` | `TypeCorrect`, `RowsTellDecisions`, `RowsKnowTheirPosts`, `SignedPostsShowDecisions`, `ButtonsRemoved` | `TypeOK`, `RowTellsADecision`, `RowKnowsItsPost`, `SignedPostShowsADecision`, `ButtonsLeftOnlyByRace` | `BoardInv` |
| | `BoardImplemented` | `ImplementsBoard` | `BoardInv` |
| `StartupProofs` | `TypeCorrect`, `WholeSchema`, `LogImplemented` | `TypeOK`, `ServesOnWholeSchema`, `ImplementsLog` | `MigrationInv` |
| `WorkersProofs` | `TypeCorrect` | `TypeOK` of Certificates | `WorkInv` |
| | `RowsFresh` | `RowsAreFresh` | `WorkInv` and `RowsInv` |
| | `WindowsAnnounced` | `WarnedInTime` | `WorkInv` and `WarningsInv` |
| | `WindowsRarelyRepeated` | `WarnedTwiceAtMost` | `WorkInv` and `MomentsInv` |
| | `RunsTypeCorrect`, `RunsTrue` | `RunsTypeOK`, `RowsAndReportsAreTrue` | `RunsInv` |
| `AccessProofs` | `TypeCorrect`, `OnlyTheEntitled`, `PressesOfTheActive`, `AuditComplete` | `TypeOK`, `CommandsOnlyIfEntitled`, `PressesOnlyIfActive`, `CommandsAreAudited` | `AccessInv` |
| `FleetProofs` | `TypeCorrect`, `AnswersAreAboutAsked`, `AskedGetAnswers`, `TimeoutsTold` | `TypeOK`, `AnswersAboutAsked`, `AskedAreAnswered`, `TimeoutIsNotNothing` | `FleetInv` |
| | `AnswersAreRead` | `ReportedAsRead` | `FleetInv`, and inductions over positions |
| `SSHPoolProofs` | `TypeCorrect`, `OneOwner`, `NoLeak`, `CommandsReachTheirHost`, `ConnectionsBounded` | `TypeOK`, `OneHolder`, `ClosedIffUnowned`, `RightHost`, `OpenBounded` | `OwnInv` |
| | `PoolInUse`, `PoolUnderHealth`, `NumbersOfTheirServers` | `Dashboard` implements `SSHPool`; the five properties under `/health`; `FromItsServer` | `CollectorsOK` |

Each invariant is a conjunction of named parts and was checked by TLC on the
instance of its run before it was proved. Each proof has the same shape: lemmas
about the operators, a lemma for each way a step can touch the invariant, one
lemma per action that cites it, `NextInv`, and the theorems.

**Alerts.** `OverlapBoundsDuplicates` counts rows, so it is not inductive:
nothing in a count says who may add to it. `DedupInv` says it: every row was
inserted by a goroutine of the row's own target; one goroutine has at most one
active row per key; and a goroutine between HasActive and Create has none
(without a replica HasActive saw the primary, and only the goroutine itself can
have added a row of its own since). So active rows of a key map one-to-one to
rounds, and the cardinality follows from the injection. `SilencedOnlyByFaults`
counts too, but by goroutine: an INSERT adds an alert the goroutine still owes a
message for, which is not counted until a fault or a restart cancels the debt.
`PointersInv` ties what points at a row - a version of the table, a goroutine
about to send, a card, a click - to rows that exist, and a click that is about to
remove its button to an alert that was closed. The refinement maps the primary's
rows to entries of the ledger, which promises deduplication only where no replica
is configured: on one that is behind, nothing bounds the alerts of one key. That
each is told once, and none is reopened, holds behind a replica, too.

**Pipelines.** A reader may be shown any version of the table, so `BoardInv`
says of every version what the properties say of the primary (`RowTrue`): the
post a row names is the event's own, a verdict in it was taken. Only of the
primary does it say that a row without a verdict has had no decision (`TableOK`).
`DeliveriesOK` gives each row and post to one delivery, without which a message
id could be saved to another event's row; `PressesOK` follows what a press read
to what it will write on the post.

**Startup.** `MigrationInv` says that the schema is the files 1 to k in order
and the rows are theirs (`LogOK`), that an open transaction which changed the
schema is at file k + 1 (`TransactionOK`) and alone there (`AloneOK`), and that
whatever an instance has seen or left behind is recorded (`ProgressOK`). The
first is what the database holds; the others are why the next COMMIT keeps it.

**AnsibleRuns.** `RunsInv`: a row belongs to one run (`OwnRow`), and a run's
place in its goroutine, its playbook and its row tell the same story
(`StoryOK`). That only a row whose Create failed has no run (`RowsHaveRuns`) is
what makes "without a fault, finished" inductive.

**Certificates.** `WorkInv` says where each goroutine stands (`PlaceOK`), that
what it holds was seen at this very moment (`Held`), that a warning was about a
moment in its window (`SentOK`), and that a round takes no time unless a domain
was silent (`PromptOK`). The properties are about the distance of rounds in time,
which no single state shows; what can be said in one is *since when a round was
done with a domain*. While the round still has the domain before it, that is an
interval ago, and afterwards it is the last tick (`SavedSince`, `WarnedSince`).
`RowsInv` says that a row was stored since then, or that the certificate was over
too early for another (`RowOK`), and that a request that fills up the table has
each domain stored or before it (`FilledUp`). `WarningsInv` says that, where a chat is configured, a window the rounds have
been in once was announced unless a call failed, and twice in any case: a round a day and windows of two days are what makes up for one
failure. `MomentsInv` counts: the moments of warnings are ticks, starts and
moments a silent domain let go on; ticks are an interval apart, starts are at
most the restarts, the others at most the silences that ended, and what may
still come is in none of them. A window of two days holds two ticks.
`RowsFresh` and `WindowsAnnounced` assume rounds at least daily, and the one that
a certificate is renewed for no less than a round, the other that warning days
are positive; `WindowsRarelyRepeated` assumes rounds at most daily. Daily
rounds, the default of `ssl.check_interval` (`config.go:347`) and those of the run,
meet all three. They are needed: with rounds further apart a
window may pass between two of them, with closer ones it is announced more often.

**Access.** What a request may still read is any visible version, so while it
is in `lookup`, `seen` contains the member's row in each version in sight
(`AllSeen`): an edit of `tgops-ctl` brings one in, replay only takes some away.
Whatever is carried out was permitted by the row that was read (`Permitted`),
which is one of them. Ids are never
given twice, so a row of the log can be told from one of a user that was deleted
and added again.

**Fleet.** `FleetInv` follows a server from the lists it is looked up in through
the servers a request has still to run to the answer in its hands and the ones
it sent. While a name is looked up, every list in sight is within `shown` and
contains `kept` (`LookedUp`); then servers and answers are about what was asked
(`AboutAsked`), no two have one name (`OnceEach`), and what was asked for and
always there is yet to be run, in hand or sent (`Covered`). One lemma
(`AskedServers`) says what a target stands for in any list. `VerdictType` goes
through all commands. The assumption on the initial servers is that the
configuration and the table give names to addresses.

**Outputs and Answers.** What a recursion computes for every input takes an
induction, and the library's induction theorems have an operator as a parameter,
which these provers cannot instantiate. `Induction` says the same of a *set* of
numbers, and follows from the theorem that every non-empty set has a minimum of a
well-founded relation. With it the two recursions in use are shown to have a
solution - each part of a text is made of one further on (`SplitsExist`), each
prefix of a sequence of sequences of a shorter one (`FlattenSeqIs`) - and then
what is true of it: the parts from any position on keep the text from there on
(`KeptFrom`, `SplitsKept`), and an output of `/backups` is made of markers, each
followed by what was printed of its directory and nothing else (`PrintedOf`). A
section ends at another marker or with the output (`SectionEndIs`), so that the
status of a path comes from lines of its own, of which at most the last is torn
(`StatusIs`). `QuotientIs` replaces the division of the load by two products.
The last step ties the levels: for one directory the status shown is the verdict
`FleetInv` says the answer carries (`ShownIsVerdict`). It is assumed that `none`,
which stands for no file, is not the name of a directory.

**SSHPool and Dashboard.** `OwnInv` is the conjunction of the ownership
properties and the types. None of them is inductive alone: that a dialled
connection is new to everybody follows from `ClosedIffUnowned`; that closing one
hurts nobody follows from `OneHolder`; `RightHost` needs that the connection
closed or re-dialled is not the one another call holds. `ConnectionsBounded`
follows from it by counting: the open connections of a host are those in its
channel and those its calls hold. Every step of `Dashboard` is a step of the pool
or leaves it alone (`PoolInUse`), so that all of this holds beneath `/health`;
with the goroutines' part in it (`CollectorsOK`) it follows that a server's
numbers come over a connection dialled for that server.

Assumptions beyond types: sets that are counted are finite (`Rounds` of Alerts,
`Deliveries` of Pipelines, `Runs` of SSHPool), as goroutines in one process are;
values that stand for "none" are not members of the sets they are added to;
counters are natural numbers; an HTTP endpoint answers or times out; a server is not an HTTP endpoint; a dashboard's
servers have goroutines of their own. What the theorems on certificates assume of
the settings is in their statements.

One flaw of the model came to light in a proof: the arms of a TLA+ `CASE` may be
taken in any order, TLC takes the first that holds, and some of the arms in
`Fleet` and `Answers` overlapped, so that a verdict said less than meant. They
are `IF` … `ELSE IF` now, as in the code; the other `CASE`s are disjoint.

Only model-checked are the violations and, as the installed provers have no
ENABLED, liveness and fairness (`PersistentFaultIsRaised`,
`CriticalHiddenOnlyByWarning`, `RunEnds`, `HealthIsAnswered`, `StartedRunEnds`,
`EveryoneServes`, `ServiceComesUp`).

## 5. Not modelled, and the plan

Not modelled: texts, keyboards, formatting and logging; the HTTP layer in front
of `Dispatch` and of the CI handlers (a request that is refused there changes
nothing); how the host given to `/ping` is resolved and which services `/logs`
allows; `/list`, `/endpoints` and the other commands that only read; the path
check and the output clipping of `/ansible`; configuration parsing; packaging and
the web page. `cron_snapshots` is written by the bot and read by nobody, so that no
property is about it.

Of the properties stated, no safety property is left to prove. What the code
would need next is a model of more of it: the settings that are read from the
configuration and given to these modules as constants, and the HTTP layer, whose
refusals are taken to change nothing.
