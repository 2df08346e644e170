---------------------------- MODULE Certificates ----------------------------
(***************************************************************************)
(* Certificate checks of internal/modules/ssl against a clock: the checker *)
(* goes through the domains one after the other, at its start and at every *)
(* tick (Start, checkAll), stores what it saw and warns when the days left *)
(* are in a window of warn_days; /ssl checks the domains that have no row  *)
(* yet, stores them beside the checker and answers from the table.         *)
(*                                                                         *)
(* Steps of the program take no time, except that a dial to a peer that    *)
(* does not answer takes as long as the peer likes: tls.Dial has no limit. *)
(* The clock therefore moves only when nobody has another step to take.    *)
(***************************************************************************)
EXTENDS Integers, Sequences, FiniteSets, Functions

CONSTANTS
    Domains,           \* ssl.domains, a sequence
    WarnDays,          \* ssl.warn_days, a sequence
    Day,               \* a day, in ticks of the clock
    Interval,          \* ssl.check_interval, in ticks of the clock
    Requests,          \* requests /ssl, one-shot
    FirstExpiries,     \* when the certificates in use at the start may expire
    Lifetime,          \* how long a renewed certificate is valid
    ReplicaConfigured, \* cfg.Replica.Host # ""
    ChatConfigured,    \* notify.chat_id # 0
    MaxNow,            \* bound: the clock
    MaxEvents          \* bound: renewals, restarts, failed calls and failing domains

Monitored == Range(Domains)

Checker == "checker"

ASSUME CertificatesAssumption ==
    /\ Domains \in Seq(Monitored) /\ WarnDays \in Seq(Int)
    /\ Checker \notin Requests
    /\ Day \in Nat \ {0} /\ Interval \in Nat \ {0} /\ Lifetime \in Nat
    /\ \A expires \in FirstExpiries : expires \in [Monitored -> Nat]
    /\ ReplicaConfigured \in BOOLEAN /\ ChatConfigured \in BOOLEAN
    /\ MaxNow \in Nat /\ MaxEvents \in Nat

VARIABLES
    now,          \* the clock
    certs,        \* the certificate each domain serves: when it expires, since when it is served
    peers,        \* how each domain answers
    table,        \* ssl_checks on the primary: a row per domain, or Absent
    useReplica,   \* db.Replica # nil in the running process
    ticker,       \* when the ticker fires next, and the tick its channel holds
    procs,        \* the checker's goroutine and the goroutines of /ssl
    sent,         \* warnings that reached the chat
    troubles,     \* which domains refused or fell silent so far
    renewals, restarts, faults    \* how many so far

vars == <<now, certs, peers, table, useReplica, ticker, procs, sent, troubles, renewals, restarts, faults>>

bounds == <<troubles, renewals, restarts, faults>>

program == <<table, useReplica, ticker, procs, sent>>

-----------------------------------------------------------------------------
Statuses == {"ok", "warning", "critical", "expired"}

\* time.Until(NotAfter) in whole days; a certificate that is past does not
\* get this far.
DaysLeft(expires) == (expires - now) \div Day

\* Slip: no case for the last day.
StatusOfNoLastDay(days) ==
    CASE days \in 1..7 -> "critical"
      [] days \in 8..30 -> "warning"
      [] days > 30 -> "ok"
      [] OTHER -> ""

StatusOf(days) ==
    CASE days <= 0 -> "expired"
      [] days \in 1..7 -> "critical"
      [] days \in 8..30 -> "warning"
      [] OTHER -> "ok"

\* A row of ssl_checks, or what Check found; error: the dial failed.
Row == [expires : Nat, days : Nat, status : Statuses]

Absent == [expires |-> 0, days |-> 0, status |-> "error"]

Found(expires) == [expires |-> expires, days |-> DaysLeft(expires), status |-> StatusOf(DaysLeft(expires))]

Rows == {d \in Monitored : table[d] # Absent}

\* GetAll, as far as the domains go.  Rows are never deleted, so a replica
\* that is behind shows some of the domains the primary has.
ReadPool == IF useReplica THEN SUBSET Rows ELSE {Rows}

\* work: what the domains at the positions in todo are checked for.
Proc == [pc : {"wait", "new", "read", "check", "save", "warn", "reread", "done"},
         work : {"none", "round", "missing", "live"}, todo : SUBSET DOMAIN Domains,
         result : Row \cup {Absent}, shown : SUBSET Monitored]

Idle(pc) == [pc |-> pc, work |-> "none", todo |-> {}, result |-> Absent, shown |-> {}]

First(positions) == CHOOSE i \in positions : \A j \in positions : i <= j

\* The domain the goroutine is at.
Current(proc) == Domains[First(proc.todo)]

\* The goroutine takes the domains at these positions in their order, and then
\* goes on to what follows the last one.
Take(proc, positions) ==
    LET after == CASE proc.work = "round" -> "wait"
                   [] proc.work = "missing" -> "reread"
                   [] proc.work = "live" -> "done"
    IN  [proc EXCEPT !.todo = positions, !.result = Absent,
                     !.pc = IF positions = {} THEN after ELSE "check"]

NextDomain(proc) == Take(proc, proc.todo \ {First(proc.todo)})

Round == Take([Idle("check") EXCEPT !.work = "round"], DOMAIN Domains)

-----------------------------------------------------------------------------
\* Connect: also a configured replica may not answer its ping.
ConnectOutcomes == IF ReplicaConfigured THEN BOOLEAN ELSE {FALSE}

Init ==
    /\ now = 0
    /\ \E expires \in FirstExpiries : certs = [d \in Monitored |-> [expires |-> expires[d], since |-> 0]]
    /\ peers = [d \in Monitored |-> "answers"]
    /\ table = [d \in Monitored |-> Absent]
    /\ useReplica \in ConnectOutcomes
    /\ ticker = [next |-> Interval, ticked |-> FALSE]
    /\ procs = [p \in {Checker} \cup Requests |-> IF p = Checker THEN Round ELSE Idle("new")]
    /\ sent = {}
    /\ troubles = {} /\ renewals = 0 /\ restarts = 0 /\ faults = 0

MoreEvents == renewals + restarts + Cardinality(troubles) + faults < MaxEvents

Fault == MoreEvents /\ faults' = faults + 1

-----------------------------------------------------------------------------
(* Surroundings.                                                           *)

Waits(p) ==
    \/ procs[p].pc \in {"new", "done"}
    \/ procs[p].pc = "wait" /\ ~ticker.ticked
    \/ procs[p].pc = "check" /\ peers[Current(procs[p])] = "silent"

TimePasses ==
    /\ now < MaxNow /\ now < ticker.next
    /\ \A p \in DOMAIN procs : Waits(p)
    /\ now' = now + 1
    /\ UNCHANGED <<certs, peers, program, bounds>>

Renew(d) ==
    /\ MoreEvents
    /\ certs' = [certs EXCEPT ![d] = [expires |-> now + Lifetime, since |-> now]]
    /\ renewals' = renewals + 1
    /\ UNCHANGED <<now, peers, program, troubles, restarts, faults>>

PeerFails(d) ==
    /\ MoreEvents
    /\ peers[d] = "answers"
    /\ \E state \in {"refuses", "silent"} :
          /\ <<d, state>> \notin troubles
          /\ peers' = [peers EXCEPT ![d] = state]
          /\ troubles' = troubles \cup {<<d, state>>}
    /\ UNCHANGED <<now, certs, program, renewals, restarts, faults>>

PeerRecovers(d) ==
    /\ peers[d] # "answers"
    /\ peers' = [peers EXCEPT ![d] = "answers"]
    /\ UNCHANGED <<now, certs, program, bounds>>

\* The process is replaced: goroutines and the ticker start anew.
Restart ==
    /\ MoreEvents
    /\ restarts' = restarts + 1
    /\ useReplica' \in ConnectOutcomes
    /\ ticker' = [next |-> now + Interval, ticked |-> FALSE]
    /\ procs' = [p \in DOMAIN procs |->
          IF p = Checker THEN Round
          ELSE IF procs[p].pc = "new" THEN procs[p] ELSE Idle("done")]
    /\ UNCHANGED <<now, certs, peers, table, sent, troubles, renewals, faults>>

-----------------------------------------------------------------------------
(* The checker and its ticker.                                             *)

\* time.Ticker: its channel holds one tick, more are dropped.
TickerFires ==
    /\ now = ticker.next
    /\ ticker' = [next |-> now + Interval, ticked |-> TRUE]
    /\ UNCHANGED <<now, certs, peers, table, useReplica, procs, sent, bounds>>

StartRound ==
    /\ ticker.ticked
    /\ procs[Checker].pc = "wait"
    /\ ticker' = [ticker EXCEPT !.ticked = FALSE]
    /\ procs' = [procs EXCEPT ![Checker] = Round]
    /\ UNCHANGED <<now, certs, peers, table, useReplica, sent, bounds>>

\* Check: a certificate that is past, like a refused connection, is an
\* error, and nothing is stored or sent for it (save, maybeAlert).
CheckDomain(p) ==
    LET d == Current(procs[p])
        seen == IF procs[p].work = "live" THEN [procs[p] EXCEPT !.shown = @ \cup {d}] ELSE procs[p]
    IN  /\ procs[p].pc = "check"
        /\ \/ /\ peers[d] = "answers" /\ now <= certs[d].expires
              /\ procs' = [procs EXCEPT ![p] = [seen EXCEPT !.pc = "save", !.result = Found(certs[d].expires)]]
           \/ /\ peers[d] # "silent"
              /\ peers[d] = "answers" => now > certs[d].expires
              /\ procs' = [procs EXCEPT ![p] = NextDomain(seen)]
        /\ UNCHANGED <<now, certs, peers, table, useReplica, ticker, sent, bounds>>

Saved(p) == IF procs[p].work = "round" THEN [procs[p] EXCEPT !.pc = "warn"] ELSE NextDomain(procs[p])

\* Slip: ON CONFLICT DO NOTHING.
UpsertOnce(d, row) == table' = IF table[d] = Absent THEN [table EXCEPT ![d] = row] ELSE table

Upsert(d, row) == table' = [table EXCEPT ![d] = row]

\* save.
SaveResult(p) ==
    /\ procs[p].pc = "save"
    /\ Upsert(Current(procs[p]), procs[p].result)
    /\ procs' = [procs EXCEPT ![p] = Saved(p)]
    /\ UNCHANGED <<now, certs, peers, useReplica, ticker, sent, bounds>>

SaveFailed(p) ==
    /\ Fault
    /\ procs[p].pc = "save"
    /\ procs' = [procs EXCEPT ![p] = Saved(p)]
    /\ UNCHANGED <<now, certs, peers, table, useReplica, ticker, sent, troubles, renewals, restarts>>

\* Slip: only the very day.
WindowExact(days) == {i \in 1..Len(WarnDays) : days = WarnDays[i]}

\* Slip: one day too many.
WindowWide(days) == {i \in 1..Len(WarnDays) : days <= WarnDays[i] /\ days > WarnDays[i] - 3}

\* The windows the days left are in.
Window(days) == {i \in 1..Len(WarnDays) : days <= WarnDays[i] /\ days > WarnDays[i] - 2}

\* Warnings until now.
Warnings == [domain : Monitored, expires : Nat, window : Range(WarnDays), at : 0..now,
             severity : {"warning", "critical"}]

Warning(p) ==
    LET result == procs[p].result
    IN  [domain |-> Current(procs[p]), expires |-> result.expires,
         window |-> WarnDays[First(Window(result.days))], at |-> now,
         severity |-> IF result.status \in {"critical", "expired"} THEN "critical" ELSE "warning"]

\* maybeAlert gets to SendAlert, and SendAlert to its call.
Warned(p) ==
    ChatConfigured /\ procs[p].result.status # "ok" /\ Window(procs[p].result.days) # {}

\* maybeAlert, SendAlert.
Warn(p) ==
    /\ procs[p].pc = "warn"
    /\ sent' = IF Warned(p) THEN sent \cup {Warning(p)} ELSE sent
    /\ procs' = [procs EXCEPT ![p] = NextDomain(procs[p])]
    /\ UNCHANGED <<now, certs, peers, table, useReplica, ticker, bounds>>

WarnFailed(p) ==
    /\ Fault
    /\ procs[p].pc = "warn"
    /\ Warned(p)
    /\ procs' = [procs EXCEPT ![p] = NextDomain(procs[p])]
    /\ UNCHANGED <<now, certs, peers, table, useReplica, ticker, sent, troubles, renewals, restarts>>

-----------------------------------------------------------------------------
(* /ssl.                                                                   *)

Request(p) ==
    /\ procs[p].pc = "new"
    /\ procs' = [procs EXCEPT ![p] = Idle("read")]
    /\ UNCHANGED <<now, certs, peers, table, useReplica, ticker, sent, bounds>>

\* The answer shows the rows that were read; with none of them the domains
\* are checked for the answer itself (handleLiveCheck).
Answer(p, rows) ==
    procs' = [procs EXCEPT ![p] =
        IF rows = {} THEN Take([Idle("check") EXCEPT !.work = "live"], DOMAIN Domains)
        ELSE [Idle("done") EXCEPT !.work = "missing", !.shown = rows]]

\* Handle, GetAll: the domains without a row are checked first.
ReadRows(p) ==
    /\ procs[p].pc = "read"
    /\ \E rows \in ReadPool :
          LET missing == {i \in DOMAIN Domains : Domains[i] \notin rows}
          IN  IF missing # {}
              THEN procs' = [procs EXCEPT ![p] = Take([@ EXCEPT !.work = "missing"], missing)]
              ELSE Answer(p, rows)
    /\ UNCHANGED <<now, certs, peers, table, useReplica, ticker, sent, bounds>>

Reread(p) ==
    /\ procs[p].pc = "reread"
    /\ \E rows \in ReadPool : Answer(p, rows)
    /\ UNCHANGED <<now, certs, peers, table, useReplica, ticker, sent, bounds>>

\* GetAll fails: no answer.
ReadFailed(p) ==
    /\ Fault
    /\ procs[p].pc \in {"read", "reread"}
    /\ procs' = [procs EXCEPT ![p] = Idle("done")]
    /\ UNCHANGED <<now, certs, peers, table, useReplica, ticker, sent, troubles, renewals, restarts>>

-----------------------------------------------------------------------------
Next ==
    \/ TimePasses \/ Restart
    \/ \E d \in Monitored : Renew(d) \/ PeerFails(d) \/ PeerRecovers(d)
    \/ TickerFires \/ StartRound \/ Warn(Checker) \/ WarnFailed(Checker)
    \/ \E p \in DOMAIN procs : CheckDomain(p) \/ SaveResult(p) \/ SaveFailed(p)
    \/ \E p \in Requests : Request(p) \/ ReadRows(p) \/ Reread(p) \/ ReadFailed(p)

Spec == Init /\ [][Next]_vars

-----------------------------------------------------------------------------
\* Every variable has its type.
TypeOK ==
    /\ now \in 0..MaxNow
    /\ certs \in [Monitored -> [expires : Nat, since : 0..now]]
    /\ peers \in [Monitored -> {"answers", "refuses", "silent"}]
    /\ table \in [Monitored -> Row \cup {Absent}]
    /\ useReplica \in ConnectOutcomes
    /\ ticker \in [next : now..now + Interval, ticked : BOOLEAN]
    /\ procs \in [{Checker} \cup Requests -> Proc]
    /\ sent \subseteq Warnings
    /\ troubles \subseteq Monitored \X {"refuses", "silent"}
    /\ renewals \in Nat /\ restarts \in Nat /\ faults \in Nat

\* A window of the certificate in use opens after one moment and closes
\* after another.
WindowOpens(d, w) == certs[d].expires - (w + 1) * Day

WindowCloses(d, w) == certs[d].expires - (w - 1) * Day

\* No dial was held up by a silent peer, and the domain never refused one.
Undisturbed(d) == \A t \in troubles : t[1] # d /\ t[2] # "silent"

\* README, "expiry and notifications n days before": when a window of a
\* certificate is over, it was announced in the chat, if there is one.  Windows are two days wide, so with
\* daily rounds one failed call is made up for, and so is a restart, which
\* puts off the ticker but begins with a round; a domain that refuses does not
\* disturb the others.  One that stays silent does.  (Windows above 30 days
\* are never announced: the status is ok.)
WarnedInTime ==
    \A d \in Monitored, w \in {v \in Range(WarnDays) : v <= 30} :
        /\ ChatConfigured /\ faults <= 1 /\ Undisturbed(d)
        /\ certs[d].since <= WindowOpens(d, w)
        /\ now > WindowCloses(d, w)
        => \E s \in sent : /\ s.domain = d /\ s.expires = certs[d].expires
                          /\ s.at \in WindowOpens(d, w)..WindowCloses(d, w)

\* A window is announced by two rounds at most, and by one more for each
\* restart and for each domain that held a round up: its next one comes
\* sooner after it.
WarnedTwiceAtMost ==
    \A s \in sent :
        Cardinality({t \in sent : t.domain = s.domain /\ t.expires = s.expires /\ t.window = s.window})
            <= 2 + restarts + Cardinality({t \in troubles : t[2] = "silent"})

\* A row is at most a round old: it shows a certificate that was served in the
\* last Interval, with the days it had then.  A certificate that is past is
\* shown as expired, although its checks fail and are not stored: the last
\* round that could store it saw no whole day left.  And /ssl, which first
\* checks what has no row, shows every domain when nothing failed and the rows
\* are read from the primary; an answer made without the table shows every
\* domain there is.
RowsAreFresh ==
    /\ \A d \in Monitored :
          faults = 0 /\ Undisturbed(d) =>
              LET row == table[d] cert == certs[d]
              IN  /\ row = Absent => now = 0
                  /\ \/ now - cert.since <= Interval
                     \/ /\ row.expires = cert.expires
                        /\ IF now <= cert.expires THEN row.days - DaysLeft(cert.expires) \in {0, 1}
                           ELSE row.status = "expired"
    /\ \A p \in {q \in Requests : procs[q].pc = "done"} :
          /\ procs[p].work = "missing" /\ faults = 0 /\ ~useReplica
             => \A d \in Monitored : Undisturbed(d) => d \in procs[p].shown
          /\ procs[p].work = "live" => procs[p].shown = Monitored
=============================================================================
