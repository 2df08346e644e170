--------------------------- MODULE WorkersProofs ---------------------------
(***************************************************************************)
(* What holds of the two components that work in the background on tables  *)
(* of their own: of Certificates, whatever the domains, the windows, the   *)
(* clock's bound and the number of requests and events, and, at the end,   *)
(* of AnsibleRuns.                                                         *)
(***************************************************************************)
EXTENDS Certificates, AnsibleRuns, FiniteSetTheorems, SequenceTheorems, TLAPS

-----------------------------------------------------------------------------
(* The inductive invariants of Certificates.                               *)

\* The row of a certificate that ends at a moment, as checked at another.
DaysAt(expires, t) == (expires - t) \div Day

RowAt(expires, t) ==
    [expires |-> expires, days |-> DaysAt(expires, t), status |-> StatusOf(DaysAt(expires, t))]

SeverityAt(expires, t) ==
    IF StatusOf(DaysAt(expires, t)) \in {"critical", "expired"} THEN "critical" ELSE "warning"

\* The moment the ticker fired last, or the process started.
LastRound == ticker.next - Interval

\* Whether the domain is yet to be taken from these positions.
Ahead(d, positions) == \E i \in positions : Domains[i] = d

Renewed(d) == certs[d].expires = certs[d].since + Lifetime

\* What a goroutine holds was seen at this very moment, of the certificate in
\* use or of the one that was renewed at this very moment.
Held(proc) ==
    LET d == Current(proc)
        e == proc.result.expires
    IN  /\ e \in Nat /\ now <= e /\ proc.result = RowAt(e, now)
        /\ certs[d].expires = e \/ (certs[d].since = now /\ Renewed(d))

Busy == {"check", "save", "warn"}

\* Where a goroutine stands and what it is there for.
PlaceOK(p, proc) ==
    /\ IF p = Checker THEN proc.work = "round" /\ proc.pc \in Busy \cup {"wait"}
       ELSE proc.work # "round" /\ proc.pc \notin {"wait", "warn"}
    /\ proc.pc \in Busy <=> proc.todo # {}
    /\ proc.pc \in Busy => proc.work # "none"
    /\ proc.pc \in {"new", "read"} => proc.work = "none"
    /\ proc.pc = "reread" => proc.work = "missing"
    /\ proc.pc \in {"save", "warn"} => Held(proc)

\* An answer without the table has shown what is no longer ahead.
LiveOK(proc) ==
    proc.work = "live" =>
        /\ \A d \in Monitored : d \in proc.shown \/ Ahead(d, proc.todo)
        /\ proc.pc = "save" => Current(proc) \in proc.shown

PeersOK == \A d \in Monitored : peers[d] # "answers" => <<d, peers[d]>> \in troubles

\* Unless a domain was silent, rounds take no time.
Steady == \A t \in troubles : t[2] # "silent"

Active == ticker.ticked \/ procs[Checker].pc # "wait"

PromptOK == Steady /\ Active => ticker.next = now + Interval

\* A warning is about a moment in its window.
SentOK ==
    \A s \in sent :
        /\ s.at <= s.expires
        /\ DaysAt(s.expires, s.at) <= s.window /\ DaysAt(s.expires, s.at) > s.window - 2
        /\ s.severity = SeverityAt(s.expires, s.at)

WorkInv ==
    /\ TypeOK /\ PeersOK /\ PromptOK /\ SentOK
    /\ \A p \in DOMAIN procs : PlaceOK(p, procs[p]) /\ LiveOK(procs[p])

\* The round that runs or is about to has yet to store the domain.
ToSave(d) ==
    \/ ticker.ticked
    \/ procs[Checker].pc \in {"check", "save"} /\ Ahead(d, procs[Checker].todo)
    \/ procs[Checker].pc = "warn" /\ Ahead(d, procs[Checker].todo \ {First(procs[Checker].todo)})

\* Since when, at the latest, a round was done with the domain.
SavedSince(d) == IF ToSave(d) THEN now - Interval ELSE LastRound

\* The row was stored since, or no round could store a newer one, as the
\* certificate was over - unless it was renewed since, or nothing has happened.
RowOK(d) ==
    \/ now = 0 /\ ToSave(d)
    \/ table[d] # Absent /\ certs[d].since >= SavedSince(d) /\ Renewed(d)
    \/ \E t \in 0..now :
          /\ t <= certs[d].expires /\ table[d] = RowAt(certs[d].expires, t)
          /\ t >= SavedSince(d) \/ certs[d].expires < t + Interval

\* A request that fills up the table and reads the primary will find every
\* domain in it, and then shows it.
FilledUp(proc) ==
    proc.work = "missing" /\ faults = 0 /\ ~useReplica =>
        \A d \in Monitored :
            Undisturbed(d) => IF proc.pc = "done" THEN d \in proc.shown
                              ELSE table[d] # Absent \/ Ahead(d, proc.todo)

RowsInv ==
    /\ \A d \in Monitored : faults = 0 /\ Undisturbed(d) => RowOK(d)
    /\ \A p \in Requests : FilledUp(procs[p])

\* The same for warnings: a window that the last two rounds were in was
\* announced, and one that the last round was in unless that call failed.
ToWarn(d) == ticker.ticked \/ Ahead(d, procs[Checker].todo)

WarnedSince(d) == IF ToWarn(d) THEN now - Interval ELSE LastRound

Announced(d, w) ==
    \E s \in sent : /\ s.domain = d /\ s.expires = certs[d].expires
                    /\ s.at \in WindowOpens(d, w)..WindowCloses(d, w)

AnnouncedOK(d, w) ==
    ChatConfigured /\ faults <= 1 /\ Undisturbed(d) /\ certs[d].since <= WindowOpens(d, w) =>
        /\ WarnedSince(d) > WindowOpens(d, w) => Announced(d, w) \/ faults = 1
        /\ WarnedSince(d) > WindowOpens(d, w) + Interval => Announced(d, w)

Windows == {w \in Range(WarnDays) : w <= 30}

WarningsInv == \A d \in Monitored, w \in Windows : AnnouncedOK(d, w)

\* Warnings are sent at moments of three kinds: ticks, which are Interval
\* apart, starts, one for each restart, and moments at which a domain that was
\* silent let a round go on.  What may still come has not been counted.
Moments == {s.at : s \in sent}

Silences == {t \in troubles : t[2] = "silent"}

Ended == {t \in Silences : peers[t[1]] # "silent"}

Stuck == procs[Checker].pc = "check" /\ peers[Current(procs[Checker])] = "silent"

KindsOf(ticks, starts, late) ==
    /\ Moments = ticks \cup starts \cup late
    /\ \A x \in ticks : x <= LastRound
    /\ \A x, y \in ticks : x < y => x + Interval <= y
    /\ Cardinality(starts) <= restarts /\ Cardinality(late) <= Cardinality(Ended)
    /\ \/ \A x \in ticks : x = LastRound \/ x + Interval <= LastRound
       \/ LastRound \in starts
       \/ Cardinality(starts) < restarts
    /\ Active /\ now > LastRound => now \in late \/ Cardinality(late) < Cardinality(Ended) \/ Stuck

MomentsInv ==
    \E ticks \in SUBSET Moments, starts \in SUBSET Moments, late \in SUBSET Moments :
        KindsOf(ticks, starts, late)

-----------------------------------------------------------------------------
(* Numbers, positions and rows.                                            *)

\* Days run out evenly: less than a day left is none, and within a day the
\* days left fall by one at most.
LEMMA DaysFall ==
    ASSUME NEW e \in Nat, NEW t \in Nat, t <= e
    PROVE  /\ DaysAt(e, t) \in Nat
           /\ e - t < Day => DaysAt(e, t) = 0
           /\ \A u \in t..e : u <= t + Day => DaysAt(e, t) - DaysAt(e, u) \in {0, 1}
<1>1. Day \in Nat \ {0} /\ e - t \in Nat
    BY CertificatesAssumption
<1>2. DaysAt(e, t) \in Nat /\ (e - t < Day => DaysAt(e, t) = 0)
    BY <1>1 DEF DaysAt
<1>3. ASSUME NEW u \in t..e, u <= t + Day
      PROVE  DaysAt(e, t) - DaysAt(e, u) \in {0, 1}
    <2>1. u \in Nat /\ e - u \in Nat /\ e - u <= e - t /\ e - t <= (e - u) + Day
        BY <1>1, <1>3
    <2>q. QED BY <1>1, <2>1 DEF DaysAt
<1>q. QED BY <1>2, <1>3

\* The days left are in a window from one moment to another.
LEMMA DaysInWindow ==
    ASSUME NEW e \in Nat, NEW t \in Nat, t <= e, NEW w \in Int
    PROVE  DaysAt(e, t) <= w /\ DaysAt(e, t) > w - 2
           <=> e - (w + 1) * Day < t /\ t <= e - (w - 1) * Day
<1>1. Day \in Nat \ {0} /\ e - t \in Nat
    BY CertificatesAssumption
<1> DEFINE a == e - t
<1>2. (a \div Day <= w /\ a \div Day > w - 2) <=> ((w - 1) * Day <= a /\ a < (w + 1) * Day)
    <2> HIDE DEF a
    <2>1. a \in Nat
        BY <1>1 DEF a
    <2>q. QED BY <1>1, <2>1
<1>3. (w - 1) * Day \in Int /\ (w + 1) * Day \in Int
    BY <1>1
<1>q. QED BY <1>2, <1>3 DEF DaysAt

LEMMA RowAtType ==
    ASSUME NEW e \in Nat, NEW t \in Nat, t <= e
    PROVE  RowAt(e, t) \in Row /\ RowAt(e, t) # Absent
<1>1. DaysAt(e, t) \in Nat
    BY DaysFall
<1>2. StatusOf(DaysAt(e, t)) \in Statuses
    BY DEF StatusOf, Statuses
<1>q. QED BY <1>1, <1>2 DEF RowAt, Row, Absent, Statuses

LEMMA MonitoredPositions ==
    /\ DOMAIN Domains = 1..Len(Domains) /\ Len(Domains) \in Nat
    /\ \A i \in DOMAIN Domains : i \in Nat /\ Domains[i] \in Monitored
    /\ \A d \in Monitored : Ahead(d, DOMAIN Domains)
    BY CertificatesAssumption DEF Monitored, Range, Ahead

\* What is to be done next is the first of what is left.
LEMMA FirstType ==
    ASSUME NEW S \in SUBSET Nat, S # {}
    PROVE  First(S) \in S /\ \A j \in S : First(S) <= j
<1> DEFINE R == OpToRel(<, Nat)
<1>1. IsWellFoundedOn(R, Nat)
    BY NatLessThanWellFounded
<1>2. \A x, y \in Nat : y < x => <<y, x>> \in R
    BY DEF OpToRel
<1> HIDE DEF R
<1>3. PICK x \in S : \A y \in S : <<y, x>> \notin R
    BY <1>1, WFMin
<1>4. ASSUME NEW y \in S PROVE x <= y
    <2>1. x \in Nat /\ y \in Nat /\ ~(y < x)
        BY <1>2, <1>3
    <2>q. QED BY <2>1
<1>q. QED BY <1>3, <1>4 DEF First

LEMMA CurrentType ==
    ASSUME NEW proc \in Proc, proc.todo # {}
    PROVE  /\ First(proc.todo) \in proc.todo
           /\ Current(proc) \in Monitored
           /\ proc.todo \ {First(proc.todo)} \in SUBSET DOMAIN Domains
           /\ \A d \in Monitored :
                 Ahead(d, proc.todo) => d = Current(proc) \/ Ahead(d, proc.todo \ {First(proc.todo)})
           /\ Ahead(Current(proc), proc.todo)
<1>1. proc.todo \in SUBSET DOMAIN Domains /\ DOMAIN Domains \in SUBSET Nat
    BY MonitoredPositions DEF Proc
<1>2. First(proc.todo) \in proc.todo
    BY <1>1, FirstType
<1>q. QED BY <1>1, <1>2, MonitoredPositions DEF Current, Ahead

\* The goroutine of that name may be there for this work.
FitsWork(p, work) == IF p = Checker THEN work = "round" ELSE work \in {"missing", "live"}

LEMMA TakeType ==
    ASSUME NEW p \in DOMAIN procs, NEW proc \in Proc, FitsWork(p, proc.work),
           NEW positions \in SUBSET DOMAIN Domains,
           proc.work = "live" => \A d \in Monitored : d \in proc.shown \/ Ahead(d, positions)
    PROVE  /\ Take(proc, positions) \in Proc
           /\ Take(proc, positions).work = proc.work /\ Take(proc, positions).todo = positions
           /\ Take(proc, positions).shown = proc.shown
           /\ Take(proc, positions).pc =
                 IF positions # {} THEN "check"
                 ELSE IF proc.work = "round" THEN "wait"
                 ELSE IF proc.work = "missing" THEN "reread" ELSE "done"
           /\ PlaceOK(p, Take(proc, positions)) /\ LiveOK(Take(proc, positions))
<1> DEFINE after == IF proc.work = "round" THEN "wait" ELSE IF proc.work = "missing" THEN "reread" ELSE "done"
           q == [proc EXCEPT !.todo = positions, !.result = Absent,
                             !.pc = IF positions = {} THEN after ELSE "check"]
<1>1. proc.work \in {"round", "missing", "live"}
    BY DEF FitsWork
<1>2. Take(proc, positions) = q
    BY <1>1 DEF Take
<1>3. /\ q \in Proc /\ q.work = proc.work /\ q.todo = positions /\ q.shown = proc.shown
      /\ q.pc = IF positions # {} THEN "check" ELSE after
    BY <1>1 DEF Proc
<1> HIDE DEF q
<1>4. PlaceOK(p, q)
    BY <1>1, <1>3 DEF PlaceOK, FitsWork, Busy
<1>5. LiveOK(q)
    BY <1>1, <1>3 DEF LiveOK
<1>q. QED BY <1>2, <1>3, <1>4, <1>5

LEMMA IdleType ==
    ASSUME NEW pc \in {"new", "read", "check", "done"}
    PROVE  /\ Idle(pc) \in Proc /\ Idle(pc).pc = pc /\ Idle(pc).work = "none"
           /\ Idle(pc).todo = {} /\ Idle(pc).shown = {} /\ Idle(pc).result = Absent
    BY DEF Idle, Proc

\* The checker's goroutine at the beginning of a round.
LEMMA RoundType ==
    ASSUME Checker \in DOMAIN procs
    PROVE  /\ Round \in Proc /\ Round.todo = DOMAIN Domains
           /\ Round.pc = IF DOMAIN Domains # {} THEN "check" ELSE "wait"
           /\ PlaceOK(Checker, Round) /\ LiveOK(Round)
<1> DEFINE q == [Idle("check") EXCEPT !.work = "round"]
<1>1. q \in Proc /\ q.work = "round"
    BY IdleType DEF Proc
<1>2. Round = Take(q, DOMAIN Domains)
    BY DEF Round
<1> HIDE DEF q
<1>q. QED BY <1>1, <1>2, TakeType DEF FitsWork

-----------------------------------------------------------------------------
(* Types, and where goroutines stand.                                      *)

LEMMA ProcOf ==
    ASSUME WorkInv, NEW p \in DOMAIN procs
    PROVE  /\ p \in {Checker} \cup Requests /\ procs[p] \in Proc
           /\ PlaceOK(p, procs[p]) /\ LiveOK(procs[p])
           /\ procs[p].pc \in Busy => FitsWork(p, procs[p].work)
<1>1. p \in {Checker} \cup Requests /\ procs[p] \in Proc
    BY DEF WorkInv, TypeOK
<1>2. PlaceOK(p, procs[p]) /\ LiveOK(procs[p])
    BY DEF WorkInv
<1>3. procs[p].work \in {"none", "round", "missing", "live"}
    BY <1>1 DEF Proc
<1>q. QED BY <1>1, <1>2, <1>3 DEF PlaceOK, FitsWork

LEMMA Goroutines ==
    ASSUME WorkInv
    PROVE  DOMAIN procs = {Checker} \cup Requests /\ Checker \in DOMAIN procs /\ Checker \notin Requests
    BY CertificatesAssumption DEF WorkInv, TypeOK

LEMMA ClockType ==
    ASSUME WorkInv
    PROVE  /\ now \in Nat /\ Interval \in Nat /\ Interval > 0 /\ ticker.next \in Nat
           /\ now <= ticker.next /\ ticker.next <= now + Interval
           /\ LastRound \in Int /\ LastRound <= now /\ now - Interval <= LastRound
           /\ ticker.next = LastRound + Interval /\ ticker.ticked \in BOOLEAN
           /\ restarts \in Nat /\ faults \in Nat
<1>1. Interval \in Nat \ {0} /\ MaxNow \in Nat
    BY CertificatesAssumption
<1>2. now \in 0..MaxNow /\ ticker \in [next : now..now + Interval, ticked : BOOLEAN]
    BY DEF WorkInv, TypeOK
<1>3. now \in Nat /\ ticker.next \in now..now + Interval /\ ticker.ticked \in BOOLEAN
    BY <1>1, <1>2
<1>4. restarts \in Nat /\ faults \in Nat
    BY DEF WorkInv, TypeOK
<1>q. QED BY <1>1, <1>3, <1>4 DEF LastRound

LEMMA CertType ==
    ASSUME WorkInv, NEW d \in Monitored
    PROVE  /\ certs[d].expires \in Nat /\ certs[d].since \in Nat /\ certs[d].since <= now
           /\ peers[d] \in {"answers", "refuses", "silent"}
           /\ peers[d] # "answers" => <<d, peers[d]>> \in troubles
           /\ table[d] \in Row \cup {Absent}
<1>1. certs[d] \in [expires : Nat, since : 0..now] /\ now \in Nat
    BY ClockType DEF WorkInv, TypeOK
<1>q. QED BY <1>1 DEF WorkInv, TypeOK, PeersOK

\* One goroutine goes on; the clock stands.
LEMMA MovedInv ==
    ASSUME WorkInv, NEW p \in DOMAIN procs, NEW q \in Proc, PlaceOK(p, q), LiveOK(q),
           procs' = [procs EXCEPT ![p] = q],
           p = Checker => procs[p].pc # "wait",
           UNCHANGED <<now, certs, peers, useReplica, ticker, troubles, renewals, restarts>>,
           table' \in [Monitored -> Row \cup {Absent}], faults' \in Nat,
           sent' \subseteq Warnings, SentOK'
    PROVE  WorkInv'
<1>1. TypeOK'
    BY DEF WorkInv, TypeOK, Warnings
<1>2. PeersOK'
    BY DEF WorkInv, PeersOK
<1>3. PromptOK'
    <2>1. Active' => Active
        BY Goroutines DEF Active
    <2>q. QED BY <2>1 DEF WorkInv, PromptOK, Steady
<1>4. ASSUME NEW r \in DOMAIN procs' PROVE PlaceOK(r, procs[r])' /\ LiveOK(procs[r])'
    <2>1. r \in DOMAIN procs /\ PlaceOK(r, procs'[r]) /\ LiveOK(procs'[r])
        <3>1. r \in DOMAIN procs /\ procs'[r] = IF r = p THEN q ELSE procs[r]
            BY <1>4
        <3>q. QED BY <3>1, ProcOf
    <2>q. QED BY <2>1 DEF PlaceOK, LiveOK, Held, Current, Ahead, Renewed, Busy
<1>q. QED BY <1>1, <1>2, <1>3, <1>4 DEF WorkInv

\* Steps of the surroundings: no goroutine goes on.
LEMMA StayedInv ==
    ASSUME WorkInv, TypeOK', PeersOK', PromptOK', SentOK', UNCHANGED procs,
           \A p \in DOMAIN procs : procs[p].pc \in {"save", "warn"} => Held(procs[p])'
    PROVE  WorkInv'
<1>1. ASSUME NEW p \in DOMAIN procs' PROVE PlaceOK(p, procs[p])' /\ LiveOK(procs[p])'
    <2>1. p \in DOMAIN procs /\ PlaceOK(p, procs[p]) /\ LiveOK(procs[p])
        BY <1>1, ProcOf
    <2>q. QED BY <2>1 DEF PlaceOK, LiveOK, Current, Ahead, Busy
<1>q. QED BY <1>1 DEF WorkInv

LEMMA InitWork == Init => WorkInv
<1> SUFFICES ASSUME Init PROVE WorkInv
    OBVIOUS
<1>1. /\ Interval \in Nat \ {0} /\ MaxNow \in Nat /\ now = 0
      /\ Checker \notin Requests
    BY CertificatesAssumption DEF Init
<1>2. certs \in [Monitored -> [expires : Nat, since : 0..now]]
    BY <1>1, CertificatesAssumption DEF Init
<1>3. DOMAIN procs = {Checker} \cup Requests /\ procs[Checker] = Round
      /\ \A p \in Requests : procs[p] = Idle("new")
    BY <1>1 DEF Init
<1>4. ASSUME NEW p \in DOMAIN procs
      PROVE  procs[p] \in Proc /\ PlaceOK(p, procs[p]) /\ LiveOK(procs[p])
    <2>1. CASE p = Checker
        BY <1>3, <2>1, RoundType
    <2>2. CASE p # Checker
        <3>1. procs[p] = Idle("new")
            BY <1>3, <1>4, <2>2
        <3>q. QED BY <2>2, <3>1, IdleType DEF PlaceOK, LiveOK, Busy
    <2>q. QED BY <2>1, <2>2
<1>5. TypeOK
    <2>1. procs \in [{Checker} \cup Requests -> Proc]
        BY <1>3, <1>4 DEF Init
    <2>q. QED BY <1>1, <1>2, <2>1 DEF Init, TypeOK
<1>6. PeersOK /\ SentOK
    BY DEF Init, PeersOK, SentOK
<1>7. PromptOK
    BY <1>1 DEF Init, PromptOK
<1>q. QED BY <1>4, <1>5, <1>6, <1>7 DEF WorkInv

\* Time passes between rounds only, unless a domain holds a round up.
LEMMA TimePassesSteadily ==
    ASSUME WorkInv, TimePasses
    PROVE  /\ Active => Stuck
           /\ Steady => ~Active
<1>1. procs[Checker].pc \in Busy \cup {"wait"} /\ procs[Checker] \in Proc
      /\ (procs[Checker].pc \in Busy <=> procs[Checker].todo # {})
    BY Goroutines, ProcOf DEF PlaceOK
<1>2. Waits(Checker)
    BY Goroutines DEF TimePasses
<1>3. Active => Stuck
    BY <1>1, <1>2 DEF Waits, Active, Stuck, Busy
<1>4. Stuck => <<Current(procs[Checker]), "silent">> \in troubles
    <2> SUFFICES ASSUME Stuck PROVE <<Current(procs[Checker]), "silent">> \in troubles
        OBVIOUS
    <2>1. Current(procs[Checker]) \in Monitored
        BY <1>1, CurrentType DEF Stuck, Busy
    <2>q. QED BY <2>1, CertType DEF Stuck
<1>5. Stuck => ~Steady
    BY <1>4 DEF Steady
<1>q. QED BY <1>3, <1>5

LEMMA TimePassesInv == ASSUME WorkInv, TimePasses PROVE WorkInv'
<1> USE DEF TimePasses, program, bounds
<1>1. TypeOK'
    <2>1. now' \in 0..MaxNow /\ now' = now + 1 /\ now \in Nat /\ now < ticker.next
        BY ClockType, CertificatesAssumption DEF WorkInv, TypeOK
    <2>2. \A d \in Monitored : certs[d] \in [expires : Nat, since : 0..now']
        BY <2>1 DEF WorkInv, TypeOK
    <2>3. ticker \in [next : now'..now' + Interval, ticked : BOOLEAN]
        BY <2>1, CertificatesAssumption DEF WorkInv, TypeOK
    <2>4. sent \subseteq Warnings'
        BY <2>1 DEF WorkInv, TypeOK, Warnings
    <2>q. QED BY <2>1, <2>2, <2>3, <2>4 DEF WorkInv, TypeOK, Warnings
<1>2. PeersOK' /\ SentOK'
    BY DEF WorkInv, PeersOK, SentOK
<1>3. PromptOK'
    BY TimePassesSteadily DEF PromptOK, Steady, Active
<1>4. \A p \in DOMAIN procs : procs[p].pc \notin {"save", "warn"}
    BY DEF Waits
<1>q. QED BY <1>1, <1>2, <1>3, <1>4, StayedInv

LEMMA RenewInv == ASSUME WorkInv, NEW d \in Monitored, Renew(d) PROVE WorkInv'
<1> USE DEF Renew, program, bounds
<1>1. TypeOK'
    <2>1. [expires |-> now + Lifetime, since |-> now] \in [expires : Nat, since : 0..now]
        BY ClockType, CertificatesAssumption
    <2>2. certs' \in [Monitored -> [expires : Nat, since : 0..now]]
        BY <2>1 DEF WorkInv, TypeOK
    <2>q. QED BY <2>2 DEF WorkInv, TypeOK, Warnings
<1>2. PeersOK' /\ SentOK' /\ PromptOK'
    BY DEF WorkInv, PeersOK, SentOK, PromptOK, Steady, Active
<1>3. ASSUME NEW p \in DOMAIN procs, procs[p].pc \in {"save", "warn"} PROVE Held(procs[p])'
    <2>1. Held(procs[p]) /\ procs[p] \in Proc /\ procs[p].todo # {}
        BY <1>3, ProcOf DEF PlaceOK, Busy
    <2>2. Current(procs[p]) \in Monitored
        BY <2>1, CurrentType
    <2>3. certs' = [certs EXCEPT ![d] = [expires |-> now + Lifetime, since |-> now]]
          /\ certs \in [Monitored -> [expires : Nat, since : 0..now]]
        BY DEF WorkInv, TypeOK
    <2>q. QED BY <2>1, <2>2, <2>3 DEF Held, Renewed, Current
<1>q. QED BY <1>1, <1>2, <1>3, StayedInv

LEMMA PeerInv ==
    ASSUME WorkInv, NEW d \in Monitored, PeerFails(d) \/ PeerRecovers(d)
    PROVE  WorkInv'
<1> USE DEF PeerFails, PeerRecovers, program, bounds
<1>1. TypeOK'
    <2>1. PICK state \in {"answers", "refuses", "silent"} : peers' = [peers EXCEPT ![d] = state]
        OBVIOUS
    <2>2. peers' \in [Monitored -> {"answers", "refuses", "silent"}]
        BY <2>1 DEF WorkInv, TypeOK
    <2>3. troubles' \subseteq Monitored \X {"refuses", "silent"}
        BY DEF WorkInv, TypeOK
    <2>q. QED BY <2>2, <2>3 DEF WorkInv, TypeOK, Warnings
<1>2. PeersOK'
    BY DEF WorkInv, TypeOK, PeersOK
<1>3. PromptOK' /\ SentOK'
    BY DEF WorkInv, PromptOK, SentOK, Steady, Active
<1>4. \A p \in DOMAIN procs : procs[p].pc \in {"save", "warn"} => Held(procs[p])'
    BY ProcOf DEF PlaceOK, Held, Current, Renewed
<1>q. QED BY <1>1, <1>2, <1>3, <1>4, StayedInv

LEMMA TickerFiresInv == ASSUME WorkInv, TickerFires PROVE WorkInv'
<1> USE DEF TickerFires, bounds
<1>1. TypeOK'
    <2>1. ticker' \in [next : now..now + Interval, ticked : BOOLEAN]
        BY ClockType
    <2>q. QED BY <2>1 DEF WorkInv, TypeOK, Warnings
<1>2. PeersOK' /\ SentOK' /\ PromptOK'
    BY DEF WorkInv, PeersOK, SentOK, PromptOK
<1>3. \A p \in DOMAIN procs : procs[p].pc \in {"save", "warn"} => Held(procs[p])'
    BY ProcOf DEF PlaceOK, Held, Current, Renewed
<1>q. QED BY <1>1, <1>2, <1>3, StayedInv

LEMMA RestartInv == ASSUME WorkInv, Restart PROVE WorkInv'
<1> USE DEF Restart
<1>1. /\ DOMAIN procs = {Checker} \cup Requests /\ DOMAIN procs' = DOMAIN procs
      /\ \A p \in DOMAIN procs : procs'[p] =
            IF p = Checker THEN Round ELSE IF procs[p].pc = "new" THEN procs[p] ELSE Idle("done")
    BY Goroutines
<1>2. ASSUME NEW p \in {Checker} \cup Requests
      PROVE  procs'[p] \in Proc /\ PlaceOK(p, procs'[p]) /\ LiveOK(procs'[p])
    <2>1. CASE p = Checker
        BY <1>1, <2>1, RoundType
    <2>2. CASE p # Checker /\ procs[p].pc = "new"
        BY <1>1, <2>2, ProcOf
    <2>3. CASE p # Checker /\ procs[p].pc # "new"
        <3>1. procs'[p] = Idle("done")
            BY <1>1, <2>3
        <3>q. QED BY <2>3, <3>1, IdleType DEF PlaceOK, LiveOK, Busy
    <2>q. QED BY <2>1, <2>2, <2>3
<1>3. TypeOK'
    <2>1. ticker' \in [next : now..now + Interval, ticked : BOOLEAN]
        BY ClockType
    <2>2. procs' \in [{Checker} \cup Requests -> Proc]
        BY <1>1, <1>2
    <2>3. restarts' \in Nat /\ useReplica' \in ConnectOutcomes
        BY DEF WorkInv, TypeOK
    <2>q. QED BY <2>1, <2>2, <2>3 DEF WorkInv, TypeOK, Warnings
<1>4. PeersOK' /\ SentOK' /\ PromptOK'
    <2>1. ticker'.next = now' + Interval
        OBVIOUS
    <2>q. QED BY <2>1 DEF WorkInv, PeersOK, SentOK, PromptOK
<1>5. ASSUME NEW p \in DOMAIN procs' PROVE PlaceOK(p, procs[p])' /\ LiveOK(procs[p])'
    <2>1. PlaceOK(p, procs'[p]) /\ LiveOK(procs'[p])
        BY <1>1, <1>2, <1>5
    <2>q. QED BY <2>1 DEF PlaceOK, LiveOK, Held, Current, Ahead, Renewed, Busy
<1>q. QED BY <1>3, <1>4, <1>5 DEF WorkInv

LEMMA StartRoundInv == ASSUME WorkInv, StartRound PROVE WorkInv'
<1> USE DEF StartRound, bounds
<1>1. procs' = [procs EXCEPT ![Checker] = Round] /\ Checker \in DOMAIN procs
    BY Goroutines
<1>2. Round \in Proc /\ PlaceOK(Checker, Round) /\ LiveOK(Round)
    BY <1>1, RoundType
<1>3. TypeOK'
    BY <1>2 DEF WorkInv, TypeOK, Warnings
<1>4. PeersOK' /\ SentOK' /\ PromptOK'
    BY ClockType DEF WorkInv, PeersOK, SentOK, PromptOK, Steady, Active, TypeOK
<1>5. ASSUME NEW p \in DOMAIN procs' PROVE PlaceOK(p, procs[p])' /\ LiveOK(procs[p])'
    <2>1. p \in DOMAIN procs /\ procs'[p] = IF p = Checker THEN Round ELSE procs[p]
        BY <1>1, <1>5
    <2>2. PlaceOK(p, procs'[p]) /\ LiveOK(procs'[p])
        BY <1>2, <2>1, ProcOf
    <2>q. QED BY <2>2 DEF PlaceOK, LiveOK, Held, Current, Ahead, Renewed
<1>q. QED BY <1>3, <1>4, <1>5 DEF WorkInv

\* A goroutine that is done with a domain goes on to the next one.
LEMMA NextGood ==
    ASSUME NEW p \in DOMAIN procs, NEW proc \in Proc, FitsWork(p, proc.work), proc.todo # {},
           LiveOK(proc), proc.work = "live" => Current(proc) \in proc.shown
    PROVE  /\ NextDomain(proc) \in Proc
           /\ PlaceOK(p, NextDomain(proc)) /\ LiveOK(NextDomain(proc))
           /\ NextDomain(proc).work = proc.work /\ NextDomain(proc).shown = proc.shown
           /\ NextDomain(proc).todo = proc.todo \ {First(proc.todo)}
           /\ NextDomain(proc).pc \in {"check", "wait", "reread", "done"}
           /\ NextDomain(proc).pc = "wait" => p = Checker
<1> DEFINE rest == proc.todo \ {First(proc.todo)}
<1>1. rest \in SUBSET DOMAIN Domains
      /\ \A d \in Monitored : Ahead(d, proc.todo) => d = Current(proc) \/ Ahead(d, rest)
    BY CurrentType
<1>2. proc.work = "live" => \A d \in Monitored : d \in proc.shown \/ Ahead(d, rest)
    BY <1>1 DEF LiveOK
<1>3. NextDomain(proc) = Take(proc, rest)
    BY DEF NextDomain
<1> HIDE DEF rest
<1>4. /\ Take(proc, rest) \in Proc
      /\ Take(proc, rest).work = proc.work /\ Take(proc, rest).todo = rest
      /\ Take(proc, rest).shown = proc.shown
      /\ PlaceOK(p, Take(proc, rest)) /\ LiveOK(Take(proc, rest))
      /\ Take(proc, rest).pc \in {"check", "wait", "reread", "done"}
      /\ Take(proc, rest).pc = "wait" => proc.work = "round"
    BY <1>1, <1>2, TakeType DEF FitsWork
<1>5. proc.work = "round" => p = Checker
    BY DEF FitsWork
<1>q. QED BY <1>3, <1>4, <1>5 DEF rest

LEMMA SameSent ==
    ASSUME WorkInv, UNCHANGED <<now, sent>>
    PROVE  sent' \subseteq Warnings /\ SentOK'
    BY DEF WorkInv, TypeOK, SentOK

LEMMA FaultType ==
    ASSUME WorkInv, Fault
    PROVE  faults' \in Nat /\ faults' = faults + 1 /\ faults' > 0
    BY DEF WorkInv, TypeOK, Fault

\* What the goroutine has seen with the domain it is at.
Seen(proc) == IF proc.work = "live" THEN [proc EXCEPT !.shown = @ \cup {Current(proc)}] ELSE proc

LEMMA SeenType ==
    ASSUME NEW proc \in Proc, proc.todo # {}, LiveOK(proc)
    PROVE  /\ Seen(proc) \in Proc /\ LiveOK([Seen(proc) EXCEPT !.pc = "check"])
           /\ Seen(proc).work = proc.work /\ Seen(proc).todo = proc.todo
           /\ Seen(proc).pc = proc.pc /\ Current(Seen(proc)) = Current(proc)
           /\ proc.work = "live" => /\ Current(proc) \in Seen(proc).shown
                                    /\ \A d \in Monitored : d \in Seen(proc).shown \/ Ahead(d, proc.todo)
           /\ proc.work # "live" => Seen(proc) = proc
<1>1. Current(proc) \in Monitored
    BY CurrentType
<1>2. CASE proc.work = "live"
    <2>1. Seen(proc) = [proc EXCEPT !.shown = @ \cup {Current(proc)}]
        BY <1>2 DEF Seen
    <2>q. QED BY <1>1, <1>2, <2>1 DEF Proc, LiveOK, Current
<1>3. CASE proc.work # "live"
    BY <1>3 DEF Seen, LiveOK, Proc
<1>q. QED BY <1>2, <1>3

\* A check either holds what it saw, or ends: the peer refuses, or the
\* certificate is over.
LEMMA Checked ==
    ASSUME WorkInv, NEW p \in DOMAIN procs, CheckDomain(p)
    PROVE  LET proc == procs[p]
               d == Current(proc)
               held == [Seen(proc) EXCEPT !.pc = "save", !.result = RowAt(certs[d].expires, now)]
           IN  /\ proc.pc = "check" /\ proc.todo # {} /\ proc \in Proc /\ FitsWork(p, proc.work)
               /\ d \in Monitored /\ peers[d] # "silent"
               /\ \/ /\ now <= certs[d].expires
                     /\ procs' = [procs EXCEPT ![p] = held]
                     /\ held \in Proc /\ PlaceOK(p, held) /\ LiveOK(held)
                     /\ held.pc = "save" /\ held.work = proc.work /\ held.todo = proc.todo
                  \/ /\ peers[d] = "answers" => now > certs[d].expires
                     /\ procs' = [procs EXCEPT ![p] = NextDomain(Seen(proc))]
                     /\ NextDomain(Seen(proc)) \in Proc
                     /\ PlaceOK(p, NextDomain(Seen(proc))) /\ LiveOK(NextDomain(Seen(proc)))
                     /\ NextDomain(Seen(proc)).work = proc.work
                     /\ NextDomain(Seen(proc)).todo = proc.todo \ {First(proc.todo)}
                     /\ NextDomain(Seen(proc)).pc \in {"check", "wait", "reread", "done"}
                     /\ proc.work = "missing" => NextDomain(Seen(proc)).pc # "done"
<1> DEFINE proc == procs[p]
           d == Current(proc)
           seen == Seen(proc)
           held == [seen EXCEPT !.pc = "save", !.result = RowAt(certs[d].expires, now)]
<1>1. /\ proc.pc = "check" /\ proc.todo # {} /\ proc \in Proc /\ FitsWork(p, proc.work)
      /\ PlaceOK(p, proc) /\ LiveOK(proc)
    BY ProcOf DEF CheckDomain, PlaceOK, Busy
<1>2. d \in Monitored /\ certs[d].expires \in Nat /\ now \in Nat
    BY <1>1, CurrentType, CertType, ClockType
<1>3. /\ seen \in Proc /\ seen.work = proc.work /\ seen.todo = proc.todo
      /\ seen.pc = proc.pc /\ Current(seen) = Current(proc)
      /\ proc.work = "live" => /\ d \in seen.shown
                               /\ \A e \in Monitored : e \in seen.shown \/ Ahead(e, proc.todo)
    BY <1>1, SeenType
<1>4. \/ /\ peers[d] = "answers" /\ now <= certs[d].expires
         /\ procs' = [procs EXCEPT ![p] = [seen EXCEPT !.pc = "save", !.result = Found(certs[d].expires)]]
      \/ /\ peers[d] # "silent"
         /\ peers[d] = "answers" => now > certs[d].expires
         /\ procs' = [procs EXCEPT ![p] = NextDomain(seen)]
    BY DEF CheckDomain, Seen
<1>5. Found(certs[d].expires) = RowAt(certs[d].expires, now)
    BY DEF Found, RowAt, DaysLeft, DaysAt
<1>6. ASSUME now <= certs[d].expires
      PROVE  /\ held \in Proc /\ PlaceOK(p, held) /\ LiveOK(held)
             /\ held.pc = "save" /\ held.work = proc.work /\ held.todo = proc.todo
    <2>1. RowAt(certs[d].expires, now) \in Row /\ RowAt(certs[d].expires, now).expires = certs[d].expires
        BY <1>2, <1>6, RowAtType DEF RowAt
    <2> HIDE DEF seen
    <2>2. /\ held \in Proc /\ held.pc = "save" /\ held.work = seen.work /\ held.todo = seen.todo
          /\ held.shown = seen.shown /\ held.result = RowAt(certs[d].expires, now)
        BY <1>3, <2>1 DEF Proc
    <2> HIDE DEF held
    <2>3. Current(held) = d
        BY <1>3, <2>2 DEF Current
    <2>4. Held(held)
        BY <1>2, <1>6, <2>1, <2>2, <2>3 DEF Held
    <2>5. PlaceOK(p, held)
        BY <1>1, <1>3, <2>2, <2>4 DEF PlaceOK, Busy, FitsWork
    <2>6. LiveOK(held)
        BY <1>3, <2>2, <2>3 DEF LiveOK
    <2>q. QED BY <1>3, <2>2, <2>5, <2>6
<1>7. /\ NextDomain(seen) \in Proc
      /\ PlaceOK(p, NextDomain(seen)) /\ LiveOK(NextDomain(seen))
      /\ NextDomain(seen).work = proc.work
      /\ NextDomain(seen).todo = proc.todo \ {First(proc.todo)}
      /\ NextDomain(seen).pc \in {"check", "wait", "reread", "done"}
      /\ proc.work = "missing" => NextDomain(seen).pc # "done"
    <2>1. LiveOK(seen)
        BY <1>3 DEF LiveOK
    <2> HIDE DEF seen
    <2>2. FitsWork(p, seen.work) /\ seen.todo # {}
        BY <1>1, <1>3
    <2>3. proc.work = "missing" => NextDomain(seen).pc # "done"
        BY <1>3, <2>2 DEF NextDomain, Take, Proc
    <2>q. QED BY <1>1, <1>3, <2>1, <2>2, <2>3, NextGood
<1>8. peers[d] # "silent"
    BY <1>4
<1>q. QED BY <1>1, <1>2, <1>4, <1>5, <1>6, <1>7, <1>8

LEMMA CheckDomainInv ==
    ASSUME WorkInv, NEW p \in DOMAIN procs, CheckDomain(p)
    PROVE  WorkInv'
<1>1. PICK q \in Proc : /\ PlaceOK(p, q) /\ LiveOK(q)
                        /\ procs' = [procs EXCEPT ![p] = q]
    BY Checked
<1>2. procs[p].pc # "wait"
    BY Checked
<1>3. UNCHANGED <<now, certs, peers, table, useReplica, ticker, sent, troubles, renewals, restarts, faults>>
    BY DEF CheckDomain, bounds
<1>q. QED BY <1>1, <1>2, <1>3, MovedInv, SameSent DEF WorkInv, TypeOK

LEMMA SavedType ==
    ASSUME WorkInv, NEW p \in DOMAIN procs, procs[p].pc = "save"
    PROVE  /\ procs[p] \in Proc /\ procs[p].todo # {} /\ FitsWork(p, procs[p].work)
           /\ Current(procs[p]) \in Monitored /\ Held(procs[p])
           /\ Saved(p) \in Proc /\ PlaceOK(p, Saved(p)) /\ LiveOK(Saved(p))
           /\ Saved(p).work = procs[p].work
           /\ p = Checker => Saved(p) = [procs[p] EXCEPT !.pc = "warn"]
           /\ p # Checker => /\ Saved(p) = NextDomain(procs[p])
                             /\ Saved(p).todo = procs[p].todo \ {First(procs[p].todo)}
                             /\ procs[p].work = "missing" => Saved(p).pc # "done"
<1>1. /\ procs[p] \in Proc /\ procs[p].todo # {} /\ FitsWork(p, procs[p].work)
      /\ PlaceOK(p, procs[p]) /\ LiveOK(procs[p]) /\ Held(procs[p])
      /\ procs[p].work = "live" => Current(procs[p]) \in procs[p].shown
    BY ProcOf DEF PlaceOK, LiveOK, Busy
<1>2. CASE p = Checker
    <2> DEFINE q == [procs[p] EXCEPT !.pc = "warn"]
    <2>1. Saved(p) = q /\ procs[p].work = "round"
        BY <1>1, <1>2 DEF Saved, FitsWork
    <2>2. /\ q \in Proc /\ q.pc = "warn" /\ q.work = "round" /\ q.todo = procs[p].todo
          /\ q.result = procs[p].result
        BY <1>1, <2>1 DEF Proc
    <2> HIDE DEF q
    <2>3. PlaceOK(p, q) /\ LiveOK(q)
        BY <1>1, <1>2, <2>2 DEF PlaceOK, LiveOK, Busy, Held, Current
    <2>q. QED BY <1>1, <1>2, <2>1, <2>2, <2>3, CurrentType DEF q
<1>3. CASE p # Checker
    <2>1. Saved(p) = NextDomain(procs[p])
        BY <1>1, <1>3 DEF Saved, FitsWork
    <2>2. procs[p].work = "missing" => NextDomain(procs[p]).pc # "done"
        BY <1>1 DEF NextDomain, Take, Proc
    <2>q. QED BY <1>1, <1>3, <2>1, <2>2, NextGood, CurrentType
<1>q. QED BY <1>2, <1>3

LEMMA SaveInv ==
    ASSUME WorkInv, NEW p \in DOMAIN procs, SaveResult(p) \/ SaveFailed(p)
    PROVE  WorkInv'
<1>1. /\ procs[p].pc = "save" /\ procs' = [procs EXCEPT ![p] = Saved(p)]
      /\ UNCHANGED <<now, certs, peers, useReplica, ticker, sent, troubles, renewals, restarts>>
    BY DEF SaveResult, SaveFailed, bounds
<1>2. faults' \in Nat
    BY FaultType DEF SaveResult, SaveFailed, bounds, WorkInv, TypeOK
<1>3. table' \in [Monitored -> Row \cup {Absent}]
    <2>1. procs[p].result \in Row \cup {Absent}
        BY <1>1, SavedType DEF Proc
    <2>q. QED BY <2>1 DEF SaveResult, SaveFailed, Upsert, WorkInv, TypeOK
<1>q. QED BY <1>1, <1>2, <1>3, SavedType, MovedInv, SameSent

\* What a warning says, when there is one.
LEMMA WarningType ==
    ASSUME WorkInv, procs[Checker].pc = "warn", Warned(Checker)
    PROVE  LET s == Warning(Checker)
               result == procs[Checker].result
           IN  /\ s \in Warnings /\ s.at = now /\ s.at <= s.expires
               /\ s.domain = Current(procs[Checker]) /\ s.expires = result.expires
               /\ DaysAt(s.expires, s.at) <= s.window /\ DaysAt(s.expires, s.at) > s.window - 2
               /\ s.severity = SeverityAt(s.expires, s.at)
<1> DEFINE proc == procs[Checker]
           W == Window(proc.result.days)
           s == Warning(Checker)
<1>1. /\ proc \in Proc /\ proc.todo # {} /\ Held(proc)
    BY Goroutines, ProcOf DEF PlaceOK, Busy
<1>2. /\ proc.result.expires \in Nat /\ now <= proc.result.expires /\ now \in Nat
      /\ proc.result = RowAt(proc.result.expires, now)
    BY <1>1, ClockType DEF Held
<1>3. /\ proc.result.days = DaysAt(proc.result.expires, now)
      /\ proc.result.status = StatusOf(DaysAt(proc.result.expires, now))
    BY <1>2 DEF RowAt
<1>4. First(W) \in W
    <2>1. W \in SUBSET Nat /\ W # {}
        BY DEF Window, Warned
    <2>q. QED BY <2>1, FirstType
<1>5. /\ First(W) \in 1..Len(WarnDays)
      /\ proc.result.days <= WarnDays[First(W)] /\ proc.result.days > WarnDays[First(W)] - 2
    BY <1>4 DEF Window
<1>6. WarnDays[First(W)] \in Range(WarnDays)
    BY <1>5, CertificatesAssumption DEF Range
<1>7. Current(proc) \in Monitored
    BY <1>1, CurrentType
<1>8. s = [domain |-> Current(proc), expires |-> proc.result.expires,
           window |-> WarnDays[First(W)], at |-> now,
           severity |-> SeverityAt(proc.result.expires, now)]
    BY <1>3 DEF Warning, SeverityAt
<1> HIDE DEF s, W
<1>9. SeverityAt(proc.result.expires, now) \in {"warning", "critical"}
    BY DEF SeverityAt
<1>10. s \in Warnings
    BY <1>2, <1>6, <1>7, <1>8, <1>9 DEF Warnings
<1>q. QED BY <1>2, <1>3, <1>5, <1>8, <1>10 DEF s

LEMMA WarnInv == ASSUME WorkInv, Warn(Checker) \/ WarnFailed(Checker) PROVE WorkInv'
<1>1. /\ procs[Checker].pc = "warn" /\ procs' = [procs EXCEPT ![Checker] = NextDomain(procs[Checker])]
      /\ UNCHANGED <<now, certs, peers, table, useReplica, ticker, troubles, renewals, restarts>>
    BY DEF Warn, WarnFailed, bounds
<1>2. /\ procs[Checker] \in Proc /\ procs[Checker].todo # {} /\ procs[Checker].work = "round"
      /\ LiveOK(procs[Checker]) /\ FitsWork(Checker, procs[Checker].work)
      /\ Checker \in DOMAIN procs
    BY <1>1, Goroutines, ProcOf DEF PlaceOK, Busy
<1>3. /\ NextDomain(procs[Checker]) \in Proc
      /\ PlaceOK(Checker, NextDomain(procs[Checker])) /\ LiveOK(NextDomain(procs[Checker]))
    BY <1>2, NextGood
<1>4. faults' \in Nat
    BY FaultType DEF Warn, WarnFailed, bounds, WorkInv, TypeOK
<1>5. sent' \subseteq Warnings /\ SentOK'
    <2>1. CASE sent' = sent
        BY <1>1, <2>1, SameSent
    <2>2. CASE Warned(Checker) /\ sent' = sent \cup {Warning(Checker)}
        BY <1>1, <2>2, WarningType DEF WorkInv, TypeOK, SentOK
    <2>q. QED BY <2>1, <2>2 DEF Warn, WarnFailed
<1>q. QED BY <1>1, <1>2, <1>3, <1>4, <1>5, MovedInv DEF WorkInv, TypeOK

\* What an answer does to the goroutine.
LEMMA Answered ==
    ASSUME WorkInv, NEW p \in Requests, NEW rows \in SUBSET Monitored, Answer(p, rows)
    PROVE  \E q \in Proc :
              /\ PlaceOK(p, q) /\ LiveOK(q) /\ procs' = [procs EXCEPT ![p] = q]
              /\ IF rows = {} THEN q.work = "live"
                 ELSE q.work = "missing" /\ q.pc = "done" /\ q.shown = rows
<1>1. p \in DOMAIN procs /\ p # Checker
    BY Goroutines
<1>2. CASE rows = {}
    <2> DEFINE start == [Idle("check") EXCEPT !.work = "live"]
               q == Take(start, DOMAIN Domains)
    <2>1. start \in Proc /\ start.work = "live"
        BY IdleType DEF Proc
    <2> HIDE DEF start
    <2>2. q \in Proc /\ PlaceOK(p, q) /\ LiveOK(q) /\ q.work = "live"
        BY <1>1, <2>1, MonitoredPositions, TakeType DEF FitsWork
    <2>q. QED BY <1>2, <2>2 DEF Answer, start
<1>3. CASE rows # {}
    <2> DEFINE q == [Idle("done") EXCEPT !.work = "missing", !.shown = rows]
    <2>1. /\ q \in Proc /\ q.work = "missing" /\ q.pc = "done" /\ q.shown = rows /\ q.todo = {}
        BY IdleType DEF Proc
    <2> HIDE DEF q
    <2>2. PlaceOK(p, q) /\ LiveOK(q)
        BY <1>1, <2>1 DEF PlaceOK, LiveOK, Busy
    <2>q. QED BY <1>3, <2>1, <2>2 DEF Answer, q
<1>q. QED BY <1>2, <1>3

LEMMA ReadPoolType == ReadPool \subseteq SUBSET Monitored /\ (~useReplica => ReadPool = {Rows})
    BY DEF ReadPool, Rows

\* What a request reads: the domains that are missing, or the answer.
LEMMA ReadType ==
    ASSUME WorkInv, NEW p \in Requests, ReadRows(p)
    PROVE  \E rows \in ReadPool :
              \/ Answer(p, rows) /\ Monitored \subseteq rows
              \/ \E q \in Proc :
                    /\ PlaceOK(p, q) /\ LiveOK(q) /\ procs' = [procs EXCEPT ![p] = q]
                    /\ q.work = "missing" /\ q.pc = "check"
                    /\ \A d \in Monitored : d \in rows \/ Ahead(d, q.todo)
<1>1. /\ p \in DOMAIN procs /\ p # Checker /\ procs[p] \in Proc
    BY Goroutines, ProcOf
<1>2. PICK rows \in ReadPool :
          LET missing == {i \in DOMAIN Domains : Domains[i] \notin rows}
          IN  IF missing # {}
              THEN procs' = [procs EXCEPT ![p] = Take([@ EXCEPT !.work = "missing"], missing)]
              ELSE Answer(p, rows)
    BY DEF ReadRows
<1> DEFINE missing == {i \in DOMAIN Domains : Domains[i] \notin rows}
           start == [procs[p] EXCEPT !.work = "missing"]
           q == Take(start, missing)
<1>3. CASE missing = {}
    <2>1. Answer(p, rows)
        BY <1>2, <1>3
    <2>2. Monitored \subseteq rows
        BY <1>3, MonitoredPositions DEF Ahead
    <2>q. QED BY <2>1, <2>2
<1>4. CASE missing # {}
    <2>1. procs' = [procs EXCEPT ![p] = q]
        BY <1>1, <1>2, <1>4
    <2>2. start \in Proc /\ start.work = "missing"
        BY <1>1 DEF Proc
    <2>3. \A d \in Monitored : d \in rows \/ Ahead(d, missing)
        BY MonitoredPositions DEF Ahead
    <2>4. missing \in SUBSET DOMAIN Domains
        OBVIOUS
    <2> HIDE DEF start, missing
    <2>5. /\ q \in Proc /\ PlaceOK(p, q) /\ LiveOK(q)
          /\ q.work = "missing" /\ q.pc = "check" /\ q.todo = missing
        BY <1>1, <1>4, <2>2, <2>4, TakeType DEF FitsWork
    <2>q. QED BY <2>1, <2>3, <2>5
<1>q. QED BY <1>3, <1>4

LEMMA RequestInv ==
    ASSUME WorkInv, NEW p \in Requests, Request(p) \/ ReadRows(p) \/ Reread(p) \/ ReadFailed(p)
    PROVE  WorkInv'
<1>1. p \in DOMAIN procs /\ p # Checker
    BY Goroutines
<1>2. UNCHANGED <<now, certs, peers, table, useReplica, ticker, sent, troubles, renewals, restarts>>
    BY DEF Request, ReadRows, Reread, ReadFailed, bounds
<1>3. faults' \in Nat
    BY FaultType DEF Request, ReadRows, Reread, ReadFailed, bounds, WorkInv, TypeOK
<1>4. \E q \in Proc : PlaceOK(p, q) /\ LiveOK(q) /\ procs' = [procs EXCEPT ![p] = q]
    <2>1. CASE Request(p)
        <3>1. PlaceOK(p, Idle("read")) /\ LiveOK(Idle("read")) /\ Idle("read") \in Proc
            BY <1>1, IdleType DEF PlaceOK, LiveOK, Busy
        <3>q. QED BY <2>1, <3>1 DEF Request
    <2>2. CASE ReadFailed(p)
        <3>1. PlaceOK(p, Idle("done")) /\ LiveOK(Idle("done")) /\ Idle("done") \in Proc
            BY <1>1, IdleType DEF PlaceOK, LiveOK, Busy
        <3>q. QED BY <2>2, <3>1 DEF ReadFailed
    <2>3. CASE ReadRows(p)
        BY <2>3, ReadType, ReadPoolType, Answered
    <2>4. CASE Reread(p)
        BY <2>4, ReadPoolType, Answered DEF Reread
    <2>q. QED BY <2>1, <2>2, <2>3, <2>4
<1>q. QED BY <1>1, <1>2, <1>3, <1>4, MovedInv, SameSent DEF WorkInv, TypeOK

LEMMA NextWork == WorkInv /\ [Next]_vars => WorkInv'
<1> SUFFICES ASSUME WorkInv, [Next]_vars PROVE WorkInv'
    OBVIOUS
<1>1. CASE UNCHANGED vars
    <2>1. TypeOK' /\ PeersOK' /\ PromptOK' /\ SentOK' /\ UNCHANGED procs
        BY <1>1 DEF vars, WorkInv, TypeOK, Warnings, PeersOK, PromptOK, SentOK, Steady, Active
    <2>2. \A p \in DOMAIN procs : procs[p].pc \in {"save", "warn"} => Held(procs[p])'
        BY <1>1, ProcOf DEF vars, PlaceOK, Held, Current, Renewed
    <2>q. QED BY <2>1, <2>2, StayedInv
<1>q. QED BY <1>1, Goroutines, TimePassesInv, RestartInv, RenewInv, PeerInv, TickerFiresInv, StartRoundInv,
             WarnInv, CheckDomainInv, SaveInv, RequestInv DEF Next

LEMMA WorkSafe == Spec => []WorkInv
    BY InitWork, NextWork, PTL DEF Spec

\* Every variable keeps its type.
THEOREM TypeCorrect == Spec => []TypeOK
<1>1. WorkInv => TypeOK
    BY DEF WorkInv
<1>q. QED BY <1>1, WorkSafe, PTL

-----------------------------------------------------------------------------
(* The rows stay fresh.                                                    *)

\* A domain that nothing disturbs answers, and no other holds a round up.
LEMMA AnswersAtOnce ==
    ASSUME WorkInv, NEW d \in Monitored, Undisturbed(d)
    PROVE  /\ peers[d] = "answers" /\ Steady
           /\ Active => LastRound = now
<1>1. Steady
    BY DEF Undisturbed, Steady
<1>2. peers[d] = "answers"
    <2>1. peers[d] # "answers" => <<d, peers[d]>> \in troubles
        BY CertType
    <2>q. QED BY <2>1 DEF Undisturbed
<1>3. Active => ticker.next = now + Interval
    BY <1>1 DEF WorkInv, PromptOK
<1>q. QED BY <1>1, <1>2, <1>3, ClockType

LEMMA SinceType ==
    ASSUME WorkInv, NEW d \in Monitored
    PROVE  /\ SavedSince(d) \in Int /\ now - Interval <= SavedSince(d) /\ SavedSince(d) <= now
           /\ ToSave(d) => SavedSince(d) = now - Interval
           /\ ~ToSave(d) => SavedSince(d) = LastRound
    BY ClockType DEF SavedSince

\* A row that nobody writes to stays, unless the round is done with it.
LEMMA RowKept ==
    ASSUME WorkInv, WorkInv', NEW d \in Monitored, RowOK(d),
           now' = now, certs'[d] = certs[d], table'[d] = table[d],
           ToSave(d)' \/ (~ToSave(d) /\ ticker' = ticker)
    PROVE  RowOK(d)'
<1>1. SavedSince(d)' <= SavedSince(d) /\ SavedSince(d)' \in Int /\ SavedSince(d) \in Int
    <2>1. CASE ToSave(d)'
        BY <2>1, SinceType, ClockType DEF SavedSince
    <2>2. CASE ~ToSave(d)' /\ ~ToSave(d) /\ ticker' = ticker
        BY <2>2, SinceType, ClockType DEF SavedSince, LastRound
    <2>q. QED BY <2>1, <2>2
<1>2. certs[d].since \in Nat /\ certs[d].expires \in Nat /\ now \in Nat
    BY CertType, ClockType
<1>3. CASE now = 0 /\ ToSave(d)
    BY <1>3 DEF RowOK
<1>4. CASE table[d] # Absent /\ certs[d].since >= SavedSince(d) /\ Renewed(d)
    <2>1. certs[d].since >= SavedSince(d)'
        BY <1>1, <1>2, <1>4
    <2>q. QED BY <1>4, <2>1 DEF RowOK, Renewed
<1>5. CASE \E t \in 0..now :
              /\ t <= certs[d].expires /\ table[d] = RowAt(certs[d].expires, t)
              /\ t >= SavedSince(d) \/ certs[d].expires < t + Interval
    <2>1. PICK t \in 0..now :
              /\ t <= certs[d].expires /\ table[d] = RowAt(certs[d].expires, t)
              /\ t >= SavedSince(d) \/ certs[d].expires < t + Interval
        BY <1>5
    <2>2. t >= SavedSince(d) => t >= SavedSince(d)'
        BY <1>1, <1>2
    <2>3. RowAt(certs[d].expires, t)' = RowAt(certs[d].expires, t)
        BY DEF RowAt, DaysAt
    <2>q. QED BY <2>1, <2>2, <2>3 DEF RowOK, RowAt, DaysAt
<1>q. QED BY <1>3, <1>4, <1>5 DEF RowOK

\* Once something has happened, a row of an undisturbed domain is there.
LEMMA RowThere ==
    ASSUME WorkInv, NEW d \in Monitored, RowOK(d)
    PROVE  table[d] # Absent \/ (now = 0 /\ ToSave(d))
<1>1. ASSUME NEW t \in 0..now, t <= certs[d].expires, table[d] = RowAt(certs[d].expires, t)
      PROVE  table[d] # Absent
    <2>1. now \in Nat /\ certs[d].expires \in Nat
        BY CertType, ClockType
    <2>q. QED BY <1>1, <2>1, RowAtType
<1>q. QED BY <1>1 DEF RowOK

\* The goroutine of the checker, and what is left of the round.
LEMMA CheckerStands ==
    ASSUME WorkInv, NEW d \in Monitored
    PROVE  /\ procs[Checker].pc \in Busy \cup {"wait"} /\ procs[Checker] \in Proc
           /\ procs[Checker].work = "round"
           /\ procs[Checker].pc \in Busy <=> procs[Checker].todo # {}
           /\ Ahead(d, procs[Checker].todo) => procs[Checker].todo # {} /\ Active
           /\ procs[Checker].todo # {} =>
                /\ Current(procs[Checker]) \in Monitored
                /\ Ahead(d, procs[Checker].todo) =>
                      d = Current(procs[Checker])
                      \/ Ahead(d, procs[Checker].todo \ {First(procs[Checker].todo)})
                /\ Ahead(d, procs[Checker].todo \ {First(procs[Checker].todo)}) => Ahead(d, procs[Checker].todo)
<1>1. /\ procs[Checker].pc \in Busy \cup {"wait"} /\ procs[Checker] \in Proc
      /\ procs[Checker].work = "round"
      /\ procs[Checker].pc \in Busy <=> procs[Checker].todo # {}
    BY Goroutines, ProcOf DEF PlaceOK
<1>2. Ahead(d, procs[Checker].todo) => procs[Checker].todo # {}
    BY DEF Ahead
<1>3. procs[Checker].todo # {} => Active
    BY <1>1 DEF Active, Busy
<1>q. QED BY <1>1, <1>2, <1>3, CurrentType DEF Ahead

\* A check that ends a round's work on the domain finds the certificate over,
\* and the row has shown it since its last days.
LEMMA CheckedRow ==
    ASSUME Lifetime >= Interval, WorkInv, WorkInv', CheckDomain(Checker), NEW d \in Monitored,
           RowOK(d), Undisturbed(d), ToSave(d), ~ToSave(d)'
    PROVE  RowOK(d)'
<1> DEFINE proc == procs[Checker]
<1>1. UNCHANGED <<now, certs, peers, table, useReplica, ticker, sent, troubles, faults>>
    BY DEF CheckDomain, bounds
<1>2. proc.pc = "check" /\ proc.todo # {} /\ ~ticker.ticked
    BY <1>1, Goroutines, Checked DEF ToSave
<1>3. Ahead(d, proc.todo)
    BY <1>2 DEF ToSave
<1>4. d = Current(proc) /\ (peers[d] = "answers" => now > certs[d].expires)
    <2>1. ASSUME NEW q \in Proc, procs' = [procs EXCEPT ![Checker] = q],
                 q.pc = "save", q.todo = proc.todo
          PROVE  FALSE
        <3>1. procs'[Checker] = q
            BY <2>1, Goroutines
        <3>q. QED BY <1>3, <2>1, <3>1 DEF ToSave, Ahead
    <2>2. ASSUME NEW q \in Proc, procs' = [procs EXCEPT ![Checker] = q],
                 q.todo = proc.todo \ {First(proc.todo)}, q.pc \in {"check", "wait", "reread", "done"}
          PROVE  d = Current(proc)
        <3>1. procs'[Checker] = q
            BY <2>2, Goroutines
        <3>2. SUFFICES ASSUME Ahead(d, q.todo) PROVE FALSE
            BY <1>2, <1>3, <2>2, CheckerStands
        <3>3. q.todo # {}
            BY <3>2 DEF Ahead
        <3>4. q.pc \in Busy
            BY <2>2, <3>1, <3>3, Goroutines DEF WorkInv, PlaceOK
        <3>q. QED BY <3>1, <3>2, <3>4, <2>2 DEF ToSave, Ahead, Busy
    <2>3. \/ \E q \in Proc : procs' = [procs EXCEPT ![Checker] = q] /\ q.pc = "save" /\ q.todo = proc.todo
          \/ \E q \in Proc : /\ procs' = [procs EXCEPT ![Checker] = q]
                             /\ q.todo = proc.todo \ {First(proc.todo)}
                             /\ q.pc \in {"check", "wait", "reread", "done"}
                             /\ peers[Current(proc)] = "answers" => now > certs[Current(proc)].expires
        BY Goroutines, Checked
    <2>q. QED BY <2>1, <2>2, <2>3
<1>5. now > certs[d].expires
    BY <1>4, AnswersAtOnce
<1>6. certs[d].since \in Nat /\ certs[d].expires \in Nat /\ now \in Nat /\ Interval \in Nat /\ Lifetime \in Nat
    BY CertType, ClockType, CertificatesAssumption
<1>7. SavedSince(d) = now - Interval
    BY SinceType
<1>8. ~Renewed(d) \/ ~(certs[d].since >= SavedSince(d))
    BY <1>5, <1>6, <1>7 DEF Renewed
<1>9. PICK t \in 0..now :
          /\ t <= certs[d].expires /\ table[d] = RowAt(certs[d].expires, t)
          /\ t >= SavedSince(d) \/ certs[d].expires < t + Interval
    BY <1>5, <1>6, <1>8 DEF RowOK
<1>10. certs[d].expires < t + Interval
    BY <1>5, <1>6, <1>7, <1>9
<1>q. QED BY <1>1, <1>9, <1>10 DEF RowOK, RowAt, DaysAt

\* What is stored is the row as of this moment.
LEMMA StoredRow ==
    ASSUME WorkInv, NEW p \in DOMAIN procs, SaveResult(p), NEW d, d = Current(procs[p])
    PROVE  /\ d \in Monitored /\ table'[d] # Absent
           /\ \A e \in Monitored \ {d} : table'[e] = table[e]
           /\ RowOK(d)'
<1> DEFINE e == procs[p].result.expires
<1>1. procs[p].pc = "save" /\ UNCHANGED <<now, certs, ticker>>
    BY DEF SaveResult
<1>2. d \in Monitored /\ Held(procs[p])
    BY <1>1, SavedType
<1>3. /\ e \in Nat /\ now <= e /\ procs[p].result = RowAt(e, now) /\ now \in Nat
      /\ certs[d].expires = e \/ (certs[d].since = now /\ Renewed(d))
    BY <1>2, ClockType DEF Held
<1>4. table' = [table EXCEPT ![d] = RowAt(e, now)] /\ table \in [Monitored -> Row \cup {Absent}]
    BY <1>3 DEF SaveResult, Upsert, WorkInv, TypeOK
<1> HIDE DEF e
<1>5. table'[d] = RowAt(e, now) /\ table'[d] # Absent
    BY <1>2, <1>3, <1>4, RowAtType
<1>6. SavedSince(d)' <= now /\ SavedSince(d)' \in Int
    BY <1>1, <1>2, ClockType DEF SavedSince, LastRound
<1>7. ASSUME certs[d].expires = e PROVE RowOK(d)'
    <2>1. certs'[d].expires = e /\ now' = now /\ now \in 0..now
        BY <1>1, <1>3, <1>7
    <2>2. now >= SavedSince(d)'
        BY <1>3, <1>6
    <2>q. QED BY <1>3, <1>5, <2>1, <2>2 DEF RowOK, RowAt, DaysAt
<1>8. ASSUME certs[d].since = now, Renewed(d) PROVE RowOK(d)'
    <2>1. certs[d].since >= SavedSince(d)'
        BY <1>3, <1>6, <1>8
    <2>q. QED BY <1>1, <1>5, <1>8, <2>1 DEF RowOK, Renewed
<1>q. QED BY <1>2, <1>3, <1>4, <1>5, <1>7, <1>8

\* What was counted or noted stays.
LEMMA BoundsGrow ==
    ASSUME WorkInv, [Next]_vars
    PROVE  /\ troubles \subseteq troubles'
           /\ faults' = faults \/ faults' = faults + 1
           /\ faults' = 0 => faults = 0
           /\ faults' <= 1 => faults <= 1
           /\ \A d \in Monitored : Undisturbed(d)' => Undisturbed(d)
<1>1. troubles \subseteq troubles' /\ (faults' = faults \/ faults' = faults + 1)
    BY DEF Next, vars, program, bounds, TimePasses, Restart, Renew, PeerFails, PeerRecovers, TickerFires,
           StartRound, Warn, WarnFailed, CheckDomain, SaveResult, SaveFailed, Request, ReadRows, Reread,
           ReadFailed, Fault
<1>q. QED BY <1>1, ClockType DEF Undisturbed

\* While neither the ticker nor the checker's goroutine moves, no round does.
LEMMA RoundStill ==
    ASSUME UNCHANGED ticker, procs'[Checker] = procs[Checker], NEW d \in Monitored
    PROVE  /\ ToSave(d)' = ToSave(d) /\ ToWarn(d)' = ToWarn(d)
           /\ ToSave(d)' \/ (~ToSave(d) /\ ticker' = ticker)
           /\ ToWarn(d)' \/ (~ToWarn(d) /\ ticker' = ticker)
           /\ Active' = Active /\ LastRound' = LastRound
    BY DEF ToSave, ToWarn, Ahead, Active, LastRound

\* A goroutine of another name moves.
LEMMA OtherMoves ==
    ASSUME WorkInv, NEW p \in DOMAIN procs, NEW q, procs' = [procs EXCEPT ![p] = q]
    PROVE  /\ \A r \in DOMAIN procs : r # p => procs'[r] = procs[r]
           /\ procs'[p] = q
           /\ p # Checker => procs'[Checker] = procs[Checker]
    BY Goroutines

\* A round that is due, or that starts, has every domain ahead.
LEMMA RoundBegins ==
    ASSUME WorkInv, TickerFires \/ StartRound \/ Restart, NEW d \in Monitored
    PROVE  /\ ToSave(d)' /\ ToWarn(d)'
           /\ Active'
           /\ UNCHANGED <<now, certs, peers, table, sent, troubles, faults>>
<1>1. UNCHANGED <<now, certs, peers, table, sent, troubles, faults>>
    BY DEF TickerFires, StartRound, Restart, bounds
<1>2. CASE TickerFires
    BY <1>1, <1>2 DEF TickerFires, ToSave, ToWarn, Active
<1>3. CASE StartRound \/ Restart
    <2>1. procs'[Checker] = Round
        BY <1>3, Goroutines DEF StartRound, Restart
    <2>2. Ahead(d, DOMAIN Domains) /\ DOMAIN Domains # {}
        BY MonitoredPositions DEF Ahead
    <2>3. Round.todo = DOMAIN Domains /\ Round.pc = "check"
        BY <2>2, Goroutines, RoundType
    <2>q. QED BY <1>1, <2>1, <2>2, <2>3 DEF ToSave, ToWarn, Ahead, Active
<1>q. QED BY <1>2, <1>3

LEMMA TimePassesRow ==
    ASSUME WorkInv, WorkInv', TimePasses, NEW d \in Monitored, Undisturbed(d), RowOK(d)
    PROVE  RowOK(d)'
<1>1. /\ UNCHANGED <<certs, table, ticker, procs>> /\ now' = now + 1 /\ now \in Nat
    BY ClockType DEF TimePasses, program
<1>2. ~Active
    BY AnswersAtOnce, TimePassesSteadily
<1>3. ~ToSave(d)
    BY <1>2, CheckerStands DEF Active, ToSave, Busy
<1>4. ~ToSave(d)' /\ SavedSince(d)' = SavedSince(d)
    BY <1>1, <1>3 DEF ToSave, SavedSince, LastRound, Ahead
<1>5. CASE table[d] # Absent /\ certs[d].since >= SavedSince(d) /\ Renewed(d)
    BY <1>1, <1>4, <1>5 DEF RowOK, Renewed
<1>6. CASE \E t \in 0..now :
              /\ t <= certs[d].expires /\ table[d] = RowAt(certs[d].expires, t)
              /\ t >= SavedSince(d) \/ certs[d].expires < t + Interval
    <2>1. 0..now \subseteq 0..now'
        BY <1>1
    <2>q. QED BY <1>1, <1>4, <1>6, <2>1 DEF RowOK, RowAt, DaysAt
<1>q. QED BY <1>3, <1>5, <1>6 DEF RowOK

LEMMA RenewRow ==
    ASSUME WorkInv, WorkInv', NEW c \in Monitored, Renew(c), NEW d \in Monitored, RowOK(d)
    PROVE  RowOK(d)'
<1>1. /\ UNCHANGED <<now, table, ticker, procs>> /\ certs \in [Monitored -> [expires : Nat, since : 0..now]]
      /\ certs' = [certs EXCEPT ![c] = [expires |-> now + Lifetime, since |-> now]]
    BY DEF Renew, program, WorkInv, TypeOK
<1>2. ToSave(d)' = ToSave(d)
    BY <1>1, RoundStill
<1>3. CASE d # c
    BY <1>1, <1>2, <1>3, RowKept
<1>4. CASE d = c
    <2>1. certs'[d].since = now /\ certs'[d].expires = now + Lifetime
        BY <1>1, <1>4
    <2>2. SavedSince(d)' = SavedSince(d)
        BY <1>1, <1>2 DEF SavedSince, LastRound
    <2>3. now >= SavedSince(d)
        BY SinceType, ClockType
    <2>q. QED BY <1>1, <1>2, <2>1, <2>2, <2>3, RowThere DEF RowOK, Renewed
<1>q. QED BY <1>3, <1>4

LEMMA CheckRow ==
    ASSUME Lifetime >= Interval, WorkInv, WorkInv', NEW p \in DOMAIN procs, CheckDomain(p),
           NEW d \in Monitored, Undisturbed(d), RowOK(d)
    PROVE  RowOK(d)'
<1>1. UNCHANGED <<now, certs, table, ticker>>
    BY DEF CheckDomain
<1>2. CASE p # Checker
    <2>1. \E q : procs' = [procs EXCEPT ![p] = q]
        BY Checked
    <2>2. procs'[Checker] = procs[Checker]
        BY <1>2, <2>1, OtherMoves
    <2>q. QED BY <1>1, <2>2, RoundStill, RowKept
<1>3. CASE p = Checker /\ ToSave(d) /\ ~ToSave(d)'
    BY <1>3, CheckedRow
<1>4. CASE ToSave(d)' \/ ~ToSave(d)
    BY <1>1, <1>4, RowKept
<1>q. QED BY <1>2, <1>3, <1>4

LEMMA SaveRow ==
    ASSUME WorkInv, WorkInv', NEW p \in DOMAIN procs, SaveResult(p), NEW d \in Monitored, RowOK(d)
    PROVE  RowOK(d)'
<1>1. /\ procs[p].pc = "save" /\ UNCHANGED <<now, certs, ticker>>
      /\ procs' = [procs EXCEPT ![p] = Saved(p)]
    BY DEF SaveResult
<1>2. CASE d = Current(procs[p])
    BY <1>2, StoredRow
<1>3. CASE d # Current(procs[p])
    <2>1. table'[d] = table[d]
        BY <1>3, StoredRow
    <2>2. CASE p # Checker
        <3>1. procs'[Checker] = procs[Checker]
            BY <1>1, <2>2, OtherMoves
        <3>q. QED BY <1>1, <2>1, <3>1, RoundStill, RowKept
    <2>3. CASE p = Checker
        <3>1. /\ procs'[Checker] = [procs[Checker] EXCEPT !.pc = "warn"]
              /\ procs[Checker].todo # {} /\ procs[Checker] \in Proc
            BY <1>1, <2>3, OtherMoves, SavedType
        <3>2. procs'[Checker].pc = "warn" /\ procs'[Checker].todo = procs[Checker].todo
            BY <3>1 DEF Proc
        <3>3. ToSave(d)' = ToSave(d)
            BY <1>1, <1>3, <2>3, <3>1, <3>2, CheckerStands DEF ToSave, Ahead
        <3>q. QED BY <1>1, <2>1, <3>3, RowKept
    <2>q. QED BY <2>2, <2>3
<1>q. QED BY <1>2, <1>3

LEMMA WarnMoves ==
    ASSUME WorkInv, Warn(Checker) \/ WarnFailed(Checker)
    PROVE  /\ procs[Checker].pc = "warn" /\ procs[Checker].todo # {}
           /\ UNCHANGED <<now, certs, peers, table, useReplica, ticker, troubles>>
           /\ \A p \in Requests : procs'[p] = procs[p]
           /\ procs'[Checker].todo = procs[Checker].todo \ {First(procs[Checker].todo)}
           /\ procs'[Checker].pc = IF procs'[Checker].todo = {} THEN "wait" ELSE "check"
<1>1. /\ procs[Checker].pc = "warn" /\ procs' = [procs EXCEPT ![Checker] = NextDomain(procs[Checker])]
      /\ UNCHANGED <<now, certs, peers, table, useReplica, ticker, troubles>>
    BY DEF Warn, WarnFailed, bounds
<1>2. /\ procs[Checker].todo # {} /\ procs[Checker] \in Proc /\ procs[Checker].work = "round"
    BY <1>1, Goroutines, ProcOf DEF PlaceOK, Busy
<1>3. procs'[Checker] = NextDomain(procs[Checker]) /\ \A p \in Requests : procs'[p] = procs[p]
    BY <1>1, Goroutines
<1>4. /\ NextDomain(procs[Checker]).todo = procs[Checker].todo \ {First(procs[Checker].todo)}
      /\ NextDomain(procs[Checker]).pc = IF NextDomain(procs[Checker]).todo = {} THEN "wait" ELSE "check"
    <2>1. procs[Checker].todo \ {First(procs[Checker].todo)} \in SUBSET DOMAIN Domains
        BY <1>2, CurrentType
    <2>q. QED BY <1>2, <2>1, Goroutines, TakeType DEF NextDomain, FitsWork
<1>q. QED BY <1>1, <1>2, <1>3, <1>4

LEMMA WarnRow ==
    ASSUME WorkInv, WorkInv', Warn(Checker), NEW d \in Monitored, RowOK(d)
    PROVE  RowOK(d)'
<1>1. ToSave(d)' = ToSave(d)
    BY WarnMoves DEF ToSave, Ahead
<1>q. QED BY <1>1, WarnMoves, RowKept

LEMMA RequestMoves ==
    ASSUME WorkInv, NEW p \in Requests, Request(p) \/ ReadRows(p) \/ Reread(p) \/ ReadFailed(p)
    PROVE  /\ UNCHANGED <<now, certs, peers, table, useReplica, ticker, sent, troubles, restarts>>
           /\ procs'[Checker] = procs[Checker]
           /\ \A r \in Requests : r # p => procs'[r] = procs[r]
<1>1. UNCHANGED <<now, certs, peers, table, useReplica, ticker, sent, troubles, restarts>>
    BY DEF Request, ReadRows, Reread, ReadFailed, bounds
<1>2. \E q : procs' = [procs EXCEPT ![p] = q]
    <2>1. CASE Request(p) \/ ReadFailed(p)
        BY <2>1 DEF Request, ReadFailed
    <2>2. CASE ReadRows(p)
        BY <2>2, ReadType, ReadPoolType, Answered
    <2>3. CASE Reread(p)
        BY <2>3, ReadPoolType, Answered DEF Reread
    <2>q. QED BY <2>1, <2>2, <2>3
<1>q. QED BY <1>1, <1>2, Goroutines

\* Steps that change no row and no round.
LEMMA StillRow ==
    ASSUME WorkInv, WorkInv', NEW d \in Monitored, RowOK(d),
           UNCHANGED <<now, certs, table, ticker>>, procs'[Checker] = procs[Checker]
    PROVE  RowOK(d)'
    BY RoundStill, RowKept

LEMMA NextRow ==
    ASSUME Lifetime >= Interval, WorkInv, WorkInv', [Next]_vars, NEW d \in Monitored,
           faults' = 0, Undisturbed(d), RowOK(d)
    PROVE  RowOK(d)'
<1>1. CASE UNCHANGED vars
    BY <1>1, StillRow DEF vars
<1>2. CASE TimePasses
    BY <1>2, TimePassesRow
<1>3. CASE TickerFires \/ StartRound \/ Restart
    BY <1>3, RoundBegins, RowKept
<1>4. ASSUME NEW c \in Monitored, Renew(c) PROVE RowOK(d)'
    BY <1>4, RenewRow
<1>5. ASSUME NEW c \in Monitored, PeerFails(c) \/ PeerRecovers(c) PROVE RowOK(d)'
    BY <1>5, StillRow DEF PeerFails, PeerRecovers, program
<1>6. CASE Warn(Checker)
    BY <1>6, WarnRow
<1>7. ASSUME NEW p \in DOMAIN procs, CheckDomain(p) PROVE RowOK(d)'
    BY <1>7, CheckRow
<1>8. ASSUME NEW p \in DOMAIN procs, SaveResult(p) PROVE RowOK(d)'
    BY <1>8, SaveRow
<1>9. ASSUME NEW p \in Requests, Request(p) \/ ReadRows(p) \/ Reread(p) \/ ReadFailed(p) PROVE RowOK(d)'
    BY <1>9, RequestMoves, StillRow
<1>10. ~WarnFailed(Checker) /\ \A p \in DOMAIN procs : ~SaveFailed(p)
    BY FaultType DEF WarnFailed, SaveFailed
<1>q. QED BY <1>1, <1>2, <1>3, <1>4, <1>5, <1>6, <1>7, <1>8, <1>9, <1>10 DEF Next

\* A request that does not move stays filled up: rows are never deleted.
LEMMA FilledKept ==
    ASSUME WorkInv, WorkInv', [Next]_vars, NEW p \in Requests, FilledUp(procs[p]),
           procs'[p] = procs[p], useReplica' = useReplica,
           \A d \in Monitored : table[d] # Absent => table'[d] # Absent
    PROVE  FilledUp(procs[p])'
    BY BoundsGrow DEF FilledUp, Ahead

\* A check of a request that fills up the table: what refuses is disturbed,
\* what is over has a row.
LEMMA CheckFilled ==
    ASSUME RowsInv, WorkInv, NEW p \in Requests, CheckDomain(p)
    PROVE  FilledUp(procs[p])'
<1>1. UNCHANGED <<now, certs, peers, table, useReplica, ticker, sent, troubles, faults>>
    BY DEF CheckDomain, bounds
<1>2. p \in DOMAIN procs /\ FilledUp(procs[p])
    BY Goroutines DEF RowsInv
<1> DEFINE proc == procs[p]
<1>3. proc.pc = "check" /\ proc.todo # {} /\ proc \in Proc
    BY <1>2, Checked
<1>4. ASSUME NEW q \in Proc, procs' = [procs EXCEPT ![p] = q],
             q.pc = "save", q.work = proc.work, q.todo = proc.todo
      PROVE  FilledUp(procs[p])'
    <2>1. procs'[p] = q
        BY <1>2, <1>4
    <2>q. QED BY <1>1, <1>2, <1>3, <1>4, <2>1 DEF FilledUp, Undisturbed, Ahead
<1>5. ASSUME NEW q \in Proc, procs' = [procs EXCEPT ![p] = q],
             peers[Current(proc)] = "answers" => now > certs[Current(proc)].expires,
             q.work = proc.work, q.todo = proc.todo \ {First(proc.todo)},
             proc.work = "missing" => q.pc # "done"
      PROVE  FilledUp(procs[p])'
    <2>1. procs'[p] = q
        BY <1>2, <1>5
    <2>2. ASSUME proc.work = "missing", faults = 0, ~useReplica,
                 NEW d \in Monitored, Undisturbed(d)
          PROVE  table[d] # Absent \/ Ahead(d, q.todo)
        <3>1. table[d] # Absent \/ Ahead(d, proc.todo)
            BY <1>2, <1>3, <2>2 DEF FilledUp
        <3>2. ASSUME d = Current(proc) PROVE table[d] # Absent
            <4>1. RowOK(d)
                BY <2>2 DEF RowsInv
            <4>2. now > certs[d].expires /\ certs[d].expires \in Nat /\ now \in Nat
                BY <1>5, <2>2, <3>2, AnswersAtOnce, CertType, ClockType
            <4>q. QED BY <4>1, <4>2, RowThere
        <3>q. QED BY <1>3, <1>5, <3>1, <3>2, CurrentType
    <2>q. QED BY <1>1, <1>5, <2>1, <2>2 DEF FilledUp, Undisturbed, Ahead
<1>6. \/ \E q \in Proc : /\ procs' = [procs EXCEPT ![p] = q]
                         /\ q.pc = "save" /\ q.work = proc.work /\ q.todo = proc.todo
      \/ \E q \in Proc : /\ procs' = [procs EXCEPT ![p] = q]
                         /\ peers[Current(proc)] = "answers" => now > certs[Current(proc)].expires
                         /\ q.work = proc.work /\ q.todo = proc.todo \ {First(proc.todo)}
                         /\ proc.work = "missing" => q.pc # "done"
    BY <1>2, Checked
<1>q. QED BY <1>4, <1>5, <1>6

LEMMA SaveFilled ==
    ASSUME RowsInv, WorkInv, NEW p \in Requests, SaveResult(p)
    PROVE  FilledUp(procs[p])'
<1>1. /\ procs[p].pc = "save" /\ UNCHANGED <<useReplica, troubles, faults>>
      /\ procs' = [procs EXCEPT ![p] = Saved(p)]
    BY DEF SaveResult, bounds
<1>2. p \in DOMAIN procs /\ p # Checker /\ FilledUp(procs[p])
    BY Goroutines DEF RowsInv
<1>3. /\ procs'[p] = Saved(p) /\ procs[p] \in Proc /\ procs[p].todo # {}
      /\ Saved(p).work = procs[p].work
      /\ Saved(p).todo = procs[p].todo \ {First(procs[p].todo)}
      /\ procs[p].work = "missing" => Saved(p).pc # "done"
    BY <1>1, <1>2, SavedType
<1>4. table'[Current(procs[p])] # Absent
      /\ \A d \in Monitored : table[d] # Absent => table'[d] # Absent
    <2>1. PICK c : c = Current(procs[p])
        OBVIOUS
    <2>2. table'[c] # Absent /\ \A d \in Monitored \ {c} : table'[d] = table[d]
        BY <1>2, <2>1, StoredRow
    <2>q. QED BY <2>1, <2>2
<1>5. ASSUME procs[p].work = "missing", faults = 0, ~useReplica, NEW d \in Monitored, Undisturbed(d)
      PROVE  table'[d] # Absent \/ Ahead(d, Saved(p).todo)
    <2>1. table[d] # Absent \/ Ahead(d, procs[p].todo)
        BY <1>1, <1>2, <1>5 DEF FilledUp
    <2>q. QED BY <1>3, <1>4, <2>1, CurrentType
<1>q. QED BY <1>1, <1>3, <1>5 DEF FilledUp, Undisturbed, Ahead

LEMMA ReadFilled ==
    ASSUME RowsInv, WorkInv, NEW p \in Requests, ReadRows(p) \/ Reread(p) \/ Request(p)
    PROVE  FilledUp(procs[p])'
<1>1. p \in DOMAIN procs /\ FilledUp(procs[p])
    BY Goroutines DEF RowsInv
<1>2. UNCHANGED <<table, useReplica, troubles, faults>>
    BY DEF ReadRows, Reread, Request, bounds
<1>3. ASSUME NEW rows \in ReadPool, Answer(p, rows),
             ~useReplica /\ faults = 0 => \A d \in Monitored : Undisturbed(d) => d \in rows
      PROVE  FilledUp(procs[p])'
    <2>1. PICK q \in Proc :
              /\ procs' = [procs EXCEPT ![p] = q]
              /\ IF rows = {} THEN q.work = "live"
                 ELSE q.work = "missing" /\ q.pc = "done" /\ q.shown = rows
        BY <1>3, ReadPoolType, Answered
    <2>2. procs'[p] = q
        BY <1>1, <2>1
    <2>q. QED BY <1>2, <1>3, <2>1, <2>2 DEF FilledUp, Undisturbed
<1>4. ASSUME NEW rows \in ReadPool, NEW q \in Proc, procs' = [procs EXCEPT ![p] = q],
             q.work = "missing", q.pc = "check", \A d \in Monitored : d \in rows \/ Ahead(d, q.todo)
      PROVE  FilledUp(procs[p])'
    <2>1. procs'[p] = q
        BY <1>1, <1>4
    <2>2. ~useReplica => \A d \in Monitored : table[d] # Absent \/ Ahead(d, q.todo)
        BY <1>4, ReadPoolType DEF Rows
    <2>q. QED BY <1>2, <1>4, <2>1, <2>2 DEF FilledUp, Ahead
<1>5. CASE ReadRows(p)
    BY <1>3, <1>4, <1>5, ReadType
<1>6. CASE Reread(p)
    <2>1. PICK rows \in ReadPool : Answer(p, rows)
        BY <1>6 DEF Reread
    <2>2. procs[p].pc = "reread" /\ procs[p].work = "missing" /\ procs[p].todo = {}
        BY <1>1, <1>6, ProcOf DEF Reread, PlaceOK, Busy
    <2>3. ASSUME ~useReplica, faults = 0, NEW d \in Monitored, Undisturbed(d)
          PROVE  d \in rows
        BY <1>1, <2>2, <2>3, ReadPoolType DEF FilledUp, Ahead, Rows
    <2>q. QED BY <1>3, <2>1, <2>3
<1>7. CASE Request(p)
    <2>1. procs'[p] = Idle("read")
        BY <1>1, <1>7 DEF Request
    <2>q. QED BY <2>1, IdleType DEF FilledUp
<1>q. QED BY <1>5, <1>6, <1>7

LEMMA RestartFilled ==
    ASSUME WorkInv, NEW p \in Requests, Restart
    PROVE  FilledUp(procs[p])'
<1>1. p \in DOMAIN procs /\ p # Checker
    BY Goroutines
<1>2. procs'[p] = IF procs[p].pc = "new" THEN procs[p] ELSE Idle("done")
    BY <1>1 DEF Restart
<1>3. procs'[p].work = "none"
    BY <1>1, <1>2, ProcOf, IdleType DEF PlaceOK
<1>q. QED BY <1>3 DEF FilledUp

LEMMA NextFilled ==
    ASSUME RowsInv, WorkInv, WorkInv', [Next]_vars, NEW p \in Requests
    PROVE  FilledUp(procs[p])'
<1>1. p \in DOMAIN procs /\ p # Checker /\ FilledUp(procs[p])
    BY Goroutines DEF RowsInv
<1>2. CASE UNCHANGED vars
    BY <1>1, <1>2, FilledKept DEF vars
<1>3. CASE TimePasses \/ TickerFires \/ \E c \in Monitored : Renew(c) \/ PeerFails(c) \/ PeerRecovers(c)
    BY <1>1, <1>3, FilledKept DEF TimePasses, TickerFires, Renew, PeerFails, PeerRecovers, program
<1>4. CASE StartRound
    <2>1. procs'[p] = procs[p] /\ UNCHANGED <<table, useReplica>>
        BY <1>1, <1>4 DEF StartRound
    <2>q. QED BY <1>1, <2>1, FilledKept
<1>5. CASE Restart
    BY <1>5, RestartFilled
<1>6. CASE Warn(Checker)
    BY <1>1, <1>6, WarnMoves, FilledKept
<1>7. ASSUME NEW r \in DOMAIN procs, CheckDomain(r) PROVE FilledUp(procs[p])'
    <2>1. CASE r = p
        BY <1>7, <2>1, CheckFilled
    <2>2. CASE r # p
        <3>1. PICK q : procs' = [procs EXCEPT ![r] = q]
            BY <1>7, Checked
        <3>2. procs'[p] = procs[p] /\ UNCHANGED <<table, useReplica>>
            BY <1>1, <1>7, <2>2, <3>1 DEF CheckDomain
        <3>q. QED BY <1>1, <3>2, FilledKept
    <2>q. QED BY <2>1, <2>2
<1>8. ASSUME NEW r \in DOMAIN procs, SaveResult(r) PROVE FilledUp(procs[p])'
    <2>1. CASE r = p
        BY <1>8, <2>1, SaveFilled
    <2>2. CASE r # p
        <3>1. procs'[p] = procs[p] /\ UNCHANGED useReplica
            BY <1>1, <1>8, <2>2 DEF SaveResult
        <3>2. PICK c : c = Current(procs[r])
            OBVIOUS
        <3>3. table'[c] # Absent /\ \A d \in Monitored \ {c} : table'[d] = table[d]
            BY <1>8, <3>2, StoredRow
        <3>q. QED BY <1>1, <3>1, <3>3, FilledKept
    <2>q. QED BY <2>1, <2>2
<1>9. ASSUME NEW r \in Requests, ReadRows(r) \/ Reread(r) \/ Request(r) PROVE FilledUp(procs[p])'
    <2>1. CASE r = p
        BY <1>9, <2>1, ReadFilled
    <2>2. CASE r # p
        <3>1. procs'[p] = procs[p] /\ UNCHANGED <<table, useReplica>>
            BY <1>9, <2>2, RequestMoves
        <3>q. QED BY <1>1, <3>1, FilledKept
    <2>q. QED BY <2>1, <2>2
<1>10. CASE \/ WarnFailed(Checker) \/ \E r \in DOMAIN procs : SaveFailed(r)
            \/ \E r \in Requests : ReadFailed(r)
    <2>1. faults' # 0
        BY <1>10, FaultType DEF WarnFailed, SaveFailed, ReadFailed
    <2>q. QED BY <2>1 DEF FilledUp
<1>q. QED BY <1>2, <1>3, <1>4, <1>5, <1>6, <1>7, <1>8, <1>9, <1>10 DEF Next

LEMMA InitRows == Init => RowsInv
<1> SUFFICES ASSUME Init PROVE RowsInv
    OBVIOUS
<1>1. WorkInv
    BY InitWork
<1>2. now = 0 /\ procs[Checker] = Round /\ \A p \in Requests : procs[p] = Idle("new")
    BY CertificatesAssumption DEF Init
<1>3. ASSUME NEW d \in Monitored PROVE ToSave(d)
    <2>1. Ahead(d, DOMAIN Domains) /\ DOMAIN Domains # {}
        BY MonitoredPositions DEF Ahead
    <2>2. Round.todo = DOMAIN Domains /\ Round.pc = "check"
        BY <1>1, <2>1, Goroutines, RoundType
    <2>q. QED BY <1>2, <2>1, <2>2 DEF ToSave
<1>4. \A p \in Requests : FilledUp(procs[p])
    BY <1>2, IdleType DEF FilledUp
<1>q. QED BY <1>2, <1>3, <1>4 DEF RowsInv, RowOK

LEMMA NextRows == Lifetime >= Interval /\ RowsInv /\ WorkInv /\ WorkInv' /\ [Next]_vars => RowsInv'
<1> SUFFICES ASSUME Lifetime >= Interval, RowsInv, WorkInv, WorkInv', [Next]_vars PROVE RowsInv'
    OBVIOUS
<1>1. ASSUME NEW d \in Monitored, faults' = 0, Undisturbed(d)' PROVE RowOK(d)'
    <2>1. faults = 0 /\ Undisturbed(d)
        BY <1>1, BoundsGrow
    <2>2. RowOK(d)
        BY <2>1 DEF RowsInv
    <2>q. QED BY <1>1, <2>1, <2>2, NextRow
<1>2. \A p \in Requests : FilledUp(procs[p])'
    BY NextFilled
<1>q. QED BY <1>1, <1>2 DEF RowsInv

\* What a row tells when it is stored at least once in a round.
LEMMA FreshRow ==
    ASSUME Interval <= Day, WorkInv, NEW d \in Monitored, RowOK(d)
    PROVE  LET row == table[d] cert == certs[d]
           IN  /\ row = Absent => now = 0
               /\ \/ now - cert.since <= Interval
                  \/ /\ row.expires = cert.expires
                     /\ IF now <= cert.expires THEN row.days - DaysLeft(cert.expires) \in {0, 1}
                        ELSE row.status = "expired"
<1>1. /\ certs[d].since \in Nat /\ certs[d].expires \in Nat /\ now \in Nat /\ Interval \in Nat
      /\ SavedSince(d) \in Int /\ now - Interval <= SavedSince(d) /\ Day \in Nat
    BY CertType, ClockType, SinceType, CertificatesAssumption
<1>2. table[d] = Absent => now = 0
    BY RowThere
<1>3. CASE now = 0 \/ certs[d].since >= SavedSince(d)
    <2>1. now - certs[d].since <= Interval
        BY <1>1, <1>3
    <2>q. QED BY <1>2, <2>1
<1>4. CASE \E t \in 0..now :
              /\ t <= certs[d].expires /\ table[d] = RowAt(certs[d].expires, t)
              /\ t >= SavedSince(d) \/ certs[d].expires < t + Interval
    <2>1. PICK t \in 0..now :
              /\ t <= certs[d].expires /\ table[d] = RowAt(certs[d].expires, t)
              /\ t >= SavedSince(d) \/ certs[d].expires < t + Interval
        BY <1>4
    <2>2. t \in Nat /\ t <= now
        BY <1>1, <2>1
    <2>3. /\ table[d].expires = certs[d].expires /\ table[d].days = DaysAt(certs[d].expires, t)
          /\ table[d].status = StatusOf(DaysAt(certs[d].expires, t))
        BY <2>1 DEF RowAt
    <2>4. CASE now <= certs[d].expires
        <3>1. now \in t..certs[d].expires /\ now <= t + Day
            BY <1>1, <2>1, <2>2, <2>4
        <3>2. DaysAt(certs[d].expires, t) - DaysAt(certs[d].expires, now) \in {0, 1}
            BY <1>1, <2>1, <2>2, <3>1, DaysFall
        <3>q. QED BY <1>2, <2>3, <2>4, <3>2 DEF DaysLeft, DaysAt
    <2>5. CASE ~(now <= certs[d].expires)
        <3>1. certs[d].expires - t < Day
            BY <1>1, <2>1, <2>2, <2>5
        <3>2. DaysAt(certs[d].expires, t) = 0
            BY <1>1, <2>1, <2>2, <3>1, DaysFall
        <3>q. QED BY <1>2, <2>3, <2>5, <3>2 DEF StatusOf
    <2>q. QED BY <2>4, <2>5
<1>q. QED BY <1>3, <1>4 DEF RowOK

\* With rounds at least daily, and certificates that are renewed for longer
\* than a round: rows are fresh, and the answers of /ssl are complete.
THEOREM RowsFresh ==
    ASSUME Interval <= Day, Lifetime >= Interval
    PROVE  Spec => []RowsAreFresh
<1>1. WorkInv /\ RowsInv => RowsAreFresh
    <2> SUFFICES ASSUME WorkInv, RowsInv PROVE RowsAreFresh
        OBVIOUS
    <2>1. \A d \in Monitored : faults = 0 /\ Undisturbed(d) => RowOK(d)
        BY DEF RowsInv
    <2>2. ASSUME NEW p \in Requests, procs[p].pc = "done"
          PROVE  /\ procs[p].work = "missing" /\ faults = 0 /\ ~useReplica
                    => \A d \in Monitored : Undisturbed(d) => d \in procs[p].shown
                 /\ procs[p].work = "live" => procs[p].shown = Monitored
        <3>1. /\ p \in DOMAIN procs /\ procs[p] \in Proc /\ procs[p].todo = {} /\ LiveOK(procs[p])
            BY <2>2, Goroutines, ProcOf DEF PlaceOK, Busy
        <3>2. procs[p].work = "live" => procs[p].shown = Monitored
            BY <3>1 DEF LiveOK, Ahead, Proc
        <3>3. FilledUp(procs[p])
            BY DEF RowsInv
        <3>q. QED BY <2>2, <3>2, <3>3 DEF FilledUp
    <2>q. QED BY <2>1, <2>2, FreshRow DEF RowsAreFresh
<1>2. Init => RowsInv
    BY InitRows
<1>3. RowsInv /\ WorkInv /\ WorkInv' /\ [Next]_vars => RowsInv'
    BY NextRows
<1>4. Spec => []RowsInv
    BY <1>2, <1>3, WorkSafe, PTL DEF Spec
<1>q. QED BY <1>1, <1>4, WorkSafe, PTL

-----------------------------------------------------------------------------
(* Windows are announced.                                                  *)

\* Warning days are counted from one.
PositiveWindows == \A w \in Range(WarnDays) : w > 0

LEMMA WindowType ==
    ASSUME WorkInv, NEW d \in Monitored, NEW w \in Windows
    PROVE  /\ w \in Int /\ WindowOpens(d, w) \in Int /\ WindowCloses(d, w) \in Int
           /\ WindowCloses(d, w) = WindowOpens(d, w) + 2 * Day
           /\ PositiveWindows => WindowCloses(d, w) <= certs[d].expires
<1>1. w \in Int /\ w \in Range(WarnDays)
    BY CertificatesAssumption DEF Windows, Range
<1>2. Day \in Nat /\ certs[d].expires \in Nat
    BY CertType, CertificatesAssumption
<1>3. (w + 1) * Day \in Int /\ (w - 1) * Day \in Int /\ (w + 1) * Day = (w - 1) * Day + 2 * Day
    BY <1>1, <1>2
<1>4. w > 0 => (w - 1) * Day >= 0
    BY <1>1, <1>2
<1>q. QED BY <1>1, <1>2, <1>3, <1>4 DEF WindowOpens, WindowCloses, PositiveWindows

LEMMA WarnedSinceType ==
    ASSUME WorkInv, NEW d \in Monitored
    PROVE  /\ WarnedSince(d) \in Int /\ now - Interval <= WarnedSince(d) /\ WarnedSince(d) <= now
           /\ ToWarn(d) => WarnedSince(d) = now - Interval
           /\ ~ToWarn(d) => WarnedSince(d) = LastRound
    BY ClockType DEF WarnedSince

\* What was announced stays so as long as the certificate is in use.
LEMMA AnnouncedStays ==
    ASSUME NEW d \in Monitored, NEW w \in Windows, certs'[d] = certs[d], sent \subseteq sent'
    PROVE  Announced(d, w) => Announced(d, w)' /\ WindowOpens(d, w)' = WindowOpens(d, w)
    BY DEF Announced, WindowOpens, WindowCloses

LEMMA SameWindow ==
    ASSUME NEW d \in Monitored, NEW w \in Windows, certs'[d] = certs[d]
    PROVE  WindowOpens(d, w)' = WindowOpens(d, w) /\ WindowCloses(d, w)' = WindowCloses(d, w)
    BY DEF WindowOpens, WindowCloses

LEMMA AnnouncedKept ==
    ASSUME WorkInv, WorkInv', [Next]_vars, NEW d \in Monitored, NEW w \in Windows, AnnouncedOK(d, w),
           now' = now, certs'[d] = certs[d], sent \subseteq sent',
           ToWarn(d)' \/ (~ToWarn(d) /\ ticker' = ticker)
    PROVE  AnnouncedOK(d, w)'
<1>1. WarnedSince(d)' <= WarnedSince(d) /\ WarnedSince(d)' \in Int /\ WarnedSince(d) \in Int
    <2>1. CASE ToWarn(d)'
        BY <2>1, WarnedSinceType, ClockType DEF WarnedSince
    <2>2. CASE ~ToWarn(d)' /\ ~ToWarn(d) /\ ticker' = ticker
        BY <2>2, WarnedSinceType, ClockType DEF WarnedSince, LastRound
    <2>q. QED BY <2>1, <2>2
<1>2. /\ WindowOpens(d, w)' = WindowOpens(d, w) /\ (Announced(d, w) => Announced(d, w)')
      /\ WindowOpens(d, w) \in Int /\ Interval \in Nat /\ faults \in Nat
    BY SameWindow, AnnouncedStays, WindowType, ClockType
<1>3. SUFFICES ASSUME ChatConfigured, faults' <= 1, Undisturbed(d)', certs'[d].since <= WindowOpens(d, w)'
      PROVE  /\ WarnedSince(d)' > WindowOpens(d, w) => Announced(d, w)' \/ faults' = 1
             /\ WarnedSince(d)' > WindowOpens(d, w) + Interval => Announced(d, w)'
    BY <1>2 DEF AnnouncedOK
<1>4. faults <= 1 /\ Undisturbed(d) /\ certs[d].since <= WindowOpens(d, w)
    BY <1>2, <1>3, BoundsGrow
<1>5. faults = 1 => faults' = 1
    BY <1>2, <1>3, BoundsGrow
<1>6. /\ WarnedSince(d) > WindowOpens(d, w) => Announced(d, w) \/ faults = 1
      /\ WarnedSince(d) > WindowOpens(d, w) + Interval => Announced(d, w)
    BY <1>3, <1>4 DEF AnnouncedOK
<1>q. QED BY <1>1, <1>2, <1>5, <1>6

\* The round is done with the domain: it warned, or its one call that failed
\* was this one, or the window was over before.
LEMMA AnnouncedOnceDone ==
    ASSUME Interval <= Day, WorkInv, WorkInv', [Next]_vars, NEW d \in Monitored, NEW w \in Windows,
           AnnouncedOK(d, w), UNCHANGED <<now, certs, ticker>>, sent \subseteq sent',
           ToWarn(d),
           \/ /\ now > WindowOpens(d, w) /\ now <= WindowCloses(d, w)
                 /\ certs[d].since <= WindowOpens(d, w) /\ Undisturbed(d)
              => Announced(d, w)'
           \/ faults' = faults + 1
    PROVE  AnnouncedOK(d, w)'
<1> DEFINE O == WindowOpens(d, w)
<1>1. /\ WindowOpens(d, w)' = O /\ (Announced(d, w) => Announced(d, w)')
      /\ WindowCloses(d, w) = O + 2 * Day
      /\ O \in Int /\ Interval \in Nat /\ faults \in Nat /\ Day \in Nat /\ now \in Nat
      /\ LastRound \in Int /\ LastRound <= now
    BY SameWindow, AnnouncedStays, WindowType, ClockType, CertificatesAssumption
<1>2. WarnedSince(d) = now - Interval
    BY WarnedSinceType
<1>3. WarnedSince(d)' <= now /\ WarnedSince(d)' \in Int
    BY <1>1 DEF WarnedSince, LastRound
<1>4. SUFFICES ASSUME ChatConfigured, faults' <= 1, Undisturbed(d)', certs[d].since <= O
      PROVE  /\ WarnedSince(d)' > O => Announced(d, w)' \/ faults' = 1
             /\ WarnedSince(d)' > O + Interval => Announced(d, w)'
    BY <1>1 DEF AnnouncedOK
<1>5. faults <= 1 /\ Undisturbed(d)
    BY <1>4, BoundsGrow
<1>6. /\ now - Interval > O => Announced(d, w) \/ faults = 1
      /\ now - Interval > O + Interval => Announced(d, w)
    BY <1>2, <1>4, <1>5 DEF AnnouncedOK
<1> HIDE DEF O
<1>7. CASE faults' = faults + 1
    BY <1>1, <1>3, <1>4, <1>6, <1>7
<1>8. CASE now > O /\ now <= WindowCloses(d, w) => Announced(d, w)'
    BY <1>1, <1>3, <1>6, <1>8
<1>q. QED BY <1>4, <1>5, <1>7, <1>8 DEF O

\* What the checker holds is warned about when its days are in a window.
LEMMA WarnsInWindow ==
    ASSUME ChatConfigured, WorkInv, Warn(Checker), NEW d, d = Current(procs[Checker]), NEW w \in Windows,
           now > WindowOpens(d, w), now <= WindowCloses(d, w), certs[d].since <= WindowOpens(d, w)
    PROVE  Announced(d, w)'
<1> DEFINE result == procs[Checker].result
<1>1. procs[Checker].pc = "warn" /\ procs[Checker].todo # {} /\ Held(procs[Checker])
      /\ procs[Checker] \in Proc /\ UNCHANGED <<now, certs>>
    BY Goroutines, ProcOf, WarnMoves DEF PlaceOK
<1>2. d \in Monitored
    BY <1>1, CurrentType
<1>3. /\ result.expires \in Nat /\ now <= result.expires /\ now \in Nat
      /\ result = RowAt(result.expires, now)
      /\ certs[d].expires = result.expires \/ certs[d].since = now
    BY <1>1, ClockType DEF Held
<1>4. certs[d].expires = result.expires
    <2>1. WindowOpens(d, w) \in Int
        BY <1>2, WindowType
    <2>q. QED BY <1>3, <2>1
<1>5. result.days = DaysAt(result.expires, now) /\ result.status = StatusOf(result.days)
    BY <1>3 DEF RowAt
<1>6. w \in Int /\ w <= 30 /\ w \in Range(WarnDays)
    BY <1>2, WindowType DEF Windows
<1>7. result.days <= w /\ result.days > w - 2 /\ result.days \in Nat
    BY <1>3, <1>4, <1>5, <1>6, DaysInWindow, DaysFall DEF WindowOpens, WindowCloses
<1>8. result.status # "ok"
    BY <1>5, <1>6, <1>7 DEF StatusOf
<1>9. Window(result.days) # {}
    <2>1. PICK i \in DOMAIN WarnDays : WarnDays[i] = w
        BY <1>6 DEF Range
    <2>2. i \in 1..Len(WarnDays)
        BY <2>1, CertificatesAssumption
    <2>q. QED BY <1>7, <2>1, <2>2 DEF Window
<1>10. Warned(Checker)
    BY <1>8, <1>9 DEF Warned
<1>11. Warning(Checker) \in sent'
    BY <1>10 DEF Warn
<1>12. /\ Warning(Checker).domain = d /\ Warning(Checker).expires = certs[d].expires
       /\ Warning(Checker).at = now
    BY <1>1, <1>4, <1>10, WarningType
<1>13. now \in WindowOpens(d, w)..WindowCloses(d, w)
    BY <1>2, <1>3, WindowType
<1> HIDE DEF result
<1>q. QED BY <1>1, <1>11, <1>12, <1>13 DEF Announced, WindowOpens, WindowCloses

LEMMA WarnAnnounces ==
    ASSUME Interval <= Day, WorkInv, WorkInv', [Next]_vars, Warn(Checker) \/ WarnFailed(Checker),
           NEW d \in Monitored, NEW w \in Windows, AnnouncedOK(d, w)
    PROVE  AnnouncedOK(d, w)'
<1>1. /\ UNCHANGED <<now, certs, ticker>> /\ sent \subseteq sent'
      /\ procs[Checker].todo # {} /\ Current(procs[Checker]) \in Monitored
    BY WarnMoves, CheckerStands DEF Warn, WarnFailed
<1>2. CASE d = Current(procs[Checker])
    <2>1. ToWarn(d)
        <3>1. First(procs[Checker].todo) \in procs[Checker].todo
            BY <1>1, Goroutines, ProcOf, CurrentType
        <3>q. QED BY <1>2, <3>1 DEF ToWarn, Ahead, Current
    <2>2. CASE Warn(Checker)
        <3>1. CASE ChatConfigured
            BY <1>1, <1>2, <2>1, <2>2, <3>1, WarnsInWindow, AnnouncedOnceDone
        <3>2. CASE ~ChatConfigured
            BY <3>2 DEF AnnouncedOK
        <3>q. QED BY <3>1, <3>2
    <2>3. CASE WarnFailed(Checker)
        BY <1>1, <2>1, <2>3, FaultType, AnnouncedOnceDone DEF WarnFailed
    <2>q. QED BY <2>2, <2>3
<1>3. CASE d # Current(procs[Checker])
    <2>1. ToWarn(d)' = ToWarn(d)
        BY <1>1, <1>3, WarnMoves, CheckerStands DEF ToWarn, Ahead
    <2>q. QED BY <1>1, <2>1, AnnouncedKept
<1>q. QED BY <1>2, <1>3

LEMMA CheckAnnounces ==
    ASSUME Interval <= Day, PositiveWindows, WorkInv, WorkInv', [Next]_vars,
           NEW p \in DOMAIN procs, CheckDomain(p),
           NEW d \in Monitored, NEW w \in Windows, AnnouncedOK(d, w)
    PROVE  AnnouncedOK(d, w)'
<1>1. UNCHANGED <<now, certs, ticker, sent>>
    BY DEF CheckDomain
<1>2. CASE p # Checker
    <2>1. \E q : procs' = [procs EXCEPT ![p] = q]
        BY Checked
    <2>2. procs'[Checker] = procs[Checker]
        BY <1>2, <2>1, OtherMoves
    <2>q. QED BY <1>1, <2>2, RoundStill, AnnouncedKept
<1>3. CASE p = Checker
    <2> DEFINE proc == procs[Checker]
    <2>1. proc.todo # {}
        BY <1>3, Checked
    <2>2. \/ procs'[Checker].todo = proc.todo
          \/ /\ procs'[Checker].todo = proc.todo \ {First(proc.todo)}
             /\ peers[Current(proc)] = "answers" => now > certs[Current(proc)].expires
        <3>1. \/ \E q : /\ procs' = [procs EXCEPT ![Checker] = q] /\ q.todo = proc.todo
              \/ \E q : /\ procs' = [procs EXCEPT ![Checker] = q]
                        /\ q.todo = proc.todo \ {First(proc.todo)}
                        /\ peers[Current(proc)] = "answers" => now > certs[Current(proc)].expires
            BY <1>3, Checked
        <3>q. QED BY <3>1, Goroutines
    <2>3. CASE ToWarn(d)' \/ ~ToWarn(d)
        BY <1>1, <2>3, AnnouncedKept
    <2>4. CASE ToWarn(d) /\ ~ToWarn(d)'
        <3>1. /\ d = Current(proc)
              /\ peers[Current(proc)] = "answers" => now > certs[Current(proc)].expires
            BY <1>1, <2>1, <2>2, <2>4, CheckerStands DEF ToWarn, Ahead
        <3>2. Undisturbed(d) => now > certs[d].expires
            BY <3>1, AnswersAtOnce
        <3>3. /\ WindowCloses(d, w) \in Int /\ WindowCloses(d, w) <= certs[d].expires
              /\ certs[d].expires \in Nat /\ now \in Nat
            BY WindowType, CertType, ClockType
        <3>4. Undisturbed(d) => ~(now <= WindowCloses(d, w))
            BY <3>2, <3>3
        <3>q. QED BY <1>1, <2>4, <3>4, AnnouncedOnceDone
    <2>q. QED BY <2>3, <2>4
<1>q. QED BY <1>2, <1>3

LEMMA SaveAnnounces ==
    ASSUME WorkInv, WorkInv', [Next]_vars, NEW p \in DOMAIN procs, SaveResult(p) \/ SaveFailed(p),
           NEW d \in Monitored, NEW w \in Windows, AnnouncedOK(d, w)
    PROVE  AnnouncedOK(d, w)'
<1>1. /\ procs[p].pc = "save" /\ UNCHANGED <<now, certs, ticker, sent>>
      /\ procs' = [procs EXCEPT ![p] = Saved(p)]
    BY DEF SaveResult, SaveFailed
<1>2. procs'[Checker].todo = procs[Checker].todo
    <2>1. CASE p # Checker
        BY <1>1, <2>1, OtherMoves
    <2>2. CASE p = Checker
        <3>1. /\ procs'[Checker] = [procs[Checker] EXCEPT !.pc = "warn"] /\ procs[Checker] \in Proc
            BY <1>1, <2>2, OtherMoves, SavedType
        <3>q. QED BY <3>1 DEF Proc
    <2>q. QED BY <2>1, <2>2
<1>3. ToWarn(d)' = ToWarn(d)
    BY <1>1, <1>2 DEF ToWarn, Ahead
<1>q. QED BY <1>1, <1>3, AnnouncedKept

LEMMA TimePassesAnnounces ==
    ASSUME WorkInv, WorkInv', [Next]_vars, TimePasses,
           NEW d \in Monitored, NEW w \in Windows, AnnouncedOK(d, w)
    PROVE  AnnouncedOK(d, w)'
<1>1. UNCHANGED <<certs, ticker, procs, sent, troubles, faults>>
    BY DEF TimePasses, program, bounds
<1>2. SUFFICES ASSUME Undisturbed(d) PROVE AnnouncedOK(d, w)'
    BY <1>1 DEF AnnouncedOK, Undisturbed
<1>3. ~Active
    BY <1>2, AnswersAtOnce, TimePassesSteadily
<1>4. ~ToWarn(d)
    BY <1>3, CheckerStands DEF Active, ToWarn
<1>5. ~ToWarn(d)' /\ WarnedSince(d)' = WarnedSince(d)
    BY <1>1, <1>4 DEF ToWarn, WarnedSince, LastRound, Ahead
<1>q. QED BY <1>1, <1>5 DEF AnnouncedOK, Announced, Undisturbed, WindowOpens, WindowCloses

\* A new certificate is at most as old as the round.
LEMMA RenewAnnounces ==
    ASSUME WorkInv, WorkInv', [Next]_vars, NEW c \in Monitored, Renew(c),
           NEW d \in Monitored, NEW w \in Windows, AnnouncedOK(d, w)
    PROVE  AnnouncedOK(d, w)'
<1>1. /\ UNCHANGED <<now, ticker, procs, sent>> /\ certs \in [Monitored -> [expires : Nat, since : 0..now]]
      /\ certs' = [certs EXCEPT ![c] = [expires |-> now + Lifetime, since |-> now]]
    BY DEF Renew, program, WorkInv, TypeOK
<1>2. ToWarn(d)' = ToWarn(d)
    BY <1>1, RoundStill
<1>3. CASE d # c
    BY <1>1, <1>2, <1>3, AnnouncedKept
<1>4. CASE d = c
    <2>1. certs'[d].since = now /\ certs'[d].expires \in Nat /\ now \in Nat
        BY <1>1, <1>4, ClockType, CertificatesAssumption
    <2>2. WarnedSince(d)' \in Int /\ WarnedSince(d)' <= now
        BY <1>1, ClockType DEF WarnedSince, LastRound
    <2>3. WindowOpens(d, w)' \in Int /\ Interval \in Nat
        <3>1. w \in Int /\ Day \in Nat /\ Interval \in Nat
            BY WindowType, CertificatesAssumption
        <3>2. (w + 1) * Day \in Int
            BY <3>1
        <3>q. QED BY <2>1, <3>1, <3>2 DEF WindowOpens
    <2>4. certs'[d].since <= WindowOpens(d, w)' => WarnedSince(d)' <= WindowOpens(d, w)'
        BY <2>1, <2>2, <2>3
    <2>q. QED BY <2>2, <2>3, <2>4 DEF AnnouncedOK
<1>q. QED BY <1>3, <1>4

LEMMA InitWarnings == Init => WarningsInv
<1> SUFFICES ASSUME Init, NEW d \in Monitored, NEW w \in Windows PROVE AnnouncedOK(d, w)
    BY DEF WarningsInv
<1>1. WorkInv
    BY InitWork
<1>2. now = 0 /\ certs[d].since = 0
    BY DEF Init
<1>3. WarnedSince(d) \in Int /\ WarnedSince(d) <= now /\ WindowOpens(d, w) \in Int /\ Interval \in Nat
    BY <1>1, WarnedSinceType, WindowType, ClockType
<1>q. QED BY <1>2, <1>3 DEF AnnouncedOK

LEMMA NextWarnings ==
    ASSUME Interval <= Day, PositiveWindows
    PROVE  WarningsInv /\ WorkInv /\ WorkInv' /\ [Next]_vars => WarningsInv'
<1> SUFFICES ASSUME WarningsInv, WorkInv, WorkInv', [Next]_vars, NEW d \in Monitored, NEW w \in Windows
             PROVE  AnnouncedOK(d, w)'
    BY DEF WarningsInv, Windows
<1>1. AnnouncedOK(d, w)
    BY DEF WarningsInv
<1>2. CASE UNCHANGED vars
    BY <1>1, <1>2, RoundStill, AnnouncedKept DEF vars
<1>3. CASE TimePasses
    BY <1>1, <1>3, TimePassesAnnounces
<1>4. CASE TickerFires \/ StartRound \/ Restart
    BY <1>1, <1>4, RoundBegins, AnnouncedKept
<1>5. ASSUME NEW c \in Monitored, Renew(c) PROVE AnnouncedOK(d, w)'
    BY <1>1, <1>5, RenewAnnounces
<1>6. ASSUME NEW c \in Monitored, PeerFails(c) \/ PeerRecovers(c) PROVE AnnouncedOK(d, w)'
    BY <1>1, <1>6, RoundStill, AnnouncedKept DEF PeerFails, PeerRecovers, program
<1>7. CASE Warn(Checker) \/ WarnFailed(Checker)
    BY <1>1, <1>7, WarnAnnounces
<1>8. ASSUME NEW p \in DOMAIN procs, CheckDomain(p) PROVE AnnouncedOK(d, w)'
    BY <1>1, <1>8, CheckAnnounces
<1>9. ASSUME NEW p \in DOMAIN procs, SaveResult(p) \/ SaveFailed(p) PROVE AnnouncedOK(d, w)'
    BY <1>1, <1>9, SaveAnnounces
<1>10. ASSUME NEW p \in Requests, Request(p) \/ ReadRows(p) \/ Reread(p) \/ ReadFailed(p)
       PROVE  AnnouncedOK(d, w)'
    BY <1>1, <1>10, RequestMoves, RoundStill, AnnouncedKept
<1>q. QED BY <1>2, <1>3, <1>4, <1>5, <1>6, <1>7, <1>8, <1>9, <1>10 DEF Next

\* With rounds at least daily, a window of an undisturbed domain's certificate
\* that is over was announced, if a chat is configured, although one call
\* failed and whatever was restarted.
THEOREM WindowsAnnounced ==
    ASSUME Interval <= Day, PositiveWindows
    PROVE  Spec => []WarnedInTime
<1>1. WorkInv /\ WarningsInv => WarnedInTime
    <2> SUFFICES ASSUME WorkInv, WarningsInv, NEW d \in Monitored, NEW w \in Windows,
                        ChatConfigured, faults <= 1, Undisturbed(d),
                        certs[d].since <= WindowOpens(d, w), now > WindowCloses(d, w)
                 PROVE  Announced(d, w)
        BY DEF WarnedInTime, Announced, Windows
    <2>1. AnnouncedOK(d, w)
        BY DEF WarningsInv
    <2>2. WarnedSince(d) > WindowOpens(d, w) + Interval
        <3>1. /\ WindowCloses(d, w) = WindowOpens(d, w) + 2 * Day /\ WindowOpens(d, w) \in Int
              /\ WarnedSince(d) \in Int /\ now - Interval <= WarnedSince(d)
              /\ Interval \in Nat /\ Day \in Nat /\ now \in Nat
            BY WindowType, WarnedSinceType, ClockType, CertificatesAssumption
        <3>q. QED BY <3>1
    <2>q. QED BY <2>1, <2>2 DEF AnnouncedOK
<1>2. Init => WarningsInv
    BY InitWarnings
<1>3. WarningsInv /\ WorkInv /\ WorkInv' /\ [Next]_vars => WarningsInv'
    BY NextWarnings
<1>4. Spec => []WarningsInv
    BY <1>2, <1>3, WorkSafe, PTL DEF Spec
<1>q. QED BY <1>1, <1>4, WorkSafe, PTL

-----------------------------------------------------------------------------
(* A window is not announced over and over.                                *)

LEMMA MomentType ==
    ASSUME WorkInv, NEW S \in SUBSET Moments
    PROVE  S \subseteq 0..now /\ S \subseteq Nat /\ IsFiniteSet(S) /\ Cardinality(S) \in Nat
<1>1. now \in Nat
    BY ClockType
<1>2. sent \subseteq Warnings
    BY DEF WorkInv, TypeOK
<1>3. Moments \subseteq 0..now
    BY <1>2 DEF Moments, Warnings
<1>4. IsFiniteSet(0..now)
    BY <1>1, FS_Interval
<1>5. S \in SUBSET (0..now)
    BY <1>3
<1>6. IsFiniteSet(S)
    BY <1>4, <1>5, FS_Subset
<1>q. QED BY <1>1, <1>5, <1>6, FS_CardinalityType

LEMMA SilencesFinite ==
    ASSUME troubles \subseteq Monitored \X {"refuses", "silent"}
    PROVE  /\ IsFiniteSet(Silences) /\ Cardinality(Silences) \in Nat
           /\ \A S \in SUBSET Silences :
                 IsFiniteSet(S) /\ Cardinality(S) \in Nat /\ Cardinality(S) <= Cardinality(Silences)
<1>1. IsFiniteSet(Monitored)
    <2>1. IsFiniteSet(1..Len(Domains))
        BY MonitoredPositions, FS_Interval
    <2>2. Domains \in Surjection(1..Len(Domains), Monitored)
        <3>1. Domains \in [1..Len(Domains) -> Monitored]
            BY CertificatesAssumption
        <3>2. \A d \in Monitored : \E i \in 1..Len(Domains) : Domains[i] = d
            BY MonitoredPositions DEF Ahead
        <3>q. QED BY <3>1, <3>2 DEF Surjection
    <2>q. QED BY <2>1, <2>2, FS_Surjection
<1>2. IsFiniteSet({"refuses", "silent"})
    <2>1. IsFiniteSet({"refuses"} \cup {"silent"})
        BY FS_Singleton, FS_AddElement
    <2>2. {"refuses"} \cup {"silent"} = {"refuses", "silent"}
        OBVIOUS
    <2>q. QED BY <2>1, <2>2
<1>3. IsFiniteSet(Monitored \X {"refuses", "silent"})
    BY <1>1, <1>2, FS_Product
<1>4. Silences \in SUBSET (Monitored \X {"refuses", "silent"})
    BY DEF Silences
<1>5. IsFiniteSet(Silences)
    BY <1>3, <1>4, FS_Subset
<1>6. \A S \in SUBSET Silences : IsFiniteSet(S) /\ Cardinality(S) <= Cardinality(Silences)
    BY <1>5, FS_Subset
<1>q. QED BY <1>5, <1>6, FS_CardinalityType

\* At most two moments a day or more apart are in a window of two days.
LEMMA TwoInWindow ==
    ASSUME NEW T, NEW O \in Int, Interval >= Day,
           \A x \in T : x \in Nat /\ O < x /\ x <= O + 2 * Day,
           \A x, y \in T : x < y => x + Interval <= y
    PROVE  IsFiniteSet(T) /\ Cardinality(T) <= 2
<1>1. Interval \in Nat /\ Day \in Nat
    BY CertificatesAssumption
<1>2. ASSUME NEW x \in T, NEW y \in T, NEW z \in T, x # y, y # z, x # z PROVE FALSE
    <2>1. x \in Nat /\ y \in Nat /\ z \in Nat
        BY <1>2
    <2>2. ASSUME NEW a \in T, NEW b \in T, NEW c \in T, a < b, b < c PROVE FALSE
        <3>1. a + Interval <= b /\ b + Interval <= c /\ O < a /\ c <= O + 2 * Day
              /\ a \in Nat /\ b \in Nat /\ c \in Nat
            BY <2>2
        <3>q. QED BY <1>1, <3>1
    <2>q. QED BY <1>2, <2>1, <2>2
<1>3. CASE T = {}
    BY <1>3, FS_EmptySet
<1>4. ASSUME NEW x \in T, T = {x} PROVE IsFiniteSet(T) /\ Cardinality(T) <= 2
    <2>1. IsFiniteSet({x}) /\ Cardinality({x}) = 1
        BY FS_Singleton
    <2>q. QED BY <1>4, <2>1
<1>5. ASSUME NEW x \in T, NEW y \in T, x # y PROVE IsFiniteSet(T) /\ Cardinality(T) <= 2
    <2>1. T = {x} \cup {y}
        BY <1>2, <1>5
    <2>2. IsFiniteSet({x}) /\ Cardinality({x}) = 1
        BY FS_Singleton
    <2>3. IsFiniteSet({x} \cup {y})
          /\ Cardinality({x} \cup {y}) = IF y \in {x} THEN Cardinality({x}) ELSE Cardinality({x}) + 1
        BY <2>2, FS_AddElement
    <2>4. y \notin {x}
        BY <1>5
    <2>q. QED BY <2>1, <2>2, <2>3, <2>4
<1>q. QED BY <1>3, <1>4, <1>5

\* A step at whose end the moments are as they were.
LEMMA SameKinds ==
    ASSUME MomentsInv, Moments' = Moments, LastRound' = LastRound, restarts' = restarts, Ended' = Ended,
           Active' /\ now' > LastRound => Stuck' \/ (Active /\ now' = now /\ (Stuck => Stuck'))
    PROVE  MomentsInv'
<1>1. PICK ticks \in SUBSET Moments, starts \in SUBSET Moments, late \in SUBSET Moments :
              KindsOf(ticks, starts, late)
    BY DEF MomentsInv
<1>2. KindsOf(ticks, starts, late)'
    BY <1>1 DEF KindsOf
<1>q. QED BY <1>2 DEF MomentsInv

LEMMA SameEnded ==
    ASSUME UNCHANGED <<peers, troubles>>
    PROVE  Ended' = Ended
    BY DEF Ended, Silences

\* While the checker's goroutine is stuck, it does not move.
LEMMA StillKinds ==
    ASSUME MomentsInv, UNCHANGED <<now, ticker, sent, restarts, peers, troubles>>,
           Active' => Active, Stuck => Stuck'
    PROVE  MomentsInv'
<1>1. Moments' = Moments /\ LastRound' = LastRound /\ Ended' = Ended
    BY SameEnded DEF Moments, LastRound
<1>q. QED BY <1>1, SameKinds

LEMMA TimePassesKinds ==
    ASSUME MomentsInv, WorkInv, TimePasses
    PROVE  MomentsInv'
<1>1. UNCHANGED <<ticker, sent, restarts, peers, troubles, procs>>
    BY DEF TimePasses, program, bounds
<1>2. Moments' = Moments /\ LastRound' = LastRound /\ Ended' = Ended
    BY <1>1, SameEnded DEF Moments, LastRound
<1>3. Active' => Stuck'
    BY <1>1, TimePassesSteadily DEF Active, Stuck, Current
<1>q. QED BY <1>1, <1>2, <1>3, SameKinds

LEMMA PeerFailsKinds ==
    ASSUME MomentsInv, WorkInv, NEW d \in Monitored, PeerFails(d)
    PROVE  MomentsInv'
<1>1. UNCHANGED <<now, ticker, sent, restarts, procs>>
    BY DEF PeerFails, program
<1>2. PICK state \in {"refuses", "silent"} :
          /\ peers[d] = "answers" /\ <<d, state>> \notin troubles
          /\ peers' = [peers EXCEPT ![d] = state]
          /\ troubles' = troubles \cup {<<d, state>>}
    BY DEF PeerFails
<1>3. peers \in [Monitored -> {"answers", "refuses", "silent"}]
      /\ troubles \subseteq Monitored \X {"refuses", "silent"}
    BY DEF WorkInv, TypeOK
<1>4. Ended' = Ended
    <2>1. \A t \in troubles : t[1] \in Monitored /\ t = <<t[1], t[2]>>
        BY <1>3
    <2>2. \A c \in Monitored : peers'[c] = IF c = d THEN state ELSE peers[c]
        BY <1>2, <1>3
    <2>3. Ended' \subseteq Ended
        <3>1. ASSUME NEW t \in Ended' PROVE t \in Ended
            <4>1. t \in troubles' /\ t[2] = "silent" /\ peers'[t[1]] # "silent"
                BY <3>1 DEF Ended, Silences
            <4>2. t # <<d, state>>
                BY <2>2, <4>1
            <4>3. t \in troubles
                BY <1>2, <4>1, <4>2
            <4>q. QED BY <1>2, <2>1, <2>2, <4>1, <4>3 DEF Ended, Silences
        <3>q. QED BY <3>1
    <2>4. Ended \subseteq Ended'
        <3>1. ASSUME NEW t \in Ended PROVE t \in Ended'
            <4>1. t \in troubles /\ t[2] = "silent" /\ peers[t[1]] # "silent"
                BY <3>1 DEF Ended, Silences
            <4>2. t[1] = d => state # "silent"
                BY <1>2, <2>1, <4>1
            <4>q. QED BY <1>2, <2>1, <2>2, <4>1, <4>2 DEF Ended, Silences
        <3>q. QED BY <3>1
    <2>q. QED BY <2>3, <2>4
<1>5. Stuck => Stuck'
    <2>1. SUFFICES ASSUME Stuck PROVE Stuck'
        OBVIOUS
    <2>2. Current(procs[Checker])' = Current(procs[Checker]) /\ Current(procs[Checker]) # d
        BY <1>1, <1>2, <2>1 DEF Stuck, Current
    <2>3. Current(procs[Checker]) \in Monitored
        BY <2>1, Goroutines, CheckerStands DEF Stuck, Busy
    <2>q. QED BY <1>1, <1>2, <1>3, <2>1, <2>2, <2>3 DEF Stuck
<1>6. Active' = Active /\ Moments' = Moments /\ LastRound' = LastRound
    BY <1>1 DEF Active, Moments, LastRound
<1>q. QED BY <1>1, <1>4, <1>5, <1>6, SameKinds

\* A domain that answers again lets one round go on.
LEMMA PeerRecoversKinds ==
    ASSUME MomentsInv, WorkInv, WorkInv', NEW d \in Monitored, PeerRecovers(d)
    PROVE  MomentsInv'
<1>1. /\ UNCHANGED <<now, certs, ticker, sent, restarts, procs, troubles>>
      /\ peers' = [peers EXCEPT ![d] = "answers"] /\ peers[d] # "answers"
    BY DEF PeerRecovers, program, bounds
<1>2. peers \in [Monitored -> {"answers", "refuses", "silent"}]
      /\ troubles \subseteq Monitored \X {"refuses", "silent"}
    BY DEF WorkInv, TypeOK
<1>3. \A c \in Monitored : peers'[c] = IF c = d THEN "answers" ELSE peers[c]
    BY <1>1, <1>2
<1>4. \A t \in troubles : t[1] \in Monitored /\ t = <<t[1], t[2]>>
    BY <1>2
<1>5. Active' = Active /\ Moments' = Moments /\ LastRound' = LastRound
    BY <1>1 DEF Active, Moments, LastRound
<1>6. CASE peers[d] = "silent"
    <2>1. Ended' = Ended \cup {<<d, "silent">>} /\ <<d, "silent">> \notin Ended
        <3>1. <<d, "silent">> \in Silences
            BY <1>6, CertType DEF Silences
        <3>2. \A t \in Silences : t[1] = d => t = <<d, "silent">>
            BY <1>4 DEF Silences
        <3>3. Silences' = Silences
            BY <1>1 DEF Silences
        <3>4. \A t \in Silences : t \in Ended' <=> t \in Ended \/ t[1] = d
            BY <1>3, <1>4, <3>3 DEF Ended, Silences
        <3>q. QED BY <1>6, <3>1, <3>2, <3>3, <3>4 DEF Ended
    <2>2. Cardinality(Ended) \in Nat /\ Cardinality(Ended') = Cardinality(Ended) + 1
        <3>1. IsFiniteSet(Ended) /\ Cardinality(Ended) \in Nat
            BY <1>2, SilencesFinite DEF Ended
        <3>q. QED BY <2>1, <3>1, FS_AddElement
    <2>3. PICK ticks \in SUBSET Moments, starts \in SUBSET Moments, late \in SUBSET Moments :
                  KindsOf(ticks, starts, late)
        BY DEF MomentsInv
    <2>4. Cardinality(late) \in Nat
        BY MomentType
    <2>5. KindsOf(ticks, starts, late)'
        BY <1>1, <1>5, <2>2, <2>3, <2>4 DEF KindsOf
    <2>q. QED BY <1>5, <2>5 DEF MomentsInv
<1>7. CASE peers[d] = "refuses"
    <2>1. Ended' = Ended
        BY <1>1, <1>3, <1>4, <1>7 DEF Ended, Silences
    <2>2. Stuck => Stuck'
        <3>1. SUFFICES ASSUME Stuck PROVE Stuck'
            OBVIOUS
        <3>2. Current(procs[Checker])' = Current(procs[Checker]) /\ Current(procs[Checker]) # d
            BY <1>1, <1>7, <3>1 DEF Stuck, Current
        <3>3. Current(procs[Checker]) \in Monitored
            BY <3>1, CheckerStands DEF Stuck, Busy
        <3>q. QED BY <1>1, <1>3, <3>1, <3>2, <3>3 DEF Stuck
    <2>q. QED BY <1>1, <1>5, <2>1, <2>2, SameKinds
<1>q. QED BY <1>1, <1>2, <1>6, <1>7

\* The ticks before are an interval away.
LEMMA TickerFiresKinds ==
    ASSUME MomentsInv, WorkInv, TickerFires
    PROVE  MomentsInv'
<1>1. /\ UNCHANGED <<now, sent, restarts, peers, troubles>>
      /\ now = LastRound + Interval /\ LastRound' = now
      /\ now \in Nat /\ LastRound \in Int /\ Interval \in Nat /\ LastRound <= now
    BY ClockType DEF TickerFires, LastRound, bounds
<1>2. Moments' = Moments /\ Ended' = Ended
    BY <1>1, SameEnded DEF Moments
<1>3. PICK ticks \in SUBSET Moments, starts \in SUBSET Moments, late \in SUBSET Moments :
              KindsOf(ticks, starts, late)
    BY DEF MomentsInv
<1>4. \A x \in ticks : x <= LastRound /\ x \in Nat
    BY <1>3, MomentType DEF KindsOf
<1>5. \A x \in ticks : x <= now /\ x + Interval <= now
    BY <1>1, <1>4
<1>6. KindsOf(ticks, starts, late)'
    BY <1>1, <1>2, <1>3, <1>5 DEF KindsOf
<1>q. QED BY <1>2, <1>6 DEF MomentsInv

\* A restart adds a start that may come.
LEMMA RestartKinds ==
    ASSUME MomentsInv, WorkInv, Restart
    PROVE  MomentsInv'
<1>1. /\ UNCHANGED <<now, sent, peers, troubles>> /\ restarts' = restarts + 1 /\ restarts \in Nat
      /\ LastRound' = now /\ now \in Nat /\ LastRound \in Int /\ LastRound <= now
    BY ClockType DEF Restart, LastRound
<1>2. Moments' = Moments /\ Ended' = Ended
    BY <1>1, SameEnded DEF Moments
<1>3. PICK ticks \in SUBSET Moments, starts \in SUBSET Moments, late \in SUBSET Moments :
              KindsOf(ticks, starts, late)
    BY DEF MomentsInv
<1>4. \A x \in ticks : x <= now
    BY MomentType
<1>5. Cardinality(starts) <= restarts' /\ Cardinality(starts) < restarts'
    BY <1>1, <1>3, MomentType DEF KindsOf
<1>6. KindsOf(ticks, starts, late)'
    BY <1>1, <1>2, <1>3, <1>4, <1>5 DEF KindsOf
<1>q. QED BY <1>2, <1>6 DEF MomentsInv

\* A warning at a moment at which there was none: the moment is a tick, a
\* start, or one at which a round went on.
LEMMA WarnKinds ==
    ASSUME MomentsInv, WorkInv, Warn(Checker)
    PROVE  MomentsInv'
<1>1. /\ UNCHANGED <<now, ticker, restarts, peers, troubles>> /\ procs[Checker].pc = "warn"
      /\ Ended' = Ended /\ LastRound' = LastRound
    BY SameEnded DEF Warn, bounds, LastRound
<1>2. Active /\ ~Stuck
    BY <1>1 DEF Active, Stuck
<1>3. CASE Moments' = Moments
    BY <1>1, <1>2, <1>3, SameKinds
<1>4. CASE Moments' # Moments
    <2>1. Moments' = Moments \cup {now} /\ now \notin Moments
        <3>1. Warned(Checker) /\ sent' = sent \cup {Warning(Checker)}
            BY <1>4 DEF Warn, Moments
        <3>2. Warning(Checker).at = now
            BY DEF Warning
        <3>3. Moments' = Moments \cup {now}
            BY <3>1, <3>2 DEF Moments
        <3>q. QED BY <1>4, <3>3
    <2>2. PICK ticks \in SUBSET Moments, starts \in SUBSET Moments, late \in SUBSET Moments :
                  KindsOf(ticks, starts, late)
        BY DEF MomentsInv
    <2>3. /\ now \in Nat /\ LastRound \in Int /\ LastRound <= now /\ restarts \in Nat
          /\ \A x \in ticks : x \in Nat /\ x <= LastRound
          /\ IsFiniteSet(starts) /\ Cardinality(starts) \in Nat
          /\ IsFiniteSet(late) /\ Cardinality(late) \in Nat
        BY <2>2, ClockType, MomentType DEF KindsOf
    <2>4. Cardinality(Ended) \in Nat
        BY SilencesFinite DEF WorkInv, TypeOK, Ended
    <2>5. CASE now = LastRound /\ Cardinality(starts) < restarts
        <3> DEFINE more == starts \cup {now}
        <3>1. Cardinality(more) = Cardinality(starts) + 1
            BY <2>1, <2>3, FS_AddElement
        <3>2. KindsOf(ticks, more, late)'
            BY <1>1, <2>1, <2>2, <2>3, <2>5, <3>1 DEF KindsOf
        <3>3. ticks \in SUBSET Moments' /\ more \in SUBSET Moments' /\ late \in SUBSET Moments'
            BY <2>1
        <3>4. PICK m : m = more
            OBVIOUS
        <3>q. QED BY <1>1, <3>2, <3>3, <3>4 DEF MomentsInv
    <2>6. CASE now = LastRound /\ ~(Cardinality(starts) < restarts)
        <3>1. \A x \in ticks : x # LastRound /\ x + Interval <= LastRound
            BY <2>1, <2>2, <2>3, <2>6 DEF KindsOf
        <3>2. PICK m : m = ticks \cup {now}
            OBVIOUS
        <3>3. \A x, y \in m : x < y => x + Interval <= y
            BY <2>2, <2>3, <2>6, <3>1, <3>2 DEF KindsOf
        <3>4. \A x \in m : x <= LastRound /\ (x = LastRound \/ x + Interval <= LastRound)
            BY <2>3, <2>6, <3>1, <3>2
        <3>5. KindsOf(m, starts, late)'
            BY <1>1, <2>1, <2>2, <2>6, <2>3, <3>2, <3>3, <3>4 DEF KindsOf
        <3>6. m \in SUBSET Moments' /\ starts \in SUBSET Moments' /\ late \in SUBSET Moments'
            BY <2>1, <3>2
        <3>q. QED BY <3>5, <3>6 DEF MomentsInv
    <2>7. CASE now > LastRound
        <3>1. Cardinality(late) < Cardinality(Ended)
            BY <1>2, <2>1, <2>2, <2>7 DEF KindsOf
        <3>2. PICK m : m = late \cup {now}
            OBVIOUS
        <3>3. Cardinality(m) = Cardinality(late) + 1
            BY <2>1, <2>3, <3>2, FS_AddElement
        <3>4. KindsOf(ticks, starts, m)'
            BY <1>1, <2>1, <2>2, <2>3, <2>4, <3>1, <3>2, <3>3 DEF KindsOf
        <3>5. ticks \in SUBSET Moments' /\ starts \in SUBSET Moments' /\ m \in SUBSET Moments'
            BY <2>1, <3>2
        <3>q. QED BY <3>4, <3>5 DEF MomentsInv
    <2>q. QED BY <2>3, <2>5, <2>6, <2>7
<1>q. QED BY <1>3, <1>4

LEMMA NextMoments == MomentsInv /\ WorkInv /\ WorkInv' /\ [Next]_vars => MomentsInv'
<1> SUFFICES ASSUME MomentsInv, WorkInv, WorkInv', [Next]_vars PROVE MomentsInv'
    OBVIOUS
<1>1. CASE UNCHANGED vars
    BY <1>1, StillKinds DEF vars, Active, Stuck, Current
<1>2. CASE TimePasses
    BY <1>2, TimePassesKinds
<1>3. CASE TickerFires
    BY <1>3, TickerFiresKinds
<1>4. CASE Restart
    BY <1>4, RestartKinds
<1>5. CASE StartRound
    <2>1. UNCHANGED <<now, sent, restarts, peers, troubles>> /\ ticker'.next = ticker.next /\ Active /\ ~Stuck
        <3>1. /\ ticker' = [ticker EXCEPT !.ticked = FALSE]
              /\ ticker \in [next : now..now + Interval, ticked : BOOLEAN]
            BY <1>5 DEF StartRound, WorkInv, TypeOK
        <3>q. QED BY <1>5, <3>1 DEF StartRound, bounds, Active, Stuck
    <2>2. Moments' = Moments /\ Ended' = Ended /\ LastRound' = LastRound
        BY <2>1, SameEnded DEF Moments, LastRound
    <2>q. QED BY <2>1, <2>2, SameKinds
<1>6. ASSUME NEW d \in Monitored, Renew(d) PROVE MomentsInv'
    BY <1>6, StillKinds DEF Renew, program, Active, Stuck, Current
<1>7. ASSUME NEW d \in Monitored, PeerFails(d) PROVE MomentsInv'
    BY <1>7, PeerFailsKinds
<1>8. ASSUME NEW d \in Monitored, PeerRecovers(d) PROVE MomentsInv'
    BY <1>8, PeerRecoversKinds
<1>9. CASE Warn(Checker)
    BY <1>9, WarnKinds
<1>10. ASSUME NEW p \in DOMAIN procs, CheckDomain(p) \/ SaveResult(p) \/ SaveFailed(p) PROVE MomentsInv'
    <2>1. UNCHANGED <<now, ticker, sent, restarts, peers, troubles>>
        BY <1>10 DEF CheckDomain, SaveResult, SaveFailed, bounds
    <2>2. PICK q : procs' = [procs EXCEPT ![p] = q]
        BY <1>10, Checked DEF SaveResult, SaveFailed
    <2>3. procs[p].pc # "wait"
        BY <1>10 DEF CheckDomain, SaveResult, SaveFailed
    <2>4. CASE p # Checker
        <3>1. procs'[Checker] = procs[Checker]
            BY <2>2, <2>4, OtherMoves
        <3>q. QED BY <2>1, <3>1, StillKinds DEF Active, Stuck, Current
    <2>5. CASE p = Checker
        <3>1. ~Stuck
            BY <1>10, <2>5, Checked DEF Stuck, SaveResult, SaveFailed
        <3>q. QED BY <2>1, <2>3, <2>5, <3>1, StillKinds DEF Active
    <2>q. QED BY <2>4, <2>5
<1>11. CASE WarnFailed(Checker)
    <2>1. UNCHANGED <<now, ticker, sent, restarts, peers, troubles>> /\ procs[Checker].pc = "warn"
        BY <1>11 DEF WarnFailed
    <2>q. QED BY <2>1, StillKinds DEF Active, Stuck
<1>12. ASSUME NEW p \in Requests, Request(p) \/ ReadRows(p) \/ Reread(p) \/ ReadFailed(p) PROVE MomentsInv'
    BY <1>12, RequestMoves, StillKinds DEF Active, Stuck, Current
<1>q. QED BY <1>1, <1>2, <1>3, <1>4, <1>5, <1>6, <1>7, <1>8, <1>9, <1>10, <1>11, <1>12 DEF Next

LEMMA InitMoments == Init => MomentsInv
<1> SUFFICES ASSUME Init PROVE MomentsInv
    OBVIOUS
<1>1. WorkInv
    BY InitWork
<1>2. Moments = {} /\ now = 0 /\ restarts = 0 /\ troubles = {} /\ LastRound = 0
    BY CertificatesAssumption DEF Init, Moments, LastRound
<1>3. Ended = {}
    BY <1>2 DEF Ended, Silences
<1>4. KindsOf({}, {}, {})
    BY <1>2, <1>3, FS_EmptySet DEF KindsOf
<1>5. {} \in SUBSET Moments
    OBVIOUS
<1>q. QED BY <1>4, <1>5 DEF MomentsInv

\* Warnings about one window are told apart by their moments, and those are
\* two ticks at most, restarts and silences apart.
LEMMA FewWarnings ==
    ASSUME Interval >= Day, WorkInv, MomentsInv, NEW s \in sent
    PROVE  Cardinality({t \in sent : t.domain = s.domain /\ t.expires = s.expires /\ t.window = s.window})
              <= 2 + restarts + Cardinality(Silences)
<1> DEFINE S == {t \in sent : t.domain = s.domain /\ t.expires = s.expires /\ t.window = s.window}
           O == s.expires - (s.window + 1) * Day
<1>1. sent \subseteq Warnings /\ SentOK /\ troubles \subseteq Monitored \X {"refuses", "silent"}
    BY DEF WorkInv, TypeOK
<1>2. now \in Nat /\ restarts \in Nat /\ Day \in Nat /\ Interval \in Nat
    BY ClockType, CertificatesAssumption
<1>3. /\ s.expires \in Nat /\ s.window \in Int /\ O \in Int
    <2>1. s.expires \in Nat /\ s.window \in Int
        BY <1>1, CertificatesAssumption DEF Warnings, Range
    <2>2. (s.window + 1) * Day \in Int
        BY <1>2, <2>1
    <2>q. QED BY <2>1, <2>2
<1>4. ASSUME NEW t \in S
      PROVE  t.at \in Nat /\ O < t.at /\ t.at <= O + 2 * Day
    <2>1. /\ t.at \in Nat /\ t.expires = s.expires /\ t.window = s.window /\ t.at <= t.expires
          /\ DaysAt(t.expires, t.at) <= t.window /\ DaysAt(t.expires, t.at) > t.window - 2
        BY <1>1, <1>2 DEF Warnings, SentOK
    <2>2. O < t.at /\ t.at <= s.expires - (s.window - 1) * Day
        BY <1>3, <2>1, DaysInWindow
    <2>3. s.expires - (s.window - 1) * Day = O + 2 * Day
        BY <1>2, <1>3
    <2>q. QED BY <2>1, <2>2, <2>3
<1>5. ASSUME NEW t \in S, NEW u \in S, t.at = u.at PROVE t = u
    BY <1>1, <1>5 DEF Warnings, SentOK
<1>6. PICK ticks \in SUBSET Moments, starts \in SUBSET Moments, late \in SUBSET Moments :
              KindsOf(ticks, starts, late)
    BY DEF MomentsInv
<1> DEFINE T == {x \in ticks : O < x /\ x <= O + 2 * Day}
           A == (T \cup starts) \cup late
           f == [t \in S |-> t.at]
<1>7. f \in Injection(S, A)
    <2>1. \A t \in S : t.at \in A
        BY <1>4, <1>6 DEF KindsOf, Moments
    <2>2. \A t, u \in S : t.at = u.at => t = u
        BY <1>5
    <2> HIDE DEF S, A
    <2>3. f \in [S -> A] /\ \A t \in S : f[t] = t.at
        BY <2>1
    <2> HIDE DEF f
    <2>q. QED BY <2>2, <2>3 DEF Injection, IsInjective
<1> HIDE DEF O, S, f
<1>8. IsFiniteSet(T) /\ Cardinality(T) <= 2 /\ Cardinality(T) \in Nat
    <2>1. \A x \in T : x \in Nat /\ O < x /\ x <= O + 2 * Day
        BY MomentType
    <2>2. \A x, y \in T : x < y => x + Interval <= y
        BY <1>6 DEF KindsOf
    <2>q. QED BY <1>3, <2>1, <2>2, TwoInWindow, FS_CardinalityType
<1>9. /\ IsFiniteSet(starts) /\ Cardinality(starts) \in Nat /\ Cardinality(starts) <= restarts
      /\ IsFiniteSet(late) /\ Cardinality(late) \in Nat /\ Cardinality(late) <= Cardinality(Silences)
      /\ Cardinality(Silences) \in Nat
    <2>1. Cardinality(Ended) \in Nat /\ Cardinality(Ended) <= Cardinality(Silences)
          /\ Cardinality(Silences) \in Nat
        BY <1>1, SilencesFinite DEF Ended
    <2>2. Cardinality(starts) <= restarts /\ Cardinality(late) <= Cardinality(Ended)
        BY <1>6 DEF KindsOf
    <2>3. IsFiniteSet(starts) /\ Cardinality(starts) \in Nat /\ IsFiniteSet(late) /\ Cardinality(late) \in Nat
        BY MomentType
    <2>q. QED BY <2>1, <2>2, <2>3
<1> HIDE DEF T
<1>10. /\ IsFiniteSet(T \cup starts) /\ Cardinality(T \cup starts) \in Nat
       /\ Cardinality(T \cup starts) <= Cardinality(T) + Cardinality(starts)
    <2>1. IsFiniteSet(T \cap starts)
        <3>1. T \cap starts \in SUBSET T
            OBVIOUS
        <3>q. QED BY <1>8, <3>1, FS_Subset
    <2>2. Cardinality(T \cap starts) \in Nat
        BY <2>1, FS_CardinalityType
    <2>3. /\ IsFiniteSet(T \cup starts)
          /\ Cardinality(T \cup starts) = Cardinality(T) + Cardinality(starts) - Cardinality(T \cap starts)
        BY <1>8, <1>9, FS_Union
    <2>4. Cardinality(T \cup starts) \in Nat
        BY <2>3, FS_CardinalityType
    <2>q. QED BY <1>8, <1>9, <2>2, <2>3, <2>4
<1>11. IsFiniteSet(A) /\ Cardinality(A) \in Nat
       /\ Cardinality(A) <= Cardinality(T \cup starts) + Cardinality(late)
    <2>1. IsFiniteSet((T \cup starts) \cap late)
        <3>1. (T \cup starts) \cap late \in SUBSET (T \cup starts)
            OBVIOUS
        <3>q. QED BY <1>10, <3>1, FS_Subset
    <2>2. Cardinality((T \cup starts) \cap late) \in Nat
        BY <2>1, FS_CardinalityType
    <2>3. /\ IsFiniteSet((T \cup starts) \cup late)
          /\ Cardinality((T \cup starts) \cup late)
                = Cardinality(T \cup starts) + Cardinality(late) - Cardinality((T \cup starts) \cap late)
        BY <1>9, <1>10, FS_Union
    <2>4. Cardinality((T \cup starts) \cup late) \in Nat
        BY <2>3, FS_CardinalityType
    <2>q. QED BY <1>9, <1>10, <2>2, <2>3, <2>4 DEF A
<1> HIDE DEF A
<1>12. IsFiniteSet(S) /\ Cardinality(S) <= Cardinality(A) /\ Cardinality(S) \in Nat
    BY <1>7, <1>11, FS_Injection, FS_CardinalityType
<1>13. Cardinality(S) <= 2 + restarts + Cardinality(Silences)
    BY <1>2, <1>8, <1>9, <1>10, <1>11, <1>12
<1>q. QED BY <1>13 DEF S

\* With rounds at most daily, nobody is told of a window more than twice, but
\* for restarts and for rounds that a silent domain held up.
THEOREM WindowsRarelyRepeated ==
    ASSUME Interval >= Day
    PROVE  Spec => []WarnedTwiceAtMost
<1>1. WorkInv /\ MomentsInv => WarnedTwiceAtMost
    BY FewWarnings DEF WarnedTwiceAtMost, Silences
<1>2. Init => MomentsInv
    BY InitMoments
<1>3. MomentsInv /\ WorkInv /\ WorkInv' /\ [Next]_vars => MomentsInv'
    BY NextMoments
<1>4. Spec => []MomentsInv
    BY <1>2, <1>3, WorkSafe, PTL DEF Spec
<1>q. QED BY <1>1, <1>4, WorkSafe, PTL

-----------------------------------------------------------------------------
(* AnsibleRuns, for every number of requests and faults.                   *)

\* A row belongs to one run: that another run is finished leaves it alone.
OwnRow == \A g, h \in RunRequests : runs[g].row = runs[h].row /\ runs[g].row # 0 => g = h

\* Where a run stands, its playbook, and its row tell the same story.
StoryOK(g) ==
    /\ runs[g].pc \in {"new", "create"} => runs[g].row = 0
    /\ runs[g].pc \in {"launch", "wait", "finish", "report"} => runs[g].row # 0
    /\ runs[g].pc = "launch" \/ runs[g].row = 0 => processes[g].state = "none"
    /\ processes[g].state \in {"running", "orphans"} => runs[g].pc = "wait"
    /\ runs[g].pc \in {"finish", "report"} =>
          processes[g].state = "ended" /\ runs[g].status = Outcome(g)
    /\ runs[g].pc \in {"launch", "wait", "finish"} => runTable[runs[g].row] = "running"
    /\ runs[g].row # 0 /\ runTable[runs[g].row] # "running" =>
          processes[g].state = "ended" /\ runTable[runs[g].row] = Outcome(g)
    /\ runFaults = 0 /\ runs[g].pc \in {"report", "done"} =>
          runs[g].row # 0 /\ runTable[runs[g].row] # "running"

\* Only a row whose Create failed has no run.
RowsHaveRuns ==
    \A i \in 1..Len(runTable) :
        runTable[i] # "running" \/ runFaults = 0 => \E g \in RunRequests : runs[g].row = i

\* A report is that of a run that is over.
ReportsHaveRuns ==
    \A t \in told :
        \E g \in RunRequests : /\ runs[g].row = t.row /\ runs[g].pc = "done"
                            /\ t.row # 0 /\ processes[g].state = "ended" /\ t.status = Outcome(g)

RunsInv ==
    /\ RunsTypeOK /\ OwnRow /\ RowsHaveRuns /\ ReportsHaveRuns
    /\ \A g \in RunRequests : StoryOK(g)

-----------------------------------------------------------------------------
LEMMA InitRuns == RunsInit => RunsInv
<1> SUFFICES ASSUME RunsInit PROVE RunsInv
    OBVIOUS
<1>1. \A g \in RunRequests : runs[g] = NewRun /\ processes[g] = NoProcess
    BY DEF RunsInit
<1>2. /\ NewRun \in Run /\ NoProcess \in Process
      /\ NewRun.row = 0 /\ NewRun.pc = "new"
    BY DEF NewRun, NoProcess, Run, Process, RunStatuses
<1>3. RunsTypeOK
    BY <1>1, <1>2 DEF RunsInit, RunsTypeOK
<1>4. OwnRow /\ RowsHaveRuns /\ ReportsHaveRuns
    BY <1>1, <1>2 DEF RunsInit, OwnRow, RowsHaveRuns, ReportsHaveRuns
<1>5. \A g \in RunRequests : StoryOK(g)
    BY <1>1, <1>2 DEF StoryOK, NoProcess
<1>q. QED BY <1>3, <1>4, <1>5 DEF RunsInv

\* A step of one run leaves the stories of the others as they are, unless it
\* writes to their rows.
LEMMA OtherStories ==
    ASSUME RunsInv, NEW g \in RunRequests,
           runs'[g] = runs[g], processes'[g] = processes[g],
           runs[g].row # 0 => runTable'[runs[g].row] = runTable[runs[g].row],
           runFaults' = 0 => runFaults = 0
    PROVE  StoryOK(g)'
<1>1. Outcome(g)' = Outcome(g)
    BY DEF Outcome
<1>q. QED BY <1>1 DEF RunsInv, StoryOK

\* A step of one run that leaves the table alone, and the row and the report
\* of a run that is over.
LEMMA SameTable ==
    ASSUME RunsInv, NEW g \in RunRequests, NEW r \in Run, NEW p \in Process,
           runs' = [runs EXCEPT ![g] = r], processes' = [processes EXCEPT ![g] = p],
           UNCHANGED <<runTable, told>>, runFaults' \in Nat, runFaults' = 0 => runFaults = 0,
           r.row = runs[g].row, runs[g].pc # "done", StoryOK(g)'
    PROVE  RunsInv'
<1>1. \A h \in RunRequests : runs'[h] = (IF h = g THEN r ELSE runs[h])
                          /\ processes'[h] = (IF h = g THEN p ELSE processes[h])
    BY DEF RunsInv, RunsTypeOK
<1>2. \A h \in RunRequests : runs'[h].row = runs[h].row
    BY <1>1
<1>3. RunsTypeOK'
    BY <1>2 DEF RunsInv, RunsTypeOK
<1>4. OwnRow' /\ RowsHaveRuns'
    BY <1>2 DEF RunsInv, OwnRow, RowsHaveRuns
<1>5. \A h \in RunRequests : StoryOK(h)'
    BY <1>1, OtherStories
<1>6. ReportsHaveRuns'
    <2> SUFFICES ASSUME NEW t \in told
                 PROVE  \E h \in RunRequests : /\ runs'[h].row = t.row /\ runs'[h].pc = "done" /\ t.row # 0
                                            /\ processes'[h].state = "ended" /\ t.status = Outcome(h)'
        BY DEF ReportsHaveRuns
    <2>1. PICK h \in RunRequests : /\ runs[h].row = t.row /\ runs[h].pc = "done" /\ t.row # 0
                                /\ processes[h].state = "ended" /\ t.status = Outcome(h)
        BY DEF RunsInv, ReportsHaveRuns
    <2>q. QED BY <1>1, <2>1 DEF Outcome
<1>q. QED BY <1>3, <1>4, <1>5, <1>6 DEF RunsInv

\* The types of a run and its playbook, and of a fault.
LEMMA RunType ==
    ASSUME RunsInv, NEW g \in RunRequests
    PROVE  /\ runs[g] \in Run /\ processes[g] \in Process /\ runs[g].row \in 0..Len(runTable)
           /\ runs[g].row \in Nat /\ runs[g].status \in RunStatuses /\ processes[g].ok \in BOOLEAN
           /\ Len(runTable) \in Nat /\ StoryOK(g)
           /\ \A h \in RunRequests : runs[h].row = runs[g].row /\ runs[g].row # 0 => h = g
    BY DEF RunsInv, RunsTypeOK, Run, Process, OwnRow

LEMMA RunsFaultType ==
    ASSUME RunsInv
    PROVE  RunFault \/ UNCHANGED runFaults => runFaults' \in Nat /\ (runFaults' = 0 => runFaults = 0)
    BY DEF RunsInv, RunsTypeOK, RunFault

\* Goto as one run that was replaced.
LEMMA GotoType ==
    ASSUME RunsInv, NEW g \in RunRequests,
           NEW pc \in {"new", "create", "launch", "wait", "finish", "report", "done"}
    PROVE  LET r == [runs[g] EXCEPT !.pc = pc]
           IN  /\ r \in Run /\ r.pc = pc /\ r.row = runs[g].row /\ r.status = runs[g].status
               /\ Goto(g, pc) <=> runs' = [runs EXCEPT ![g] = r]
    BY RunType DEF Run, Goto

LEMMA AcceptInv ==
    ASSUME RunsInv, NEW g \in RunRequests, Accept(g)
    PROVE  RunsInv'
<1> DEFINE r == [runs[g] EXCEPT !.pc = "create"]
<1>1. r \in Run /\ r.pc = "create" /\ r.row = runs[g].row /\ runs' = [runs EXCEPT ![g] = r]
    BY GotoType DEF Accept
<1> HIDE DEF r
<1>2. /\ UNCHANGED <<runTable, told>> /\ processes' = [processes EXCEPT ![g] = processes[g]]
      /\ runFaults' \in Nat /\ (runFaults' = 0 => runFaults = 0) /\ runs[g].pc = "new"
    BY RunsFaultType DEF Accept, RunsInv, RunsTypeOK
<1>3. runs'[g] = r /\ processes'[g] = processes[g]
    BY <1>1, <1>2 DEF RunsInv, RunsTypeOK
<1>4. StoryOK(g)'
    BY <1>1, <1>2, <1>3, RunType DEF StoryOK, Outcome
<1>q. QED BY <1>1, <1>2, <1>4, RunType, SameTable

LEMMA LaunchInv ==
    ASSUME RunsInv, NEW g \in RunRequests, Launch(g)
    PROVE  RunsInv'
<1> DEFINE r == [runs[g] EXCEPT !.pc = "wait"]
<1>1. PICK state \in {"running", "ended"} :
          processes' = [processes EXCEPT ![g] = [state |-> state, ok |-> FALSE]]
    BY DEF Launch
<1>2. r \in Run /\ r.pc = "wait" /\ r.row = runs[g].row /\ runs' = [runs EXCEPT ![g] = r]
    BY GotoType DEF Launch
<1>3. [state |-> state, ok |-> FALSE] \in Process
    BY DEF Process
<1> HIDE DEF r
<1>4. /\ UNCHANGED <<runTable, told>> /\ runFaults' \in Nat /\ (runFaults' = 0 => runFaults = 0)
      /\ runs[g].pc = "launch"
    BY RunsFaultType DEF Launch
<1>5. runs'[g] = r /\ processes'[g] = [state |-> state, ok |-> FALSE]
    BY <1>1, <1>2 DEF RunsInv, RunsTypeOK
<1>6. StoryOK(g)'
    BY <1>2, <1>4, <1>5, RunType DEF StoryOK, Outcome
<1>q. QED BY <1>1, <1>2, <1>3, <1>4, <1>6, SameTable

\* However the playbook ends, its run still waits for it.
LEMMA PlaybookInv ==
    ASSUME RunsInv, NEW g \in RunRequests, PlaybookEnds(g) \/ Timeout(g) \/ OrphansEnd(g)
    PROVE  RunsInv'
<1>1. PICK p \in Process : processes' = [processes EXCEPT ![g] = p] /\ p.state # "none"
    <2>1. CASE PlaybookEnds(g)
        BY <2>1 DEF PlaybookEnds, Process
    <2>2. CASE Timeout(g)
        BY <2>2 DEF Timeout, Process
    <2>3. CASE OrphansEnd(g)
        <3> DEFINE p == [processes[g] EXCEPT !.state = "ended"]
        <3>1. processes' = [processes EXCEPT ![g] = p]
            BY <2>3 DEF OrphansEnd
        <3>2. p \in Process /\ p.state = "ended"
            BY RunType DEF Process
        <3>q. QED BY <3>1, <3>2
    <2>q. QED BY <2>1, <2>2, <2>3
<1>2. /\ UNCHANGED <<runTable, runs, told>> /\ runFaults' \in Nat /\ (runFaults' = 0 => runFaults = 0)
      /\ runs[g].pc = "wait"
    BY RunsFaultType, RunType DEF PlaybookEnds, Timeout, OrphansEnd, StoryOK
<1>3. runs' = [runs EXCEPT ![g] = runs[g]] /\ runs'[g] = runs[g] /\ processes'[g] = p
    BY <1>1, <1>2 DEF RunsInv, RunsTypeOK
<1>4. StoryOK(g)'
    BY <1>1, <1>2, <1>3, RunType DEF StoryOK, Outcome
<1>q. QED BY <1>1, <1>2, <1>3, <1>4, RunType, SameTable

\* The status collected is the outcome of the run's own playbook.
LEMMA CollectInv ==
    ASSUME RunsInv, NEW g \in RunRequests, Collect(g)
    PROVE  RunsInv'
<1> DEFINE r == [runs[g] EXCEPT !.pc = "finish", !.status = Outcome(g)]
<1>1. runs' = [runs EXCEPT ![g] = r]
    BY RunType DEF Collect, Outcome, Run
<1>2. r \in Run /\ r.pc = "finish" /\ r.row = runs[g].row /\ r.status = Outcome(g)
    BY RunType DEF Run, Outcome, RunStatuses
<1> HIDE DEF r
<1>3. /\ UNCHANGED <<runTable, told>> /\ processes' = [processes EXCEPT ![g] = processes[g]]
      /\ runFaults' \in Nat /\ (runFaults' = 0 => runFaults = 0)
      /\ runs[g].pc = "wait" /\ processes[g].state = "ended"
    BY RunsFaultType DEF Collect, RunsInv, RunsTypeOK
<1>4. runs'[g] = r /\ processes'[g] = processes[g]
    BY <1>1, <1>3 DEF RunsInv, RunsTypeOK
<1>5. StoryOK(g)'
    BY <1>2, <1>3, <1>4, RunType DEF StoryOK, Outcome
<1>q. QED BY <1>1, <1>2, <1>3, <1>5, RunType, SameTable

\* A new row is nobody else's.
LEMMA InsertInv ==
    ASSUME RunsInv, NEW g \in RunRequests, NEW r \in Run, InsertRun,
           runs' = [runs EXCEPT ![g] = r], UNCHANGED <<processes, told>>,
           runs[g].pc = "create",
           \/ r.pc = "launch" /\ r.row = Len(runTable) + 1 /\ UNCHANGED runFaults
           \/ r.pc = "done" /\ r.row = 0 /\ RunFault
    PROVE  RunsInv'
<1>1. \A h \in RunRequests : runs'[h] = IF h = g THEN r ELSE runs[h]
    BY DEF RunsInv, RunsTypeOK
<1>2. /\ runTable \in Seq(RunStatuses) /\ Len(runTable) \in Nat
      /\ runTable' \in Seq(RunStatuses) /\ Len(runTable') = Len(runTable) + 1
      /\ runTable'[Len(runTable) + 1] = "running" /\ \A i \in 1..Len(runTable) : runTable'[i] = runTable[i]
    <2>1. "running" \in RunStatuses /\ runTable \in Seq(RunStatuses)
        BY DEF RunStatuses, RunsInv, RunsTypeOK
    <2>q. QED BY <2>1, AppendProperties DEF InsertRun
<1>3. runFaults' \in Nat /\ (runFaults' = 0 => runFaults = 0) /\ (r.pc = "done" => runFaults' # 0)
    BY RunsFaultType DEF RunFault, RunsInv, RunsTypeOK
<1>4. runs[g].row = 0 /\ processes[g].state = "none"
    BY RunType DEF StoryOK
<1>5. RunsTypeOK'
    BY <1>1, <1>2, <1>3 DEF RunsInv, RunsTypeOK
<1>6. OwnRow'
    BY <1>1, <1>2, RunType DEF RunsInv, OwnRow
<1>7. ASSUME NEW h \in RunRequests PROVE StoryOK(h)'
    <2>1. CASE h = g
        BY <1>1, <1>2, <1>3, <1>4, <2>1 DEF StoryOK, Outcome
    <2>2. CASE h # g
        BY <1>1, <1>2, <1>3, <2>2, RunType, OtherStories
    <2>q. QED BY <2>1, <2>2
<1>8. RowsHaveRuns'
    <2> SUFFICES ASSUME NEW i \in 1..Len(runTable'), runTable'[i] # "running" \/ runFaults' = 0
                 PROVE  \E h \in RunRequests : runs'[h].row = i
        BY DEF RowsHaveRuns
    <2>1. CASE i = Len(runTable) + 1
        BY <1>1, <1>2, <1>3, <2>1
    <2>2. CASE i # Len(runTable) + 1
        <3>1. i \in 1..Len(runTable) /\ runTable'[i] = runTable[i]
            BY <1>2, <2>2
        <3>2. PICK h \in RunRequests : runs[h].row = i
            BY <1>3, <3>1 DEF RunsInv, RowsHaveRuns
        <3>q. QED BY <1>1, <1>4, <3>1, <3>2
    <2>q. QED BY <2>1, <2>2
<1>9. ReportsHaveRuns'
    BY <1>1, <1>4 DEF RunsInv, ReportsHaveRuns, Outcome
<1>q. QED BY <1>5, <1>6, <1>7, <1>8, <1>9 DEF RunsInv

LEMMA CreateInv ==
    ASSUME RunsInv, NEW g \in RunRequests, CreateRun(g) \/ CreateFailed(g)
    PROVE  RunsInv'
<1>1. CASE CreateRun(g)
    <2> DEFINE r == [runs[g] EXCEPT !.pc = "launch", !.row = Len(runTable) + 1]
    <2>1. r \in Run /\ r.pc = "launch" /\ r.row = Len(runTable) + 1
        <3>1. Len(runTable) + 1 \in Nat /\ runs[g] \in Run
            BY RunType
        <3>q. QED BY <3>1 DEF Run
    <2>2. runs' = [runs EXCEPT ![g] = r]
        BY <1>1, RunType DEF CreateRun, Run
    <2> HIDE DEF r
    <2>q. QED BY <1>1, <2>1, <2>2, InsertInv DEF CreateRun
<1>2. CASE CreateFailed(g)
    <2> DEFINE r == [runs[g] EXCEPT !.pc = "done"]
    <2>1. /\ r \in Run /\ r.pc = "done" /\ r.row = runs[g].row /\ runs' = [runs EXCEPT ![g] = r]
        BY <1>2, GotoType DEF CreateFailed
    <2> HIDE DEF r
    <2>2. /\ runs[g].pc = "create" /\ runs[g].row = 0 /\ processes[g].state = "none"
          /\ runFaults' \in Nat /\ runFaults' # 0 /\ UNCHANGED <<processes, told>>
        BY <1>2, RunsFaultType, RunType DEF CreateFailed, StoryOK, RunFault, RunsInv, RunsTypeOK
    <2>3. CASE InsertRun
        BY <1>2, <2>1, <2>2, <2>3, InsertInv DEF CreateFailed
    <2>4. CASE UNCHANGED runTable
        <3>1. /\ runs'[g] = r /\ processes'[g] = processes[g]
              /\ processes' = [processes EXCEPT ![g] = processes[g]]
            BY <2>1, <2>2 DEF RunsInv, RunsTypeOK
        <3>2. StoryOK(g)'
            BY <2>1, <2>2, <3>1, RunType DEF StoryOK, Outcome
        <3>q. QED BY <2>1, <2>2, <2>4, <3>1, <3>2, RunType, SameTable
    <2>q. QED BY <1>2, <2>3, <2>4 DEF CreateFailed
<1>q. QED BY <1>1, <1>2

\* The status is stored in the run's own row, or not at all.
LEMMA FinishInv ==
    ASSUME RunsInv, NEW g \in RunRequests, Finish(g) \/ FinishFailed(g)
    PROVE  RunsInv'
<1> DEFINE r == [runs[g] EXCEPT !.pc = "report"]
<1>1. /\ r \in Run /\ r.pc = "report" /\ r.row = runs[g].row /\ r.status = runs[g].status
      /\ runs' = [runs EXCEPT ![g] = r]
    BY GotoType DEF Finish, FinishFailed
<1> HIDE DEF r
<1>2. /\ runs[g].pc = "finish" /\ runs[g].row # 0 /\ runs[g].row \in 1..Len(runTable)
      /\ processes[g].state = "ended" /\ runs[g].status = Outcome(g)
      /\ runTable[runs[g].row] = "running" /\ runs[g].status \in RunStatuses
      /\ runs[g].status # "running"
    BY RunType DEF Finish, FinishFailed, StoryOK, Outcome
<1>3. /\ UNCHANGED <<processes, told>> /\ processes' = [processes EXCEPT ![g] = processes[g]]
      /\ runFaults' \in Nat /\ (runFaults' = 0 => runFaults = 0)
    BY RunsFaultType DEF Finish, FinishFailed, RunsInv, RunsTypeOK
<1>4. \A h \in RunRequests : runs'[h] = (IF h = g THEN r ELSE runs[h]) /\ processes'[h] = processes[h]
    BY <1>1, <1>3 DEF RunsInv, RunsTypeOK
<1>5. CASE StoreStatus(g)
    <2>1. /\ runTable' \in Seq(RunStatuses) /\ Len(runTable') = Len(runTable)
          /\ \A i \in 1..Len(runTable) : runTable'[i] = IF i = runs[g].row THEN runs[g].status ELSE runTable[i]
        BY <1>2, <1>5, ExceptSeq DEF StoreStatus, RunsInv, RunsTypeOK
    <2>2. RunsTypeOK'
        BY <1>1, <1>3, <1>4, <2>1 DEF RunsInv, RunsTypeOK
    <2>3. OwnRow' /\ ReportsHaveRuns'
        BY <1>1, <1>2, <1>3, <1>4 DEF RunsInv, OwnRow, ReportsHaveRuns, Outcome
    <2>4. RowsHaveRuns'
        BY <1>1, <1>2, <1>3, <1>4, <2>1 DEF RunsInv, RowsHaveRuns
    <2>5. ASSUME NEW h \in RunRequests PROVE StoryOK(h)'
        <3>1. CASE h = g
            BY <1>1, <1>2, <1>3, <1>4, <2>1, <3>1 DEF StoryOK, Outcome
        <3>2. CASE h # g
            <4>1. runs[h].row # 0 => runs[h].row \in 1..Len(runTable) /\ runs[h].row # runs[g].row
                BY <1>2, <3>2, RunType
            <4>q. QED BY <1>3, <1>4, <2>1, <3>2, <4>1, OtherStories
        <3>q. QED BY <3>1, <3>2
    <2>q. QED BY <2>2, <2>3, <2>4, <2>5 DEF RunsInv
<1>6. CASE UNCHANGED runTable /\ RunFault
    <2>1. runFaults' # 0
        BY <1>6 DEF RunFault, RunsInv, RunsTypeOK
    <2>2. StoryOK(g)'
        BY <1>1, <1>2, <1>3, <1>4, <1>6, <2>1 DEF StoryOK, Outcome
    <2>q. QED BY <1>1, <1>2, <1>3, <1>6, <2>2, RunType, SameTable
<1>q. QED BY <1>5, <1>6 DEF Finish, FinishFailed

\* A report says what the run's playbook did.
LEMMA ReportInv ==
    ASSUME RunsInv, NEW g \in RunRequests, Report(g)
    PROVE  RunsInv'
<1> DEFINE r == [runs[g] EXCEPT !.pc = "done"]
           t == [row |-> runs[g].row, status |-> runs[g].status]
<1>1. /\ r \in Run /\ r.pc = "done" /\ r.row = runs[g].row /\ runs' = [runs EXCEPT ![g] = r]
    BY GotoType DEF Report
<1> HIDE DEF r
<1>2. /\ runs[g].pc = "report" /\ runs[g].row # 0
      /\ processes[g].state = "ended" /\ runs[g].status = Outcome(g)
      /\ UNCHANGED <<runTable, processes>> /\ runFaults' \in Nat /\ (runFaults' = 0 => runFaults = 0)
      /\ told \subseteq told' /\ told' \subseteq told \cup {t}
    BY RunsFaultType, RunType DEF Report, StoryOK
<1>3. \A h \in RunRequests : runs'[h] = (IF h = g THEN r ELSE runs[h])
    BY <1>1 DEF RunsInv, RunsTypeOK
<1>4. \A h \in RunRequests : runs'[h].row = runs[h].row /\ Outcome(h)' = Outcome(h)
    BY <1>1, <1>2, <1>3 DEF Outcome
<1>5. t \in [row : Nat, status : RunStatuses] /\ t.row = runs[g].row /\ t.status = Outcome(g)
    BY <1>2, RunType
<1>6. RunsTypeOK'
    BY <1>1, <1>2, <1>4, <1>5 DEF RunsInv, RunsTypeOK
<1>7. OwnRow' /\ RowsHaveRuns'
    BY <1>2, <1>4 DEF RunsInv, OwnRow, RowsHaveRuns
<1>8. ReportsHaveRuns'
    <2> SUFFICES ASSUME NEW u \in told'
                 PROVE  \E h \in RunRequests : /\ runs'[h].row = u.row /\ runs'[h].pc = "done" /\ u.row # 0
                                            /\ processes'[h].state = "ended" /\ u.status = Outcome(h)'
        BY DEF ReportsHaveRuns
    <2>1. CASE u = t
        BY <1>1, <1>2, <1>3, <1>4, <1>5, <2>1
    <2>2. CASE u \in told
        BY <1>1, <1>2, <1>3, <1>4, <2>2 DEF RunsInv, ReportsHaveRuns
    <2>q. QED BY <1>2, <2>1, <2>2
<1>9. ASSUME NEW h \in RunRequests PROVE StoryOK(h)'
    <2>1. CASE h = g
        BY <1>1, <1>2, <1>3, <2>1, RunType DEF StoryOK, Outcome
    <2>2. CASE h # g
        BY <1>2, <1>3, <2>2, OtherStories
    <2>q. QED BY <2>1, <2>2
<1>q. QED BY <1>6, <1>7, <1>8, <1>9 DEF RunsInv

\* A restart ends goroutines and playbooks where they are; it is a fault, and
\* the rows are left as they were.
LEMMA RunsRestartInv ==
    ASSUME RunsInv, ReplaceContainer
    PROVE  RunsInv'
<1>1. runFaults' \in Nat /\ runFaults' # 0 /\ UNCHANGED <<runTable, told>>
    BY DEF ReplaceContainer, RunFault, RunsInv, RunsTypeOK
<1>2. ASSUME NEW g \in RunRequests
      PROVE  /\ runs'[g] \in Run /\ runs'[g].row = runs[g].row
             /\ runs'[g].pc = IF runs[g].pc = "new" THEN "new" ELSE "done"
    BY GotoType, RunType DEF ReplaceContainer
<1>3. ASSUME NEW g \in RunRequests
      PROVE  /\ processes'[g] \in Process
             /\ processes[g].state \in {"running", "orphans"} => processes'[g].state = "ended"
             /\ processes[g].state \notin {"running", "orphans"} => processes'[g] = processes[g]
    BY RunType DEF ReplaceContainer, Process
<1>4. RunsTypeOK'
    <2>1. runs' \in [RunRequests -> Run] /\ processes' \in [RunRequests -> Process]
        BY <1>2, <1>3 DEF ReplaceContainer
    <2>q. QED BY <1>1, <1>2, <2>1 DEF RunsInv, RunsTypeOK
<1>5. OwnRow' /\ RowsHaveRuns'
    BY <1>1, <1>2 DEF RunsInv, OwnRow, RowsHaveRuns
<1>6. ReportsHaveRuns'
    BY <1>1, <1>2, <1>3 DEF RunsInv, ReportsHaveRuns, Outcome
<1>7. ASSUME NEW g \in RunRequests PROVE StoryOK(g)'
    BY <1>1, <1>2, <1>3, RunType DEF StoryOK, Outcome
<1>q. QED BY <1>4, <1>5, <1>6, <1>7 DEF RunsInv

LEMMA NextRuns == RunsInv /\ [RunsNext]_runVars => RunsInv'
<1> SUFFICES ASSUME RunsInv, [RunsNext]_runVars PROVE RunsInv'
    OBVIOUS
<1>1. CASE UNCHANGED runVars
    BY <1>1 DEF runVars, RunsInv, RunsTypeOK, OwnRow, RowsHaveRuns, ReportsHaveRuns,
                StoryOK, Outcome
<1>2. ASSUME NEW g \in RunRequests,
             \/ Accept(g) \/ RunStep(g) \/ CreateFailed(g) \/ FinishFailed(g)
             \/ PlaybookEnds(g) \/ Timeout(g) \/ OrphansEnd(g)
      PROVE  RunsInv'
    BY <1>2, AcceptInv, LaunchInv, PlaybookInv, CollectInv, CreateInv, FinishInv, ReportInv
    DEF RunStep
<1>q. QED BY <1>1, <1>2, RunsRestartInv DEF RunsNext

LEMMA RunsSafe == RunsSpec => []RunsInv
    BY InitRuns, NextRuns, PTL DEF RunsSpec

\* AnsibleRuns keeps its types, and a row's id names a row.
THEOREM RunsTypeCorrect == RunsSpec => []RunsTypeOK
<1>1. RunsInv => RunsTypeOK
    BY DEF RunsInv
<1>q. QED BY <1>1, RunsSafe, PTL

LEMMA RunsInvTrue == RunsInv => RowsAndReportsAreTrue
<1> SUFFICES ASSUME RunsInv, NEW i \in 1..Len(runTable)
             PROVE  LET ran == {g \in RunRequests : runs[g].row = i}
                        said == {s \in RunStatuses : [row |-> i, status |-> s] \in told}
                    IN  /\ runTable[i] # "running" =>
                              \E g \in ran : processes[g].state = "ended" /\ runTable[i] = Outcome(g)
                        /\ \A s \in said : \E g \in ran : s = Outcome(g)
                        /\ runFaults = 0 =>
                              /\ runTable[i] = "running" =>
                                    \E g \in ran : runs[g].pc \in {"launch", "wait", "finish"}
                              /\ said \subseteq {runTable[i]}
    BY DEF RowsAndReportsAreTrue
<1> DEFINE ran == {g \in RunRequests : runs[g].row = i}
           said == {s \in RunStatuses : [row |-> i, status |-> s] \in told}
<1>1. ASSUME runTable[i] # "running"
      PROVE  \E g \in ran : processes[g].state = "ended" /\ runTable[i] = Outcome(g)
    <2>1. PICK g \in RunRequests : runs[g].row = i
        BY <1>1 DEF RunsInv, RowsHaveRuns
    <2>q. QED BY <1>1, <2>1, RunType DEF StoryOK
<1>2. ASSUME NEW s \in said
      PROVE  \E g \in ran : /\ s = Outcome(g) /\ runs[g].pc = "done"
    <2>1. PICK g \in RunRequests : runs[g].row = i /\ runs[g].pc = "done" /\ s = Outcome(g)
        BY DEF RunsInv, ReportsHaveRuns
    <2>q. QED BY <2>1
<1>3. ASSUME runFaults = 0, runTable[i] = "running"
      PROVE  \E g \in ran : runs[g].pc \in {"launch", "wait", "finish"}
    <2>1. PICK g \in RunRequests : runs[g].row = i
        BY <1>3 DEF RunsInv, RowsHaveRuns
    <2>2. runs[g].pc \in {"launch", "wait", "finish"}
        BY <1>3, <2>1, RunType DEF StoryOK, Run
    <2>q. QED BY <2>1, <2>2
<1>4. ASSUME runFaults = 0, NEW s \in said PROVE s = runTable[i]
    <2>1. PICK g \in ran : s = Outcome(g) /\ runs[g].pc = "done"
        BY <1>2
    <2>q. QED BY <1>4, <2>1, RunType DEF StoryOK
<1>q. QED BY <1>1, <1>2, <1>3, <1>4

\* Whatever other runs do meanwhile, in whatever order they end: a row and a
\* report tell how their own run ended, and without a fault each row is
\* finished by its run.
THEOREM RunsTrue == RunsSpec => []RowsAndReportsAreTrue
    BY RunsInvTrue, RunsSafe, PTL

=============================================================================
