---------------------------- MODULE FleetProofs ----------------------------
(***************************************************************************)
(* What holds of Fleet for every set of names, addresses, commands and     *)
(* requests, every time-out and every bound: whom an answer is about, who  *)
(* is answered, and what an answer may say; and, with what the functions   *)
(* of Outputs do to texts, lists and counters of any size, that an answer  *)
(* is what was printed (Answers).                                          *)
(***************************************************************************)
EXTENDS Answers, StorageProofs, WellFoundedInduction, TLAPS

-----------------------------------------------------------------------------
(* The invariant.  It follows a server from the lists it was looked up in  *)
(* (Visible, shown, kept) through the servers a request has still to run   *)
(* (todo) to the answer in its hands and the answers it sent.              *)

\* The answer in the hands of a request is as good as sent.
InHand(req) == IF req.pc \in {"save", "send"} THEN {req.current} ELSE {}

Given(req) == Reports(req.answers \cup InHand(req))

\* Nothing was looked up yet.
Fresh(req) ==
    /\ req.pc \in {"new", "ask", "keyboard"} => req.kept = {}
    /\ req.pc \in {"new", "ask", "keyboard", "resolve"} => req.todo = {} /\ req.answers = {}
    /\ req.pc \in {"ask", "keyboard"} => req.check \notin Direct

\* What some reader could be shown while the name is looked up is kept track
\* of: a list that was in sight at any time is in shown, and what every one
\* of them had is in kept.
LookedUp(req, lists) ==
    req.pc = "resolve" => \A list \in lists : list \subseteq req.shown /\ req.kept \subseteq list

OnceEach(req) ==
    /\ \A s, t \in req.todo : s.name = t.name => s = t
    /\ \A a, b \in Given(req) : a.name = b.name => a = b
    /\ \A s \in req.todo, a \in Given(req) : s.name # a.name

AboutAsked(req) ==
    /\ \A s \in req.todo : IsAbout(req, s)
    /\ \A a \in Given(req) : IsAbout(req, ServerOf(a))

\* Default gives a server: which one depends on the configuration, that there
\* is one does not.
HasDefault(check, target, list) ==
    \/ check = "ping"
    \/ list # {} /\ (check = "docker" \/ (check = "logs" /\ target = NoTarget))

\* A server that was asked for and always there is still to be run, or
\* answered for.
Covered(req) ==
    req.pc \in {"run", "save", "send", "done"} /\ ~req.lost /\ ~req.dead =>
        /\ \A s \in req.kept : AsksFor(req, s) =>
               \/ \E t \in req.todo : t.name = s.name
               \/ \E a \in Given(req) : a.name = s.name
        /\ HasDefault(req.check, req.target, req.kept) => req.todo # {} \/ Given(req) # {}
        /\ req.pc = "done" => req.todo = {}

\* A report says what its check makes of the condition and of what came back.
TrueVerdicts(req) == \A a \in Given(req) : a.verdict = Verdict(req.check, a.condition, a.part)

\* Only the commands of cron are kept, and of servers only.
SavesServers(req) ==
    req.pc = "save" => req.check \in {"list", "timers"} /\ req.current.name \in Names

RequestOK(req) ==
    /\ Fresh(req) /\ OnceEach(req) /\ AboutAsked(req)
    /\ Covered(req) /\ TrueVerdicts(req) /\ SavesServers(req)

FleetInv == TypeOK /\ \A r \in Requests : RequestOK(requests[r]) /\ LookedUp(requests[r], Visible)

-----------------------------------------------------------------------------
(* Lists of servers.                                                       *)

\* A list names each of its servers once.
ServerList(list) == list \subseteq Server /\ \A s, t \in list : s.name = t.name => s = t

LEMMA SubList ==
    ASSUME NEW list, ServerList(list), NEW sub \in SUBSET list
    PROVE  ServerList(sub)
    BY DEF ServerList

\* The configuration and the table may share a name; a merged list does not.
LEMMA MergeType ==
    ASSUME NEW cfg, NEW rows
    PROVE  ServerList(Merge(cfg, rows)) /\ Configured(cfg) \subseteq Merge(cfg, rows)
<1>1. Configured(cfg) \subseteq Server /\ Active(rows) \subseteq Server
    BY DEF Configured, Active
<1>2. ASSUME NEW s \in Server, NEW t \in Server, s.name = t.name, s.host = t.host PROVE s = t
    BY <1>2 DEF Server
<1>3. ASSUME NEW s \in Configured(cfg), NEW t \in Configured(cfg), s.name = t.name PROVE s.host = t.host
    BY <1>3 DEF Configured
<1>4. ASSUME NEW s \in Active(rows), NEW t \in Active(rows), s.name = t.name PROVE s.host = t.host
  <2>1. PICK row : row = rows[s.name]
      OBVIOUS
  <2>2. row.host = s.host
      BY <2>1 DEF Active
  <2>3. row.host = t.host
      BY <2>1, <1>4 DEF Active
  <2>q. QED BY <2>2, <2>3
<1>5. ASSUME NEW s \in Configured(cfg), NEW t \in Server, s.name = t.name PROVE cfg[t.name] # NoHost
  <2>1. cfg[t.name] = s.host /\ s.host \in Hosts
      BY <1>5 DEF Configured, Server
  <2>q. QED BY <2>1, FleetAssumption
<1>q. QED BY <1>1, <1>2, <1>3, <1>4, <1>5 DEF ServerList, Merge

LEMMA StoreType ==
    ASSUME TypeOK
    PROVE  /\ table \in Seq(Table) /\ Len(table) > 0 /\ Len(table) \in Nat
           /\ useReplica \in BOOLEAN
           /\ Primary(table) \in Table
<1>1. table \in Seq(Table) /\ table # <<>>
    BY DEF TypeOK
<1>2. Len(table) \in Nat /\ Len(table) > 0
    BY <1>1, EmptySeq, LenProperties
<1>3. useReplica \in BOOLEAN
    BY DEF TypeOK, ConnectOutcomes
<1>q. QED BY <1>1, <1>2, <1>3, PrimaryType

\* What GetServers returns is in sight.
LEMMA ListInSight ==
    ASSUME TypeOK
    PROVE  GetServers \in Visible /\ ServerList(GetServers)
<1>1. Len(table) \in Nat /\ Len(table) > 0
    BY StoreType
<1>2. 1 \in 1..Len(table) /\ Len(table) \in {Len(table)}
    BY <1>1
<1>3. ServerList(GetServers)
    BY MergeType DEF GetServers
<1>4. GetServers \in Visible
    BY <1>2 DEF GetServers, Visible, ReadPool, Primary, Replica
<1>q. QED BY <1>3, <1>4

LEMMA ListInSightWithoutDB ==
    ASSUME TypeOK, NEW list \in ListsWithoutDB
    PROVE  list \subseteq GetServers /\ ServerList(list) /\ Configured(config) \subseteq list
<1>1. Configured(config) \subseteq GetServers
    BY MergeType DEF GetServers
<1>2. list \subseteq GetServers /\ Configured(config) \subseteq list
    BY <1>1 DEF ListsWithoutDB
<1>q. QED BY <1>2, ListInSight, SubList

LEMMA DefaultThere ==
    ASSUME NEW check, NEW target, NEW list
    PROVE  HasDefault(check, target, list) <=> Default(check, target, list) # {}
    BY DEF HasDefault, Default, First

\* What a target stands for in a list, and what of it is left out.
LEMMA AskedServers ==
    ASSUME NEW list, ServerList(list), NEW check, NEW target \in Targets,
           NEW asked \in Asked(check, target, list)
    PROVE  /\ asked \subseteq list \cup {Local}
           /\ \A s, t \in asked : s.name = t.name => s = t
           /\ \A s \in asked :
                 \/ s # Local /\ (s.name = target \/ (target = All /\ check \in Scans))
                 \/ /\ check \in Direct
                    /\ check = "logs" => target = NoTarget
                    /\ (s = Local) <=> (check = "ping")
                    /\ Named(target, list) = {}
           /\ \A kept \in SUBSET list :
                 /\ \A s \in kept : s.name = target \/ (target = All /\ check \in Scans) => s \in asked
                 /\ HasDefault(check, target, kept) => asked # {}
<1>1. Local \notin list
  <2>1. \A s \in list : s.name \in Names
      BY DEF ServerList, Server
  <2>q. QED BY <2>1, FleetAssumption DEF Local
<1>2. Named(target, list) \subseteq list /\ \A s \in Named(target, list) : s.name = target
    BY DEF Named
<1>3. \A s \in list : s.name = target => s \in Named(target, list)
    BY DEF Named
<1>4. First(list) \subseteq list /\ (First(list) = {} <=> list = {})
    BY DEF First
<1>5. \A kept \in SUBSET list : HasDefault(check, target, kept) => Default(check, target, list) # {}
  <2>1. \A kept \in SUBSET list : HasDefault(check, target, kept) => HasDefault(check, target, list)
      BY DEF HasDefault
  <2>q. QED BY <2>1, DefaultThere
<1>6. /\ check = "ping" => Default(check, target, list) = {Local}
      /\ check # "ping" /\ (check = "docker" \/ (check = "logs" /\ target = NoTarget))
            => Default(check, target, list) = First(list)
      /\ ~(check = "ping" \/ check = "docker" \/ (check = "logs" /\ target = NoTarget))
            => Default(check, target, list) = {}
    BY DEF Default
<1>7. check \in Scans => check \notin {"ping", "docker", "logs"}
    BY DEF Scans
<1>8. CASE target = All /\ check \in Scans
  <2>1. asked = list
      BY <1>8 DEF Asked
  <2>2. \A kept \in SUBSET list : ~HasDefault(check, target, kept)
      BY <1>7, <1>8 DEF HasDefault
  <2>q. QED BY <1>1, <1>8, <2>1, <2>2 DEF ServerList
<1>9. CASE ~(target = All /\ check \in Scans) /\ Named(target, list) # {}
  <2>1. asked = Named(target, list)
      BY <1>9 DEF Asked
  <2>q. QED BY <1>1, <1>2, <1>3, <1>9, <2>1 DEF ServerList
<1>10. CASE ~(target = All /\ check \in Scans) /\ Named(target, list) = {} /\ Default(check, target, list) # {}
  <2>1. PICK s \in Default(check, target, list) : asked = {s}
      BY <1>10 DEF Asked
  <2>2. check \in Direct /\ (check = "logs" => target = NoTarget)
      BY <1>6, <1>10 DEF Direct
  <2>3. s \in list \cup {Local} /\ ((s = Local) <=> (check = "ping"))
      BY <1>1, <1>4, <1>6, <2>1, <1>10
  <2>4. \A t \in list : t.name # target
      BY <1>3, <1>10
  <2>q. QED BY <1>10, <2>1, <2>2, <2>3, <2>4
<1>11. CASE ~(target = All /\ check \in Scans) /\ Named(target, list) = {} /\ Default(check, target, list) = {}
  <2>1. asked = {}
      BY <1>11 DEF Asked
  <2>2. \A t \in list : t.name # target
      BY <1>3, <1>11
  <2>3. \A kept \in SUBSET list : ~HasDefault(check, target, kept)
      BY <1>5, <1>11
  <2>q. QED BY <1>11, <2>1, <2>2, <2>3
<1>q. QED BY <1>8, <1>9, <1>10, <1>11

-----------------------------------------------------------------------------
(* Verdicts.                                                               *)

\* Every command has a verdict for everything that may come back, and the
\* commands whose output says that it is there do not take its absence for
\* good news.
LEMMA VerdictType ==
    ASSUME NEW check \in Checks, NEW condition \in Conditions, NEW part \in Parts
    PROVE  LET verdict == Verdict(check, condition, part)
           IN  /\ verdict \in {"nothing", "something", "unknown"}
               /\ verdict = "nothing" /\ check \in {"status", "top", "versions", "updates", "backups", "timers"}
                     => part # "none"
               /\ verdict = "nothing" /\ check \in {"versions", "updates", "backups", "timers"}
                     => condition = "nothing" \/ part = "first"
<1>1. check \in {"status", "top", "versions", "updates", "backups", "list", "timers",
                 "host", "image", "docker", "logs", "ping"}
    BY FleetAssumption DEF Scans, Direct
<1>2. condition \in {"nothing", "something", "lacking"} /\ part \in {"all", "first", "none"}
    BY DEF Conditions, Parts
<1>3. CASE check = "status"
    BY <1>2, <1>3 DEF Verdict, StatusVerdict
<1>4. CASE check = "top"
    BY <1>2, <1>4 DEF Verdict, TopVerdict
<1>5. CASE check = "versions"
    BY <1>2, <1>5 DEF Verdict, VersionsVerdict
<1>6. CASE check = "updates"
    BY <1>2, <1>6 DEF Verdict, UpdatesVerdict
<1>7. CASE check = "backups"
    BY <1>2, <1>7 DEF Verdict, BackupsVerdict
<1>8. CASE check = "list"
    BY <1>2, <1>8 DEF Verdict, ListVerdict
<1>9. CASE check = "timers"
    BY <1>2, <1>9 DEF Verdict, TimersVerdict
<1>10. CASE check = "host"
    BY <1>2, <1>10 DEF Verdict, HostVerdict
<1>11. CASE check = "image"
    BY <1>2, <1>11 DEF Verdict, ImageVerdict
<1>12. CASE check = "docker"
    BY <1>2, <1>12 DEF Verdict, DockerVerdict
<1>13. CASE check = "logs"
    BY <1>2, <1>13 DEF Verdict, LogsVerdict
<1>14. CASE check = "ping"
    BY <1>2, <1>14 DEF Verdict, PingVerdict
<1>q. QED
    BY <1>1, <1>3, <1>4, <1>5, <1>6, <1>7, <1>8, <1>9, <1>10, <1>11, <1>12, <1>13, <1>14

-----------------------------------------------------------------------------
(* Steps of one request.                                                   *)

\* A request without servers to run and answers given.
LEMMA NothingGiven ==
    ASSUME NEW q, q.todo = {}, q.answers = {}, q.pc \notin {"save", "send"}
    PROVE  OnceEach(q) /\ AboutAsked(q) /\ TrueVerdicts(q) /\ SavesServers(q)
<1>1. Given(q) = {}
    BY DEF Given, Reports, InHand
<1>q. QED BY <1>1 DEF OnceEach, AboutAsked, TrueVerdicts, SavesServers

LEMMA LookUpOK ==
    ASSUME NEW p \in Request, RequestOK(p), p.pc \in {"new", "keyboard"}, NEW target \in Targets,
           Visible \subseteq SUBSET Server, NEW q, q = LookUp(p, target)
    PROVE  q \in Request /\ RequestOK(q) /\ LookedUp(q, Visible)
<1>1. q \in Request
    BY DEF LookUp, Request
<1>2. q.pc = "resolve" /\ q.todo = p.todo /\ q.answers = p.answers
    BY DEF LookUp, Request
<1>3. q.shown = UNION Visible /\ q.kept = {s \in Server : \A list \in Visible : s \in list}
    BY DEF LookUp, Request
<1>4. p.todo = {} /\ p.answers = {}
    BY DEF RequestOK, Fresh
<1>5. Fresh(q) /\ Covered(q)
    BY <1>2, <1>4 DEF Fresh, Covered
<1>6. OnceEach(q) /\ AboutAsked(q) /\ TrueVerdicts(q) /\ SavesServers(q)
    BY <1>2, <1>4, NothingGiven
<1>7. LookedUp(q, Visible)
    BY <1>3 DEF LookedUp
<1>q. QED BY <1>1, <1>5, <1>6, <1>7 DEF RequestOK

LEMMA SameServer ==
    ASSUME NEW p, NEW q, q.check = p.check, q.target = p.target,
           p.shown \subseteq q.shown, q.kept \subseteq p.kept,
           NEW s, IsAbout(p, s)
    PROVE  IsAbout(q, s)
<1>1. Named(q.target, q.kept) \subseteq Named(p.target, p.kept)
    BY DEF Named
<1>2. AsksFor(p, s) => AsksFor(q, s)
    BY DEF AsksFor
<1>3. FallsBackOn(p, s) => FallsBackOn(q, s)
    BY <1>1 DEF FallsBackOn
<1>q. QED BY <1>2, <1>3 DEF IsAbout

\* What holds of servers and reports holds of some of them.
LEMMA FewerServers ==
    ASSUME NEW p, RequestOK(p), NEW q, q.check = p.check, q.target = p.target,
           p.shown \subseteq q.shown, q.kept \subseteq p.kept,
           q.todo \subseteq p.todo, Given(q) \subseteq Given(p)
    PROVE  OnceEach(q) /\ AboutAsked(q) /\ TrueVerdicts(q)
<1>1. OnceEach(q)
    BY DEF RequestOK, OnceEach
<1>2. AboutAsked(q)
    BY SameServer DEF RequestOK, AboutAsked
<1>3. TrueVerdicts(q)
    BY DEF RequestOK, TrueVerdicts
<1>q. QED BY <1>1, <1>2, <1>3

\* A request that ends before its work did keeps what it gave, but not what
\* it had in hand.
LEMMA LostOK ==
    ASSUME NEW p \in Request, RequestOK(p), NEW lists,
           NEW q, q = [p EXCEPT !.pc = "done", !.lost = TRUE]
    PROVE  q \in Request /\ RequestOK(q) /\ LookedUp(q, lists)
<1>1. q \in Request
    BY Zenon DEF Request
<1>2. q.pc = "done" /\ q.lost
    BY Zenon DEF Request
<1>3. /\ q.todo = p.todo /\ q.answers = p.answers /\ q.shown = p.shown /\ q.kept = p.kept
      /\ q.check = p.check /\ q.target = p.target
    BY Zenon DEF Request
<1>4. Given(q) \subseteq Given(p)
    BY <1>2, <1>3 DEF Given, Reports, InHand
<1>5. OnceEach(q) /\ AboutAsked(q) /\ TrueVerdicts(q)
    BY <1>3, <1>4, FewerServers
<1>6. Fresh(q) /\ SavesServers(q) /\ LookedUp(q, lists)
    BY <1>2 DEF Fresh, SavesServers, LookedUp
<1>7. Covered(q)
    BY <1>2, Zenon DEF Covered
<1>q. QED BY <1>1, <1>5, <1>6, <1>7 DEF RequestOK

\* Buttons of /scan image.
LEMMA DeadOK ==
    ASSUME NEW p \in Request, RequestOK(p), p.pc = "keyboard", NEW lists,
           NEW q, q = [p EXCEPT !.pc = "done", !.dead = TRUE]
    PROVE  q \in Request /\ RequestOK(q) /\ LookedUp(q, lists)
<1>1. q \in Request
    BY Zenon DEF Request
<1>2. q.pc = "done" /\ q.dead
    BY Zenon DEF Request
<1>3. q.todo = p.todo /\ q.answers = p.answers
    BY Zenon DEF Request
<1>4. p.todo = {} /\ p.answers = {}
    BY DEF RequestOK, Fresh
<1>5. OnceEach(q) /\ AboutAsked(q) /\ TrueVerdicts(q) /\ SavesServers(q)
    BY <1>2, <1>3, <1>4, NothingGiven
<1>6. Fresh(q) /\ LookedUp(q, lists)
    BY <1>2 DEF Fresh, LookedUp
<1>7. Covered(q)
    BY <1>2, Zenon DEF Covered
<1>q. QED BY <1>1, <1>5, <1>6, <1>7 DEF RequestOK

LEMMA AskOK ==
    ASSUME NEW p \in Request, RequestOK(p), p.pc = "new", p.check \notin Direct, NEW lists,
           NEW q, q = [p EXCEPT !.pc = "ask"]
    PROVE  q \in Request /\ RequestOK(q) /\ LookedUp(q, lists)
<1>1. q \in Request
    BY DEF Request
<1>2. q.pc = "ask" /\ q.todo = p.todo /\ q.answers = p.answers /\ q.kept = p.kept /\ q.check = p.check
    BY DEF Request
<1>3. p.todo = {} /\ p.answers = {} /\ p.kept = {}
    BY DEF RequestOK, Fresh
<1>4. OnceEach(q) /\ AboutAsked(q) /\ TrueVerdicts(q) /\ SavesServers(q)
    BY <1>2, <1>3, NothingGiven
<1>5. Fresh(q) /\ Covered(q) /\ LookedUp(q, lists)
    BY <1>2, <1>3 DEF Fresh, Covered, LookedUp
<1>q. QED BY <1>1, <1>4, <1>5 DEF RequestOK

LEMMA OfferOK ==
    ASSUME NEW p \in Request, RequestOK(p), p.pc = "ask", NEW list \in SUBSET Server, NEW lists,
           NEW q, q = Offer(p, list)
    PROVE  q \in Request /\ RequestOK(q) /\ LookedUp(q, lists)
<1>1. q \in Request
  <2>1. {s.name : s \in list} \cup (IF p.check \in Scans THEN {All} ELSE {}) \in SUBSET Targets
      BY DEF Server, Targets
  <2>q. QED BY <2>1 DEF Offer, Request
<1>2. /\ q.pc \in {"keyboard", "done"}
      /\ q.todo = p.todo /\ q.answers = p.answers /\ q.kept = p.kept /\ q.check = p.check /\ q.target = p.target
    BY DEF Offer, Request
<1>3. p.todo = {} /\ p.answers = {} /\ p.kept = {} /\ p.check \notin Direct
    BY DEF RequestOK, Fresh
<1>4. OnceEach(q) /\ AboutAsked(q) /\ TrueVerdicts(q) /\ SavesServers(q)
    BY <1>2, <1>3, NothingGiven
<1>5. Fresh(q) /\ LookedUp(q, lists)
    BY <1>2, <1>3 DEF Fresh, LookedUp
<1>6. Covered(q)
  <2>1. ~HasDefault(q.check, q.target, q.kept)
      BY <1>2, <1>3 DEF HasDefault, Direct
  <2>q. QED BY <1>2, <1>3, <2>1 DEF Covered
<1>q. QED BY <1>1, <1>4, <1>5, <1>6 DEF RequestOK

\* A request that resolved its name: to servers of a list in sight, all of
\* those in it that were always there.
LEMMA ResolvedOK ==
    ASSUME NEW p \in Request, RequestOK(p), p.pc = "resolve",
           NEW list, ServerList(list), list \subseteq p.shown,
           NEW asked \in Asked(p.check, p.target, list),
           NEW kept \in SUBSET p.kept, kept \subseteq list, NEW lists,
           NEW q, q = [Resolved(p, asked) EXCEPT !.kept = kept]
    PROVE  q \in Request /\ RequestOK(q) /\ LookedUp(q, lists)
<1>1. p.target \in Targets /\ p.todo = {} /\ p.answers = {}
    BY DEF Request, RequestOK, Fresh
<1>2. /\ asked \subseteq list \cup {Local}
      /\ \A s, t \in asked : s.name = t.name => s = t
      /\ \A s \in asked :
            \/ s # Local /\ (s.name = p.target \/ (p.target = All /\ p.check \in Scans))
            \/ /\ p.check \in Direct
               /\ p.check = "logs" => p.target = NoTarget
               /\ (s = Local) <=> (p.check = "ping")
               /\ Named(p.target, list) = {}
      /\ \A s \in kept : s.name = p.target \/ (p.target = All /\ p.check \in Scans) => s \in asked
      /\ HasDefault(p.check, p.target, kept) => asked # {}
    BY <1>1, AskedServers
<1>3. list \subseteq Server
    BY DEF ServerList
<1>4. q \in Request
  <2>1. asked \in SUBSET (Server \cup {Local})
      BY <1>2, <1>3
  <2>2. [NoAnswer EXCEPT !.name = p.target, !.verdict = "notFound"] \in Answer
      BY <1>1 DEF NoAnswer, Answer, Verdicts, Conditions, Parts
  <2>q. QED BY <2>1, <2>2 DEF Resolved, Request
<1>5. /\ q.todo = asked /\ q.answers = {} /\ q.kept = kept /\ q.shown = p.shown
      /\ q.check = p.check /\ q.target = p.target
      /\ q.pc = IF asked # {} THEN "run" ELSE "send"
    BY <1>1 DEF Resolved, Request
<1>6. Given(q) = {}
  <2>1. CASE asked # {}
      BY <1>5, <2>1 DEF Given, Reports, InHand
  <2>2. CASE asked = {}
    <3>1. q.current.verdict = "notFound"
        BY <2>2 DEF Resolved, Request, NoAnswer
    <3>q. QED BY <1>5, <3>1, <2>2 DEF Given, Reports, InHand
  <2>q. QED BY <2>1, <2>2
<1>7. Fresh(q) /\ SavesServers(q) /\ LookedUp(q, lists)
    BY <1>5 DEF Fresh, SavesServers, LookedUp
<1>8. OnceEach(q) /\ TrueVerdicts(q)
    BY <1>2, <1>5, <1>6 DEF OnceEach, TrueVerdicts
<1>9. AboutAsked(q)
  <2> SUFFICES ASSUME NEW s \in asked PROVE IsAbout(q, s)
      BY <1>5, <1>6 DEF AboutAsked
  <2>1. s \in q.shown \cup {Local}
      BY <1>2, <1>5
  <2>2. Named(p.target, kept) \subseteq Named(p.target, list)
      BY DEF Named
  <2>q. QED BY <1>2, <1>5, <2>1, <2>2 DEF IsAbout, AsksFor, FallsBackOn
<1>10. Covered(q)
  <2>1. \A s \in q.kept : AsksFor(q, s) => s \in q.todo
      BY <1>2, <1>5 DEF AsksFor
  <2>2. HasDefault(q.check, q.target, q.kept) => q.todo # {}
      BY <1>2, <1>5
  <2>q. QED BY <1>5, <2>1, <2>2 DEF Covered
<1>q. QED BY <1>4, <1>7, <1>8, <1>9, <1>10 DEF RequestOK

\* A server that was run is in the request's hands instead of before it.
LEMMA ReportOK ==
    ASSUME NEW p \in Request, RequestOK(p), p.pc = "run",
           NEW s \in p.todo, NEW condition \in Conditions, NEW part \in Parts,
           NEW c, c = [name |-> s.name, host |-> s.host, condition |-> condition, part |-> part,
                       verdict |-> Verdict(p.check, condition, part)],
           NEW lists,
           NEW q, q = [p EXCEPT !.pc = IF p.check \in {"list", "timers"} THEN "save" ELSE "send",
                                !.todo = @ \ {s}, !.current = c]
    PROVE  q \in Request /\ RequestOK(q) /\ LookedUp(q, lists)
<1>1. s \in Server \cup {Local} /\ p.check \in Checks
    BY DEF Request
<1>2. s.name \in Targets /\ s.host \in Hosts \cup {NoHost} /\ ServerOf(c) = s
    BY <1>1 DEF Server, Local, Targets, ServerOf
<1>3. c.verdict \in {"nothing", "something", "unknown"} /\ c \in Answer
  <2>1. Verdict(p.check, condition, part) \in {"nothing", "something", "unknown"}
      BY <1>1, VerdictType
  <2>q. QED BY <1>2, <2>1 DEF Answer, Verdicts
<1>4. q \in Request
    BY <1>3 DEF Request
<1>5. /\ q.pc = IF p.check \in {"list", "timers"} THEN "save" ELSE "send"
      /\ q.todo = p.todo \ {s} /\ q.current = c /\ q.answers = p.answers
      /\ q.check = p.check /\ q.target = p.target /\ q.shown = p.shown /\ q.kept = p.kept
      /\ q.lost = p.lost /\ q.dead = p.dead
    BY DEF Request
<1>6. Given(q) = Given(p) \cup {c} /\ c.name = s.name
    BY <1>3, <1>5 DEF Given, Reports, InHand
<1>7. OnceEach(q)
    BY <1>5, <1>6 DEF RequestOK, OnceEach
<1>8. IsAbout(p, s)
    BY DEF RequestOK, AboutAsked
<1>9. AboutAsked(q)
  <2>1. ASSUME NEW t, IsAbout(p, t) PROVE IsAbout(q, t)
    <3>1. p.shown \subseteq q.shown /\ q.kept \subseteq p.kept
        BY <1>5, Zenon
    <3>2. q.check = p.check /\ q.target = p.target
        BY <1>5, Zenon
    <3>q. QED BY <2>1, <3>1, <3>2, SameServer, Zenon
  <2>2. \A t \in q.todo : IsAbout(q, t)
      BY <1>5, <2>1 DEF RequestOK, AboutAsked
  <2>3. \A a \in Given(p) : IsAbout(q, ServerOf(a))
      BY <2>1 DEF RequestOK, AboutAsked
  <2>4. IsAbout(q, ServerOf(c))
      BY <1>2, <1>8, <2>1
  <2>q. QED BY <1>6, <2>2, <2>3, <2>4 DEF AboutAsked
<1>10. TrueVerdicts(q)
    BY <1>5, <1>6 DEF RequestOK, TrueVerdicts
<1>11. Covered(q)
  <2>1. \A t \in q.kept : AsksFor(q, t) <=> AsksFor(p, t)
      BY <1>5 DEF AsksFor
  <2>q. QED BY <1>5, <1>6, <2>1 DEF RequestOK, Covered
<1>12. SavesServers(q)
  <2>1. p.check \in {"list", "timers"} => s \in Server
      BY <1>1, <1>8 DEF IsAbout, FallsBackOn, Direct
  <2>q. QED BY <1>5, <2>1 DEF SavesServers, Server
<1>13. Fresh(q) /\ LookedUp(q, lists)
    BY <1>5 DEF Fresh, LookedUp
<1>q. QED BY <1>4, <1>7, <1>9, <1>10, <1>11, <1>12, <1>13 DEF RequestOK

\* Handing an answer on changes nothing of what is given.
LEMMA HandedOn ==
    ASSUME NEW p \in Request, RequestOK(p), p.pc \in {"save", "send"},
           NEW q \in Request, q.check = p.check, q.target = p.target,
           q.shown = p.shown, q.kept = p.kept, q.lost = p.lost, q.dead = p.dead,
           q.todo = p.todo, Given(q) = Given(p),
           q.pc \in {"run", "send", "done"}, q.pc = "done" => q.todo = {}, NEW lists
    PROVE  RequestOK(q) /\ LookedUp(q, lists)
<1>1. OnceEach(q) /\ AboutAsked(q) /\ TrueVerdicts(q)
    BY FewerServers
<1>2. Fresh(q) /\ SavesServers(q) /\ LookedUp(q, lists)
    BY DEF Fresh, SavesServers, LookedUp
<1>3. Covered(q)
  <2>1. \A t \in q.kept : AsksFor(q, t) <=> AsksFor(p, t)
      BY DEF AsksFor
  <2>q. QED BY <2>1 DEF RequestOK, Covered
<1>q. QED BY <1>1, <1>2, <1>3 DEF RequestOK

LEMMA SavedOK ==
    ASSUME NEW p \in Request, RequestOK(p), p.pc = "save", NEW lists,
           NEW q, q = [p EXCEPT !.pc = "send"]
    PROVE  q \in Request /\ RequestOK(q) /\ LookedUp(q, lists)
<1>1. q \in Request
    BY DEF Request
<1>2. /\ q.pc = "send" /\ q.todo = p.todo /\ q.current = p.current /\ q.answers = p.answers
      /\ q.check = p.check /\ q.target = p.target /\ q.shown = p.shown /\ q.kept = p.kept
      /\ q.lost = p.lost /\ q.dead = p.dead
    BY DEF Request
<1>3. Given(q) = Given(p)
    BY <1>2 DEF Given, InHand
<1>q. QED BY <1>1, <1>2, <1>3, HandedOn

LEMMA SentOK ==
    ASSUME NEW p \in Request, RequestOK(p), p.pc = "send", NEW lists,
           NEW q, q = [p EXCEPT !.pc = IF p.todo = {} THEN "done" ELSE "run",
                                !.answers = @ \cup {p.current}, !.current = NoAnswer]
    PROVE  q \in Request /\ RequestOK(q) /\ LookedUp(q, lists)
<1>1. q \in Request
  <2>1. NoAnswer \in Answer
      BY DEF NoAnswer, Answer, Targets, Verdicts, Conditions, Parts
  <2>q. QED BY <2>1 DEF Request
<1>2. /\ q.pc = IF p.todo = {} THEN "done" ELSE "run"
      /\ q.todo = p.todo /\ q.answers = p.answers \cup {p.current}
      /\ q.check = p.check /\ q.target = p.target /\ q.shown = p.shown /\ q.kept = p.kept
      /\ q.lost = p.lost /\ q.dead = p.dead
    BY DEF Request
<1>3. Given(q) = Given(p)
    BY <1>2 DEF Given, InHand
<1>4. q.pc \in {"run", "done"} /\ (q.pc = "done" => q.todo = {})
    BY <1>2
<1>5. RequestOK(q) /\ LookedUp(q, lists)
    BY <1>1, <1>2, <1>3, <1>4, HandedOn
<1>q. QED BY <1>1, <1>5

\* A commit that a request looking a name up may be shown.
LEMMA WatchedOK ==
    ASSUME NEW p \in Request, RequestOK(p), p.pc = "resolve", NEW list \in SUBSET Server,
           NEW lists, LookedUp(p, lists),
           NEW q, q = [p EXCEPT !.shown = @ \cup list, !.kept = @ \cap list]
    PROVE  q \in Request /\ RequestOK(q) /\ LookedUp(q, lists \cup {list})
<1>1. q \in Request
    BY DEF Request
<1>2. /\ q.pc = "resolve" /\ q.todo = p.todo /\ q.answers = p.answers
      /\ q.check = p.check /\ q.shown = p.shown \cup list /\ q.kept = p.kept \cap list
    BY DEF Request
<1>3. p.todo = {} /\ p.answers = {}
    BY DEF RequestOK, Fresh
<1>4. OnceEach(q) /\ AboutAsked(q) /\ TrueVerdicts(q) /\ SavesServers(q)
    BY <1>2, <1>3, NothingGiven
<1>5. Fresh(q) /\ Covered(q)
    BY <1>2, <1>3 DEF Fresh, Covered
<1>6. LookedUp(q, lists \cup {list})
    BY <1>2 DEF LookedUp
<1>q. QED BY <1>1, <1>4, <1>5, <1>6 DEF RequestOK

-----------------------------------------------------------------------------
(* The invariant holds initially and is kept by every step.                *)

LEMMA InitInv == Init => FleetInv
<1> SUFFICES ASSUME Init PROVE FleetInv
    OBVIOUS
<1>1. file \in Config /\ config \in Config /\ useReplica \in ConnectOutcomes
    BY InitialServersAssumption DEF Init
<1>2. table \in Seq(Table) /\ table # <<>>
    BY InitialServersAssumption DEF Init
<1>3. snapshots \subseteq Snapshots /\ edits \in 0..MaxEdits /\ faults \in 0..MaxFaults
    BY FleetAssumption DEF Init
<1>4. ASSUME NEW check \in Checks PROVE New(check) \in Request /\ RequestOK(New(check)) /\ New(check).pc = "new"
  <2>1. NoAnswer \in Answer
      BY DEF NoAnswer, Answer, Targets, Verdicts, Conditions, Parts
  <2>2. New(check) \in Request
      BY <2>1, Zenon DEF New, Request, Targets
  <2>3. New(check).pc = "new" /\ New(check).todo = {} /\ New(check).answers = {} /\ New(check).kept = {}
      BY Zenon DEF New
  <2>4. OnceEach(New(check)) /\ AboutAsked(New(check)) /\ TrueVerdicts(New(check)) /\ SavesServers(New(check))
      BY <2>3, NothingGiven
  <2>5. Fresh(New(check)) /\ Covered(New(check))
      BY <2>3 DEF Fresh, Covered
  <2>q. QED BY <2>2, <2>3, <2>4, <2>5 DEF RequestOK
<1>5. requests \in [Requests -> {New(check) : check \in Checks}]
    BY DEF Init
<1>6. ASSUME NEW r \in Requests
      PROVE  requests[r] \in Request /\ RequestOK(requests[r]) /\ LookedUp(requests[r], Visible)
  <2>1. PICK check \in Checks : requests[r] = New(check)
      BY <1>5
  <2>2. requests[r].pc = "new"
      BY <1>4, <2>1
  <2>q. QED BY <1>4, <2>1, <2>2 DEF LookedUp
<1>7. requests \in [Requests -> Request]
    BY <1>5, <1>6
<1>q. QED BY <1>1, <1>2, <1>3, <1>6, <1>7 DEF FleetInv, TypeOK

LEMMA ListsOfServers ==
    ASSUME TypeOK
    PROVE  Visible \subseteq SUBSET Server /\ GetServers \in SUBSET Server
<1>1. \A cfg, rows : Merge(cfg, rows) \subseteq Server
    BY DEF Merge, Configured, Active
<1>q. QED BY <1>1 DEF Visible, GetServers

\* A step of one request.
LEMMA BecomeInv ==
    ASSUME FleetInv, NEW r \in Requests, NEW q \in Request, RequestOK(q), LookedUp(q, Visible),
           Become(r, q), snapshots' \subseteq Snapshots,
           UNCHANGED faults \/ Fault
    PROVE  FleetInv'
<1>1. /\ requests' = [requests EXCEPT ![r] = q]
      /\ UNCHANGED <<file, config, table, useReplica, edits>>
    BY DEF Become, store
<1>2. requests \in [Requests -> Request]
    BY DEF FleetInv, TypeOK
<1>3. requests' \in [Requests -> Request] /\ \A p \in Requests : requests'[p] = IF p = r THEN q ELSE requests[p]
    BY <1>1, <1>2
<1>4. faults' \in 0..MaxFaults
    BY FleetAssumption DEF FleetInv, TypeOK, Fault
<1>5. Visible' = Visible
    BY <1>1 DEF Visible
<1>6. TypeOK'
    BY <1>1, <1>3, <1>4 DEF FleetInv, TypeOK
<1>7. \A p \in Requests : RequestOK(requests'[p]) /\ LookedUp(requests'[p], Visible')
    BY <1>3, <1>5 DEF FleetInv
<1>q. QED BY <1>6, <1>7 DEF FleetInv

LEMMA CommandInv ==
    ASSUME FleetInv, NEW r \in Requests, NEW target \in Targets, Command(r, target)
    PROVE  FleetInv'
<1>1. PICK p \in Request : p = requests[r] /\ RequestOK(p) /\ p.pc = "new"
    BY DEF FleetInv, TypeOK, Command
<1>2. snapshots' \subseteq Snapshots /\ UNCHANGED faults
    BY DEF FleetInv, TypeOK, Command
<1>3. CASE target = NoTarget /\ p.check \notin Direct
  <2>1. PICK q : q = [p EXCEPT !.pc = "ask"]
      OBVIOUS
  <2>2. Become(r, q)
      BY <1>1, <1>3, <2>1 DEF Command
  <2>3. q \in Request /\ RequestOK(q) /\ LookedUp(q, Visible)
      BY <1>1, <1>3, <2>1, AskOK
  <2>q. QED BY <1>2, <2>2, <2>3, BecomeInv
<1>4. CASE ~(target = NoTarget /\ p.check \notin Direct)
  <2>1. PICK q : q = LookUp(p, target)
      OBVIOUS
  <2>2. Become(r, q)
      BY <1>1, <1>4, <2>1 DEF Command
  <2>3. q \in Request /\ RequestOK(q) /\ LookedUp(q, Visible)
      BY <1>1, <2>1, LookUpOK, ListsOfServers DEF FleetInv
  <2>q. QED BY <1>2, <2>2, <2>3, BecomeInv
<1>q. QED BY <1>3, <1>4

LEMMA PressServerInv ==
    ASSUME FleetInv, NEW r \in Requests, NEW target \in Targets, PressServer(r, target)
    PROVE  FleetInv'
<1>1. PICK p \in Request : p = requests[r] /\ RequestOK(p) /\ p.pc = "keyboard"
    BY DEF FleetInv, TypeOK, PressServer
<1>2. snapshots' \subseteq Snapshots /\ UNCHANGED faults
    BY DEF FleetInv, TypeOK, PressServer
<1>3. CASE p.check = "image"
  <2>1. PICK q : q = [p EXCEPT !.pc = "done", !.dead = TRUE]
      OBVIOUS
  <2>2. Become(r, q)
      BY <1>1, <1>3, <2>1, Zenon DEF PressServer
  <2>3. q \in Request /\ RequestOK(q) /\ LookedUp(q, Visible)
      BY <1>1, <2>1, DeadOK, Zenon
  <2>q. QED BY <1>2, <2>2, <2>3, BecomeInv
<1>4. CASE p.check # "image"
  <2>1. PICK q : q = LookUp(p, target)
      OBVIOUS
  <2>2. Become(r, q)
      BY <1>1, <1>4, <2>1, Zenon DEF PressServer
  <2>3. q \in Request /\ RequestOK(q) /\ LookedUp(q, Visible)
      BY <1>1, <2>1, LookUpOK, ListsOfServers DEF FleetInv
  <2>q. QED BY <1>2, <2>2, <2>3, BecomeInv
<1>q. QED BY <1>3, <1>4

\* A request that is lost to a fault.
LEMMA LostInv ==
    ASSUME FleetInv, NEW r \in Requests, Become(r, [requests[r] EXCEPT !.pc = "done", !.lost = TRUE]),
           Fault, UNCHANGED snapshots
    PROVE  FleetInv'
<1>1. PICK p \in Request : p = requests[r] /\ RequestOK(p)
    BY DEF FleetInv, TypeOK
<1>2. PICK q : q = [p EXCEPT !.pc = "done", !.lost = TRUE]
    OBVIOUS
<1>3. Become(r, q)
    BY <1>1, <1>2, Zenon
<1>4. q \in Request /\ RequestOK(q) /\ LookedUp(q, Visible)
    BY <1>1, <1>2, LostOK, Zenon
<1>5. snapshots' \subseteq Snapshots
    BY DEF FleetInv, TypeOK
<1>q. QED BY <1>3, <1>4, <1>5, BecomeInv

LEMMA AskServerInv ==
    ASSUME FleetInv, NEW r \in Requests, AskServer(r)
    PROVE  FleetInv'
<1>1. PICK p \in Request : p = requests[r] /\ RequestOK(p) /\ p.pc = "ask"
    BY Zenon DEF FleetInv, TypeOK, AskServer
<1>2. snapshots' \subseteq Snapshots /\ UNCHANGED snapshots
    BY Zenon DEF FleetInv, TypeOK, AskServer
<1>3. ASSUME NEW list \in SUBSET Server, Become(r, Offer(p, list)), UNCHANGED faults \/ Fault
      PROVE  FleetInv'
  <2>1. PICK q : q = Offer(p, list)
      OBVIOUS
  <2>2. q \in Request /\ RequestOK(q) /\ LookedUp(q, Visible)
      BY <1>1, <2>1, OfferOK
  <2>3. Become(r, q)
      BY <1>3, <2>1
  <2>q. QED BY <1>2, <1>3, <2>2, <2>3, BecomeInv
<1>4. CASE Become(r, Offer(requests[r], GetServers)) /\ UNCHANGED faults
  <2>1. PICK list \in SUBSET Server : list = GetServers
      BY ListsOfServers DEF FleetInv
  <2>q. QED BY <1>1, <1>3, <1>4, <2>1
<1>5. CASE (\E list \in ListsWithoutDB : Become(r, Offer(requests[r], list))) /\ Fault
  <2>1. PICK list \in ListsWithoutDB : Become(r, Offer(requests[r], list))
      BY <1>5
  <2>2. list \in SUBSET Server
      BY ListsOfServers, ListInSightWithoutDB DEF FleetInv
  <2>q. QED BY <1>1, <1>3, <1>5, <2>1, <2>2
<1>6. CASE Become(r, [requests[r] EXCEPT !.pc = "done", !.lost = TRUE]) /\ Fault
    BY <1>2, <1>6, LostInv, Zenon
<1>q. QED BY <1>4, <1>5, <1>6, Zenon DEF AskServer

LEMMA ResolveInv ==
    ASSUME FleetInv, NEW r \in Requests, Resolve(r)
    PROVE  FleetInv'
<1>1. PICK p \in Request : p = requests[r] /\ RequestOK(p) /\ LookedUp(p, Visible) /\ p.pc = "resolve"
    BY DEF FleetInv, TypeOK, Resolve
<1>2. snapshots' \subseteq Snapshots /\ UNCHANGED faults
    BY DEF FleetInv, TypeOK, Resolve
<1>3. PICK list : list = GetServers
    OBVIOUS
<1>4. PICK asked \in Asked(p.check, p.target, list) : Become(r, Resolved(p, asked))
    BY <1>1, <1>3 DEF Resolve
<1>5. ServerList(list) /\ list \subseteq p.shown /\ p.kept \subseteq list
    BY <1>1, <1>3, ListInSight DEF FleetInv, LookedUp
<1>6. PICK q : q = Resolved(p, asked)
    OBVIOUS
<1>7. q = [Resolved(p, asked) EXCEPT !.kept = p.kept]
    BY <1>6 DEF Resolved, Request
<1>8. q \in Request /\ RequestOK(q) /\ LookedUp(q, Visible)
  <2>1. PICK kept \in SUBSET p.kept : kept = p.kept
      OBVIOUS
  <2>q. QED BY <1>1, <1>5, <1>7, <2>1, ResolvedOK
<1>9. Become(r, q)
    BY <1>4, <1>6
<1>q. QED BY <1>2, <1>8, <1>9, BecomeInv

LEMMA ResolveWithoutDBInv ==
    ASSUME FleetInv, NEW r \in Requests, ResolveWithoutDB(r)
    PROVE  FleetInv'
<1>1. PICK p \in Request : p = requests[r] /\ RequestOK(p) /\ LookedUp(p, Visible) /\ p.pc = "resolve"
    BY DEF FleetInv, TypeOK, ResolveWithoutDB
<1>2. snapshots' \subseteq Snapshots /\ Fault
    BY DEF FleetInv, TypeOK, ResolveWithoutDB
<1>3. PICK list \in ListsWithoutDB : \E asked \in Asked(p.check, p.target, list) :
          Become(r, [Resolved(p, asked) EXCEPT !.kept = @ \cap Configured(config)])
    BY <1>1 DEF ResolveWithoutDB
<1>4. PICK asked \in Asked(p.check, p.target, list) :
          Become(r, [Resolved(p, asked) EXCEPT !.kept = @ \cap Configured(config)])
    BY <1>3
<1>5. GetServers \subseteq p.shown
    BY <1>1, ListInSight DEF FleetInv, LookedUp
<1>6. ServerList(list) /\ list \subseteq p.shown /\ Configured(config) \subseteq list
    BY <1>5, ListInSightWithoutDB DEF FleetInv
<1>7. PICK kept \in SUBSET p.kept : kept = p.kept \cap Configured(config)
    OBVIOUS
<1>8. kept \subseteq list
    BY <1>6, <1>7
<1>9. PICK q : q = [Resolved(p, asked) EXCEPT !.kept = kept]
    OBVIOUS
<1>10. q \in Request /\ RequestOK(q) /\ LookedUp(q, Visible)
    BY <1>1, <1>6, <1>8, <1>9, ResolvedOK
<1>11. Become(r, q)
  <2>1. Resolved(p, asked).kept = p.kept
      BY DEF Resolved, Request
  <2>2. q = [Resolved(p, asked) EXCEPT !.kept = @ \cap Configured(config)]
      BY <1>7, <1>9, <2>1
  <2>q. QED BY <1>4, <2>2
<1>q. QED BY <1>2, <1>10, <1>11, BecomeInv

LEMMA ReportInv ==
    ASSUME FleetInv, NEW r \in Requests, requests[r].pc = "run", NEW s \in requests[r].todo,
           NEW condition \in Conditions, NEW part \in Parts, Report(r, s, condition, part),
           UNCHANGED faults \/ Fault, UNCHANGED snapshots
    PROVE  FleetInv'
<1>1. PICK p \in Request : p = requests[r] /\ RequestOK(p) /\ p.pc = "run" /\ s \in p.todo
    BY DEF FleetInv, TypeOK
<1>2. PICK c : c = [name |-> s.name, host |-> s.host, condition |-> condition, part |-> part,
                    verdict |-> Verdict(p.check, condition, part)]
    OBVIOUS
<1>3. PICK q : q = [p EXCEPT !.pc = IF p.check \in {"list", "timers"} THEN "save" ELSE "send",
                             !.todo = @ \ {s}, !.current = c]
    OBVIOUS
<1>4. Become(r, q)
    BY <1>1, <1>2, <1>3, Zenon DEF Report
<1>5. q \in Request /\ RequestOK(q) /\ LookedUp(q, Visible)
    BY <1>1, <1>2, <1>3, ReportOK
<1>6. snapshots' \subseteq Snapshots
    BY DEF FleetInv, TypeOK
<1>q. QED BY <1>4, <1>5, <1>6, BecomeInv

LEMMA RunCheckInv ==
    ASSUME FleetInv, NEW r \in Requests, RunCheck(r)
    PROVE  FleetInv'
<1>1. PICK s \in requests[r].todo, condition \in Conditions, took \in Durations :
          \E part \in IF TimedOut(requests[r].check, s, took) THEN LeftOver(requests[r].check, s) ELSE {"all"} :
              Report(r, s, condition, part)
    BY DEF RunCheck
<1>2. PICK part \in Parts : Report(r, s, condition, part)
    BY <1>1 DEF LeftOver, Parts
<1>3. requests[r].pc = "run" /\ UNCHANGED faults /\ UNCHANGED snapshots
    BY DEF RunCheck
<1>q. QED BY <1>2, <1>3, ReportInv

LEMMA RunFailedInv ==
    ASSUME FleetInv, NEW r \in Requests, RunFailed(r)
    PROVE  FleetInv'
<1>1. PICK s \in requests[r].todo, condition \in Conditions, part \in Parts : Report(r, s, condition, part)
    BY DEF RunFailed, Parts
<1>2. requests[r].pc = "run" /\ Fault /\ UNCHANGED snapshots
    BY DEF RunFailed
<1>q. QED BY <1>1, <1>2, ReportInv

LEMMA SaveInv ==
    ASSUME FleetInv, NEW r \in Requests, SaveSnapshot(r) \/ SaveFailed(r)
    PROVE  FleetInv'
<1>1. PICK p \in Request : p = requests[r] /\ RequestOK(p) /\ p.pc = "save"
    BY DEF FleetInv, TypeOK, SaveSnapshot, SaveFailed
<1>2. PICK q : q = [p EXCEPT !.pc = "send"]
    OBVIOUS
<1>3. Become(r, q) /\ (UNCHANGED faults \/ Fault)
    BY <1>1, <1>2 DEF SaveSnapshot, SaveFailed
<1>4. q \in Request /\ RequestOK(q) /\ LookedUp(q, Visible)
    BY <1>1, <1>2, SavedOK
<1>5. snapshots' \subseteq Snapshots
  <2>1. Snapshot(r) \in Snapshots
      BY <1>1 DEF RequestOK, SavesServers, Snapshot, Snapshots
  <2>q. QED BY <2>1 DEF FleetInv, TypeOK, SaveSnapshot, SaveFailed
<1>q. QED BY <1>3, <1>4, <1>5, BecomeInv

LEMMA SendResultInv ==
    ASSUME FleetInv, NEW r \in Requests, SendResult(r)
    PROVE  FleetInv'
<1>1. PICK p \in Request : p = requests[r] /\ RequestOK(p) /\ p.pc = "send"
    BY DEF FleetInv, TypeOK, SendResult
<1>2. PICK q : q = [p EXCEPT !.pc = IF p.todo = {} THEN "done" ELSE "run",
                             !.answers = @ \cup {p.current}, !.current = NoAnswer]
    OBVIOUS
<1>3. Become(r, q)
    BY <1>1, <1>2, Zenon DEF SendResult
<1>4. q \in Request /\ RequestOK(q) /\ LookedUp(q, Visible)
    BY <1>1, <1>2, SentOK
<1>5. snapshots' \subseteq Snapshots /\ UNCHANGED faults
    BY DEF FleetInv, TypeOK, SendResult
<1>q. QED BY <1>3, <1>4, <1>5, BecomeInv

\* What the replica replays was in sight before.
LEMMA ReplicaCatchesUpInv ==
    ASSUME FleetInv, ReplicaCatchesUp
    PROVE  FleetInv'
<1>1. table \in Seq(Table) /\ Lagging(table)
    BY DEF FleetInv, TypeOK, ReplicaCatchesUp
<1>2. table' = Replay(table) /\ UNCHANGED <<file, config, useReplica, requests, snapshots, edits, faults>>
    BY DEF ReplicaCatchesUp
<1>3. /\ Replay(table) \in Seq(Table) /\ Len(Replay(table)) > 0
      /\ Primary(Replay(table)) = Primary(table)
      /\ \A i \in 1..Len(Replay(table)) : i + 1 \in 1..Len(table) /\ Replay(table)[i] = table[i + 1]
    BY <1>1, ReplayType
<1>4. TypeOK'
  <2>1. table' \in Seq(Table) /\ table' # <<>>
      BY <1>2, <1>3, EmptySeq
  <2>q. QED BY <1>2, <2>1 DEF FleetInv, TypeOK
<1>5. Visible' \subseteq Visible
  <2>1. CASE useReplica
    <3>1. Visible = {Merge(config, table[v]) : v \in 1..Len(table)}
        BY <2>1 DEF Visible
    <3>2. Visible' = {Merge(config, table'[v]) : v \in 1..Len(table')}
        BY <1>2, <2>1 DEF Visible
    <3>q. QED BY <1>2, <1>3, <3>1, <3>2
  <2>2. CASE ~useReplica
    <3>1. Visible = {Merge(config, Primary(table))}
        BY <2>2 DEF Visible, Primary
    <3>2. Visible' = {Merge(config, Primary(table'))}
        BY <1>2, <2>2 DEF Visible, Primary
    <3>q. QED BY <1>2, <1>3, <3>1, <3>2
  <2>q. QED BY <2>1, <2>2
<1>6. \A r \in Requests : RequestOK(requests'[r]) /\ LookedUp(requests'[r], Visible')
    BY <1>2, <1>5 DEF FleetInv, LookedUp
<1>q. QED BY <1>4, <1>6 DEF FleetInv

\* A commit shows a reader one list that was not in sight before.
LEMMA EditTableInv ==
    ASSUME FleetInv, NEW rows \in Table, EditTable(rows)
    PROVE  FleetInv'
<1>1. PICK list \in SUBSET Server : list = Merge(config, rows)
    BY DEF Merge, Configured, Active
<1>2. /\ edits < MaxEdits /\ edits' = edits + 1
      /\ table' = Commit(table, rows)
      /\ UNCHANGED <<file, config, useReplica, snapshots, faults>>
    BY DEF EditTable
<1>3. requests' = [r \in Requests |->
          IF requests[r].pc # "resolve" THEN requests[r]
          ELSE [requests[r] EXCEPT !.shown = @ \cup list, !.kept = @ \cap list]]
    BY <1>1 DEF EditTable
<1>4. table \in Seq(Table) /\ Len(table) > 0 /\ Len(table) \in Nat /\ useReplica \in BOOLEAN
    BY StoreType DEF FleetInv
<1>5. /\ Commit(table, rows) \in Seq(Table) /\ Len(Commit(table, rows)) > 0
      /\ Primary(Commit(table, rows)) = rows
    BY <1>4, CommitType
<1>6. Visible' \subseteq Visible \cup {list}
  <2>1. CASE useReplica
    <3>1. Visible = {Merge(config, table[v]) : v \in 1..Len(table)}
        BY <2>1 DEF Visible
    <3>2. Visible' = {Merge(config, table'[v]) : v \in 1..Len(table')}
        BY <1>2, <2>1 DEF Visible
    <3>3. \A v \in 1..Len(Commit(table, rows)) :
              \/ Commit(table, rows)[v] = rows
              \/ v \in 1..Len(table) /\ Commit(table, rows)[v] = table[v]
        BY <1>4, CommitVersions
    <3>q. QED BY <1>1, <1>2, <3>1, <3>2, <3>3
  <2>2. CASE ~useReplica
    <3>1. Visible' = {Merge(config, Primary(table'))}
        BY <1>2, <2>2 DEF Visible, Primary
    <3>q. QED BY <1>1, <1>2, <1>5, <3>1
  <2>q. QED BY <1>4, <2>1, <2>2
<1>7. ASSUME NEW r \in Requests
      PROVE  requests'[r] \in Request /\ RequestOK(requests'[r]) /\ LookedUp(requests'[r], Visible')
  <2>1. PICK p \in Request : p = requests[r] /\ RequestOK(p) /\ LookedUp(p, Visible)
      BY DEF FleetInv, TypeOK
  <2>2. PICK q : q = requests'[r]
      OBVIOUS
  <2>3. CASE p.pc = "resolve"
    <3>1. q = [p EXCEPT !.shown = @ \cup list, !.kept = @ \cap list]
        BY <1>3, <2>1, <2>2, <2>3
    <3>2. q \in Request /\ RequestOK(q) /\ LookedUp(q, Visible \cup {list})
        BY <2>1, <2>3, <3>1, WatchedOK
    <3>3. LookedUp(q, Visible')
        BY <1>6, <3>2 DEF LookedUp
    <3>q. QED BY <2>2, <3>2, <3>3
  <2>4. CASE p.pc # "resolve"
    <3>1. q = p
        BY <1>3, <2>1, <2>2, <2>4
    <3>q. QED BY <2>1, <2>2, <2>4, <3>1 DEF LookedUp
  <2>q. QED BY <2>3, <2>4
<1>8. TypeOK'
  <2>1. requests' \in [Requests -> Request]
      BY <1>3, <1>7
  <2>2. table' \in Seq(Table) /\ table' # <<>>
      BY <1>2, <1>5, EmptySeq
  <2>3. edits' \in 0..MaxEdits
      BY <1>2, FleetAssumption DEF FleetInv, TypeOK
  <2>q. QED BY <1>2, <2>1, <2>2, <2>3 DEF FleetInv, TypeOK
<1>q. QED BY <1>7, <1>8 DEF FleetInv

\* tgops-ctl server:add, server:delete and server:toggle write rows.
LEMMA ServerEditInv ==
    ASSUME FleetInv, NEW n \in Names,
           \/ ServerDelete(n) \/ ServerToggle(n)
           \/ \E h \in Hosts : ServerAdd(n, h)
    PROVE  FleetInv'
<1>1. PICK rows \in Table : rows = Primary(table)
    BY StoreType DEF FleetInv
<1>2. ASSUME NEW row \in {Absent} \cup [host : Hosts, active : BOOLEAN]
      PROVE  [rows EXCEPT ![n] = row] \in Table
    BY DEF Table
<1>3. CASE ServerDelete(n)
  <2>1. PICK new \in Table : new = [rows EXCEPT ![n] = Absent]
      BY <1>2
  <2>2. EditTable(new)
      BY <1>1, <1>3, <2>1 DEF ServerDelete
  <2>q. QED BY <2>2, EditTableInv
<1>4. CASE ServerToggle(n)
  <2>1. PICK row \in [host : Hosts, active : BOOLEAN] : row = rows[n]
      BY <1>1, <1>4 DEF ServerToggle, Table
  <2>2. [row EXCEPT !.active = ~@] \in [host : Hosts, active : BOOLEAN]
      BY Zenon
  <2>3. [rows EXCEPT ![n].active = ~@] = [rows EXCEPT ![n] = [row EXCEPT !.active = ~@]]
      BY <2>1, Zenon
  <2>4. PICK new \in Table : new = [rows EXCEPT ![n].active = ~@]
      BY <1>2, <2>2, <2>3, Zenon
  <2>5. EditTable(new)
      BY <1>1, <1>4, <2>4, Zenon DEF ServerToggle
  <2>q. QED BY <2>5, EditTableInv
<1>5. ASSUME NEW h \in Hosts, ServerAdd(n, h) PROVE FleetInv'
  <2>1. [host |-> h, active |-> TRUE] \in [host : Hosts, active : BOOLEAN]
      BY Zenon
  <2>2. PICK new \in Table : new = [rows EXCEPT ![n] = [host |-> h, active |-> TRUE]]
      BY <1>2, <2>1, Zenon
  <2>3. EditTable(new)
      BY <1>1, <1>5, <2>2, Zenon DEF ServerAdd
  <2>q. QED BY <2>3, EditTableInv
<1>q. QED BY <1>3, <1>4, <1>5

LEMMA EditFileInv ==
    ASSUME FleetInv, NEW n \in Names, NEW h \in Hosts \cup {NoHost}, EditFile(n, h)
    PROVE  FleetInv'
<1>1. UNCHANGED <<config, table, useReplica, requests, snapshots, faults>>
    BY DEF EditFile
<1>2. file' \in Config
    BY DEF EditFile, FleetInv, TypeOK, Config
<1>3. edits' \in 0..MaxEdits
    BY FleetAssumption DEF EditFile, FleetInv, TypeOK
<1>4. Visible' = Visible
    BY <1>1 DEF Visible
<1>5. TypeOK'
    BY <1>1, <1>2, <1>3 DEF FleetInv, TypeOK
<1>q. QED BY <1>1, <1>4, <1>5 DEF FleetInv

\* Only what sees no lists survives a restart.
LEMMA RestartInv ==
    ASSUME FleetInv, Restart
    PROVE  FleetInv'
<1>1. /\ config' = file /\ useReplica' \in ConnectOutcomes /\ Fault
      /\ UNCHANGED <<file, table, snapshots, edits>>
    BY Zenon DEF Restart
<1>2. requests' = [r \in Requests |->
          IF requests[r].pc \in {"new", "keyboard", "done"} THEN requests[r]
          ELSE [requests[r] EXCEPT !.pc = "done", !.lost = TRUE]]
    BY Zenon DEF Restart
<1>3. ASSUME NEW r \in Requests
      PROVE  requests'[r] \in Request /\ RequestOK(requests'[r]) /\ LookedUp(requests'[r], Visible')
  <2>1. PICK p \in Request : p = requests[r] /\ RequestOK(p)
      BY DEF FleetInv, TypeOK
  <2>2. PICK q : q = requests'[r]
      OBVIOUS
  <2>3. CASE p.pc \in {"new", "keyboard", "done"}
    <3>1. q = p
        BY <1>2, <2>1, <2>2, <2>3, Zenon
    <3>q. QED BY <2>1, <2>2, <2>3, <3>1 DEF LookedUp
  <2>4. CASE p.pc \notin {"new", "keyboard", "done"}
    <3>1. q = [p EXCEPT !.pc = "done", !.lost = TRUE]
        BY <1>2, <2>1, <2>2, <2>4, Zenon
    <3>2. PICK lists : lists = Visible'
        OBVIOUS
    <3>3. q \in Request /\ RequestOK(q) /\ LookedUp(q, lists)
        BY <2>1, <3>1, LostOK, Zenon
    <3>q. QED BY <2>2, <3>2, <3>3
  <2>q. QED BY <2>3, <2>4
<1>4. TypeOK'
  <2>1. requests' \in [Requests -> Request]
    <3>1. PICK lost : lost = TRUE
        OBVIOUS
    <3>2. requests' = [r \in Requests |->
              IF requests[r].pc \in {"new", "keyboard", "done"} THEN requests[r]
              ELSE [requests[r] EXCEPT !.pc = "done", !.lost = lost]]
        BY <1>2, <3>1, Zenon
    <3>q. QED BY <1>3, <3>2
  <2>2. faults' \in 0..MaxFaults
      BY <1>1, FleetAssumption DEF FleetInv, TypeOK, Fault
  <2>q. QED BY <1>1, <2>1, <2>2 DEF FleetInv, TypeOK
<1>q. QED BY <1>3, <1>4 DEF FleetInv

LEMMA StutterInv == FleetInv /\ UNCHANGED vars => FleetInv'
<1> SUFFICES ASSUME FleetInv, UNCHANGED vars PROVE FleetInv'
    OBVIOUS
<1>1. UNCHANGED <<file, config, table, useReplica, requests, snapshots, edits, faults>>
    BY DEF vars
<1>2. Visible' = Visible
    BY <1>1 DEF Visible
<1>3. TypeOK'
    BY <1>1 DEF FleetInv, TypeOK
<1>q. QED BY <1>1, <1>2, <1>3 DEF FleetInv

LEMMA NextInv == FleetInv /\ [Next]_vars => FleetInv'
<1> SUFFICES ASSUME FleetInv, Next \/ UNCHANGED vars PROVE FleetInv'
    OBVIOUS
<1>1. CASE ReplicaCatchesUp \/ Restart
    BY <1>1, ReplicaCatchesUpInv, RestartInv
<1>2. CASE \E n \in Names : ServerDelete(n) \/ ServerToggle(n)
    BY <1>2, ServerEditInv
<1>3. CASE \E n \in Names, h \in Hosts : ServerAdd(n, h)
    BY <1>3, ServerEditInv
<1>4. CASE \E n \in Names, h \in Hosts \cup {NoHost} : EditFile(n, h)
    BY <1>4, EditFileInv
<1>5. CASE \E r \in Requests :
               \/ \E target \in Targets : Command(r, target) \/ PressServer(r, target)
               \/ AskServer(r) \/ Resolve(r) \/ ResolveWithoutDB(r)
               \/ RunCheck(r) \/ RunFailed(r) \/ SaveSnapshot(r) \/ SaveFailed(r)
               \/ SendResult(r) \/ SendFailed(r)
  <2>1. PICK r \in Requests :
               \/ \E target \in Targets : Command(r, target) \/ PressServer(r, target)
               \/ AskServer(r) \/ Resolve(r) \/ ResolveWithoutDB(r)
               \/ RunCheck(r) \/ RunFailed(r) \/ SaveSnapshot(r) \/ SaveFailed(r)
               \/ SendResult(r) \/ SendFailed(r)
      BY <1>5, Zenon
  <2>2. SendFailed(r) => FleetInv'
      BY LostInv, Zenon DEF SendFailed
  <2>q. QED BY <2>1, <2>2, CommandInv, PressServerInv, AskServerInv, ResolveInv, ResolveWithoutDBInv,
               RunCheckInv, RunFailedInv, SaveInv, SendResultInv
<1>6. CASE UNCHANGED vars
    BY <1>6, StutterInv
<1>q. QED BY <1>1, <1>2, <1>3, <1>4, <1>5, <1>6, Zenon DEF Next

LEMMA FleetInvHolds == Spec => []FleetInv
    BY InitInv, NextInv, PTL DEF Spec

-----------------------------------------------------------------------------
\* Every variable has its type: each goroutine's state (modules updates,
\* backups, cron, scan, docker, logs, system, versions, network), the stores
\* and the bounds.
THEOREM TypeCorrect == Spec => []TypeOK
<1>1. FleetInv => TypeOK
    BY DEF FleetInv
<1>q. QED BY <1>1, FleetInvHolds, PTL

\* An answer is about a server that was asked for, at an address that some
\* list gave its name during the look-up (ComboSource.GetServers), and none is
\* reported twice - for any number of servers, of edits by tgops-ctl and of
\* restarts meanwhile.
THEOREM AnswersAreAboutAsked == Spec => []AnswersAboutAsked
<1>1. FleetInv => AnswersAboutAsked
  <2> SUFFICES ASSUME FleetInv, NEW r \in Requests
               PROVE  /\ \A a \in Reports(requests[r].answers) : IsAbout(requests[r], ServerOf(a))
                      /\ \A a, b \in Reports(requests[r].answers) : a.name = b.name => a = b
      BY DEF AnswersAboutAsked
  <2>1. Reports(requests[r].answers) \subseteq Given(requests[r])
      BY DEF Reports, Given
  <2>q. QED BY <2>1 DEF FleetInv, RequestOK, OnceEach, AboutAsked
<1>q. QED BY <1>1, FleetInvHolds, PTL

\* A request that came to its end answered for every server that was asked
\* for and always there, whatever failed to list it (resolveServer,
\* resolveTargets, the loops of the commands).
THEOREM AskedGetAnswers == Spec => []AskedAreAnswered
<1>1. FleetInv => AskedAreAnswered
  <2> SUFFICES ASSUME FleetInv, NEW r \in Requests,
                      requests[r].pc = "done", ~requests[r].lost, ~requests[r].dead
               PROVE  /\ \A s \in requests[r].kept : AsksFor(requests[r], s) =>
                            \E a \in Reports(requests[r].answers) : a.name = s.name
                      /\ Default(requests[r].check, requests[r].target, requests[r].kept) # {} =>
                            Reports(requests[r].answers) # {}
      BY Zenon DEF AskedAreAnswered
  <2>1. Given(requests[r]) = Reports(requests[r].answers)
      BY DEF Given, InHand
  <2>2. Covered(requests[r])
      BY DEF FleetInv, RequestOK
  <2>3. requests[r].todo = {}
      BY <2>2, Zenon DEF Covered
  <2>4. \A s \in requests[r].kept : AsksFor(requests[r], s) =>
            \E a \in Reports(requests[r].answers) : a.name = s.name
    <3>1. \A s \in requests[r].kept : AsksFor(requests[r], s) =>
              \/ \E t \in requests[r].todo : t.name = s.name
              \/ \E a \in Given(requests[r]) : a.name = s.name
        BY <2>2, Zenon DEF Covered
    <3>q. QED BY <2>1, <2>3, <3>1
  <2>5. HasDefault(requests[r].check, requests[r].target, requests[r].kept) =>
            Reports(requests[r].answers) # {}
    <3>1. HasDefault(requests[r].check, requests[r].target, requests[r].kept) =>
              requests[r].todo # {} \/ Given(requests[r]) # {}
        BY <2>2, Zenon DEF Covered
    <3>q. QED BY <2>1, <2>3, <3>1
  <2>q. QED BY <2>4, <2>5, DefaultThere
<1>q. QED BY <1>1, FleetInvHolds, PTL

\* The commands whose output says that it is there do not take a check that
\* took too long for one with nothing to report.
THEOREM TimeoutsTold == Spec => []TimeoutIsNotNothing
<1>1. FleetInv => TimeoutIsNotNothing
  <2> SUFFICES ASSUME FleetInv, NEW r \in Requests, NEW a \in requests[r].answers, a.verdict = "nothing"
               PROVE  /\ requests[r].check \in {"status", "top", "versions", "updates", "backups", "timers"} =>
                            a.part # "none"
                      /\ requests[r].check \in {"versions", "updates", "backups", "timers"} =>
                            a.condition = "nothing" \/ a.part = "first"
      BY Zenon DEF TimeoutIsNotNothing
  <2>1. a \in Given(requests[r])
      BY DEF Given, Reports
  <2>2. a.verdict = Verdict(requests[r].check, a.condition, a.part)
      BY <2>1 DEF FleetInv, RequestOK, TrueVerdicts
  <2>3. requests[r].check \in Checks /\ a.condition \in Conditions /\ a.part \in Parts
      BY DEF FleetInv, TypeOK, Request, Answer
  <2>q. QED BY <2>2, <2>3, VerdictType
<1>q. QED BY <1>1, FleetInvHolds, PTL

-----------------------------------------------------------------------------
(* Induction over a set of numbers, and the ends of one.                   *)

\* Strong induction over a set.
LEMMA Induction ==
    ASSUME NEW S, \A n \in Nat : (\A m \in Nat : m < n => m \in S) => n \in S
    PROVE  \A n \in Nat : n \in S
<1> DEFINE R == OpToRel(<, Nat)
           T == Nat \ S
<1>1. IsWellFoundedOn(R, Nat)
    BY NatLessThanWellFounded
<1>2. \A x, y \in Nat : y < x => <<y, x>> \in R
    BY DEF OpToRel
<1> HIDE DEF R
<1>3. CASE T # {}
    <2>1. PICK x \in T : \A y \in T : <<y, x>> \notin R
        BY <1>1, <1>3, WFMin
    <2>2. \A m \in Nat : m < x => m \in S
        BY <2>1, <1>2
    <2>q. QED BY <2>1, <2>2
<1>q. QED BY <1>3

\* A set of numbers that has a member has a least one, and Min is it.
LEMMA LeastIs ==
    ASSUME NEW S \in SUBSET Nat, S # {}
    PROVE  Min(S) \in S /\ \A y \in S : Min(S) <= y
<1>1. \E x \in S : \A y \in S : x <= y
    <2> SUFFICES ASSUME ~ \E x \in S : \A y \in S : x <= y PROVE FALSE
        OBVIOUS
    <2>1. \A n \in Nat : n \in Nat \ S
        <3>1. \A n \in Nat : (\A m \in Nat : m < n => m \in Nat \ S) => n \in Nat \ S
            OBVIOUS
        <3>q. QED BY <3>1, Induction
    <2>q. QED BY <2>1
<1>q. QED BY <1>1 DEF Min

\* A set of numbers below a bound has a greatest one, and Max is it.
LEMMA GreatestIs ==
    ASSUME NEW b \in Nat, NEW S \in SUBSET (0..b), S # {}
    PROVE  Max(S) \in S /\ \A y \in S : y <= Max(S)
<1> DEFINE T == {n \in 0..b : b - n \in S}
<1>1. T \in SUBSET Nat /\ T # {}
    <2>1. PICK x \in S : TRUE
        OBVIOUS
    <2>2. b - x \in 0..b /\ b - (b - x) = x
        OBVIOUS
    <2>q. QED BY <2>1, <2>2
<1>2. Min(T) \in T /\ \A y \in T : Min(T) <= y
    BY <1>1, LeastIs
<1> DEFINE x == b - Min(T)
<1>3. x \in S
    BY <1>2
<1>4. ASSUME NEW y \in S PROVE x >= y
    <2>1. b - y \in T
        OBVIOUS
    <2>q. QED BY <1>2, <2>1
<1>q. QED BY <1>3, <1>4 DEF Max

-----------------------------------------------------------------------------
(* Outputs, /logs and /docker: a text cut into messages.                   *)

\* PartEnd: the part is within the limit, and ends before the last newline it
\* could end before.
LEMMA PartEndIs ==
    ASSUME NEW text \in Seq(Characters), NEW k \in 1..Len(text), NEW limit \in Nat \ {0},
           Len(text) - k >= limit
    PROVE  LET e == PartEnd(text, k, limit)
           IN  /\ e \in k..(k + limit - 1) /\ e < Len(text)
               /\ \/ text[e + 1] = "newline"
                  \/ e = k + limit - 1 /\ \A j \in (k + 1)..e : text[j] # "newline"
<1> DEFINE I == {i \in (k + 1)..(k + limit - 1) : text[i] = "newline"}
<1>1. PartEnd(text, k, limit) = IF (IF I # {} THEN Max(I) ELSE 0) # 0 THEN (IF I # {} THEN Max(I) ELSE 0) - 1 ELSE k + limit - 1
    BY DEF PartEnd, SelectLastInSubSeq
<1>2. Len(text) \in Nat
    OBVIOUS
<1>3. CASE I # {}
    <2>1. I \in SUBSET (0..Len(text))
        BY <1>2
    <2>2. Max(I) \in I
        BY <1>2, <1>3, <2>1, GreatestIs
    <2>3. Max(I) \in (k + 1)..(k + limit - 1) /\ text[Max(I)] = "newline"
        BY <2>2
    <2> HIDE DEF I
    <2>4. PartEnd(text, k, limit) = Max(I) - 1
        BY <1>1, <1>3, <2>3
    <2>q. QED BY <1>2, <2>3, <2>4
<1>4. CASE I = {}
    BY <1>1, <1>2, <1>4
<1>q. QED BY <1>3, <1>4

\* TrimLeft: nothing but newlines is left out, and no more.
LEMMA AfterNewlinesIs ==
    ASSUME NEW text \in Seq(Characters), NEW k \in 1..Len(text)
    PROVE  LET n == AfterNewlines(text, k)
           IN  /\ n \in k..(Len(text) + 1)
               /\ \A j \in k..(n - 1) : text[j] = "newline"
               /\ n <= Len(text) => text[n] # "newline"
<1> DEFINE I == {i \in k..Len(text) : text[i] # "newline"}
<1>1. AfterNewlines(text, k) = IF (IF I # {} THEN Min(I) ELSE 0) # 0 THEN (IF I # {} THEN Min(I) ELSE 0) ELSE Len(text) + 1
    BY DEF AfterNewlines, SelectInSubSeq
<1>2. Len(text) \in Nat
    OBVIOUS
<1>3. CASE I # {}
    <2>1. I \in SUBSET Nat
        BY <1>2
    <2>2. Min(I) \in I /\ \A y \in I : Min(I) <= y
        BY <1>3, <2>1, LeastIs
    <2>5. Min(I) \in k..Len(text) /\ text[Min(I)] # "newline"
        BY <2>2
    <2>6. ASSUME NEW j \in k..Len(text), text[j] # "newline" PROVE Min(I) <= j
        <3>1. j \in I
            BY <2>6
        <3>q. QED BY <2>2, <3>1
    <2>3. /\ Min(I) \in k..Len(text) /\ text[Min(I)] # "newline"
          /\ \A j \in k..(Min(I) - 1) : text[j] = "newline"
        <3>1. ASSUME NEW j \in k..(Min(I) - 1) PROVE text[j] = "newline"
            <4> HIDE DEF I
            <4>1. j \in k..Len(text) /\ ~(Min(I) <= j)
                BY <1>2, <2>5
            <4>q. QED BY <4>1, <2>6
        <3>q. QED BY <2>5, <3>1
    <2> HIDE DEF I
    <2>4. AfterNewlines(text, k) = Min(I)
        BY <1>1, <1>3, <2>3
    <2>q. QED BY <1>2, <2>3, <2>4
<1>4. CASE I = {}
    BY <1>1, <1>2, <1>4
<1>q. QED BY <1>3, <1>4

\* Where the part after the one at k starts.
NextPart(text, limit, k) == AfterNewlines(text, PartEnd(text, k, limit) + 1)

\* The next part starts further on, after newlines only.
LEMMA NextPartIs ==
    ASSUME NEW text \in Seq(Characters), NEW k \in 1..Len(text), NEW limit \in Nat \ {0},
           Len(text) - k >= limit
    PROVE  /\ NextPart(text, limit, k) \in (k + 1)..(Len(text) + 1)
           /\ PartEnd(text, k, limit) < NextPart(text, limit, k)
           /\ \A j \in (PartEnd(text, k, limit) + 1)..(NextPart(text, limit, k) - 1) : text[j] = "newline"
           /\ NextPart(text, limit, k) <= Len(text) => text[NextPart(text, limit, k)] # "newline"
<1> DEFINE e == PartEnd(text, k, limit)
<1>1. e \in k..(k + limit - 1) /\ e < Len(text) /\ Len(text) \in Nat
    BY PartEndIs
<1>2. e + 1 \in 1..Len(text)
    BY <1>1
<1> HIDE DEF e
<1>3. /\ AfterNewlines(text, e + 1) \in (e + 1)..(Len(text) + 1)
      /\ \A j \in (e + 1)..(AfterNewlines(text, e + 1) - 1) : text[j] = "newline"
      /\ AfterNewlines(text, e + 1) <= Len(text) => text[AfterNewlines(text, e + 1)] # "newline"
    BY <1>2, AfterNewlinesIs
<1>4. NextPart(text, limit, k) = AfterNewlines(text, e + 1)
    BY DEF NextPart, e
<1>q. QED BY <1>1, <1>3, <1>4 DEF e

\* What SplitText makes of the text from k on, given what it makes of the rest.
SplitFrom(text, limit, k, rest) ==
    IF k > Len(text) THEN <<>>
    ELSE IF Len(text) - k < limit THEN << <<k, Len(text)>> >>
    ELSE << <<k, PartEnd(text, k, limit)>> >> \o rest[NextPart(text, limit, k)]

Splits(text, limit) ==
    CHOOSE from : from = [k \in 1..(Len(text) + 1) |-> SplitFrom(text, limit, k, from)]

\* splitText starts at the first character.
LEMMA SplitTextIs ==
    ASSUME NEW text, NEW limit
    PROVE  SplitText(text, limit) = Splits(text, limit)[1]
    BY DEF SplitText, Splits, SplitFrom, NextPart

\* The recursion is well-founded: each part is made of one further on.
LEMMA SplitsExist ==
    ASSUME NEW text \in Seq(Characters), NEW limit \in Nat \ {0}
    PROVE  Splits(text, limit) =
              [k \in 1..(Len(text) + 1) |-> SplitFrom(text, limit, k, Splits(text, limit))]
<1> DEFINE N == Len(text)
           Solves(g, m) == g = [k \in (N + 1 - m)..(N + 1) |-> SplitFrom(text, limit, k, g)]
           S == {m \in Nat : m <= N => \E g : Solves(g, m)}
<1>1. N \in Nat
    OBVIOUS
<1>2. ASSUME NEW m \in Nat, \A i \in Nat : i < m => i \in S, m <= N PROVE \E g : Solves(g, m)
    <2>1. CASE m = 0
        <3> DEFINE g == [k \in (N + 1)..(N + 1) |-> <<>>]
        <3>1. \A k \in (N + 1)..(N + 1) : SplitFrom(text, limit, k, g) = <<>>
            BY <1>1 DEF SplitFrom
        <3>2. g = [k \in (N + 1)..(N + 1) |-> SplitFrom(text, limit, k, g)]
            BY <3>1
        <3>3. N + 1 - m = N + 1
            BY <1>1, <2>1
        <3> HIDE DEF g
        <3>4. Solves(g, m)
            BY <3>2, <3>3
        <3>q. QED BY <3>4
    <2>2. CASE m > 0
        <3>0. m - 1 \in Nat /\ m - 1 < m /\ m - 1 <= N
            BY <1>1, <1>2, <2>2
        <3>1. \E f : Solves(f, m - 1)
            <4> HIDE DEF Solves
            <4>q. QED BY <1>2, <3>0
        <3>2. PICK f : Solves(f, m - 1)
            BY <3>1
        <3> DEFINE b == N + 1 - m
                   D == b..(N + 1)
                   g == [k \in D |-> IF k = b THEN SplitFrom(text, limit, b, f) ELSE f[k]]
        <3>3. b \in 1..N /\ N + 1 - (m - 1) = b + 1
            BY <1>1, <1>2, <2>2
        <3> HIDE DEF b
        <3>4. \A k \in D : k = b \/ k \in (b + 1)..(N + 1)
            BY <1>1, <3>3
        <3>5. \A k \in (b + 1)..(N + 1) : k \in D /\ g[k] = f[k] /\ f[k] = SplitFrom(text, limit, k, f)
            <4>1. f = [k \in (b + 1)..(N + 1) |-> SplitFrom(text, limit, k, f)]
                BY <3>2, <3>3
            <4>2. \A k \in (b + 1)..(N + 1) : f[k] = SplitFrom(text, limit, k, f)
                BY <4>1
            <4>3. \A k \in (b + 1)..(N + 1) : k \in D /\ k # b
                BY <1>1, <3>3
            <4>q. QED BY <4>2, <4>3
        <3>6. ASSUME NEW k \in D PROVE SplitFrom(text, limit, k, g) = SplitFrom(text, limit, k, f)
            <4>1. CASE k <= N /\ N - k >= limit
                <5>1. k \in 1..Len(text) /\ Len(text) - k >= limit
                    BY <1>1, <3>3, <4>1
                <5>2. NextPart(text, limit, k) \in (k + 1)..(Len(text) + 1)
                    BY <5>1, NextPartIs
                <5>3. NextPart(text, limit, k) \in (b + 1)..(N + 1)
                    BY <1>1, <3>3, <5>1, <5>2
                <5>4. g[NextPart(text, limit, k)] = f[NextPart(text, limit, k)]
                    BY <3>5, <5>3
                <5>q. QED BY <5>4 DEF SplitFrom
            <4>2. CASE ~(k <= N /\ N - k >= limit)
                BY <1>1, <3>3, <4>2 DEF SplitFrom
            <4>q. QED BY <4>1, <4>2
        <3>7. \A k \in D : g[k] = SplitFrom(text, limit, k, f)
            BY <3>4, <3>5
        <3>8. g = [k \in D |-> SplitFrom(text, limit, k, g)]
            BY <3>6, <3>7
        <3> HIDE DEF g
        <3>9. Solves(g, m)
            BY <3>8 DEF b
        <3>q. QED BY <3>9
    <2>q. QED BY <2>1, <2>2
<1>3. N \in S
    <2>1. \A m \in Nat : (\A i \in Nat : i < m => i \in S) => m \in S
        BY <1>2
    <2> HIDE DEF S
    <2>q. QED BY <1>1, <2>1, Induction
<1>4. PICK g : Solves(g, N)
    BY <1>1, <1>3
<1>5. g = [k \in 1..(Len(text) + 1) |-> SplitFrom(text, limit, k, g)]
    <2>1. N + 1 - N = 1
        BY <1>1
    <2>q. QED BY <1>4, <2>1
<1>q. QED BY <1>5 DEF Splits

Within(j, part) == part[1] <= j /\ j <= part[2]

\* What TextsAreKept says of the parts of the text from k on.
KeptFrom(text, limit, k, parts) ==
    /\ parts \in Seq(Int \X Int)
    /\ \A n \in 1..Len(parts) :
          /\ k <= parts[n][1] /\ parts[n][1] <= parts[n][2] /\ parts[n][2] <= Len(text)
          /\ parts[n][2] - parts[n][1] < limit
          /\ n > 1 => parts[n - 1][2] < parts[n][1]
    /\ \A j \in k..Len(text) : text[j] # "newline" => \E n \in 1..Len(parts) : Within(j, parts[n])
    /\ \A line \in Lines(text) :
          k <= line[1] /\ line[2] - line[1] < limit =>
              \E n \in 1..Len(parts) : Within(line[1], parts[n]) /\ Within(line[2], parts[n])

\* A line of a text starts after a newline and has none.
LEMMA TextLineIs ==
    ASSUME NEW text \in Seq(Characters), NEW line \in Lines(text)
    PROVE  /\ line[1] \in 1..Len(text) /\ line[2] \in 1..Len(text) /\ line[1] <= line[2]
           /\ \A j \in line[1]..line[2] : text[j] # "newline"
           /\ line[1] = 1 \/ text[line[1] - 1] = "newline"
    BY DEF Lines

\* What is left fits: it is the last part.
LEMMA LastPartKept ==
    ASSUME NEW text \in Seq(Characters), NEW limit \in Nat \ {0}, NEW k \in 1..Len(text),
           Len(text) - k < limit
    PROVE  KeptFrom(text, limit, k, << <<k, Len(text)>> >>)
<1> DEFINE parts == << <<k, Len(text)>> >>
<1>1. Len(text) \in Nat
    OBVIOUS
<1>2. parts \in Seq(Int \X Int) /\ Len(parts) = 1 /\ parts[1] = <<k, Len(text)>>
    BY <1>1
<1> HIDE DEF parts
<1>3. \A n \in 1..Len(parts) : n = 1
    BY <1>2
<1>4. \A j \in k..Len(text) : Within(j, parts[1])
    BY <1>1, <1>2 DEF Within
<1>5. ASSUME NEW line \in Lines(text), k <= line[1]
      PROVE  Within(line[1], parts[1]) /\ Within(line[2], parts[1])
    BY <1>1, <1>4, <1>5, TextLineIs
<1>6. 1 \in 1..Len(parts)
    BY <1>2
<1>7. ASSUME NEW n \in 1..Len(parts)
      PROVE  /\ k <= parts[n][1] /\ parts[n][1] <= parts[n][2] /\ parts[n][2] <= Len(text)
             /\ parts[n][2] - parts[n][1] < limit /\ ~(n > 1)
    BY <1>1, <1>2, <1>3
<1>8. KeptFrom(text, limit, k, parts)
    BY <1>2, <1>4, <1>5, <1>6, <1>7 DEF KeptFrom
<1>q. QED BY <1>8 DEF parts

\* The part at k, and the parts after it: a line that fits ends before the
\* part does, or starts after it.
LEMMA NextPartKept ==
    ASSUME NEW text \in Seq(Characters), NEW limit \in Nat \ {0}, NEW k \in 1..Len(text),
           text[k] # "newline", Len(text) - k >= limit,
           NEW rest, KeptFrom(text, limit, NextPart(text, limit, k), rest)
    PROVE  KeptFrom(text, limit, k, << <<k, PartEnd(text, k, limit)>> >> \o rest)
<1> DEFINE e == PartEnd(text, k, limit)
           next == NextPart(text, limit, k)
           first == << <<k, e>> >>
           parts == first \o rest
<1>1. /\ Len(text) \in Nat
      /\ e \in k..(k + limit - 1) /\ e < Len(text) /\ e \in Nat
      /\ text[e + 1] = "newline" \/ (e = k + limit - 1 /\ \A j \in (k + 1)..e : text[j] # "newline")
    BY PartEndIs
<1>2. next \in (k + 1)..(Len(text) + 1) /\ e < next /\ \A j \in (e + 1)..(next - 1) : text[j] = "newline"
    BY NextPartIs
<1>3. rest \in Seq(Int \X Int) /\ Len(rest) \in Nat
    BY DEF KeptFrom
<1>r. KeptFrom(text, limit, next, rest)
    OBVIOUS
<1> HIDE DEF e, next
<1>4. first \in Seq(Int \X Int) /\ Len(first) = 1 /\ first[1] = <<k, e>>
    BY <1>1
<1> HIDE DEF first
<1>5. /\ parts \in Seq(Int \X Int) /\ Len(parts) = Len(rest) + 1
      /\ \A n \in 1..(Len(rest) + 1) : parts[n] = IF n <= 1 THEN first[n] ELSE rest[n - 1]
    <2>1. /\ parts \in Seq(Int \X Int)
          /\ Len(parts) = Len(first) + Len(rest)
          /\ \A n \in 1..(Len(first) + Len(rest)) :
                parts[n] = IF n <= Len(first) THEN first[n] ELSE rest[n - Len(first)]
        BY <1>3, <1>4, ConcatProperties
    <2> HIDE DEF parts
    <2>2. Len(first) + Len(rest) = Len(rest) + 1
        BY <1>3, <1>4
    <2>q. QED BY <1>4, <2>1, <2>2
<1> HIDE DEF parts
<1>6. 1 \in 1..Len(parts) /\ parts[1] = <<k, e>>
    BY <1>3, <1>4, <1>5
<1>7. ASSUME NEW n \in 1..Len(rest) PROVE n + 1 \in 1..Len(parts) /\ parts[n + 1] = rest[n]
    <2>1. PICK i \in 1..(Len(rest) + 1) : i = n + 1
        BY <1>3
    <2>2. ~(i <= 1) /\ i - 1 = n
        BY <1>3, <2>1
    <2>3. parts[i] = rest[n]
        BY <1>5, <2>2
    <2>q. QED BY <1>5, <2>1, <2>3
<1>8. ASSUME NEW n \in 1..Len(parts)
      PROVE  /\ k <= parts[n][1] /\ parts[n][1] <= parts[n][2] /\ parts[n][2] <= Len(text)
             /\ parts[n][2] - parts[n][1] < limit
             /\ n > 1 => parts[n - 1][2] < parts[n][1]
    <2>1. CASE n = 1
        BY <1>1, <1>6, <2>1
    <2>2. CASE n > 1
        <3>1. n - 1 \in 1..Len(rest) /\ parts[n] = rest[n - 1]
            <4>1. n \in 1..(Len(rest) + 1) /\ ~(n <= 1) /\ n - 1 \in 1..Len(rest)
                BY <1>3, <1>5, <2>2
            <4>q. QED BY <1>5, <4>1
        <3>2. rest[n - 1] \in Int \X Int
            BY <1>3, <3>1, ElementOfSeq
        <3>3. /\ next <= rest[n - 1][1] /\ rest[n - 1][1] <= rest[n - 1][2] /\ rest[n - 1][2] <= Len(text)
              /\ rest[n - 1][2] - rest[n - 1][1] < limit
              /\ n - 1 > 1 => rest[n - 2][2] < rest[n - 1][1]
            <4>1. n - 1 - 1 = n - 2
                OBVIOUS
            <4>q. QED BY <1>r, <3>1, <4>1 DEF KeptFrom
        <3>4. parts[n - 1][2] < parts[n][1]
            <4>1. CASE n = 2
                BY <1>1, <1>2, <1>6, <3>1, <3>2, <3>3, <4>1
            <4>2. CASE n > 2
                <5>1. n - 1 \in 1..(Len(rest) + 1) /\ n - 1 > 1 /\ n - 1 - 1 = n - 2
                    BY <1>3, <1>5, <4>2
                <5>2. parts[n - 1] = rest[n - 2]
                    <6>1. ~(n - 1 <= 1)
                        BY <5>1
                    <6>q. QED BY <1>5, <5>1, <6>1
                <5>q. QED BY <3>1, <3>3, <5>1, <5>2
            <4>q. QED BY <2>2, <4>1, <4>2
        <3>q. QED BY <1>2, <3>1, <3>2, <3>3, <3>4
    <2>q. QED BY <2>1, <2>2, <1>5
<1>9. ASSUME NEW j \in k..Len(text), text[j] # "newline"
      PROVE  \E n \in 1..Len(parts) : Within(j, parts[n])
    <2>1. CASE j <= e
        <3>1. Within(j, parts[1])
            BY <1>1, <1>6, <2>1 DEF Within
        <3>q. QED BY <1>6, <3>1
    <2>2. CASE j > e
        <3>1. j \in next..Len(text)
            BY <1>1, <1>2, <1>9, <2>2
        <3>2. PICK n \in 1..Len(rest) : Within(j, rest[n])
            BY <1>r, <1>9, <3>1 DEF KeptFrom
        <3>q. QED BY <1>7, <3>2
    <2>q. QED BY <1>1, <2>1, <2>2
<1>10. ASSUME NEW line \in Lines(text), k <= line[1], line[2] - line[1] < limit
       PROVE  \E n \in 1..Len(parts) : Within(line[1], parts[n]) /\ Within(line[2], parts[n])
    <2>1. /\ line[1] \in 1..Len(text) /\ line[2] \in 1..Len(text) /\ line[1] <= line[2]
          /\ \A j \in line[1]..line[2] : text[j] # "newline"
          /\ line[1] = 1 \/ text[line[1] - 1] = "newline"
        BY TextLineIs
    <2>2. CASE line[2] <= e
        <3>1. Within(line[1], parts[1]) /\ Within(line[2], parts[1])
            BY <1>1, <1>6, <1>10, <2>1, <2>2 DEF Within
        <3>q. QED BY <1>6, <3>1
    <2>3. CASE line[1] > e
        <3>0. text[line[1]] # "newline"
            BY <2>1
        <3>1. next <= line[1]
            BY <1>1, <1>2, <2>1, <2>3, <3>0
        <3>2. PICK n \in 1..Len(rest) : Within(line[1], rest[n]) /\ Within(line[2], rest[n])
            BY <1>r, <1>10, <3>1 DEF KeptFrom
        <3>q. QED BY <1>7, <3>2
    <2>4. CASE line[1] <= e /\ e < line[2]
        <3>1. e + 1 \in line[1]..line[2]
            BY <1>1, <2>1, <2>4
        <3>2. e = k + limit - 1 /\ \A j \in (k + 1)..e : text[j] # "newline"
            BY <1>1, <2>1, <3>1
        <3>3. line[1] # k
            BY <1>10, <2>1, <2>4, <3>2
        <3>4. line[1] - 1 \in k..e /\ line[1] # 1
            BY <1>1, <1>10, <2>1, <2>4, <3>3
        <3>5. text[line[1] - 1] # "newline"
            <4>1. CASE line[1] - 1 = k
                BY <4>1
            <4>2. CASE line[1] - 1 # k
                <5>1. line[1] - 1 \in (k + 1)..e
                    BY <3>4, <4>2
                <5>q. QED BY <3>2, <5>1
            <4>q. QED BY <4>1, <4>2
        <3>q. QED BY <2>1, <3>4, <3>5
    <2>q. QED BY <1>1, <2>1, <2>2, <2>3, <2>4
<1>11. KeptFrom(text, limit, k, parts)
    BY <1>5, <1>8, <1>9, <1>10 DEF KeptFrom
<1>q. QED BY <1>11 DEF parts, first, e

\* The parts from a position on: one, or one and those further on.
LEMMA SplitFromIs ==
    ASSUME NEW text, NEW limit, NEW k, NEW rest
    PROVE  /\ k > Len(text) => SplitFrom(text, limit, k, rest) = <<>>
           /\ ~(k > Len(text)) /\ Len(text) - k < limit =>
                 SplitFrom(text, limit, k, rest) = << <<k, Len(text)>> >>
           /\ ~(k > Len(text)) /\ ~(Len(text) - k < limit) =>
                 SplitFrom(text, limit, k, rest) =
                    << <<k, PartEnd(text, k, limit)>> >> \o rest[NextPart(text, limit, k)]
    BY ZenonT(20) DEF SplitFrom

\* From every position on, the parts keep the text: by induction over how far
\* the end is.
LEMMA SplitsKept ==
    ASSUME NEW text \in Seq(Characters), NEW limit \in Nat \ {0},
           NEW k \in 1..Len(text), text[k] # "newline"
    PROVE  KeptFrom(text, limit, k, Splits(text, limit)[k])
<1> DEFINE N == Len(text)
           f == Splits(text, limit)
           Starts(b) == b = N + 1 \/ (b \in 1..N /\ text[b] # "newline")
           S == {m \in Nat : Starts(N + 1 - m) => KeptFrom(text, limit, N + 1 - m, f[N + 1 - m])}
<1>1. N \in Nat
    OBVIOUS
<1>2. \A b \in 1..(N + 1) : f[b] = SplitFrom(text, limit, b, f)
    BY SplitsExist
<1> HIDE DEF f
<1>3. ASSUME NEW m \in Nat, \A i \in Nat : i < m => i \in S, Starts(N + 1 - m)
      PROVE  KeptFrom(text, limit, N + 1 - m, f[N + 1 - m])
    <2> DEFINE b == N + 1 - m
    <2>1. b \in 1..(N + 1) /\ (b = N + 1 \/ (b \in 1..N /\ text[b] # "newline"))
        BY <1>1, <1>3
    <2> SUFFICES KeptFrom(text, limit, b, f[b])
        OBVIOUS
    <2> HIDE DEF b
    <2>2. CASE b = N + 1
        <3>1. f[b] = <<>>
            <4>1. b > Len(text)
                BY <1>1, <2>2
            <4>q. QED BY <1>2, <2>1, <4>1, SplitFromIs
        <3>2. \A line \in Lines(text) : ~(b <= line[1])
            BY <1>1, <2>2, TextLineIs
        <3>3. <<>> \in Seq(Int \X Int) /\ Len(<<>>) = 0
            OBVIOUS
        <3>q. QED BY <1>1, <2>2, <3>1, <3>2, <3>3 DEF KeptFrom
    <2>3. CASE b \in 1..N /\ N - b < limit
        <3>1. f[b] = << <<b, N>> >>
            <4>1. ~(b > Len(text)) /\ Len(text) - b < limit
                BY <1>1, <2>3
            <4>q. QED BY <1>2, <2>1, <4>1, SplitFromIs
        <3>q. QED BY <2>3, <3>1, LastPartKept
    <2>4. CASE b \in 1..N /\ N - b >= limit
        <3>1. f[b] = << <<b, PartEnd(text, b, limit)>> >> \o f[NextPart(text, limit, b)]
            <4>1. ~(b > Len(text)) /\ ~(Len(text) - b < limit)
                BY <1>1, <1>2, <2>4
            <4>q. QED BY <1>2, <2>1, <4>1, SplitFromIs
        <3> DEFINE c == NextPart(text, limit, b)
        <3>2. c \in (b + 1)..(N + 1) /\ (c <= N => text[c] # "newline")
            BY <2>4, NextPartIs
        <3>3. N + 1 - c \in Nat /\ N + 1 - c < m /\ N + 1 - (N + 1 - c) = c
            BY <1>1, <2>1, <3>2 DEF b
        <3>4. Starts(c)
            BY <1>1, <2>1, <3>2
        <3>5. KeptFrom(text, limit, c, f[c])
            <4>1. N + 1 - c \in S
                BY <1>3, <3>3
            <4>2. Starts(N + 1 - (N + 1 - c)) => KeptFrom(text, limit, N + 1 - (N + 1 - c), f[N + 1 - (N + 1 - c)])
                BY <4>1
            <4>q. QED BY <3>3, <3>4, <4>2
        <3>6. text[b] # "newline"
            BY <1>1, <2>1, <2>4
        <3>q. QED BY <2>4, <3>1, <3>5, <3>6, NextPartKept
    <2>q. QED BY <1>1, <2>1, <2>2, <2>3, <2>4
<1>4. N + 1 - k \in S
    <2>1. \A m \in Nat : (\A i \in Nat : i < m => i \in S) => m \in S
        BY <1>3
    <2> HIDE DEF S
    <2>2. N + 1 - k \in Nat
        BY <1>1
    <2>q. QED BY <2>1, <2>2, Induction
<1>5. Starts(N + 1 - (N + 1 - k)) => KeptFrom(text, limit, N + 1 - (N + 1 - k), f[N + 1 - (N + 1 - k)])
    BY <1>4
<1>6. N + 1 - (N + 1 - k) = k
    BY <1>1
<1>q. QED BY <1>5, <1>6 DEF f

\* Every text arrives whole, in order and within the limit, as messages or as
\* a file.
LEMMA TextsKept == TextsAreKept
<1> SUFFICES ASSUME NEW text \in Texts, NEW limit \in 1..TextLength
             PROVE  LET parts == Messages(text, limit)
                        In(k, part) == part[1] <= k /\ k <= part[2]
                    IN  /\ \A n \in 1..Len(parts) :
                              /\ parts[n][1] <= parts[n][2]
                              /\ Len(parts) > 1 => parts[n][2] - parts[n][1] < limit
                              /\ n > 1 => parts[n - 1][2] < parts[n][1]
                        /\ \A k \in 1..Len(text) :
                              text[k] # "newline" => \E n \in 1..Len(parts) : In(k, parts[n])
                        /\ \A line \in Lines(text) :
                              line[2] - line[1] < limit =>
                                  \E n \in 1..Len(parts) : In(line[1], parts[n]) /\ In(line[2], parts[n])
    BY DEF TextsAreKept
<1>1. text \in Seq(Characters) /\ 1 \in 1..Len(text) /\ Len(text) \in Nat /\ text[1] # "newline"
    <2>1. PICK m \in 0..TextLength : text \in [1..m -> Characters]
        BY DEF Texts, BoundedSeq, SeqOf
    <2>2. text # <<>> /\ text[1] = "other"
        BY DEF Texts
    <2>3. m \in Nat
        BY OutputsAssumption
    <2>q. QED BY <2>1, <2>2, <2>3
<1>2. limit \in Nat \ {0}
    BY OutputsAssumption
<1> DEFINE split == SplitText(text, limit)
           parts == Messages(text, limit)
<1>3. KeptFrom(text, limit, 1, split)
    BY <1>1, <1>2, SplitsKept, SplitTextIs
<1>4. parts = IF Len(split) <= 3 THEN split ELSE << <<1, Len(text)>> >>
    BY DEF Messages
<1> HIDE DEF split, parts
<1>5. CASE Len(split) <= 3
    <2>1. parts = split
        BY <1>4, <1>5
    <2>2. \A line \in Lines(text) : 1 <= line[1]
        BY <1>1, TextLineIs
    <2>q. QED BY <1>3, <2>1, <2>2 DEF KeptFrom, Within, parts
<1>6. CASE ~(Len(split) <= 3)
    <2>1. parts = << <<1, Len(text)>> >>
        BY <1>4, <1>6
    <2>2. Len(parts) = 1 /\ parts[1] = <<1, Len(text)>> /\ 1 \in 1..Len(parts)
        BY <2>1
    <2>3. ASSUME NEW line \in Lines(text)
          PROVE  line[1] \in 1..Len(text) /\ line[2] \in 1..Len(text)
        BY <1>1, TextLineIs
    <2>4. \A n \in 1..Len(parts) : n = 1
        BY <2>2
    <2>q. QED BY <1>1, <2>2, <2>3, <2>4 DEF parts
<1>q. QED BY <1>5, <1>6

-----------------------------------------------------------------------------
(* Outputs, /backups: directories told apart by markers.                   *)

\* FlattenSeq: its recursion is well-founded.
Flattens(seqs, f) == f = [i \in 1..Len(seqs) |-> IF i = 1 THEN seqs[i] ELSE f[i - 1] \o seqs[i]]

LEMMA FlattenSeqIs ==
    ASSUME NEW seqs, Len(seqs) \in Nat \ {0}
    PROVE  \E f : Flattens(seqs, f) /\ FlattenSeq(seqs) = f[Len(seqs)]
<1> DEFINE N == Len(seqs)
           flatten == CHOOSE f : f = [i \in 1..N |-> IF i = 1 THEN seqs[i] ELSE f[i - 1] \o seqs[i]]
           Solves(f, m) == f = [i \in 1..m |-> IF i = 1 THEN seqs[i] ELSE f[i - 1] \o seqs[i]]
           S == {m \in Nat : \E f : Solves(f, m)}
<1>1. FlattenSeq(seqs) = flatten[N]
    <2>1. Len(seqs) # 0
        OBVIOUS
    <2>q. QED BY <2>1, Zenon DEF FlattenSeq
<1>2. ASSUME NEW m \in Nat, \A i \in Nat : i < m => i \in S PROVE \E f : Solves(f, m)
    <2>1. CASE m = 0
        <3> DEFINE g == [i \in {} |-> <<>>]
        <3>1. 1..m = {}
            BY <2>1
        <3>2. g = [i \in {} |-> IF i = 1 THEN seqs[i] ELSE g[i - 1] \o seqs[i]]
            OBVIOUS
        <3> HIDE DEF g
        <3>q. QED BY <3>1, <3>2
    <2>2. CASE m > 0
        <3>0. m - 1 \in Nat /\ m - 1 < m
            BY <2>2
        <3>1. \E f : Solves(f, m - 1)
            <4> HIDE DEF Solves
            <4>q. QED BY <1>2, <3>0
        <3>2. PICK f : Solves(f, m - 1)
            BY <3>1
        <3> DEFINE g == [i \in 1..m |-> IF i = m THEN IF m = 1 THEN seqs[m] ELSE f[m - 1] \o seqs[m] ELSE f[i]]
        <3>3. \A i \in 1..(m - 1) : i \in 1..m /\ g[i] = f[i]
            BY <3>0
        <3>4. \A i \in 1..(m - 1) : f[i] = IF i = 1 THEN seqs[i] ELSE f[i - 1] \o seqs[i]
            BY <3>2
        <3>5. g[m] = IF m = 1 THEN seqs[m] ELSE f[m - 1] \o seqs[m]
            BY <2>2
        <3>6. g = [i \in 1..m |-> g[i]]
            OBVIOUS
        <3> HIDE DEF g
        <3>7. ASSUME NEW i \in 1..m PROVE g[i] = IF i = 1 THEN seqs[i] ELSE g[i - 1] \o seqs[i]
            <4>1. i = m \/ i \in 1..(m - 1)
                BY <3>0
            <4>2. i # 1 => i - 1 \in 1..(m - 1)
                BY <3>0
            <4>q. QED BY <4>1, <4>2, <3>3, <3>4, <3>5
        <3>8. Solves(g, m)
            BY <3>6, <3>7, Zenon
        <3>q. QED BY <3>8
    <2> HIDE DEF Solves, S
    <2>q. QED BY <2>1, <2>2
<1>3. N \in S
    <2>1. \A m \in Nat : (\A i \in Nat : i < m => i \in S) => m \in S
        BY <1>2
    <2> HIDE DEF S
    <2>q. QED BY <2>1, Induction
<1>4. \E f : f = [i \in 1..N |-> IF i = 1 THEN seqs[i] ELSE f[i - 1] \o seqs[i]]
    BY <1>3
<1>5. flatten = [i \in 1..N |-> IF i = 1 THEN seqs[i] ELSE flatten[i - 1] \o seqs[i]]
    BY <1>4, Zenon
<1> HIDE DEF flatten
<1>q. QED BY <1>1, <1>5 DEF Flattens

\* The lines of an output.
OutLine(Paths) == [kind : {"marker", "ls", "stat", "STAT_ERR", "torn"}, path : Paths, age : Int]

\* What a line is made of.
LEMMA LineIs ==
    ASSUME NEW kind, NEW path, NEW age
    PROVE  /\ Line(kind, path, age).kind = kind /\ Line(kind, path, age).path = path
           /\ Line(kind, path, age).age = age
    BY DEF Line

\* A line is one of those an output may have.
LEMMA LineType ==
    ASSUME NEW Paths, NEW path \in Paths, NEW age \in Int,
           NEW kind \in {"marker", "ls", "stat", "STAT_ERR", "torn"}
    PROVE  Line(kind, path, age) \in OutLine(Paths)
    BY DEF Line, OutLine

\* A directory is of one of four kinds.
LEMMA DirectoryType ==
    ASSUME NEW d \in Directories
    PROVE  d.kind \in {"empty", "odd", "file", "new"} /\ d.age \in Int
<1>1. CASE d \in {[kind |-> "empty", age |-> 0], [kind |-> "odd", age |-> 0]}
    BY <1>1
<1>2. CASE d \in [kind : {"file", "new"}, age : Ages]
    <2>1. d.kind \in {"file", "new"} /\ d.age \in Ages
        BY <1>2
    <2>2. Ages \subseteq Int
        BY OutputsAssumption
    <2>q. QED BY <2>1, <2>2
<1>q. QED BY <1>1, <1>2 DEF Directories

\* What is printed of a directory begins with its marker and goes on with
\* lines of its own.
LEMMA PrintedIs ==
    ASSUME NEW Paths, NEW path \in Paths, NEW d \in Directories
    PROVE  LET b == Printed(path, d)
           IN  /\ b \in Seq(OutLine(Paths)) /\ Len(b) \in {2, 3}
               /\ b[1].kind = "marker"
               /\ \A i \in 1..Len(b) : b[i].path = path /\ (i > 1 => b[i].kind # "marker")
               /\ d.kind = "empty" => Len(b) = 2 /\ b[2].kind = "STAT_ERR"
               /\ d.kind # "empty" => b[2].kind \notin {"STAT_ERR", "torn"}
               /\ d.kind = "file" => Len(b) = 3 /\ b[3].kind = "stat" /\ b[3].age = d.age
               /\ Len(b) = 3 /\ d.kind # "file" => b[3].kind # "stat"
<1>1. d.kind \in {"empty", "odd", "file", "new"} /\ d.age \in Int
    BY DirectoryType
<1> DEFINE rest == CASE d.kind = "empty" -> <<Line("STAT_ERR", path, 0)>>
                     [] d.kind = "odd" -> <<Line("ls", path, 0), Line("STAT_ERR", path, 0)>>
                     [] d.kind = "file" -> <<Line("ls", path, 0), Line("stat", path, d.age)>>
                     [] d.kind = "new" -> <<Line("stat", path, d.age)>>
           b == Printed(path, d)
           first == <<Line("marker", path, 0)>>
<1>2. b = first \o rest
    BY DEF Printed
<1>3. /\ d.kind = "empty" => rest = <<Line("STAT_ERR", path, 0)>>
      /\ d.kind = "odd" => rest = <<Line("ls", path, 0), Line("STAT_ERR", path, 0)>>
      /\ d.kind = "file" => rest = <<Line("ls", path, 0), Line("stat", path, d.age)>>
      /\ d.kind = "new" => rest = <<Line("stat", path, d.age)>>
    OBVIOUS
<1> HIDE DEF rest
<1>4. \A kind \in {"marker", "ls", "stat", "STAT_ERR", "torn"}, age \in {0, d.age} :
          Line(kind, path, age) \in OutLine(Paths)
    BY <1>1, LineType
<1>5. first \in Seq(OutLine(Paths)) /\ Len(first) = 1 /\ first[1] = Line("marker", path, 0)
    BY <1>4
<1>6. rest \in Seq(OutLine(Paths)) /\ Len(rest) \in {1, 2} /\ (d.kind \in {"odd", "file"} <=> Len(rest) = 2)
    <2>1. CASE d.kind \in {"empty", "new"}
        <3>1. PICK l \in OutLine(Paths) : rest = <<l>>
            BY <1>3, <1>4, <2>1
        <3>q. QED BY <2>1, <3>1
    <2>2. CASE d.kind \in {"odd", "file"}
        <3>1. PICK l \in OutLine(Paths), k \in OutLine(Paths) : rest = <<l, k>>
            BY <1>3, <1>4, <2>2
        <3>q. QED BY <2>2, <3>1
    <2>q. QED BY <1>1, <2>1, <2>2
<1> HIDE DEF first, b
<1>7. /\ b \in Seq(OutLine(Paths)) /\ Len(b) = Len(rest) + 1
      /\ b[1] = first[1] /\ b[2] = rest[1] /\ (Len(b) = 3 => b[3] = rest[2])
    <2>1. /\ b \in Seq(OutLine(Paths)) /\ Len(b) = Len(first) + Len(rest)
          /\ \A i \in 1..(Len(first) + Len(rest)) :
                b[i] = IF i <= Len(first) THEN first[i] ELSE rest[i - Len(first)]
        BY <1>2, <1>5, <1>6, ConcatProperties
    <2>2. b[1] = first[1] /\ b[2] = rest[1]
        BY <1>5, <1>6, <2>1
    <2>3. ASSUME Len(b) = 3 PROVE b[3] = rest[2]
        <3>0. Len(first) = 1 /\ (Len(rest) = 1 \/ Len(rest) = 2) /\ Len(first) + Len(rest) = 3
            BY <1>5, <1>6, <2>1, <2>3
        <3>1. 3 \in 1..(Len(first) + Len(rest)) /\ ~(3 <= Len(first)) /\ 3 - Len(first) = 2
            BY <3>0
        <3>q. QED BY <2>1, <3>1
    <2>q. QED BY <1>5, <1>6, <2>1, <2>2, <2>3
<1>8. Len(b) \in {2, 3} /\ (d.kind \in {"odd", "file"} <=> Len(b) = 3)
    <2>1. CASE Len(rest) = 1
        BY <1>6, <1>7, <2>1
    <2>2. CASE Len(rest) = 2
        BY <1>6, <1>7, <2>2
    <2>q. QED BY <1>6, <2>1, <2>2
<1>9. b[1].kind = "marker" /\ b[1].path = path
    BY <1>5, <1>7, LineIs
<1>10. CASE d.kind = "empty"
    <2>1. b[2] = Line("STAT_ERR", path, 0) /\ Len(b) = 2
        BY <1>3, <1>7, <1>8, <1>10
    <2>q. QED BY <2>1, <1>7, <1>9, <1>10, LineIs DEF b
<1>11. CASE d.kind = "odd"
    <2>1. b[2] = Line("ls", path, 0) /\ b[3] = Line("STAT_ERR", path, 0) /\ Len(b) = 3
        BY <1>3, <1>7, <1>8, <1>11
    <2>q. QED BY <2>1, <1>7, <1>9, <1>11, LineIs DEF b
<1>12. CASE d.kind = "file"
    <2>1. b[2] = Line("ls", path, 0) /\ b[3] = Line("stat", path, d.age) /\ Len(b) = 3
        BY <1>3, <1>7, <1>8, <1>12
    <2>q. QED BY <2>1, <1>7, <1>9, <1>12, LineIs DEF b
<1>13. CASE d.kind = "new"
    <2>1. b[2] = Line("stat", path, d.age) /\ Len(b) = 2
        BY <1>3, <1>7, <1>8, <1>13
    <2>q. QED BY <2>1, <1>7, <1>9, <1>13, LineIs DEF b
<1>q. QED BY <1>1, <1>10, <1>11, <1>12, <1>13

\* Every marker in an output is followed by what was printed of its path, and
\* that by the end or by the next marker.
MarkersOK(out, directories) ==
    \A n \in 1..Len(out) : out[n].kind = "marker" =>
        LET b == Printed(out[n].path, directories[out[n].path])
        IN  /\ n + Len(b) - 1 <= Len(out)
            /\ \A i \in 1..Len(b) : out[n + i - 1] = b[i]
            /\ n + Len(b) <= Len(out) => out[n + Len(b)].kind = "marker"

\* The first paths of the list, printed.
PrintedOf(out, paths, directories, m) ==
    /\ out \in Seq(OutLine(ToSet(paths))) /\ out # <<>> /\ out[1].kind = "marker"
    /\ MarkersOK(out, directories)
    /\ \A j \in 1..m : \E n \in 1..Len(out) : out[n].kind = "marker" /\ out[n].path = paths[j]

\* The lines printed of one directory of the list.
LEMMA BlockOf ==
    ASSUME NEW paths \in BackupPaths, NEW directories \in [ToSet(paths) -> Directories],
           NEW j \in 1..Len(paths)
    PROVE  /\ paths[j] \in ToSet(paths) /\ directories[paths[j]] \in Directories
           /\ LET b == Printed(paths[j], directories[paths[j]])
              IN  /\ b \in Seq(OutLine(ToSet(paths))) /\ Len(b) \in {2, 3} /\ b[1].kind = "marker"
                  /\ \A i \in 1..Len(b) : b[i].path = paths[j] /\ (i > 1 => b[i].kind # "marker")
<1>1. paths \in Seq(ToSet(paths) \ {"none"})
    BY OutputsAssumption
<1>2. paths[j] \in ToSet(paths)
    BY <1>1 DEF ToSet
<1>3. directories[paths[j]] \in Directories
    BY <1>2
<1> DEFINE Paths == ToSet(paths)
           path == paths[j]
           d == directories[path]
           b == Printed(path, d)
<1>4. path \in Paths /\ d \in Directories
    BY <1>2, <1>3
<1> HIDE DEF Paths, path, d
<1>5. b \in Seq(OutLine(Paths)) /\ Len(b) \in {2, 3}
    BY <1>4, PrintedIs
<1>6. b[1].kind = "marker" /\ \A i \in 1..Len(b) : b[i].path = path /\ (i > 1 => b[i].kind # "marker")
    BY <1>4, PrintedIs
<1>q. QED BY <1>2, <1>3, <1>5, <1>6 DEF Paths, path, d

\* What was printed of the first directory is such an output,
LEMMA FirstPrinted ==
    ASSUME NEW paths \in BackupPaths, NEW directories \in [ToSet(paths) -> Directories],
           1 \in 1..Len(paths)
    PROVE  PrintedOf(Printed(paths[1], directories[paths[1]]), paths, directories, 1)
<1> DEFINE b == Printed(paths[1], directories[paths[1]])
<1>1. /\ b \in Seq(OutLine(ToSet(paths))) /\ Len(b) \in {2, 3} /\ b[1].kind = "marker"
      /\ \A i \in 1..Len(b) : b[i].path = paths[1] /\ (i > 1 => b[i].kind # "marker")
    BY BlockOf
<1> HIDE DEF b
<1>2. ASSUME NEW n \in 1..Len(b), b[n].kind = "marker" PROVE n = 1 /\ b[n].path = paths[1]
    BY <1>1, <1>2
<1>3. \A i \in 1..Len(b) : 1 + i - 1 = i
    BY <1>1
<1>4. 1 + Len(b) - 1 = Len(b) /\ ~(1 + Len(b) <= Len(b)) /\ 1 \in 1..Len(b)
    BY <1>1
<1>5. MarkersOK(b, directories)
    <2>1. ASSUME NEW n \in 1..Len(b), b[n].kind = "marker"
          PROVE  /\ Printed(b[n].path, directories[b[n].path]) = b
                 /\ n + Len(b) - 1 <= Len(b)
                 /\ \A i \in 1..Len(b) : b[n + i - 1] = b[i]
                 /\ n + Len(b) <= Len(b) => b[n + Len(b)].kind = "marker"
        BY <1>1, <1>2, <1>3, <1>4, <2>1 DEF b
    <2>q. QED BY <2>1 DEF MarkersOK
<1>6. \A j \in 1..1 : \E n \in 1..Len(b) : b[n].kind = "marker" /\ b[n].path = paths[j]
    BY <1>1, <1>4
<1>7. b # <<>>
    BY <1>1
<1>q. QED BY <1>1, <1>5, <1>6, <1>7 DEF PrintedOf, b

\* and what was printed of one more directory may follow.
LEMMA NextPrinted ==
    ASSUME NEW paths \in BackupPaths, NEW directories \in [ToSet(paths) -> Directories],
           NEW m \in Nat, m + 1 \in 1..Len(paths),
           NEW out, PrintedOf(out, paths, directories, m)
    PROVE  PrintedOf(out \o Printed(paths[m + 1], directories[paths[m + 1]]), paths, directories, m + 1)
<1> DEFINE b == Printed(paths[m + 1], directories[paths[m + 1]])
           all == out \o b
           Block(l) == Printed(l.path, directories[l.path])
<1>1. /\ b \in Seq(OutLine(ToSet(paths))) /\ Len(b) \in {2, 3} /\ b[1].kind = "marker"
      /\ \A i \in 1..Len(b) : b[i].path = paths[m + 1] /\ (i > 1 => b[i].kind # "marker")
    BY BlockOf
<1>2. out \in Seq(OutLine(ToSet(paths))) /\ out # <<>> /\ out[1].kind = "marker" /\ Len(out) \in Nat /\ Len(out) > 0
    BY DEF PrintedOf
<1>b. \A l : l.path = paths[m + 1] => Block(l) = b
    OBVIOUS
<1> HIDE DEF b
<1>3. /\ all \in Seq(OutLine(ToSet(paths))) /\ Len(all) = Len(out) + Len(b)
      /\ \A i \in 1..(Len(out) + Len(b)) : all[i] = IF i <= Len(out) THEN out[i] ELSE b[i - Len(out)]
    BY <1>1, <1>2, ConcatProperties
<1> HIDE DEF all
<1>4. ASSUME NEW i \in 1..Len(out) PROVE i \in 1..Len(all) /\ all[i] = out[i]
    BY <1>1, <1>2, <1>3
<1>5. ASSUME NEW i \in 1..Len(b) PROVE Len(out) + i \in 1..Len(all) /\ all[Len(out) + i] = b[i]
    <2>1. PICK k \in 1..(Len(out) + Len(b)) : k = Len(out) + i
        BY <1>1, <1>2
    <2>2. ~(k <= Len(out)) /\ k - Len(out) = i
        BY <1>1, <1>2, <2>1
    <2>3. all[k] = b[i]
        BY <1>3, <2>2
    <2>q. QED BY <1>3, <2>1, <2>3
<1>6. ASSUME NEW n \in 1..Len(all)
      PROVE  n \in 1..Len(out) \/ \E i \in 1..Len(b) : n = Len(out) + i
    <2>1. CASE n > Len(out)
        <3>1. n - Len(out) \in 1..Len(b) /\ n = Len(out) + (n - Len(out))
            BY <1>1, <1>2, <1>3, <2>1
        <3>q. QED BY <3>1
    <2>q. QED BY <1>2, <2>1
<1>7. MarkersOK(all, directories)
    <2> SUFFICES ASSUME NEW n \in 1..Len(all), all[n].kind = "marker"
                 PROVE  /\ n + Len(Block(all[n])) - 1 <= Len(all)
                        /\ \A i \in 1..Len(Block(all[n])) : all[n + i - 1] = Block(all[n])[i]
                        /\ n + Len(Block(all[n])) <= Len(all) => all[n + Len(Block(all[n]))].kind = "marker"
        BY DEF MarkersOK
    <2>1. CASE n \in 1..Len(out)
        <3> DEFINE c == Block(all[n])
        <3>1. all[n] = out[n] /\ out[n].path \in ToSet(paths)
            <4>1. out[n] \in OutLine(ToSet(paths))
                BY <1>2, <2>1, ElementOfSeq
            <4>q. QED BY <1>4, <2>1, <4>1 DEF OutLine
        <3>2. Len(c) \in {2, 3}
            BY <3>1, PrintedIs
        <3>3. /\ n + Len(c) - 1 <= Len(out)
              /\ \A i \in 1..Len(c) : out[n + i - 1] = c[i]
              /\ n + Len(c) <= Len(out) => out[n + Len(c)].kind = "marker"
            BY <2>1, <3>1 DEF PrintedOf, MarkersOK
        <3> HIDE DEF c, Block
        <3>4. ASSUME NEW i \in 1..Len(c) PROVE all[n + i - 1] = c[i]
            <4>1. n + i - 1 \in 1..Len(out)
                BY <1>2, <2>1, <3>2, <3>3
            <4>q. QED BY <1>4, <3>3, <4>1
        <3>5. ASSUME n + Len(c) <= Len(all) PROVE all[n + Len(c)].kind = "marker"
            <4>1. CASE n + Len(c) <= Len(out)
                <5>1. n + Len(c) \in 1..Len(out)
                    BY <1>2, <2>1, <3>2, <4>1
                <5>q. QED BY <1>4, <3>3, <4>1, <5>1
            <4>2. CASE ~(n + Len(c) <= Len(out))
                <5>1. n + Len(c) = Len(out) + 1 /\ 1 \in 1..Len(b)
                    BY <1>1, <1>2, <2>1, <3>2, <3>3, <4>2
                <5>q. QED BY <1>1, <1>5, <5>1
            <4>q. QED BY <4>1, <4>2
        <3>6. n + Len(c) - 1 <= Len(all)
            BY <1>1, <1>2, <1>3, <2>1, <3>2, <3>3
        <3>q. QED BY <3>4, <3>5, <3>6 DEF c
    <2>2. CASE \E i \in 1..Len(b) : n = Len(out) + i
        <3>1. PICK i \in 1..Len(b) : n = Len(out) + i
            BY <2>2
        <3>2. all[n] = b[i]
            BY <1>5, <3>1
        <3>3. i = 1 /\ Block(all[n]) = b
            BY <1>1, <1>b, <3>2
        <3> HIDE DEF Block
        <3>4. n = Len(out) + 1 /\ n + Len(b) - 1 <= Len(all) /\ ~(n + Len(b) <= Len(all))
            BY <1>1, <1>2, <1>3, <3>1, <3>3
        <3>5. ASSUME NEW k \in 1..Len(b) PROVE all[n + k - 1] = b[k]
            <4>1. n + k - 1 = Len(out) + k
                BY <1>1, <1>2, <3>4
            <4>q. QED BY <1>5, <4>1
        <3>q. QED BY <3>3, <3>4, <3>5
    <2>q. QED BY <1>6, <2>1, <2>2
<1>8. ASSUME NEW j \in 1..(m + 1)
      PROVE  \E n \in 1..Len(all) : all[n].kind = "marker" /\ all[n].path = paths[j]
    <2>1. CASE j \in 1..m
        <3>1. PICK n \in 1..Len(out) : out[n].kind = "marker" /\ out[n].path = paths[j]
            BY <2>1 DEF PrintedOf
        <3>q. QED BY <1>4, <3>1
    <2>2. CASE j = m + 1
        <3>1. 1 \in 1..Len(b)
            BY <1>1
        <3>2. Len(out) + 1 \in 1..Len(all) /\ all[Len(out) + 1] = b[1]
            BY <1>5, <3>1
        <3>q. QED BY <1>1, <2>2, <3>1, <3>2
    <2>q. QED BY <2>1, <2>2
<1>9. all # <<>> /\ all[1].kind = "marker"
    <2>1. 1 \in 1..Len(out)
        BY <1>2
    <2>2. Len(all) > 0
        BY <1>1, <1>2, <1>3
    <2>q. QED BY <1>2, <1>3, <1>4, <2>1, <2>2
<1>10. PrintedOf(all, paths, directories, m + 1)
    BY <1>3, <1>7, <1>8, <1>9 DEF PrintedOf
<1>q. QED BY <1>10 DEF all, b

\* The output of /backups is what was printed of each directory of the list.
LEMMA CheckOutputIs ==
    ASSUME NEW paths \in BackupPaths, NEW directories \in [ToSet(paths) -> Directories],
           Len(paths) > 0
    PROVE  PrintedOf(CheckOutput(paths, directories), paths, directories, Len(paths))
<1> DEFINE N == Len(paths)
           seqs == [i \in 1..N |-> Printed(paths[i], directories[paths[i]])]
<1>1. N \in Nat \ {0}
    BY OutputsAssumption
<1>2. Len(seqs) = N
    BY <1>1
<1>3. \A i \in 1..N : seqs[i] = Printed(paths[i], directories[paths[i]])
    OBVIOUS
<1>4. CheckOutput(paths, directories) = FlattenSeq(seqs)
    BY DEF CheckOutput
<1> HIDE DEF seqs
<1>5. PICK f : Flattens(seqs, f) /\ FlattenSeq(seqs) = f[N]
    BY <1>1, <1>2, FlattenSeqIs
<1>6. \A i \in 1..N : f[i] = IF i = 1 THEN seqs[i] ELSE f[i - 1] \o seqs[i]
    BY <1>2, <1>5 DEF Flattens
<1> DEFINE S == {m \in Nat : m \in 1..N => PrintedOf(f[m], paths, directories, m)}
<1>7. ASSUME NEW m \in Nat, \A i \in Nat : i < m => i \in S, m \in 1..N
      PROVE  PrintedOf(f[m], paths, directories, m)
    <2>1. CASE m = 1
        <3>1. f[m] = Printed(paths[1], directories[paths[1]])
            BY <1>3, <1>6, <1>7, <2>1
        <3>q. QED BY <1>7, <2>1, <3>1, FirstPrinted
    <2>2. CASE m # 1
        <3>1. PICK k \in Nat : m = k + 1
            BY <1>7, <2>2
        <3>2. k \in 1..N /\ k < m /\ m - 1 = k
            BY <1>1, <1>7, <2>2, <3>1
        <3>3. PrintedOf(f[k], paths, directories, k)
            BY <1>7, <3>2
        <3>4. f[m] = f[k] \o Printed(paths[k + 1], directories[paths[k + 1]])
            BY <1>3, <1>6, <1>7, <2>2, <3>1, <3>2
        <3>q. QED BY <1>7, <3>1, <3>3, <3>4, NextPrinted
    <2>q. QED BY <2>1, <2>2
<1>8. N \in S
    <2>1. \A m \in Nat : (\A i \in Nat : i < m => i \in S) => m \in S
        BY <1>7
    <2> HIDE DEF S
    <2>q. QED BY <1>1, <2>1, Induction
<1>9. N \in 1..N
    BY <1>1
<1>q. QED BY <1>4, <1>5, <1>8, <1>9

\* What came back is the beginning of the output; its last line may be torn.
Begins(back, out) ==
    /\ Len(back) \in Nat /\ Len(back) <= Len(out)
    /\ \A n \in 1..Len(back) : back[n] = out[n] \/ (n = Len(back) /\ back[n] = Torn(out[n]))

\* A torn line is still of its directory, and no marker, age or STAT_ERR.
LEMMA TornIs ==
    ASSUME NEW Paths, NEW line \in OutLine(Paths)
    PROVE  /\ Torn(line) \in OutLine(Paths) /\ Torn(line).path = line.path
           /\ Torn(line).kind \in {"ls", "torn"}
           /\ line.kind # "ls" => Torn(line).kind = "torn"
<1>1. line.path \in Paths
    BY DEF OutLine
<1>2. CASE line.kind = "ls"
    <2>1. Torn(line) = Line("ls", line.path, 0)
        BY <1>2 DEF Torn
    <2>2. Line("ls", line.path, 0) \in OutLine(Paths)
        BY <1>1, LineType
    <2>q. QED BY <1>2, <2>1, <2>2, LineIs
<1>3. CASE line.kind # "ls"
    <2>1. Torn(line) = Line("torn", line.path, 0)
        BY <1>3 DEF Torn
    <2>2. Line("torn", line.path, 0) \in OutLine(Paths)
        BY <1>1, LineType
    <2>q. QED BY <2>1, <2>2, LineIs
<1>q. QED BY <1>2, <1>3

\* What came back is the beginning of the output, its last line perhaps torn.
LEMMA BrokenOffIs ==
    ASSUME NEW Paths, NEW out \in Seq(OutLine(Paths)), NEW back \in BrokenOff(out)
    PROVE  back \in Seq(OutLine(Paths)) /\ Begins(back, out)
<1>1. Len(out) \in Nat /\ \A n \in 1..Len(out) : out[n] \in OutLine(Paths)
    BY ElementOfSeq
<1>2. ASSUME NEW l \in 0..Len(out)
      PROVE  LET s == SubSeq(out, 1, l)
             IN  s \in Seq(OutLine(Paths)) /\ Len(s) = l /\ \A n \in 1..l : s[n] = out[n]
    <2> DEFINE s == SubSeq(out, 1, l)
    <2>1. \A n \in 1..l : out[n] \in OutLine(Paths)
        BY <1>1
    <2>2. /\ s \in Seq(OutLine(Paths)) /\ Len(s) = IF 1 <= l THEN l - 1 + 1 ELSE 0
          /\ \A n \in 1..(l - 1 + 1) : s[n] = out[1 + n - 1]
        BY <1>1, <2>1, SubSeqProperties
    <2> HIDE DEF s
    <2>3. Len(s) = l /\ \A n \in 1..l : s[n] = out[n]
        BY <1>1, <2>2
    <2>q. QED BY <2>2, <2>3 DEF s
<1>3. CASE back \in Prefixes(out)
    <2>1. PICK l \in 0..Len(out) : back = SubSeq(out, 1, l)
        BY <1>3 DEF Prefixes
    <2>2. back \in Seq(OutLine(Paths)) /\ Len(back) = l /\ \A n \in 1..l : back[n] = out[n]
        BY <1>2, <2>1
    <2>q. QED BY <1>1, <2>2 DEF Begins
<1>4. ASSUME NEW l \in 1..Len(out), back = Append(SubSeq(out, 1, l - 1), Torn(out[l]))
      PROVE  back \in Seq(OutLine(Paths)) /\ Begins(back, out)
    <2> DEFINE s == SubSeq(out, 1, l - 1)
    <2>1. s \in Seq(OutLine(Paths)) /\ Len(s) = l - 1 /\ \A n \in 1..(l - 1) : s[n] = out[n]
        <3>1. l - 1 \in 0..Len(out)
            BY <1>1
        <3>q. QED BY <1>2, <3>1
    <2> HIDE DEF s
    <2>2. Torn(out[l]) \in OutLine(Paths)
        BY <1>1, TornIs
    <2>3. /\ back \in Seq(OutLine(Paths)) /\ Len(back) = Len(s) + 1
          /\ \A n \in 1..Len(s) : back[n] = s[n]
          /\ back[Len(s) + 1] = Torn(out[l])
        BY <1>4, <2>1, <2>2, AppendProperties DEF s
    <2>4. Len(back) = l /\ back[l] = Torn(out[l]) /\ \A n \in 1..(l - 1) : back[n] = out[n]
        BY <1>1, <2>1, <2>3
    <2>5. \A n \in 1..l : n = l \/ n \in 1..(l - 1)
        BY <1>1
    <2>q. QED BY <1>1, <2>3, <2>4, <2>5 DEF Begins
<1>q. QED BY <1>3, <1>4 DEF BrokenOff

\* Marker finds a marker of the path when there is one from there on.
LEMMA MarkerIs ==
    ASSUME NEW out, Len(out) \in Nat, NEW path, NEW from \in Nat \ {0}
    PROVE  LET m == Marker(out, path, from)
           IN  \/ m = 0 /\ \A n \in from..Len(out) : ~(out[n].kind = "marker" /\ out[n].path = path)
               \/ m \in from..Len(out) /\ out[m].kind = "marker" /\ out[m].path = path
<1> DEFINE I == {i \in from..Len(out) : out[i].kind = "marker" /\ out[i].path = path}
<1>1. Marker(out, path, from) = IF I # {} THEN Min(I) ELSE 0
    BY DEF Marker, SelectInSubSeq
<1>2. CASE I # {}
    <2>1. I \in SUBSET Nat
        OBVIOUS
    <2>2. Min(I) \in I
        BY <1>2, <2>1, LeastIs
    <2>3. Min(I) \in from..Len(out) /\ out[Min(I)].kind = "marker" /\ out[Min(I)].path = path
        BY <2>2
    <2> HIDE DEF I
    <2>q. QED BY <1>1, <1>2, <2>3
<1>3. CASE I = {}
    BY <1>1, <1>3
<1>q. QED BY <1>2, <1>3

\* A section ends with the output, or before another marker.
LEMMA SectionEndIs ==
    ASSUME NEW out, Len(out) \in Nat, NEW paths \in BackupPaths, NEW i \in 1..Len(paths),
           NEW start \in Nat \ {0}, start <= Len(out) + 1
    PROVE  LET end == SectionEnd(out, paths, i, start)
           IN  /\ end \in (start - 1)..Len(out)
               /\ end = Len(out) \/ out[end + 1].kind = "marker"
<1> DEFINE I == {j \in (i + 1)..Len(paths) : Marker(out, paths[j], start) # 0}
           next == IF I # {} THEN Min(I) ELSE 0
<1>0. Len(paths) \in Nat
    BY OutputsAssumption
<1>1. SectionEnd(out, paths, i, start) = IF next = 0 THEN Len(out) ELSE Marker(out, paths[next], start) - 1
    BY DEF SectionEnd, SelectInSubSeq
<1>2. CASE I # {}
    <2>1. I \in SUBSET Nat
        BY <1>0
    <2>2. Min(I) \in I
        BY <1>2, <2>1, LeastIs
    <2>3. Min(I) \in Nat /\ Min(I) > 0 /\ Marker(out, paths[Min(I)], start) # 0
        BY <1>0, <2>2
    <2> DEFINE m == Marker(out, paths[Min(I)], start)
    <2>4. m \in start..Len(out) /\ out[m].kind = "marker"
        BY <2>3, MarkerIs
    <2>5. next = Min(I) /\ next # 0
        BY <1>2, <2>3
    <2>6. SectionEnd(out, paths, i, start) = m - 1
        <3> HIDE DEF I
        <3>q. QED BY <1>1, <2>5
    <2> HIDE DEF m, I
    <2>q. QED BY <2>4, <2>6
<1>3. CASE I = {}
    BY <1>1, <1>3
<1>q. QED BY <1>2, <1>3

\* The status of a path is that of the lines after its marker, if that came
\* back: of what was printed of it, perhaps torn.
LEMMA StatusIs ==
    ASSUME NEW paths \in BackupPaths, NEW directories \in [ToSet(paths) -> Directories],
           NEW i \in 1..Len(paths), NEW maxAge \in MaxAges,
           NEW back \in BrokenOff(CheckOutput(paths, directories))
    PROVE  LET path == paths[i]
               directory == directories[path]
               status == Status(Section(back, paths, i), maxAge, "none")
           IN  /\ status.file \in {path, "none"} /\ status.age \in {path, "none"}
               /\ directory.kind = "empty" /\ status.hasData => back[Len(back)].kind = "torn"
               /\ status.age = path => status.ageOK = (maxAge <= 0 \/ directory.age <= maxAge)
               /\ back = CheckOutput(paths, directories) =>
                     /\ status.hasData = (directory.kind # "empty")
                     /\ (status.age = path) = (directory.kind = "file")
<1> DEFINE path == paths[i]
           d == directories[path]
           out == CheckOutput(paths, directories)
           Paths == ToSet(paths)
           start == Marker(back, path, 1)
           section == Section(back, paths, i)
           status == Status(section, maxAge, "none")
           b == Printed(path, d)
<1>1. paths \in Seq(ToSet(paths) \ {"none"}) /\ Len(paths) \in Nat /\ Len(paths) > 0
    BY OutputsAssumption
<1>2. path \in Paths /\ d \in Directories /\ path # "none"
    BY <1>1, BlockOf
<1>3. /\ out \in Seq(OutLine(Paths)) /\ Len(out) \in Nat /\ MarkersOK(out, directories)
      /\ \E n \in 1..Len(out) : out[n].kind = "marker" /\ out[n].path = path
    BY <1>1, CheckOutputIs DEF PrintedOf
<1>4. back \in Seq(OutLine(Paths)) /\ Begins(back, out) /\ Len(back) \in Nat
    BY <1>3, BrokenOffIs
<1>5. section = IF start = 0 THEN <<>> ELSE SubSeq(back, start + 1, SectionEnd(back, paths, i, start + 1))
    BY DEF Section
<1> DEFINE named == Len(section) > 0 /\ section[1].kind # "STAT_ERR"
           dated == Len(section) > 1 /\ section[2].kind = "stat"
<1>6. /\ status.hasData = (named \/ dated)
      /\ status.file = IF named THEN section[1].path ELSE "none"
      /\ status.age = IF dated THEN section[2].path ELSE "none"
      /\ status.ageOK = (dated => AgeOK(section[2].age, maxAge))
    BY DEF Status
<1>7. \/ start = 0 /\ \A n \in 1..Len(back) : ~(back[n].kind = "marker" /\ back[n].path = path)
      \/ start \in 1..Len(back) /\ back[start].kind = "marker" /\ back[start].path = path
    BY <1>4, MarkerIs
<1> SUFFICES
      /\ status.file \in {path, "none"} /\ status.age \in {path, "none"}
      /\ d.kind = "empty" /\ status.hasData => back[Len(back)].kind = "torn"
      /\ status.age = path => status.ageOK = (maxAge <= 0 \/ d.age <= maxAge)
      /\ back = out => /\ status.hasData = (d.kind # "empty")
                       /\ (status.age = path) = (d.kind = "file")
    OBVIOUS
<1>b. /\ b \in Seq(OutLine(Paths)) /\ Len(b) \in {2, 3}
      /\ b[1].kind = "marker"
      /\ \A k \in 1..Len(b) : b[k].path = path /\ (k > 1 => b[k].kind # "marker")
      /\ d.kind = "empty" => Len(b) = 2 /\ b[2].kind = "STAT_ERR"
      /\ d.kind # "empty" => b[2].kind \notin {"STAT_ERR", "torn"}
      /\ d.kind = "file" => Len(b) = 3 /\ b[3].kind = "stat" /\ b[3].age = d.age
      /\ Len(b) = 3 /\ d.kind # "file" => b[3].kind # "stat"
    <2> HIDE DEF path, d, Paths
    <2>q. QED BY <1>2, PrintedIs
<1>m. \A n \in 1..Len(out) : out[n].kind = "marker" /\ out[n].path = path =>
          /\ n + Len(b) - 1 <= Len(out)
          /\ \A k \in 1..Len(b) : out[n + k - 1] = b[k]
          /\ n + Len(b) <= Len(out) => out[n + Len(b)].kind = "marker"
    BY <1>3 DEF MarkersOK
<1> DEFINE end == SectionEnd(back, paths, i, start + 1)
<1>e. start \in 1..Len(back) => end \in start..Len(back) /\ (end = Len(back) \/ back[end + 1].kind = "marker")
    <2> SUFFICES ASSUME start \in 1..Len(back)
                 PROVE  end \in start..Len(back) /\ (end = Len(back) \/ back[end + 1].kind = "marker")
        OBVIOUS
    <2> DEFINE from == start + 1
    <2>1. from \in Nat \ {0} /\ from <= Len(back) + 1 /\ from - 1 = start
        BY <1>4
    <2>2. end = SectionEnd(back, paths, i, from)
        OBVIOUS
    <2> HIDE DEF from, end, start
    <2>3. end \in (from - 1)..Len(back) /\ (end = Len(back) \/ back[end + 1].kind = "marker")
        BY <1>4, <2>1, <2>2, SectionEndIs
    <2>q. QED BY <2>1, <2>3
<1>s. section = IF start = 0 THEN <<>> ELSE SubSeq(back, start + 1, end)
    BY <1>5
<1>o. \A n \in 1..Len(out) : out[n] \in OutLine(Paths)
    BY <1>3, ElementOfSeq
<1>k. \A n \in 1..Len(back) : back[n] \in OutLine(Paths)
    BY <1>4, ElementOfSeq
<1>t. \A l \in OutLine(Paths) : /\ Torn(l).path = l.path /\ Torn(l).kind \in {"ls", "torn"}
                                /\ l.kind # "ls" => Torn(l).kind = "torn"
    BY TornIs
<1> HIDE DEF path, d, out, Paths, start, section, status, b, end
<1>8. CASE start = 0
    <2>1. ~named /\ ~dated
        BY <1>s, <1>8
    <2>2. back # out
        <3>1. ~ \E n \in 1..Len(back) : back[n].kind = "marker" /\ back[n].path = path
            BY <1>4, <1>7, <1>8
        <3>q. QED BY <1>3, <3>1
    <2>q. QED BY <1>2, <1>6, <2>1, <2>2
<1>9. CASE start \in 1..Len(back)
    <2>1. back[start].kind = "marker" /\ back[start].path = path /\ start \in Nat /\ start > 0
        BY <1>4, <1>7, <1>9
    <2>2. start \in 1..Len(out) /\ out[start] = back[start]
        <3>1. start \in 1..Len(out) /\ (back[start] = out[start] \/ back[start] = Torn(out[start]))
            BY <1>3, <1>4, <1>9 DEF Begins
        <3>2. Torn(out[start]).kind # "marker"
            BY <1>o, <1>t, <3>1
        <3>q. QED BY <2>1, <3>1, <3>2
    <2>3. /\ start + Len(b) - 1 <= Len(out)
          /\ \A k \in 1..Len(b) : out[start + k - 1] = b[k]
          /\ start + Len(b) <= Len(out) => out[start + Len(b)].kind = "marker"
        BY <1>m, <2>1, <2>2
    <2>4. end \in start..Len(back) /\ (end = Len(back) \/ back[end + 1].kind = "marker") /\ end \in Nat
        BY <1>4, <1>e, <1>9
    <2>5. /\ Len(section) = end - start
          /\ \A k \in 1..(end - start) : section[k] = back[start + k]
        <3>1. \A n \in (start + 1)..end : back[n] \in OutLine(Paths)
            BY <1>4, <1>k, <2>1, <2>4
        <3>2. section = SubSeq(back, start + 1, end)
            <4>1. start # 0
                BY <2>1
            <4>q. QED BY <1>s, <4>1, Zenon
        <3>3. /\ Len(section) = IF start + 1 <= end THEN end - (start + 1) + 1 ELSE 0
              /\ \A k \in 1..(end - (start + 1) + 1) : section[k] = back[start + 1 + k - 1]
            BY <2>1, <2>4, <3>1, <3>2, SubSeqProperties
        <3>4. Len(section) = end - start /\ end - (start + 1) + 1 = end - start
            BY <2>1, <2>4, <3>3
        <3>5. ASSUME NEW k \in 1..(end - start) PROVE section[k] = back[start + k]
            <4>1. start + 1 + k - 1 = start + k
                BY <2>1
            <4>q. QED BY <3>3, <3>4, <4>1
        <3>q. QED BY <3>4, <3>5
    <2>6. ASSUME NEW n \in 1..Len(back) PROVE n \in 1..Len(out) /\ (back[n] = out[n] \/ (n = Len(back) /\ back[n] = Torn(out[n])))
        BY <1>3, <1>4 DEF Begins
    <2>7. ASSUME Len(section) > 0
          PROVE  /\ b[2] \in OutLine(Paths) /\ b[2].path = path
                 /\ section[1] = b[2] \/ (start + 1 = Len(back) /\ section[1] = Torn(b[2]) /\ back[Len(back)] = Torn(b[2]))
        <3>1. start + 1 \in 1..Len(back) /\ section[1] = back[start + 1]
            BY <1>4, <2>1, <2>4, <2>5, <2>7
        <3>2. 2 \in 1..Len(b) /\ start + 2 - 1 = start + 1
            BY <1>b, <2>1
        <3>3. out[start + 1] = b[2]
            BY <2>3, <3>2
        <3>4. b[2] \in OutLine(Paths) /\ b[2].path = path
            BY <1>b, <3>2, ElementOfSeq
        <3>q. QED BY <2>6, <3>1, <3>3, <3>4
    <2>8. ASSUME dated
          PROVE  d.kind = "file" /\ section[2].path = path /\ section[2].age = d.age
        <3>1. start + 2 \in 1..Len(back) /\ section[2] = back[start + 2]
            BY <1>4, <2>1, <2>4, <2>5, <2>8
        <3>2. start + 2 \in 1..Len(out) /\ section[2] = out[start + 2]
            <4>1. start + 2 \in 1..Len(out) /\ (section[2] = out[start + 2] \/ section[2] = Torn(out[start + 2]))
                BY <2>6, <3>1
            <4>2. Torn(out[start + 2]).kind # "stat"
                BY <1>o, <1>t, <4>1
            <4>q. QED BY <2>8, <4>1, <4>2
        <3>3. Len(b) # 2
            <4> SUFFICES ASSUME Len(b) = 2 PROVE FALSE
                OBVIOUS
            <4>1. start + Len(b) <= Len(out)
                BY <1>3, <3>2
            <4>q. QED BY <2>3, <2>8, <3>2, <4>1
        <3>4. 3 \in 1..Len(b) /\ Len(b) = 3 /\ start + 3 - 1 = start + 2
            BY <1>b, <2>1, <3>3
        <3>5. section[2] = b[3]
            BY <2>3, <3>2, <3>4
        <3>6. b[3].kind = "stat" /\ b[3].path = path
            BY <1>b, <2>8, <3>4, <3>5
        <3>q. QED BY <1>b, <3>4, <3>5, <3>6
    <2>9. ASSUME named PROVE section[1].path = path /\ Len(section) > 0
        BY <1>t, <2>7, <2>9
    <2>10. status.file \in {path, "none"} /\ status.age \in {path, "none"}
        BY <1>6, <2>8, <2>9
    <2>11. ASSUME d.kind = "empty", status.hasData PROVE back[Len(back)].kind = "torn"
        <3>1. named
            BY <1>6, <2>8, <2>11
        <3>2. b[2].kind = "STAT_ERR"
            BY <1>b, <2>11
        <3>3. section[1] # b[2]
            BY <3>1, <3>2
        <3>q. QED BY <1>t, <2>7, <2>9, <3>1, <3>2, <3>3
    <2>12. ASSUME status.age = path PROVE status.ageOK = (maxAge <= 0 \/ d.age <= maxAge)
        <3>1. dated
            BY <1>2, <1>6, <2>12
        <3>2. AgeOK(d.age, maxAge) = (maxAge <= 0 \/ d.age <= maxAge)
            BY OutputsAssumption DEF AgeOK
        <3>q. QED BY <1>6, <2>8, <3>1, <3>2
    <2>13. ASSUME back = out
           PROVE  /\ status.hasData = (d.kind # "empty")
                  /\ (status.age = path) = (d.kind = "file")
        <3>1. end - start >= Len(b) - 1
            <4>1. CASE end = Len(back)
                BY <1>b, <1>3, <2>1, <2>3, <2>4, <2>13, <4>1
            <4>2. CASE back[end + 1].kind = "marker"
                <5> SUFFICES ASSUME end - start < Len(b) - 1 PROVE FALSE
                    BY <1>b, <2>1, <2>4
                <5> DEFINE k == end + 2 - start
                <5>1. k \in 1..Len(b) /\ k > 1 /\ start + k - 1 = end + 1
                    BY <1>b, <2>1, <2>4
                <5> HIDE DEF k
                <5>2. out[end + 1] = b[k]
                    BY <2>3, <5>1
                <5>q. QED BY <1>b, <2>13, <4>2, <5>1, <5>2
            <4>q. QED BY <2>4, <4>1, <4>2
        <3>2. Len(section) > 0 /\ 1 \in 1..(end - start) /\ section[1] = back[start + 1]
            BY <1>b, <2>1, <2>4, <2>5, <3>1
        <3>3. section[1] = b[2]
            <4>1. 2 \in 1..Len(b) /\ start + 2 - 1 = start + 1
                BY <1>b, <2>1
            <4>q. QED BY <2>3, <2>13, <3>2, <4>1
        <3>4. named = (d.kind # "empty")
            BY <1>b, <3>2, <3>3
        <3>5. ASSUME d.kind = "file" PROVE dated
            <4>1. 3 \in 1..Len(b) /\ Len(b) = 3 /\ start + 3 - 1 = start + 2 /\ b[3].kind = "stat"
                <5>1. Len(b) = 3 /\ b[3].kind = "stat"
                    BY <1>b, <3>5
                <5>q. QED BY <2>1, <5>1
            <4>2. 2 \in 1..(end - start) /\ Len(section) > 1
                BY <2>1, <2>4, <2>5, <3>1, <4>1
            <4>3. section[2] = b[3]
                BY <2>3, <2>5, <2>13, <4>1, <4>2
            <4>q. QED BY <4>1, <4>2, <4>3
        <3>6. dated <=> d.kind = "file"
            BY <2>8, <3>5
        <3>7. (status.age = path) = dated
            BY <1>2, <1>6, <2>8
        <3>q. QED BY <1>6, <3>4, <3>6, <3>7
    <2>q. QED BY <2>10, <2>11, <2>12, <2>13
<1>q. QED BY <1>7, <1>8, <1>9

\* Every directory is shown with its own file and age, wherever the output
\* breaks off.
LEMMA StatusesKept == StatusesAreTheirOwn
<1>1. ASSUME NEW paths \in BackupPaths, NEW directories \in [ToSet(paths) -> Directories],
             NEW out \in BrokenOff(CheckOutput(paths, directories)), NEW i \in 1..Len(paths),
             NEW maxAge \in MaxAges
      PROVE  LET path == paths[i]
                 directory == directories[path]
                 status == Status(Section(out, paths, i), maxAge, "none")
             IN  /\ status.file \in {path, "none"} /\ status.age \in {path, "none"}
                 /\ directory.kind = "empty" /\ status.hasData => out[Len(out)].kind = "torn"
                 /\ status.age = path => status.ageOK = (maxAge <= 0 \/ directory.age <= maxAge)
                 /\ out = CheckOutput(paths, directories) =>
                       /\ status.hasData = (directory.kind # "empty")
                       /\ (status.age = path) = (directory.kind = "file")
    BY StatusIs
<1>q. QED BY <1>1, Zenon DEF StatusesAreTheirOwn

-----------------------------------------------------------------------------
(* Outputs, /status: the load between two samples.                         *)

\* A quotient lies between the numbers its dividend lies between the multiples
\* of.
LEMMA QuotientIs ==
    ASSUME NEW a \in Int, NEW b \in Nat, b > 0, NEW q \in Int
    PROVE  /\ a \div b \in Int
           /\ q <= a \div b <=> q * b <= a
           /\ a \div b <= q <=> a < (q + 1) * b
<1> DEFINE d == a \div b
<1>1. d \in Int /\ d * b <= a /\ a < (d + 1) * b
    OBVIOUS
<1> HIDE DEF d
<1>2. ASSUME q <= d PROVE q * b <= a
  <2>1. q * b <= d * b
    BY <1>1, <1>2
  <2>2. q * b \in Int /\ d * b \in Int
    BY <1>1
  <2>q. QED BY <1>1, <2>1, <2>2
<1>3. ASSUME q > d PROVE q * b > a
  <2>1. q >= d + 1
    BY <1>1, <1>3
  <2>2. q * b >= (d + 1) * b
    BY <1>1, <2>1
  <2>3. q * b \in Int /\ (d + 1) * b \in Int
    BY <1>1
  <2>q. QED BY <1>1, <2>2, <2>3
<1>4. ASSUME d <= q PROVE a < (q + 1) * b
  <2>1. (q + 1) * b >= (d + 1) * b
    BY <1>1, <1>4
  <2>3. (q + 1) * b \in Int /\ (d + 1) * b \in Int
    BY <1>1
  <2>q. QED BY <1>1, <2>1, <2>3
<1>5. ASSUME d > q PROVE a >= (q + 1) * b
  <2>0. d >= q + 1
    BY <1>1, <1>5
  <2>1. (q + 1) * b <= d * b
    BY <1>1, <2>0
  <2>3. (q + 1) * b \in Int /\ d * b \in Int
    BY <1>1
  <2>q. QED BY <1>1, <2>1, <2>3
<1>6. q * b \in Int /\ (q + 1) * b \in Int
    OBVIOUS
<1>q. QED BY <1>1, <1>2, <1>3, <1>4, <1>5, <1>6 DEF d

\* The load is a percentage for all counters, and at least the busy share when
\* they only grow.
LEMMA LoadOK == LoadIsBusyShare
<1> SUFFICES ASSUME NEW first \in Samples, NEW last \in Samples
             PROVE  LET busy == last.busy - first.busy
                        idle == last.idle - first.idle
                        guest == last.guest - first.guest
                    IN  /\ Load(first, last) \in 0..100 /\ LoadOfOne(last) \in 0..100
                        /\ 0 <= guest /\ guest <= busy /\ 0 <= idle /\ busy + idle > 0 =>
                              /\ Load(first, last) >= Percent(busy + idle, idle)
                              /\ guest = 0 \/ idle = 0 \/ busy = 0 => Load(first, last) = Percent(busy + idle, idle)
    BY DEF LoadIsBusyShare
<1> DEFINE busy == last.busy - first.busy
           idle == last.idle - first.idle
           guest == last.guest - first.guest
           dt == busy + guest + idle
<1>0. ASSUME NEW s \in Samples PROVE s.busy \in Nat /\ s.idle \in Nat /\ s.guest \in Nat
    <2>1. s \in [busy : Counters, idle : Counters, guest : Counters]
        BY DEF Samples
    <2>q. QED BY <2>1, OutputsAssumption
<1>1. busy \in Int /\ idle \in Int /\ guest \in Int
    BY <1>0
<1>2. /\ Load(first, last) = IF dt <= 0 \/ idle > dt THEN 0 ELSE IF idle < 0 THEN 100 ELSE Percent(dt, idle)
    BY <1>0 DEF Load, Total
<1> HIDE DEF busy, idle, guest
<1>3. ASSUME NEW total \in Int, NEW rest \in Int, total > 0, 0 <= rest, rest <= total
      PROVE  Percent(total, rest) \in 0..100
    <2>1. /\ (total - rest) * 100 \in Int /\ 0 * total <= (total - rest) * 100
          /\ (total - rest) * 100 < (100 + 1) * total
        BY <1>3
    <2>2. Percent(total, rest) \in Int /\ 0 <= Percent(total, rest) /\ Percent(total, rest) <= 100
        BY <1>3, <2>1, QuotientIs DEF Percent
    <2>q. QED BY <2>2
<1>4. Load(first, last) \in 0..100
    BY <1>1, <1>2, <1>3
<1>7. LoadOfOne(last) \in 0..100
    <2>1. Total(last) \in Int /\ last.idle \in Int /\ 0 <= last.idle /\ last.idle <= Total(last)
        BY <1>0 DEF Total
    <2>q. QED BY <1>3, <2>1 DEF LoadOfOne
<1>5. ASSUME 0 <= guest, guest <= busy, 0 <= idle, busy + idle > 0
      PROVE  /\ Load(first, last) >= Percent(busy + idle, idle)
             /\ guest = 0 \/ idle = 0 \/ busy = 0 => Load(first, last) = Percent(busy + idle, idle)
    <2>1. dt \in Nat /\ dt > 0 /\ idle <= dt /\ busy + idle \in Nat /\ Load(first, last) = Percent(dt, idle)
        BY <1>1, <1>2, <1>5
    <2> DEFINE q == (busy * 100) \div (busy + idle)
    <2>2. Percent(busy + idle, idle) = q /\ Percent(dt, idle) = ((busy + guest) * 100) \div dt
        BY <1>1 DEF Percent
    <2>3. q \in Int /\ q * (busy + idle) <= busy * 100 /\ q <= 100
        BY <1>1, <1>5, QuotientIs
    <2> HIDE DEF q
    <2>4. q * guest <= 100 * guest
        BY <1>1, <1>5, <2>3
    <2>5. q * dt <= (busy + guest) * 100
        BY <1>1, <1>5, <2>3, <2>4
    <2>6. q <= Percent(dt, idle)
        BY <1>1, <2>1, <2>2, <2>3, <2>5, QuotientIs
    <2>7. CASE guest = 0
        BY <1>1, <2>1, <2>2, <2>7 DEF q
    <2>8. CASE idle = 0 \/ busy = 0
        <3>1. CASE busy = 0
            BY <1>1, <1>5, <3>1, <2>1, <2>2 DEF q
        <3>2. CASE idle = 0
            BY <1>1, <1>5, <3>2, <2>1, <2>2 DEF q
        <3>q. QED BY <2>8, <3>1, <3>2
    <2>q. QED BY <2>1, <2>2, <2>6, <2>7, <2>8, <1>4
<1>q. QED BY <1>4, <1>5, <1>7 DEF busy, idle, guest

-----------------------------------------------------------------------------
(* Answers.                                                                *)

\* With one path in the list its section is the rest of the output.
LEMMA LoneSection ==
    ASSUME NEW Paths, NEW out \in Seq(OutLine(Paths)), Len(out) \in {2, 3},
           out[1].kind = "marker", out[1].path = "path",
           \A n \in 1..Len(out) : n > 1 => out[n].kind # "marker"
    PROVE  LET section == Section(out, <<"path">>, 1)
           IN  /\ Len(section) = Len(out) - 1 /\ section[1] = out[2]
               /\ Len(out) = 3 => section[2] = out[3]
<1> DEFINE paths == <<"path">>
           section == Section(out, paths, 1)
<1>1. Len(paths) = 1 /\ paths[1] = "path"
    OBVIOUS
<1> HIDE DEF paths
<1>2. Marker(out, "path", 1) = 1
    <2>1. 1 \in 1..Len(out) /\ Len(out) \in Nat
        OBVIOUS
    <2>2. \/ Marker(out, "path", 1) = 0 /\ \A n \in 1..Len(out) : ~(out[n].kind = "marker" /\ out[n].path = "path")
          \/ Marker(out, "path", 1) \in 1..Len(out) /\ out[Marker(out, "path", 1)].kind = "marker"
        BY <2>1, MarkerIs
    <2>q. QED BY <2>1, <2>2
<1>3. SectionEnd(out, paths, 1, 2) = Len(out)
    <2> DEFINE I == {j \in (1 + 1)..Len(paths) : Marker(out, paths[j], 2) # 0}
    <2>1. I = {}
        BY <1>1
    <2>2. SectionEnd(out, paths, 1, 2) =
              IF (IF I # {} THEN Min(I) ELSE 0) = 0 THEN Len(out)
              ELSE Marker(out, paths[IF I # {} THEN Min(I) ELSE 0], 2) - 1
        BY DEF SectionEnd, SelectInSubSeq
    <2>q. QED BY <2>1, <2>2
<1>4. section = SubSeq(out, 2, Len(out))
    <2>1. section = IF Marker(out, paths[1], 1) = 0 THEN <<>>
                    ELSE SubSeq(out, Marker(out, paths[1], 1) + 1,
                                SectionEnd(out, paths, 1, Marker(out, paths[1], 1) + 1))
        BY DEF Section
    <2>2. Marker(out, paths[1], 1) = 1 /\ 1 + 1 = 2 /\ 1 # 0
        BY <1>1, <1>2
    <2>q. QED BY <1>3, <2>1, <2>2
<1>5. \A n \in 2..Len(out) : out[n] \in OutLine(Paths)
    BY ElementOfSeq
<1>6. /\ Len(section) = IF 2 <= Len(out) THEN Len(out) - 2 + 1 ELSE 0
      /\ \A n \in 1..(Len(out) - 2 + 1) : section[n] = out[2 + n - 1]
    BY <1>4, <1>5, SubSeqProperties
<1> HIDE DEF section
<1>7. Len(section) = Len(out) - 1 /\ section[1] = out[2]
    BY <1>6
<1>8. ASSUME Len(out) = 3 PROVE section[2] = out[3]
    <2>1. 2 \in 1..(Len(out) - 2 + 1) /\ 2 + 2 - 1 = 3
        BY <1>8
    <2>q. QED BY <1>6, <2>1
<1>q. QED BY <1>7, <1>8 DEF section, paths

\* What is shown of a directory, when so much came back, is Fleet's verdict.
LEMMA ShownIsVerdict ==
    ASSUME NEW directory \in Directories, directory.kind \in {"empty", "file"}, NEW part \in Parts,
           NEW maxAge \in MaxAges
    PROVE  Shown(Status(Section(CameBack(Printed("path", directory), part), <<"path">>, 1), maxAge, "none"))
              = BackupsVerdict(Condition(directory, maxAge), part)
<1> DEFINE out == Printed("path", directory)
           back == CameBack(out, part)
           section == Section(back, <<"path">>, 1)
           Lined == OutLine({"path"})
<1>1. directory.age \in Int /\ maxAge \in Int
    <2>1. MaxAges \subseteq Int
        BY OutputsAssumption
    <2>q. QED BY <2>1, DirectoryType
<1>2. /\ out \in Seq(Lined) /\ Len(out) \in {2, 3} /\ out[1].kind = "marker"
      /\ \A i \in 1..Len(out) : out[i].path = "path" /\ (i > 1 => out[i].kind # "marker")
      /\ directory.kind = "empty" => Len(out) = 2 /\ out[2].kind = "STAT_ERR"
      /\ directory.kind # "empty" => out[2].kind \notin {"STAT_ERR", "torn"}
      /\ directory.kind = "file" => Len(out) = 3 /\ out[3].kind = "stat" /\ out[3].age = directory.age
    <2> DEFINE path == "path"
               Paths == {path}
    <2>1. path \in Paths
        OBVIOUS
    <2> HIDE DEF path, Paths
    <2>2. LET b == Printed(path, directory)
          IN  /\ b \in Seq(OutLine(Paths)) /\ Len(b) \in {2, 3}
              /\ b[1].kind = "marker"
              /\ \A i \in 1..Len(b) : b[i].path = path /\ (i > 1 => b[i].kind # "marker")
              /\ directory.kind = "empty" => Len(b) = 2 /\ b[2].kind = "STAT_ERR"
              /\ directory.kind # "empty" => b[2].kind \notin {"STAT_ERR", "torn"}
              /\ directory.kind = "file" =>
                    Len(b) = 3 /\ b[3].kind = "stat" /\ b[3].age = directory.age
        BY <2>1, PrintedIs
    <2>q. QED BY <2>2 DEF path, Paths
<1> HIDE DEF out
<1>3. Shown(Status(section, maxAge, "none")) =
          LET named == Len(section) > 0 /\ section[1].kind # "STAT_ERR"
              dated == Len(section) > 1 /\ section[2].kind = "stat"
          IN  IF ~(named \/ dated) THEN "unknown"
              ELSE IF dated => AgeOK(section[2].age, maxAge) THEN "nothing" ELSE "something"
    BY DEF Shown, Status
<1>4. CASE part = "none"
    <2>1. back = <<>> /\ Len(back) = 0
        BY <1>4 DEF CameBack
    <2>2. Marker(back, "path", 1) = 0
        <3> HIDE DEF back
        <3>q. QED BY <2>1, MarkerIs
    <2>3. section = <<>>
        <3>1. <<"path">>[1] = "path"
            OBVIOUS
        <3> HIDE DEF back
        <3>q. QED BY <2>2, <3>1 DEF Section
    <2> HIDE DEF section
    <2>q. QED BY <1>3, <1>4, <2>3 DEF BackupsVerdict, section, back, out
<1>5. CASE part = "all"
    <2>1. back = out
        BY <1>5 DEF CameBack
    <2> HIDE DEF back
    <2>2. 1 \in 1..Len(out) /\ out[1].path = "path"
        BY <1>2
    <2>3. /\ Len(section) = Len(out) - 1 /\ section[1] = out[2]
          /\ Len(out) = 3 => section[2] = out[3]
        BY <1>2, <2>1, <2>2, LoneSection
    <2> HIDE DEF section
    <2>4. CASE directory.kind = "empty"
        <3>1. Len(section) = 1 /\ section[1].kind = "STAT_ERR"
            BY <1>2, <2>3, <2>4
        <3>2. Shown(Status(section, maxAge, "none")) = "unknown"
            BY <1>3, <3>1
        <3>q. QED BY <2>4, <3>2 DEF BackupsVerdict, Condition, section, back, out
    <2>5. CASE directory.kind = "file"
        <3>1. Len(section) = 2 /\ section[1].kind # "STAT_ERR" /\ section[2].kind = "stat"
              /\ section[2].age = directory.age
            BY <1>2, <2>3, <2>5
        <3>2. Shown(Status(section, maxAge, "none")) = IF maxAge <= 0 \/ directory.age <= maxAge THEN "nothing" ELSE "something"
            BY <1>1, <1>3, <3>1 DEF AgeOK
        <3>q. QED BY <1>5, <2>5, <3>2 DEF BackupsVerdict, Condition, section, back, out
    <2>q. QED BY <2>4, <2>5
<1>6. CASE part = "first"
    <2>1. back = <<out[1], out[2]>>
        BY <1>6 DEF CameBack
    <2>2. out[1] \in Lined /\ out[2] \in Lined /\ out[1].path = "path" /\ out[2].kind # "marker"
        BY <1>2, ElementOfSeq
    <2> HIDE DEF back
    <2>3. back \in Seq(Lined) /\ Len(back) = 2 /\ back[1] = out[1] /\ back[2] = out[2]
        BY <2>1, <2>2
    <2>4. \A n \in 1..Len(back) : n > 1 => back[n].kind # "marker"
        BY <2>2, <2>3
    <2>9. Len(back) \in {2, 3} /\ back[1].kind = "marker" /\ back[1].path = "path"
        BY <1>2, <2>2, <2>3
    <2>10. /\ Len(section) = Len(back) - 1 /\ section[1] = back[2]
           /\ Len(back) = 3 => section[2] = back[3]
        BY <2>3, <2>4, <2>9, LoneSection
    <2> HIDE DEF section
    <2>5. Len(section) = 1 /\ section[1] = out[2]
        BY <2>3, <2>10
    <2>6. Shown(Status(section, maxAge, "none")) = IF out[2].kind = "STAT_ERR" THEN "unknown" ELSE "nothing"
        BY <1>3, <2>5
    <2>7. CASE directory.kind = "empty"
        BY <1>2, <2>6, <2>7 DEF BackupsVerdict, Condition, section, back, out
    <2>8. CASE directory.kind = "file"
        <3>1. out[2].kind # "STAT_ERR"
            BY <1>2, <2>8
        <3>q. QED BY <1>6, <2>6, <2>8, <3>1 DEF BackupsVerdict, Condition, section, back, out
    <2>q. QED BY <2>7, <2>8
<1>q. QED BY <1>4, <1>5, <1>6 DEF Parts

\* An answer is what was printed: a text of any length comes whole and in
\* order (splitText, sendLog, sendOutput); of any list of directories each is
\* reported by its own lines, wherever the output breaks off (splitSections,
\* parseResults), and as Fleet's verdict says; and of any two samples the load
\* is a percentage (parseCPUPercent).
THEOREM AnswersAreRead == Spec => []ReportedAsRead
<1>1. FleetInv => ReportedAsRead
  <2> SUFFICES ASSUME FleetInv, NEW r \in Requests, Sending(r, {"backups"}),
                      NEW directory \in Directories, NEW maxAge \in MaxAges,
                      directory.kind \in {"empty", "file"},
                      Condition(directory, maxAge) = requests[r].current.condition
               PROVE  Shown(Status(Section(CameBack(Printed("path", directory), requests[r].current.part),
                                           <<"path">>, 1), maxAge, "none"))
                         = requests[r].current.verdict
      BY TextsKept, LoadOK, StatusesKept, Zenon DEF ReportedAsRead
  <2>1. requests[r].pc = "send" /\ requests[r].check = "backups" /\ requests[r].current.verdict # "notFound"
      BY DEF Sending
  <2>2. requests[r].current \in Given(requests[r])
      BY <2>1 DEF Given, InHand, Reports
  <2>3. requests[r].current.verdict =
            Verdict("backups", requests[r].current.condition, requests[r].current.part)
      BY <2>1, <2>2 DEF FleetInv, RequestOK, TrueVerdicts
  <2>4. requests[r].current.part \in Parts
      BY DEF FleetInv, TypeOK, Request, Answer
  <2>5. \A condition, part : Verdict("backups", condition, part) = BackupsVerdict(condition, part)
      BY DEF Verdict
  <2>q. QED BY <2>3, <2>4, <2>5, ShownIsVerdict
<1>q. QED BY <1>1, FleetInvHolds, PTL

=============================================================================
