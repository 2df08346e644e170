------------------------------ MODULE Outputs ------------------------------
(***************************************************************************)
(* What the handlers make of the text a command printed, where that is     *)
(* more than showing it: /logs and /docker cut it into messages, /backups  *)
(* tells directories apart by markers, Collect takes the load from two     *)
(* samples of /proc/stat.  Nothing here has a state: what is said of the   *)
(* functions is said for every small input, and Answers asks for it.       *)
(***************************************************************************)
EXTENDS Integers, SequencesExt

CONSTANTS
    TextLength,     \* bound: the longest text that is cut up
    BackupPaths,    \* lists of backups.paths
    MaxAges,        \* values of max_age_hours; 0 is not to check
    Ages,           \* ages, in hours, of a newest file
    Counters        \* values of a counter of /proc/stat

ASSUME OutputsAssumption ==
    /\ TextLength \in Nat /\ Counters \subseteq Nat
    /\ MaxAges \subseteq Int /\ Ages \subseteq Int
    /\ \A paths \in BackupPaths : paths \in Seq(ToSet(paths) \ {"none"})

-----------------------------------------------------------------------------
(* /logs, /docker: splitText and what is sent.  Of a text only its newlines *)
(* matter; it was trimmed.  A part is an interval of the text.             *)

Characters == {"newline", "other"}

Texts == {text \in BoundedSeq(Characters, TextLength) :
            text # <<>> /\ text[1] = "other" /\ text[Len(text)] = "other"}

\* The part ends before the last newline within the limit, when there is one
\* and not at its very beginning.
PartEnd(text, from, limit) ==
    LET break == SelectLastInSubSeq(text, from + 1, from + limit - 1, LAMBDA c : c = "newline")
    IN  IF break # 0 THEN break - 1 ELSE from + limit - 1

\* Slip: one character is taken for the newline.
AfterOne(text, from) == from + 1

\* TrimLeft.
AfterNewlines(text, from) ==
    LET next == SelectInSubSeq(text, from, Len(text), LAMBDA c : c # "newline")
    IN  IF next # 0 THEN next ELSE Len(text) + 1

SplitText(text, limit) ==
    LET from[k \in 1..(Len(text) + 1)] ==
          IF k > Len(text) THEN <<>>
          ELSE IF Len(text) - k < limit THEN << <<k, Len(text)>> >>
          ELSE LET end == PartEnd(text, k, limit)
               IN  << <<k, end>> >> \o from[AfterNewlines(text, end + 1)]
    IN  from[1]

\* sendLog, sendOutput: up to three messages, or one file with all of it.
Messages(text, limit) ==
    LET parts == SplitText(text, limit)
    IN  IF Len(parts) <= 3 THEN parts ELSE << <<1, Len(text)>> >>

\* The lines of a text, as intervals.
Lines(text) ==
    {line \in (1..Len(text)) \X (1..Len(text)) :
        /\ line[1] <= line[2] /\ \A k \in line[1]..line[2] : text[k] # "newline"
        /\ line[1] = 1 \/ text[line[1] - 1] = "newline"
        /\ line[2] = Len(text) \/ text[line[2] + 1] = "newline"}

\* What is sent is the text: its parts in order, each within the limit (unless
\* it is the file), with nothing but newlines left out between them, and with
\* no line torn that fits into a message.
TextsAreKept ==
    \A text \in Texts, limit \in 1..TextLength :
        LET parts == Messages(text, limit)
            In(k, part) == part[1] <= k /\ k <= part[2]
        IN  /\ \A n \in 1..Len(parts) :
                  /\ parts[n][1] <= parts[n][2]
                  /\ Len(parts) > 1 => parts[n][2] - parts[n][1] < limit
                  /\ n > 1 => parts[n - 1][2] < parts[n][1]
            /\ \A k \in 1..Len(text) :
                  text[k] # "newline" => \E n \in 1..Len(parts) : In(k, parts[n])
            /\ \A line \in Lines(text) :
                  line[2] - line[1] < limit =>
                      \E n \in 1..Len(parts) : In(line[1], parts[n]) /\ In(line[2], parts[n])

-----------------------------------------------------------------------------
(* /backups: buildCheckCmd, splitSections, parseResults.  The output is a  *)
(* sequence of lines.                                                      *)

\* A directory without a file; one whose newest file is so old; one whose
\* newest file stat does not find (a name with a space); one that gets its
\* first file between ls and stat.
Directories == {[kind |-> "empty", age |-> 0], [kind |-> "odd", age |-> 0]}
                  \cup [kind : {"file", "new"}, age : Ages]

Line(kind, path, age) == [kind |-> kind, path |-> path, age |-> age]

Printed(path, directory) ==
    <<Line("marker", path, 0)>>
    \o CASE directory.kind = "empty" -> <<Line("STAT_ERR", path, 0)>>
         [] directory.kind = "odd" -> <<Line("ls", path, 0), Line("STAT_ERR", path, 0)>>
         [] directory.kind = "file" -> <<Line("ls", path, 0), Line("stat", path, directory.age)>>
         [] directory.kind = "new" -> <<Line("stat", path, directory.age)>>

CheckOutput(paths, directories) ==
    FlattenSeq([i \in 1..Len(paths) |-> Printed(paths[i], directories[paths[i]])])

\* What is left of an output that broke off, perhaps within a line: a name or
\* a size is then another one, and a marker or an age none.
Torn(line) == Line(IF line.kind = "ls" THEN "ls" ELSE "torn", line.path, 0)

BrokenOff(out) ==
    Prefixes(out) \cup {Append(SubSeq(out, 1, n - 1), Torn(out[n])) : n \in 1..Len(out)}

\* Position of the first marker of the path from a line on, or 0.
Marker(out, path, from) ==
    SelectInSubSeq(out, from, Len(out), LAMBDA line : line.kind = "marker" /\ line.path = path)

\* splitSections: the section ends before the marker of the next path in the
\* list that has one behind it.
SectionEnd(out, paths, i, start) ==
    LET next == SelectInSubSeq(paths, i + 1, Len(paths), LAMBDA path : Marker(out, path, start) # 0)
    IN  IF next = 0 THEN Len(out) ELSE Marker(out, paths[next], start) - 1

Section(out, paths, i) ==
    LET start == Marker(out, paths[i], 1)
    IN  IF start = 0 THEN <<>> ELSE SubSeq(out, start + 1, SectionEnd(out, paths, i, start + 1))

\* Slip: 0 is a limit like any other.
AgeCompared(age, maxAge) == age <= maxAge

\* The age is compared only with a limit that is set.
AgeOK(age, maxAge) == maxAge > 0 => age <= maxAge

\* parseResults for one path, of whose files the newest may be maxAge hours
\* old.  file, age: the path whose file and whose age are shown.
Status(section, maxAge, none) ==
    LET named == Len(section) > 0 /\ section[1].kind # "STAT_ERR"
        dated == Len(section) > 1 /\ section[2].kind = "stat"
    IN  [hasData |-> named \/ dated,
         file |-> IF named THEN section[1].path ELSE none,
         age |-> IF dated THEN section[2].path ELSE none,
         ageOK |-> dated => AgeOK(section[2].age, maxAge)]

\* However early the output breaks off and whatever order directories appear
\* in, a path is reported with its own newest file or as having none, and as
\* fresh or old by its own age and limit - or, when either is missing, as
\* fresh.  An empty directory has no file, unless its very STAT_ERR is torn,
\* and becomes one.
StatusesAreTheirOwn ==
    \A paths \in BackupPaths :
        \A directories \in [ToSet(paths) -> Directories] :
            \A out \in BrokenOff(CheckOutput(paths, directories)) :
            \A i \in 1..Len(paths), maxAge \in MaxAges :
                LET path == paths[i]
                    directory == directories[path]
                    status == Status(Section(out, paths, i), maxAge, "none")
                IN  /\ status.file \in {path, "none"} /\ status.age \in {path, "none"}
                    /\ directory.kind = "empty" /\ status.hasData => out[Len(out)].kind = "torn"
                    /\ status.age = path => status.ageOK = (maxAge <= 0 \/ directory.age <= maxAge)
                    /\ out = CheckOutput(paths, directories) =>
                          /\ status.hasData = (directory.kind # "empty")
                          /\ (status.age = path) = (directory.kind = "file")

-----------------------------------------------------------------------------
(* Collect: parseCPUPercent.                                               *)

\* A line of /proc/stat: busy is the sum of all but idle; guest time is in
\* user time as well, and is summed a second time.
Samples == {s \in [busy : Counters, idle : Counters, guest : Counters] : s.guest <= s.busy}

\* cpuTotals.
Total(sample) == sample.busy + sample.guest + sample.idle

\* The share in per cent, rounded down.
Percent(total, idle) == ((total - idle) * 100) \div total

\* When one sample came: the share since the server started.
LoadOfOne(sample) ==
    IF Total(sample) = 0 THEN 0 ELSE Percent(Total(sample), sample.idle)

Load(first, last) ==
    LET dt == Total(last) - Total(first)
        di == last.idle - first.idle
    IN  IF dt <= 0 \/ di > dt THEN 0 ELSE IF di < 0 THEN 100 ELSE Percent(dt, di)

\* Between samples whose counters did not go back the load is the share of the
\* time that was not idle - or more of it, when guests ran, whose time is
\* summed twice; and whatever the counters did, also after a reboot between
\* the samples or when idle itself goes back, it is a percentage, as is that of
\* a single sample.
LoadIsBusyShare ==
    \A first, last \in Samples :
        LET busy == last.busy - first.busy
            idle == last.idle - first.idle
            guest == last.guest - first.guest
        IN  /\ Load(first, last) \in 0..100 /\ LoadOfOne(last) \in 0..100
            /\ 0 <= guest /\ guest <= busy /\ 0 <= idle /\ busy + idle > 0 =>
                  /\ Load(first, last) >= Percent(busy + idle, idle)
                  /\ guest = 0 \/ idle = 0 \/ busy = 0 => Load(first, last) = Percent(busy + idle, idle)
=============================================================================
