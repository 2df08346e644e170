------------------------------ MODULE Answers ------------------------------
(***************************************************************************)
(* Fleet says which verdict a report gives on a server, Outputs what the   *)
(* handlers make of every output; here an answer that is about to be sent  *)
(* is compared with the outputs it may stand for.                          *)
(***************************************************************************)
EXTENDS Fleet, Outputs

Sending(r, checks) ==
    /\ requests[r].pc = "send" /\ requests[r].check \in checks
    /\ requests[r].current.verdict # "notFound"

\* What Fleet knows of a directory whose newest file may be so old.
Condition(directory, maxAge) ==
    IF directory.kind = "empty" THEN "lacking"
    ELSE IF maxAge <= 0 \/ directory.age <= maxAge THEN "nothing"
    ELSE "something"

\* What a marker and two lines have become when so much of them came back.
CameBack(out, part) ==
    CASE part = "all" -> out
      [] part = "first" -> <<out[1], out[2]>>
      [] part = "none" -> <<>>

\* The line sendResult writes for a directory.
Shown(status) ==
    IF ~status.hasData THEN "unknown"
    ELSE IF status.ageOK THEN "nothing"
    ELSE "something"

-----------------------------------------------------------------------------
\* Whenever an answer is sent, it is what was printed: of /logs and /docker,
\* its messages are the text; of /backups, the directories are told apart, and
\* the verdict on each is what the lines that came back say of it; of /status,
\* the load is that of the two samples.
ReportedAsRead ==
    \A r \in Requests :
        LET answer == requests[r].current
        IN  /\ Sending(r, {"logs", "docker"}) => TextsAreKept
            /\ Sending(r, {"status"}) => LoadIsBusyShare
            /\ Sending(r, {"backups"}) =>
                  /\ StatusesAreTheirOwn
                  /\ \A directory \in Directories, maxAge \in MaxAges :
                        (/\ directory.kind \in {"empty", "file"}
                         /\ Condition(directory, maxAge) = answer.condition) =>
                            LET out == CameBack(Printed("path", directory), answer.part)
                            IN  Shown(Status(Section(out, <<"path">>, 1), maxAge, "none")) = answer.verdict
=============================================================================
