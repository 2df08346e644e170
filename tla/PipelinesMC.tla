---------------------------- MODULE PipelinesMC ----------------------------
(***************************************************************************)
(* Small instances of Pipelines.                                           *)
(***************************************************************************)
EXTENDS Pipelines, TLC

Github(conclusion) == [source |-> "github", phase |-> "", status |-> conclusion]
Gitlab(status) == [source |-> "gitlab", phase |-> "", status |-> status]
Jenkins(phase, status) == [source |-> "jenkins", phase |-> phase, status |-> status]

\* A run that is over and one that is not.
FewReports == {Github("timed_out"), Jenkins("STARTED", "")}

\* The words of each CI system.
AllReports ==
    {Github("success"), Github("timed_out"), Github(""),
     Gitlab("success"), Gitlab("canceled"),
     Jenkins("COMPLETED", "SUCCESS"), Jenkins("COMPLETED", "UNSTABLE"), Jenkins("STARTED", "")}

\* Requests, presses and admins differ by name only, and no property tells
\* them apart.
Interchangeable == Permutations(Deliveries) \cup Permutations(Presses) \cup Permutations(Admins)
=============================================================================
