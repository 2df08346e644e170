--------------------------- MODULE DecisionBoard ---------------------------
(***************************************************************************)
(* What the chat promises about deployments, without goroutines, round     *)
(* trips or a database: a post per event, offered to the admins while it   *)
(* carries buttons, and the verdict of the event.  A post is settled only  *)
(* after a verdict, never offered again, and a verdict may be replaced by  *)
(* another one but not withdrawn.                                          *)
(***************************************************************************)
CONSTANTS Events, Verdicts, None

VARIABLES posts, verdict

boardVars == <<posts, verdict>>

BoardInit ==
    /\ posts = {}
    /\ verdict = [e \in Events |-> None]

\* posts holds pairs <<event, offered>>.
Post(e, offered) ==
    /\ \A old \in BOOLEAN : <<e, old>> \notin posts
    /\ posts' = posts \cup {<<e, offered>>}
    /\ UNCHANGED verdict

Decide(e, v) ==
    /\ \E offered \in BOOLEAN : <<e, offered>> \in posts
    /\ verdict' = [verdict EXCEPT ![e] = v]
    /\ UNCHANGED posts

Settle(e) ==
    /\ verdict[e] # None
    /\ posts' = (posts \ {<<e, TRUE>>}) \cup {<<e, FALSE>>}
    /\ UNCHANGED verdict

BoardNext ==
    \E e \in Events :
        \/ \E offered \in BOOLEAN : Post(e, offered)
        \/ \E v \in Verdicts : Decide(e, v)
        \/ Settle(e)

BoardSpec == BoardInit /\ [][BoardNext]_boardVars
=============================================================================
