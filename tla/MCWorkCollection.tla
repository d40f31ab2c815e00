-------------------------- MODULE MCWorkCollection --------------------------
(* Small answers for WorkCollection: up to two items of a source, chosen so    *)
(* that titles meet within a source and between tasks and GitLab activity, and *)
(* that each reason to leave an item out occurs.                               *)
EXTENDS WorkCollection

MCNormal == [t \in {"ship", "Ship ", "test"} |-> IF t = "test" THEN "test" ELSE "ship"]

Item(title, project, status, mark) ==
    [title |-> title, project |-> project, status |-> status, mark |-> mark, due |-> TRUE]

Blocked == Item("Ship ", None, "blocked", "plain")
Odd == Item("ship", None, "odd", "plain")
Email(mark) == Item("ship", None, None, mark)
Minutes(status, mark) == Item("ship", None, status, mark)

MCAnswers ==
    [gitlab  |-> {<<>>} \cup {<<Item("ship", p, None, "plain")>> : p \in {None, "p"}},
     task    |-> {<<>>, <<Blocked, Odd>>, <<Odd, Blocked>>, <<Item("test", "p", "done", "plain")>>},
     email   |-> {<<>>, <<Email("invalid"), Email("plain")>>,
                  <<Email("flagged"), Email("plain")>>, <<Email("sensitive")>>},
     meeting |-> {<<Minutes("sent", "plain")>>, <<Minutes("approved", "sensitive")>>,
                  <<Minutes("draft", "plain"), Minutes("approved", "plain")>>,
                  <<[Minutes("approved", "plain") EXCEPT !.due = FALSE]>>}]

(* Events of a request: three of the same project and title at most.           *)
MCGiven ==
    LET Of(n) == {[id |-> <<"given", n>>, title |-> <<"", t>>, project |-> None,
                   status |-> st, confidence |-> c] :
                     t \in {"ship", "test"}, st \in {"planned", "unknown"}, c \in {5, 9}}
    IN  {<<>>} \cup {<<a, b>> : a \in Of(1), b \in Of(2)}
               \cup {<<a, b, c>> : a \in Of(1), b \in Of(2), c \in Of(3)}
=============================================================================
