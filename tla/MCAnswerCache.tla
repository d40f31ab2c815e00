---------------------------- MODULE MCAnswerCache ----------------------------
(* Instances of AnswerCache for TLC.                                           *)
EXTENDS AnswerCache

CONSTANTS c1, c2

MCCalls == {c1, c2}

Caller(t, o, p) == [tenant |-> t, operator |-> o, employee |-> o, permissions |-> p]

Question(k, w, q, t) == [kind |-> k, caller |-> w, query |-> q, token |-> t]

(* The first question, and others that differ from it in one thing each.       *)
MCQuestions ==
    LET one == Caller("t1", "o1", "all")
    IN  {Question("knowledge", one, "q", TRUE),
         Question("knowledge", one, " q ", TRUE),
         Question("knowledge", one, "q", FALSE),
         Question("knowledge", Caller("t1", "o1", "few"), "q", TRUE),
         Question("gitlab", one, "q", FALSE)}

MCQueries == {"q", " q "}

MCTrimmed == [q \in MCQueries |-> "q"]
=============================================================================
