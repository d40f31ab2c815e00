--------------------------- MODULE WorkCollection ---------------------------
(* One report being generated: four read-only sources are asked at the same    *)
(* time, what they answer is filtered and gathered, and the gathered events,   *)
(* or events given with the request, become the saved draft of a report.       *)
(*                                                                             *)
(* An item of a source is a record of the fields that matter here: title,      *)
(* project, and status; mark says whether the item is well-formed and free of  *)
(* sensitive data; due whether a meeting lies in the dates of the report.      *)
EXTENDS Naturals, SequencesExt

CONSTANTS
    Answers,      \* Answers[s]: the sequences of items source s can answer with
    Given,        \* the sequences of events a request can carry
    Normal,       \* Normal[t]: title t in lower case, with its blanks normalised
    Limit,        \* rows of the table of minutes that list_recent looks at
    None,
    Failed        \* what a failing source answers

Sources == <<"gitlab", "task", "email", "meeting">>

(* The marks an item can have: the flag of sensitivity is a field of e-mails,  *)
(* and only e-mails are validated here.                                        *)
Marks(s) == CASE s = "email"   -> {"plain", "invalid", "flagged", "sensitive"}
              [] s = "meeting" -> {"plain", "sensitive"}
              [] OTHER         -> {"plain"}

ASSUME WorkCollectionAssumption ==
    /\ Range(Sources) = DOMAIN Answers
    /\ \A s \in DOMAIN Answers : \A items \in Answers[s] :
          /\ items \in Seq(Range(items)) \ {None, Failed}
          /\ \A i \in DOMAIN items : items[i].mark \in Marks(s)
    /\ None # Failed
    /\ Limit \in Nat
    /\ <<>> \in Given
    /\ \A events \in Given :
          /\ events \in Seq(Range(events))
          /\ \A i \in DOMAIN events : events[i].confidence \in Nat

VARIABLES
    pc,           \* where the request is
    weekly,       \* a weekly report was asked for
    given,        \* the events that came with the request
    answer,       \* of each source: None, its items, or Failed
    arrived,      \* history: the sources in the order in which they finished
    draft,        \* the draft in memory, or None
    stored        \* the draft in the database, or None

vars == <<pc, weekly, given, answer, arrived, draft, stored>>

-----------------------------------------------------------------------------
(* _work_status: the words a task system has for the five statuses.            *)
WorkStatus(word) ==
    CASE word \in {"done", "closed", "completed"} -> "completed"
      [] word \in {"doing", "in_progress"}        -> "in_progress"
      [] word \in {"open", "planned"}             -> "planned"
      [] word = "blocked"                         -> "blocked"
      [] OTHER                                    -> "unknown"

(* Titles of e-mails and minutes are prefixed; only tasks and GitLab activity  *)
(* have a project and share their titles.                                      *)
Titled(s, item) ==
    <<IF s \in {"email", "meeting"} THEN s ELSE "", Normal[item.title]>>

(* The event made of item i of source s; confidence is in tenths.              *)
Event(s, i, item) ==
    [id |-> <<s, i>>, title |-> Titled(s, item), project |-> item.project,
     status |-> IF s = "task" THEN WorkStatus(item.status) ELSE "completed",
     confidence |-> 10]

\* Mutant: an e-mail flagged as sensitive is only warned about.
LeftOutUnlessFlagged(s, item) ==
    CASE s = "email"   -> item.mark \in {"invalid", "sensitive"}
      [] s = "meeting" -> item.mark = "sensitive"
      [] OTHER         -> FALSE

(* Why an item of a source stays out with a warning: e-mails that are          *)
(* malformed, e-mails and minutes with sensitive data.                         *)
LeftOut(s, item) ==
    CASE s = "email"   -> item.mark \in {"invalid", "flagged", "sensitive"}
      [] s = "meeting" -> item.mark = "sensitive"
      [] OTHER         -> FALSE

(* list_recent and list_for_report: of the newest Limit minutes those that are *)
(* approved or sent and lie in the dates of the report.                        *)
Listed(s, i, item) ==
    s = "meeting" => i <= Limit /\ item.status \in {"approved", "sent"} /\ item.due

Reason(item) == IF item.mark = "flagged" THEN "sensitive" ELSE item.mark

(* One round of a source's loop over its items: an item that is not kept is    *)
(* passed over with continue.                                                  *)
WithItem(events, s, i, item) ==
    IF Listed(s, i, item) /\ ~LeftOut(s, item) THEN Append(events, Event(s, i, item))
                                               ELSE events

(* The events of a source, item after item.                                    *)
Events(s, items) ==
    LET events[n \in 0..Len(items)] ==
            IF n = 0 THEN <<>> ELSE WithItem(events[n - 1], s, n, items[n])
    IN  events[Len(items)]

\* Mutant: the loop over a source's items returns at one that is left out.
SafeCollectReturns(s) ==
    LET items == answer[s]
        out == {i \in DOMAIN items : Listed(s, i, items[i]) /\ LeftOut(s, items[i])}
    IN  IF items = Failed
        THEN [events |-> <<>>, warnings |-> {<<"missing", s>>}]
        ELSE [events   |-> IF out = {} THEN Events(s, items)
                           ELSE Events(s, SubSeq(items, 1, Min(out) - 1)),
              warnings |-> {<<Reason(items[i]), s>> : i \in out}]

(* _safe_collect of a source: its events and warnings, or no events and the    *)
(* warning that the source is missing.                                         *)
SafeCollect(s) ==
    LET items == answer[s]
    IN  IF items = Failed
        THEN [events |-> <<>>, warnings |-> {<<"missing", s>>}]
        ELSE [events   |-> Events(s, items),
              warnings |-> {<<Reason(items[i]), s>> :
                               i \in {i \in DOMAIN items : /\ Listed(s, i, items[i])
                                                           /\ LeftOut(s, items[i])}}]

\* Mutant: results are taken in the order in which they come in.
CollectAsArrived == FlattenSeq([n \in DOMAIN arrived |-> SafeCollect(arrived[n]).events])

(* collect: whatever the order of the answers, gather keeps that of the calls. *)
Collect == FlattenSeq([n \in DOMAIN Sources |-> SafeCollect(Sources[n]).events])

Warnings == UNION {SafeCollect(s).warnings : s \in DOMAIN Answers}

-----------------------------------------------------------------------------
Key(event) == <<event.project, event.title>>

(* A dict keeps its keys in the order of their first insertion: an event takes *)
(* the place of one of its project and title, if its confidence is higher.     *)
WithEvent(selected, e) ==
    IF \E j \in DOMAIN selected : Key(selected[j]) = Key(e)
    THEN [j \in DOMAIN selected |->
            IF Key(selected[j]) = Key(e) /\ e.confidence > selected[j].confidence
            THEN e ELSE selected[j]]
    ELSE Append(selected, e)

(* _deduplicate: one event per project and title, the first of those with the  *)
(* highest confidence.                                                         *)
Deduplicate(events) ==
    LET selected[n \in 0..Len(events)] ==
            IF n = 0 THEN <<>> ELSE WithEvent(selected[n - 1], events[n])
    IN  selected[Len(events)]

Ids(events, status) == {e.id : e \in {e \in Range(events) : e.status = status}}

(* generate_daily: every kept event is evidence, under the heading of its      *)
(* status; those of no known status or of low confidence are to be confirmed.  *)
DailyDraft(events, warnings) ==
    LET kept == Deduplicate(events) IN
    [type |-> "daily",
     completed |-> Ids(kept, "completed"), in_progress |-> Ids(kept, "in_progress"),
     risks |-> Ids(kept, "blocked"), plans |-> Ids(kept, "planned"),
     evidence |-> kept,
     warnings |-> warnings \cup
        {<<"unsure", e.id>> : e \in {e \in Range(kept) : \/ e.status = "unknown"
                                                         \/ e.confidence < 6}}]

-----------------------------------------------------------------------------
Init ==
    /\ pc = "asking"
    /\ weekly \in BOOLEAN
    /\ given \in Given
    /\ answer = [s \in DOMAIN Answers |-> None]
    /\ arrived = <<>>
    /\ draft = None
    /\ stored = None

Asking(s) == pc = "asking" /\ given = <<>> /\ answer[s] = None

(* A source answers ...                                                        *)
Answer(s) ==
    /\ Asking(s)
    /\ \E items \in Answers[s] : answer' = [answer EXCEPT ![s] = items]
    /\ arrived' = Append(arrived, s)
    /\ UNCHANGED <<pc, weekly, given, draft, stored>>

(* ... or fails with a RuntimeError, a TimeoutError or a ValueError ...        *)
Unavailable(s) ==
    /\ Asking(s)
    /\ answer' = [answer EXCEPT ![s] = Failed]
    /\ arrived' = Append(arrived, s)
    /\ UNCHANGED <<pc, weekly, given, draft, stored>>

(* ... or with any other error, such as one of the database that has the       *)
(* minutes: gather passes it on and the request fails.                         *)
Escape(s) ==
    /\ Asking(s)
    /\ pc' = "failed"
    /\ UNCHANGED <<weekly, given, answer, arrived, draft, stored>>

(* Events that came with the request are taken as they are, and no source is   *)
(* asked.                                                                      *)
Generate ==
    /\ pc = "asking"
    /\ \/ /\ given # <<>>
          /\ draft' = DailyDraft(given, {})
       \/ /\ given = <<>>
          /\ \A s \in DOMAIN answer : answer[s] # None
          /\ draft' = DailyDraft(Collect, Warnings)
    /\ pc' = "save"
    /\ UNCHANGED <<weekly, given, answer, arrived, stored>>

(* The draft is saved; generate_weekly then turns it into a weekly one and     *)
(* saves it once more.                                                         *)
Save ==
    /\ pc = "save"
    /\ stored' = draft
    /\ IF weekly /\ draft.type = "daily"
       THEN draft' = [draft EXCEPT !.type = "weekly"] /\ UNCHANGED pc
       ELSE pc' = "answered" /\ UNCHANGED draft
    /\ UNCHANGED <<weekly, given, answer, arrived>>

(* The request ends half-way: the process ends or the database fails.          *)
Stop ==
    /\ pc \in {"asking", "save"}
    /\ pc' = "failed"
    /\ UNCHANGED <<weekly, given, answer, arrived, draft, stored>>

Next ==
    \/ \E s \in DOMAIN Answers :
          \/ Answer(s)
          \/ Unavailable(s)
          \/ Escape(s)
    \/ Generate
    \/ Save
    \/ Stop

Spec == Init /\ [][Next]_vars

-----------------------------------------------------------------------------
Collected == pc = "answered" /\ given = <<>>

(* A failing source costs the report nothing but its own events, and an item   *)
(* that is left out nothing but itself: the saved draft names a failing source *)
(* as missing; of every other source each item to be listed has evidence in    *)
(* the draft (itself or an event of the same project and title), unless that   *)
(* very item is left out, and then the draft warns of its source for the       *)
(* item's own reason.                                                          *)
PartialResultsKept ==
    Collected => \A s \in DOMAIN Answers :
        IF answer[s] = Failed
        THEN <<"missing", s>> \in stored.warnings
        ELSE \A i \in DOMAIN answer[s] :
                LET item == answer[s][i] IN
                Listed(s, i, item) =>
                    IF LeftOut(s, item)
                    THEN <<Reason(item), s>> \in stored.warnings
                    ELSE \E e \in Range(stored.evidence) :
                            Key(e) = <<item.project, Titled(s, item)>>

(* Nothing flagged or found sensitive in an e-mail, and nothing sensitive in   *)
(* minutes, gets into a draft, under any heading or as evidence.               *)
SensitiveStaysOut ==
    Collected => \A e \in Range(stored.evidence) :
        LET s == e.id[1] IN
        s \in {"email", "meeting"} => answer[s][e.id[2]].mark = "plain"

(* Which event stands for a project and title depends on what was answered     *)
(* alone, not on which source was fast: one with the highest confidence, and   *)
(* of those the first in the order gitlab, task, email, meeting.  So the       *)
(* status a task reports gives way to GitLab activity of the same title.       *)
BestEventKept ==
    draft # None =>
        LET events == IF given # <<>> THEN given
                      ELSE FlattenSeq([n \in 1..4 |-> SafeCollect(Sources[n]).events])
            Beats(j, k) == /\ Key(events[j]) = Key(events[k])
                           /\ \/ events[j].confidence > events[k].confidence
                              \/ events[j].confidence = events[k].confidence /\ j < k
        IN  Range(draft.evidence) =
                {events[k] : k \in {k \in DOMAIN events :
                                      ~\E j \in DOMAIN events : Beats(j, k)}}

=============================================================================
