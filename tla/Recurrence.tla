------------------------------- MODULE Recurrence -------------------------------
(* packages/core/src/recurrence/recurrence.ts: occurrences of a rule in a       *)
(* window, and maintenance chores generated from templates.  A date is a month  *)
(* counted from a January (0) and a day of the month; the rrule library is      *)
(* external and modelled by what it documents: a monthly rule keeps the day of  *)
(* its start and skips the months that lack it.                                 *)
EXTENDS CoreTime, SequencesExt

DaysIn(m) == CASE m % 12 = 1 -> 28 [] m % 12 \in {3, 5, 8, 10} -> 30 [] OTHER -> 31

\* Days from the first of month 0 to the end of the month before m, and to a date.
DaysTo(m) == SumOf([i \in 0 .. m - 1 |-> DaysIn(i)], 0 .. m - 1)
DayNumber(date) == DaysTo(date.m) + date.d

\* A date whose day may lie past the end of its month, as Date.UTC reads it.
DateUTC(m, d) == IF d <= DaysIn(m) THEN [m |-> m, d |-> d] ELSE [m |-> m + 1, d |-> d - DaysIn(m)]

\* Day numbers of the first "horizon" occurrences of a rule from its start.
Occurrences(rule, start, horizon) ==
    IF rule.freq = "DAILY"
    THEN {DayNumber(start) + k * rule.interval : k \in 0 .. horizon}
    ELSE {DayNumber([m |-> start.m + k * rule.interval, d |-> start.d]) :
             k \in {j \in 0 .. horizon : start.d <= DaysIn(start.m + j * rule.interval)}}

\* rrule.between(from, to, true): both ends count.
Between(rule, start, from, to, horizon) ==
    Sorted({n \in Occurrences(rule, start, horizon) : from <= n /\ n <= to}, LAMBDA x, y : x < y)

Capped(s, limit) == SubSeq(s, 1, Min({limit, Len(s)}))

\* A rule without DTSTART starts where the caller says, or at the window.
ExpandRecurrence(rule, from, to, dtstart, limit, horizon) ==
    LET start == CASE rule.dtstart # Null -> rule.dtstart
                   [] rule.dtstart = Null /\ dtstart # Null -> dtstart
                   [] OTHER -> from
    IN  Capped(Between(rule, start, DayNumber(from), DayNumber(to), horizon), limit)

\* A broken form of the next definition: an anchor already past is kept.
ComputeAnchorPast(tpl, from) ==
    IF tpl.anchorMonth = Null THEN from
    ELSE DateUTC((from.m \div 12) * 12 + tpl.anchorMonth - 1, IF tpl.anchorDay = Null THEN 1 ELSE tpl.anchorDay)

\* A template is anchored to its month and day, this year or next.
ComputeAnchor(tpl, from) ==
    IF tpl.anchorMonth = Null THEN from
    ELSE LET day == IF tpl.anchorDay = Null THEN 1 ELSE tpl.anchorDay
             jan == (from.m \div 12) * 12
             thisYear == DateUTC(jan + tpl.anchorMonth - 1, day)
         IN  IF DayNumber(thisYear) < DayNumber(from)
             THEN DateUTC(jan + 12 + tpl.anchorMonth - 1, day) ELSE thisYear

\* The cadence of a template: its rule, days, or months, three by default.
BuildRrule(tpl) ==
    CASE tpl.rule # Null -> tpl.rule
      [] tpl.rule = Null /\ tpl.everyDays # Null -> [freq |-> "DAILY", interval |-> tpl.everyDays]
      [] OTHER -> [freq |-> "MONTHLY", interval |-> IF tpl.everyMonths = Null THEN 3 ELSE tpl.everyMonths]

\* The chores due in the window, by due date.
GenerateMaintenanceTasks(templates, from, to, limit, horizon) ==
    LET due(t) == Capped(Between(BuildRrule(templates[t]), ComputeAnchor(templates[t], from),
                                 DayNumber(from), DayNumber(to), horizon), limit)
        chores == UNION {{[template |-> t, due |-> due(t)[k]] : k \in DOMAIN due(t)} : t \in DOMAIN templates}
    IN  Sorted(chores, LAMBDA c, d : c.due < d.due \/ (c.due = d.due /\ c.template < d.template))

-----------------------------------------------------------------------------
\* Chores come by date.  Those of a monthly template on a day that every month has
\* are one every "interval" months from its anchor to the end of the window, or
\* until the cap; an anchor is at most a year after the window opens.
CadenceKept(templates, from, to, limit, chores) ==
    /\ \A i, j \in DOMAIN chores : i < j => chores[i].due <= chores[j].due
    /\ \A t \in DOMAIN templates :
          LET rule == BuildRrule(templates[t])
              anchor == ComputeAnchor(templates[t], from)
              occurrence(n) == DayNumber([m |-> anchor.m + n * rule.interval, d |-> anchor.d])
              count == Min({limit, Cardinality({n \in 0 .. 24 : occurrence(n) <= DayNumber(to)})})
              own == {k \in DOMAIN chores : chores[k].template = t}
          IN  /\ DayNumber(from) <= DayNumber(anchor) /\ DayNumber(anchor) <= DayNumber(from) + 365
              /\ rule.freq = "MONTHLY" /\ anchor.d <= 28 =>
                    /\ Cardinality(own) = count
                    /\ {chores[k].due : k \in own} = {occurrence(n) : n \in 0 .. count - 1}
=============================================================================
