------------------------------- MODULE MCServices -------------------------------
(* The instance of Services that is checked.  Goals are such that a project may  *)
(* be anchored before, between and after the moments at which time is looked at. *)
EXTENDS Services

Days(n) == n * 1440

MCProjects == {"camp"}
MCInstants == {Days(10), Days(27), Days(39), Days(41)}
MCGoalDates == {Null, Days(40)}
MCTimelines == {Null, [kind |-> "date", at |-> Days(20), leadDays |-> 0],
                [kind |-> "phrase", day |-> 45, leadDays |-> 14]}

\* No change; an hour forward and back on the Sunday, before and in the chosen hours;
\* half an hour on the Saturday, across midnight in UTC; a day that is left out.
MCHours == {0, 1, 2, 23}
MCZones ==
    {[before |-> 330, after |-> 330, changeAt |-> 0],
     [before |-> -480, after |-> -420, changeAt |-> 600],
     [before |-> -420, after |-> -480, changeAt |-> 540],
     [before |-> 660, after |-> 630, changeAt |-> 6 * 1440 + 900],
     [before |-> -600, after |-> 840, changeAt |-> 4 * 1440 + 600]}

\* Two that overlap, and one that begins 15 minutes after the first and five after the
\* second.
MCBlockKinds ==
    {[member |-> 1, kind |-> "BUSY", from |-> 0, to |-> 60],
     [member |-> 1, kind |-> "TRAVEL", from |-> 30, to |-> 70],
     [member |-> 1, kind |-> "BUSY", from |-> 75, to |-> 130],
     [member |-> 1, kind |-> "AVAILABLE", from |-> 65, to |-> 120],
     [member |-> 2, kind |-> "BUSY", from |-> 40, to |-> 120]}
MCGoalRows ==
    {[id |-> "gym", member |-> 1, count |-> 2, minutes |-> 45],
     [id |-> "quiet", member |-> 1, count |-> 1, minutes |-> 30]}
MCPlanned == <<1, 2>>
MCPlanRange == [from |-> 0, to |-> 200]
=============================================================================
