-------------------------------- MODULE Seasonal --------------------------------
(* packages/core/src/seasonal/seasonal.ts: the goal date of a seasonal project, *)
(* its four milestones, and the classification of a text.  A year has YearDays  *)
(* days of DayLength instants (365 days of 1440 minutes; leap days are left     *)
(* out), so "Month Day" is a day of the year.                                   *)
EXTENDS CoreTime, SequencesExt

CONSTANTS DayLength, YearDays

Year == DayLength * YearDays

Stages == <<"PREP_30D", "ASSET_CHECK_14D", "FINAL_48H", "JIT_15M">>

\* Minutes before the goal.
Lead == [PREP_30D |-> 30 * 1440, ASSET_CHECK_14D |-> 14 * 1440, FINAL_48H |-> 48 * 60, JIT_15M |-> 15]

\* A broken form of the next definition: never looks at the next year.
NextOnThisYear(day, now) == (now \div Year) * Year + day * DayLength

\* Midnight of a day of the year, this year's or, once it has begun, next year's.
NextOn(day, now) ==
    LET thisYear == (now \div Year) * Year + day * DayLength
    IN  IF thisYear < now THEN thisYear + Year ELSE thisYear

\* A timeline says when registration opens, as a full date, taken as it is even in
\* the past, as a "Month Day" phrase or as anything else, and how many days it leads.
ParseOpensRule(rule, now) ==
    CASE rule.kind = "date"   -> rule.at
      [] rule.kind = "phrase" -> NextOn(rule.day, now)
      [] OTHER                -> Null

\* The caller's date, else the timeline's, else the start of the target window.  The
\* days the timeline leads are not looked at.
ResolveGoalDate(goalDate, rule, targetStart, now) ==
    CASE goalDate # Null -> goalDate
      [] goalDate = Null /\ rule # Null /\ ParseOpensRule(rule, now) # Null -> ParseOpensRule(rule, now)
      [] OTHER -> targetStart

\* No milestone when no date can be found (the code throws).
ComputeMilestones(goalDate, rule, targetStart, now) ==
    LET goal == ResolveGoalDate(goalDate, rule, targetStart, now)
    IN  IF goal = Null THEN <<>>
        ELSE [i \in DOMAIN Stages |->
                 [stage |-> Stages[i], fireAt |-> AddMinutes(goal, -Lead[Stages[i]]), fired |-> FALSE]]

\* The kind with the most keywords, the earlier of equals; a hint alone makes a
\* text seasonal without a kind.  "hits" counts the keywords of each kind in the
\* order of the code, confidence is in percent.
KindOrder == <<"SKI_TRIP", "CAMPSITE", "CAMP", "SPORTS", "TRIP">>

ClassifySeasonalIntent(hits, hinted) ==
    LET best == Max({hits[i] : i \in DOMAIN KindOrder})
        raw == 40 * best + (IF hinted THEN 30 ELSE 0)
    IN  [seasonal |-> best > 0 \/ hinted,
         kind |-> IF best = 0 THEN Null ELSE KindOrder[Min({i \in DOMAIN KindOrder : hits[i] = best})],
         confidence |-> IF best > 0 \/ hinted THEN Min({100, Max({30, raw})}) ELSE 0]

-----------------------------------------------------------------------------
\* The milestones lead up to the goal in the order of the stages.  A goal that comes
\* from a phrase is never past and, if the month has that day (the code does not ask),
\* less than a year ahead; what it should be when the timeline leads by some days is
\* left open (the comments of the code disagree about it).
LeadsUpToGoal(goalDate, rule, targetStart, now, milestones) ==
    LET goal == ResolveGoalDate(goalDate, rule, targetStart, now)
    IN  /\ milestones = <<>> <=> goal = Null
        /\ \A i \in DOMAIN milestones :
              /\ milestones[i].fireAt < goal
              /\ i > 1 => milestones[i - 1].fireAt < milestones[i].fireAt
        /\ goalDate = Null /\ rule # Null /\ rule.kind = "phrase" /\ rule.leadDays = 0 =>
              /\ now <= goal
              /\ rule.day < YearDays => /\ goal < now + Year
                                       /\ (goal \div DayLength) % YearDays = rule.day
=============================================================================
