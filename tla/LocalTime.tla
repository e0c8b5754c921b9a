------------------------------- MODULE LocalTime -------------------------------
(* services/api scheduler.service.ts: the digest and check-in jobs come every    *)
(* fifteen minutes and count the households whose local time is within fifteen   *)
(* minutes of the one they chose, in the same hour.  Instants here are minutes   *)
(* from the start of a Sunday in UTC; the jobs' ticks have any phase.            *)
EXTENDS CoreTime

CONSTANTS
    Hours, Minutes, \* the times that households choose
    Zones,          \* their zones: the offsets before and after a change of clocks
    Phases          \* the minutes of a quarter at which the jobs tick

\* Zones keep to quarters of an hour, and change their clocks on one.
ASSUME LocalTimeAssumption ==
    /\ Hours \subseteq 0 .. 23 /\ Minutes \subseteq 0 .. 59 /\ Phases \subseteq 0 .. 14
    /\ Zones \subseteq [before : -720 .. 840, after : -720 .. 840, changeAt : Int]
    /\ \A z \in Zones : z.before % 15 = 0 /\ z.after % 15 = 0 /\ z.changeAt % 15 = 0

VARIABLES
    home,   \* a household's time and zone, and the hour Intl prints at midnight, or Null
    phase

timeVars == <<home, phase>>

Cadence == 15
Day == 24 * 60

LocalTimeInit ==
    /\ home \in [hour : Hours, minute : Minutes, zone : Zones, midnight : {0, 24}]
    /\ phase \in Phases

\* The offset that Intl applies at an instant.
OffsetAt(hh, t) == IF t < hh.zone.changeAt THEN hh.zone.before ELSE hh.zone.after

LocalMinute(hh, t) == (t + OffsetAt(hh, t)) % Day
LocalDay(hh, t) == (t + OffsetAt(hh, t)) \div Day

LocalHour(hh, t) ==
    LET h == LocalMinute(hh, t) \div 60 IN IF h = 0 THEN hh.midnight ELSE h

Distance(a, b) == IF a < b THEN b - a ELSE a - b

\* A broken form of the next definition: half the cadence on either side.
WithinCadenceHalf(a, b) == Distance(a, b) < Cadence \div 2

WithinCadence(a, b) == Distance(a, b) < Cadence

MatchesLocalTime(hh, t) ==
    /\ LocalHour(hh, t) = hh.hour
    /\ WithinCadence(LocalMinute(hh, t) % 60, hh.minute)

\* The ticks of a week and of a day around it, and those that count the household.
PerDay == Day \div Cadence
Ticks == {phase + Cadence * k : k \in -PerDay .. 8 * PerDay - 1}
Counting(hh) == {t \in Ticks : MatchesLocalTime(hh, t)}

\* The digests of a local day of the week, and the check-ins of the week.
DailyDigest(hh, d) == {t \in Counting(hh) : LocalDay(hh, t) = d}

IsSunday(t) == (t \div Day) % 7 = 0

SundayCheckin(hh) == {t \in Counting(hh) : 0 <= t /\ t < 7 * Day /\ IsSunday(t)}

-----------------------------------------------------------------------------
\* A chosen time that Intl can show.
Reachable(hh) == hh.hour # 0 \/ hh.midnight = 0

\* The instants at which the clocks show the chosen time on a local day: none or two
\* when they are put forward or back over it.
Shown(hh, d) ==
    LET chosen == 60 * hh.hour + hh.minute
    IN  {t \in {d * Day + chosen - o : o \in {hh.zone.before, hh.zone.after}} : LocalMinute(hh, t) = chosen}

\* The clocks change on a local day, or over it.
ChangesOn(hh, d) ==
    LET z == hh.zone
        last == (z.changeAt - 1 + z.before) \div Day
        first == (z.changeAt + z.after) \div Day
    IN  /\ z.before # z.after
        /\ last <= d \/ first <= d
        /\ d <= last \/ d <= first

ChangesOnSunday(hh) ==
    hh.zone.before # hh.zone.after /\ 0 < hh.zone.changeAt /\ hh.zone.changeAt < Day

\* Wherever the ticks fall, whenever the clocks show the chosen time a tick counts the
\* household less than fifteen minutes away.  A day without a change of clocks has a
\* digest and no more than two ticks that count, a day with one has four at most.
DigestEveryDay ==
    home # Null /\ Reachable(home) => \A d \in 0 .. 6 :
        /\ \A t \in Shown(home, d) : \E tick \in Counting(home) : Distance(tick, t) < Cadence
        /\ ~ChangesOn(home, d) => Cardinality(DailyDigest(home, d)) \in 1 .. 2
        /\ Cardinality(DailyDigest(home, d)) \in 0 .. 4

\* The weekday is UTC's and the time is the household's, yet a week has one check-in,
\* of at most two ticks (on the local Saturday, Sunday or Monday), unless the clocks
\* change on that Sunday: then none or up to four.
CheckinEveryWeek ==
    home # Null /\ Reachable(home) =>
        /\ ~ChangesOnSunday(home) => Cardinality(SundayCheckin(home)) \in 1 .. 2
        /\ Cardinality(SundayCheckin(home)) \in 0 .. 4

\* A household is served on time, every day and every week.
DigestsComeOnTime == DigestEveryDay /\ CheckinEveryWeek
=============================================================================
